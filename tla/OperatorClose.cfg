SPECIFICATION Spec
CONSTANTS
    link = link
    interface = interface
    session = session
    outside = outside
    none = none
    spine = spine
    leaf = leaf
    Objects <- MCObjects
    NoObj = none
    Nodes <- MCNodes
    Edges <- MCEdges
    Upstream <- MCUpstream
    TypeOf <- MCTypeOf
    NodeOf <- MCNodeOf
    Observable <- MCInterface
    Roots <- MCRoots
    Lineage <- MCLineage
    NoTask = NoTask
    Quiet = 1
    Pipes = {p1}
    Hooks = {}
    TaskIds = {t1, t2, t3}
    Kinds = {"fault", "recovery"}
    Events = {"UP", "DOWN"}
    Skew = 0
    MaintenanceOn = FALSE
    LastInput = 2
    MaxTop = 3
    MaxKids = 1
    Messages = 2
    NodeEvents = 0
    OperatorCalls = 1
    Restarts = 0
PROPERTIES
    ClosedStaysClosed
