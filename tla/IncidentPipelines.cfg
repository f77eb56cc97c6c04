SPECIFICATION Spec
CONSTANTS
    link = link
    interface = interface
    session = session
    outside = outside
    none = none
    spine = spine
    leaf = leaf
    Objects <- MCObjects
    NoObj = none
    Nodes <- MCNodes
    Edges <- MCEdges
    Upstream <- MCUpstream
    TypeOf <- MCTypeOf
    NodeOf <- MCNodeOf
    Observable <- MCSession
    Roots <- MCRoots
    Lineage <- MCLineage
    NoTask = NoTask
    Quiet = 1
    Pipes = {p1, p2}
    Hooks = {}
    TaskIds = {t1, t2, t3}
    Kinds = {"fault", "recovery"}
    Events = {}
    Skew = 0
    MaintenanceOn = FALSE
    LastInput = 1
    MaxTop = 3
    MaxKids = 1
    Messages = 3
    NodeEvents = 0
    OperatorCalls = 0
    Restarts = 0
SYMMETRY Interchangeable
INVARIANTS
    RegistryMatchesTasks
    ListedChildrenExist
    ActiveExists
PROPERTIES
    NewIdsAreFresh
