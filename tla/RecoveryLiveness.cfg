SPECIFICATION FairSpec
CONSTANTS
    link = link
    interface = interface
    session = session
    outside = outside
    none = none
    spine = spine
    leaf = leaf
    Objects <- MCObjects
    NoObj = none
    Nodes <- MCNodes
    Edges <- MCEdges
    Upstream <- MCUpstream
    TypeOf <- MCTypeOf
    NodeOf <- MCNodeOf
    Observable <- MCObservable
    Roots <- MCRoots
    Lineage <- MCLineage
    NoTask = NoTask
    Quiet = 1
    Pipes = {p1}
    Hooks = {}
    TaskIds = {t1, t2, t3}
    Kinds = {"fault", "state_change", "recovery"}
    Events = {"UP", "DOWN"}
    Skew = 0
    MaintenanceOn = TRUE
    LastInput = 2
    MaxTop = 4
    MaxKids = 1
    Messages = 4
    NodeEvents = 0
    OperatorCalls = 0
    Restarts = 0
PROPERTIES
    RecoveryIsDecided
