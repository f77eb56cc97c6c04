SPECIFICATION Spec
CONSTANTS
    Devices <- MCDevices
    Role <- MCRole
    Interfaces <- MCInterfaces
    Connections <- MCConnections
    BgpSessions <- MCSessions
    OspfSessions = {}
    LacpSessions = {}
    Lines <- MCLines
    Window = 1
    Early = 500
    MaxTime = 2
    MaxLines = 3
INVARIANTS
    TypeOK
    WindowSpan
    VerdictOfWindow
    LinkFailureNamed
    SilentPeerNamed
PROPERTIES
    RevisionsAreTold
CHECK_DEADLOCK FALSE
