SPECIFICATION Spec
CONSTANTS
    Nodes <- MCNodes
    Rank <- MCRank
    Cables <- MCCables
    EbgpSessions <- MCEbgp
    IbgpSessions <- MCIbgp
    Coverage = 60
    Lines <- MCLines
    Earlier <- MCEarlier
    Plans <- MCPlans
    Backlog = 1
    MergeWindow = 1
    LogsCap = 2
    MaxTime = 3
    MaxLines = 3
INVARIANTS
    TypeOK
    LinesAccounted
    LostOnlyToForeignRoot
    OneIncidentPerWindow
    ClosedOnlyByPlan
CHECK_DEADLOCK FALSE
