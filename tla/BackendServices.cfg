SPECIFICATION FairSpec
CONSTANTS
    RuleIds = {"r1"}
    Bodies <- MCBodies
    FirstMain <- NoRules
    FirstVendor <- MCVendor
    Drafts <- MCDrafts
    Admins = {"a1", "a2"}
    Clients = {"c1", "c2"}
    Speakers <- MCSpeakers
    Starters = {"i1", "i2"}
    MaxTurns = 2
    Lines <- MCLines
    Unanswerable = {2}
    Inputs = 3
    Changes = 2
    Operations = {"updated", "approved", "rolled_back"}
INVARIANTS
    TypeOK
    UnapprovedIsUnused
    CountsAgree
    PlansMatchTheirTime
    BroadcastReachesAll
PROPERTIES
    BroadcastSparesConsumer
    QueueDrains
    InvestigationsEnd
CHECK_DEADLOCK FALSE
