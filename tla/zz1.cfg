SPECIFICATION FairSpec
CONSTANTS
    RuleIds = {"r1"}
    Bodies <- TBodies
    FirstMain <- TMain
    FirstVendor <- TVendor1
    Drafts <- ServiceDrafts
    Admins = {"a1", "a2"}
    Clients = {"c1", "c2"}
    Speakers <- MCSpeakers
    Starters = {"i1", "i2"}
    MaxTurns = 2
    Lines <- MCLines
    Unanswerable = {2}
    Inputs = 3
    Changes = 2
    Operations = {"approved", "rolled_back"}
INVARIANTS
    TypeOK
    UnapprovedIsUnused
    CountsAgree
    PlansMatchTheirTime
    BroadcastReachesAll
CHECK_DEADLOCK FALSE
