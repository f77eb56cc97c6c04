SPECIFICATION FairSpec
CONSTANTS
    Nodes = {n1, n2}
    Probes = {icmp, tcp}
    TaskIds = {t1, t2, t3, t4}
    NoTask = NoTask
    Ttl = 1
    MinInterval = 1
    MaxBackoff = 2
    MaxConcurrent = 1
    Interval = 1
    OverflowAt = 9
    FailureCap = 1
    Clients = {n1}
    Changing = {n1}
INVARIANTS
    TypeOK
    SingleFlight
    KnownStateAnnounced
PROPERTIES
    NoEarlyRetry
    RecoveryDetected
