SPECIFICATION FairSpec
CONSTANTS
    Nodes = {n1}
    Probes = {icmp, tcp}
    TaskIds = {t1, t2}
    NoTask = NoTask
    Ttl = 1
    MinInterval = 1
    MaxBackoff = 2
    MaxConcurrent = 1
    Interval = 1
    OverflowAt = 2
    FailureCap = 2
    Clients = {}
    Changing = {n1}
PROPERTIES
    RecoveryDetected
