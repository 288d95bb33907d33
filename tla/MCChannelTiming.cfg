CONSTANTS
    root = root
    T = T
    S = S
    j1 = j1
    j2 = j2
    NoJob = NoJob
    NoChannel = NoChannel
    Job = {j1, j2}
    Channel <- MCChannel
    Parent <- MCParent
    Up <- MCUp
    ChannelName = {T, S}
    Capacity <- MCCapacity
    rootCapacity = 1
    Sequential = {S}
    Throttle <- MCThrottle
    Seq <- MCSeq
    Priority = {1}
    Eta = {3}
    RecoveryDelay = 1
    MaxTime = 3
SPECIFICATION TimingSpec
INVARIANTS
    TimingInv
    Confined
    Exclusive
    AbsentAbove
    BackedBelow
    NoStrandedJob
PROPERTIES
    NoEarlyYield
    ThrottleSpacing
