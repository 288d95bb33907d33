CONSTANTS
    root = root
    A = A
    j1 = j1
    j2 = j2
    r1 = r1
    r2 = r2
    NoJob = NoJob
    NoChannel = NoChannel
    Job = {j1}
    Request = {r1, r2}
    Channel <- MCChannel
    Parent <- MCParent
    Up <- MCUp
    ChannelName = {A}
    Capacity <- MCCapacity
    rootCapacity = 1
    Sequential = {}
    Throttle <- MCThrottle
    Seq <- MCSeq
    Priority = {1}
    Eta = {}
    RecoveryDelay = 0
    MaxTime = 1
    ChannelOf <- MCChannelOf
    PriorityOf <- MCPriorityOf
    RequeueFrom = {"failed"}
    DoneFrom = {"pending", "enqueued", "failed"}
    CronFrom = {"enqueued"}
    RetryDelay = 1
    MaxCopies = 2
    MaxFaults = 1
    Fault = {"exception", "restart", "timeout", "error", "slow"}
SPECIFICATION FairJobQueueSpec
PROPERTIES
    PendingIsServed
    EnqueuedIsLeft
