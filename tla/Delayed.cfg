CONSTANTS
    j1 = j1
    j2 = j2
    c1 = c1
    c2 = c2
    NoKey = NoKey
    Job = {j1, j2}
    Caller = {c1, c2}
    Key = {"k"}
    maxRetries = 2
    MaxRetries <- MCMaxRetries
    Pattern <- MCPattern
    RetryInterval = 15
    PgRetry = 5
    Asked = {0, 5}
    Outcome = {"done", "error", "retryable", "ignored", "serialization"}
    RequeueFrom = {"failed"}
    MaxTry = 3
SPECIFICATION FairDelayedJobsSpec
INVARIANTS
    OneJobPerKey
    DelayedInv
    TriesBounded
PROPERTY PendingEnds
CHECK_DEADLOCK FALSE
