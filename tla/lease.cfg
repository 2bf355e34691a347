CONSTANTS
    Server = {a, b}
    Lease = {x}
    First = a
    TTL = 2
    Extend = 0
    RetryInterval = 1
    EnableLeaseCheckpoint = TRUE
    CheckpointInterval = 1
    None = None
    MaxQueue = 2
    MaxChanges = 1
    MaxRenewals = 1
    MaxLost = 1
    MaxEvents = 2
SPECIFICATION Spec
INVARIANTS LeasesAgree ExpiryIsWatched PromiseKeptByLeader
PROPERTIES LeasesEnd
CHECK_DEADLOCK FALSE
