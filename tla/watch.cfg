CONSTANTS
    k1 = k1
    k2 = k2
    w1 = w1
    w2 = w2
    Key = {k1, k2}
    Watcher = {w1, w2}
    KeysOf <- MCKeysOf
    Txns <- MCTxns
    ChanBufLen = 1
    MaxWatchersPerSync = 2
    WatchBatchMaxRevs = 1
    MaxRev = 3
    MaxEvents = 2
SPECIFICATION Spec
INVARIANTS EventsInOrder SyncedHasAll NoPanic
PROPERTIES WatchersCatchUp
CHECK_DEADLOCK FALSE
