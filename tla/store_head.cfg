CONSTANTS
    Key = {1, 2}
    Txns <- TwoKeys
    BatchLimit = 3
    HeadCompaction = TRUE
    MaxLog = 4
    MaxCrash = 1
SPECIFICATION Spec
INVARIANT RevisionIsReplicated
CHECK_DEADLOCK FALSE
