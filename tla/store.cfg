CONSTANTS
    Key = {1, 2}
    Txns <- TwoKeys
    BatchLimit = 3
    HeadCompaction = FALSE
    MaxLog = 4
    MaxCrash = 1
SPECIFICATION Spec
INVARIANTS RevisionIsReplicated ReadsShowHistory OpenReadsShowHistory HashIsReplicated IndexMatchesBackend
PROPERTIES CompactionCompletes
CHECK_DEADLOCK FALSE
