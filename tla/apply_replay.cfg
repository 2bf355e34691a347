CONSTANTS
    Key = {k1}
    Lease = {l1}
    Alarm = {"NOSPACE"}
    NoLease = NoLease
    Absent = Absent
    FreshLeases = TRUE
    Disarms = TRUE
    MaxLog = 5
    MaxCrash = 1
SPECIFICATION Spec
INVARIANT CrashesDoNotShow
CHECK_DEADLOCK FALSE
