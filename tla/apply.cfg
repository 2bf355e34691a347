CONSTANTS
    Key = {k1, k2}
    Lease = {l1, l2}
    Alarm = {"NOSPACE"}
    NoLease = NoLease
    Absent = Absent
    FreshLeases = TRUE
    Disarms = FALSE
    MaxLog = 4
    MaxCrash = 2
SPECIFICATION Spec
INVARIANTS TypeOK KeysHaveTheirLease AttachmentsAgree CrashesDoNotShow
CHECK_DEADLOCK FALSE
