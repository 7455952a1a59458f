\* Any port call may fail; the retry may come before any withdrawal.
SPECIFICATION FairSpec
CONSTANTS
    LastVersion = 2
    Store = {s1, s2}
    Grants <- SomeGrants
    CanFail = {"put", "withdraw", "quarantine"}
CHECK_DEADLOCK FALSE
INVARIANTS IntakeNeverOrphaned CardIsRecalled ReportedIsRecalled
PROPERTY ClosedSettles
