SPECIFICATION Spec
CONSTANTS
    Threads = {t1, t2}
    Requests <- TwoKinds
    Subjects <- MCSubjects
    Rules <- MCRules
    Grants <- MCGrants
    Handlers <- MCHandlers
    FileBacked = FALSE
    PartialWrites = FALSE
    MaxCalls = 2
    MaxCrashes = 0
    MaxWriteErrors = 0
INVARIANTS
    ChainVerifies
CHECK_DEADLOCK FALSE
