SPECIFICATION Spec
CONSTANTS
    Threads = {t1}
    Requests <- ThreeKinds
    Subjects <- MCSubjects
    Rules <- MCRules
    Grants <- MCGrants
    Handlers <- MCHandlers
    FileBacked = TRUE
    PartialWrites = FALSE
    MaxCalls = 4
    MaxCrashes = 2
    MaxWriteErrors = 0
CHECK_DEADLOCK FALSE
INVARIANTS
    ChainVerifies
PROPERTIES
    TrailRefinement
