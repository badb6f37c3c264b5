SPECIFICATION FairSpec
CONSTANTS
    Threads = {t1, t2}
    Requests <- EveryGate
    Subjects <- MCSubjects
    Rules <- MCRules
    Grants <- MCGrants
    Handlers <- MCHandlers
    FileBacked = TRUE
    PartialWrites = TRUE
    MaxCalls = 2
    MaxCrashes = 1
    MaxWriteErrors = 1
CHECK_DEADLOCK FALSE
INVARIANTS
    TypeOK
    OnlyAuthorizedRun
    NoFalseRecord
    RecordedOnce
    ExecutionsRecorded
PROPERTIES
    EveryCallEnds
