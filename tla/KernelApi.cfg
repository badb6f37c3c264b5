SPECIFICATION ApiSpec
CONSTANTS
    Threads = {t1, t2}
    Readers = {r1}
    Document <- MCDocument
    Subjects <- MCSubjects
    Rules <- MCRules
    Grants <- MCGrants
    Handlers <- MCHandlers
    Bodies <- MCBodies
    Requests <- MCRequests
    FileBacked = TRUE
    PartialWrites = FALSE
    MaxCalls = 2
    MaxCrashes = 1
    MaxWriteErrors = 1
    MaxReads = 2
CHECK_DEADLOCK FALSE
INVARIANTS
    DurableAnswers
    AuditShowsAnswered
    AlarmsStand
    OnlyDocumentedRun
