SPECIFICATION Spec
CONSTANTS
    c1 = c1
    c2 = c2
    Threads = {t1, t2}
    Requests <- MCRequests
    Codes <- MCCodes
    NoCode = NoCode
    Enabled = TRUE
    Unsafe = {"up"}
    Blocked = {"rm"}
    Files <- MCFiles
    ShellTexts <- MCShellTexts
    HeadLength = 2
    Ttl = 1
    MaxCalls = 3
    MaxTime = 2
CHECK_DEADLOCK FALSE
INVARIANTS
    CodeUsedOnce
    ChangesAreConfirmed
    QuietChangesStick
