SPECIFICATION Spec
CONSTANTS
    Nodes <- MCNodes
    Verdicts <- MCVerdicts
    Quorum = 2
    Submissions = {s1, s2}
    Genesis = Genesis
    MaxReports = 1
CHECK_DEADLOCK FALSE
INVARIANTS
    ReportIsComplete
    BlameIsJust
    BrokenIsFound
PROPERTIES
    PromiseRefinement
