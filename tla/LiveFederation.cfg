SPECIFICATION FairSpec
CONSTANTS
    n1 = n1
    n2 = n2
    n3 = n3
    s1 = s1
    s2 = s2
    Nodes <- MCNodes
    Rank <- MCRank
    Starts <- MCStarts
    Verdicts <- MCVerdicts
    Submissions = {s1, s2}
    Masks <- MCMasks
    MaxEvents = 2
CHECK_DEADLOCK FALSE
INVARIANTS
    AllowedHasQuorum
    DeadVotesDoNotCount
    DriftAttribution
PROPERTIES
    PromiseRefinement
    SubmissionsEnd
