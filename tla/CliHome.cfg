SPECIFICATION Spec
CONSTANTS
    Procs = {1, 2, 3, 4, 5}
    Plans <- MCPlans
    Sessions0 <- MCSessions0
    Names <- MCNames
    Keys <- MCKeys
    Values <- MCValues
    Unquotable <- MCUnquotable
    Profiles <- MCProfiles
    Env <- MCEnv
    MaxTurns = 1
    MaxKills = 1
INVARIANTS
    OnlyApprovedLoad
    DraftsAreSupported
    
PROPERTY DraftsSurvive
CHECK_DEADLOCK FALSE
