SPECIFICATION FairSpec
CONSTANTS
    r1 = r1
    r2 = r2
    r3 = r3
    m1 = m1
    m2 = m2
    Requests <- MCRequests
    Plans <- MCPlans
    Text <- MCText
    Settings <- MCSettings
    Models <- MCModels
    Base <- MCBase
    Preferred = m1
    Permits = 2
    MaxFaults = 1
    Mongo = Mongo
    None = None
CHECK_DEADLOCK FALSE
INVARIANTS
    PermitsAddUp
    EarlierAnswersAreListed
    RefusedLeavesNothing
    RequiredIsDurable
    TwinsEndQueries
PROPERTIES
    RequestsEnd
