SPECIFICATION Spec
CONSTANTS
    Clients = {"a", "b"}
    Prefixes = {"api/dove"}
    Cost = 3
    Rate = 2
    Burst = 2
    MaxLag = 1
    MaxTime = 5
    MaxTakes = 3
CHECK_DEADLOCK FALSE
INVARIANTS
    WindowBound
    RetryIsHonest
