SPECIFICATION Spec
CONSTANTS
    Epochs = {0, 50}
    EnvKeys = {"none", "prod"}
    ModelKey = "test"
    Commands <- MCCommands
    MaxRuns = 4
    MaxEdits = 2
    MaxKills = 1
INVARIANTS
    GateMeansRelease
    OrderedReleasePasses
PROPERTIES
    ModelIsVerified
CHECK_DEADLOCK FALSE
