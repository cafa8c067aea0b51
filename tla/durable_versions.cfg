\* A rolling deploy of four runs: the old worker pins, the new one fails safe.
SPECIFICATION Spec
CONSTANTS
    Runs = {"r1", "r2", "r3", "r4"}
    Workers = {"old", "new"}
    StepIds = {"charge"}
    Signals = {}
    Body <- MCOneStep
    Def <- MCDeploy
    Defs <- MCOldAndNew
    Policy <- MCMixed
    LeaseMs = 0
    Retention = 3
    MaxTime = 0
    MaxFaults = 0
    CounterCap = 1
    Punctual = TRUE
    LostReplies = FALSE
PROPERTIES VersionsRespected
