\* A signal delivered to a sleeping run.
SPECIFICATION Spec
CONSTANTS
    Runs = {"r1"}
    Workers = {"w1"}
    StepIds = {"nap"}
    Signals = {"settled"}
    Body <- MCSleepThenAwait
    Def <- MCAllV1
    Defs <- MCWorkersV1
    Policy <- MCFailSafe
    LeaseMs = 1
    Retention = 3
    MaxTime = 2
    MaxFaults = 0
    CounterCap = 2
    Punctual = TRUE
    LostReplies = FALSE
INVARIANTS SleepLasts
