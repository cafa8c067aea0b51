\* A signal delivered between awaitSignal's SELECT and its UPDATE.
SPECIFICATION Spec
CONSTANTS
    Runs = {"r1"}
    Workers = {"w1"}
    StepIds = {"charge"}
    Signals = {"settled"}
    Body <- MCAwait
    Def <- MCAllV1
    Defs <- MCWorkersV1
    Policy <- MCFailSafe
    LeaseMs = 1
    Retention = 3
    MaxTime = 2
    MaxFaults = 0
    CounterCap = 2
    Punctual = TRUE
    LostReplies = FALSE
INVARIANTS NoLostSignal
