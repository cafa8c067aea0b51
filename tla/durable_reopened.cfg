\* Two workers, no fault, every poll within its lease.
SPECIFICATION FairSpec
CONSTANTS
    Runs = {"r1"}
    Workers = {"w1", "w2"}
    StepIds = {"charge"}
    Signals = {}
    Body <- MCOneStep
    Def <- MCAllV1
    Defs <- MCWorkersV1
    Policy <- MCFailSafe
    LeaseMs = 1
    Retention = 3
    MaxTime = 2
    MaxFaults = 0
    CounterCap = 2
    Punctual = TRUE
    LostReplies = FALSE
PROPERTIES FinalStatusStays
