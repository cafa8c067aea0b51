\* Every run settles for good, across overrun leases and a fault.
SPECIFICATION FairSpec
CONSTANTS
    Runs = {"r1"}
    Workers = {"w1", "w2"}
    StepIds = {"welcome", "nap", "followup"}
    Signals = {}
    Body <- MCOnboarding
    Def <- MCAllV1
    Defs <- MCWorkersV1
    Policy <- MCFailSafe
    LeaseMs = 0
    Retention = 1
    MaxTime = 2
    MaxFaults = 1
    CounterCap = 1
    Punctual = FALSE
    LostReplies = TRUE
PROPERTIES EveryRunSettles
