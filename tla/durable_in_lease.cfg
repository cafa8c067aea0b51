\* Two pollers that keep to their lease, one checkout, one fault.
SPECIFICATION Spec
CONSTANTS
    Runs = {"r1"}
    Workers = {"w1", "w2"}
    StepIds = {"reserve", "finalise"}
    Signals = {"settled"}
    Body <- MCCheckout
    Def <- MCAllV1
    Defs <- MCWorkersV1
    Policy <- MCFailSafe
    LeaseMs = 1
    Retention = 3
    MaxTime = 3
    MaxFaults = 1
    CounterCap = 3
    Punctual = TRUE
    LostReplies = FALSE
INVARIANTS TypeOK OneExecutor PositionJournalled EffectOncePerFault
PROPERTIES ReplayStable DoneOnlyWhenComplete
