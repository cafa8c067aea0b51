\* Two pollers that may outlive their leases, compaction without retention,
\* one fault that may also lose the reply of a write.
SPECIFICATION Spec
CONSTANTS
    Runs = {"r1"}
    Workers = {"w1", "w2"}
    StepIds = {"reserve", "finalise"}
    Signals = {"settled"}
    Body <- MCCheckout
    Def <- MCAllV1
    Defs <- MCWorkersV1
    Policy <- MCFailSafe
    LeaseMs = 0
    Retention = 0
    MaxTime = 1
    MaxFaults = 1
    CounterCap = 2
    Punctual = FALSE
    LostReplies = TRUE
INVARIANTS EffectsInOrder
PROPERTIES JournalWriteOnce
