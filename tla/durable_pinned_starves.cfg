\* After a rolling deploy: only the new worker is left, an old run is pinned.
\* The clock moves once, so that one run can be strictly older than the other.
SPECIFICATION FairSpec
CONSTANTS
    Runs = {"r1", "r2"}
    Workers = {"new"}
    StepIds = {"charge"}
    Signals = {}
    Body <- MCOneStep
    Def <- MCDeploy
    Defs <- MCOldAndNew
    Policy <- MCPinToStart
    LeaseMs = 0
    Retention = 3
    MaxTime = 1
    MaxFaults = 0
    CounterCap = 1
    Punctual = TRUE
    LostReplies = FALSE
PROPERTIES RunnableRunSettles
