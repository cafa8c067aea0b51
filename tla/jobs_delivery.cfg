\* Two workers, two jobs, three attempts, one fault, leases that may run out.
SPECIFICATION FairSpec
CONSTANTS
    JobIds = {"j1", "j2"}
    Workers = {"old", "new"}
    Handled <- MCHandled
    Delays = {}
    MaxAttempts = 3
    Lease = 1
    Hour = 2
    MaxTime = 3
    MaxFaults = 1
INVARIANTS TypeOK OneDispatch CancelExcludes SuccessOncePerFault
PROPERTIES AtLeastOnce EveryJobLeaves
