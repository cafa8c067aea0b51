\* Two invocations at a time on one project, two faults, a sound lock.
SPECIFICATION Spec
CONSTANTS
    Procs = {p1, p2}
    Projects = {"app"}
    Verbs = {"acquire", "start", "stop", "stopall", "ps"}
    InitialData = {"absent", "ready"}
    MaxFaults = 2
    LockSound = TRUE
SYMMETRY Symmetry
INVARIANTS LeaseRecorded QuietMeansDown
PROPERTIES ReleaseSpares
