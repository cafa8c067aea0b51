\* Two first `sky run`s on one project: no fault, no other command.
SPECIFICATION Spec
CONSTANTS
    Procs = {p1, p2}
    Projects = {"app"}
    Verbs = {"acquire"}
    InitialData = {"absent"}
    MaxFaults = 0
    LockSound = TRUE
INVARIANTS RunsDoNotFight
