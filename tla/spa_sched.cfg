CONSTANTS
    Fields = {"x", "y"}
    Ctors = {"H", "F", "C", "A", "G"}
    Reports <- MCReports
    Holds = {"H", "G"}
    Inputs = {"C"}
    Ticks = {"A"}
    Connections = {"C"}
    Fragments = {"C", "G"}
    MaxArrivals = 3
    MaxPlan = 1
    MaxChain = 1
    MaxNotices = 1
SPECIFICATION Spec
INVARIANTS OvertakersCommute SubscriptionStateSerial EveryMsgOnce NothingStranded TickBusyExact
CHECK_DEADLOCK FALSE
