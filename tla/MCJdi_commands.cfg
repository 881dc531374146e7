SPECIFICATION JdiSafety
CONSTANTS
    Threads = {t1, t2}
    NoThread = NoThread
    Policies = {"thread"}
    LaunchMode = FALSE
    TargetMayExit = FALSE
    Commands = {"continue", "suspend"}
    MaxStops = 3
    MaxRequests = 5
    RequestTimeouts = FALSE
    SidecarMayCrash = FALSE
    IdCap = 4
    NoEvent = NoEvent
    VmExit = VmExit
    VmStart = VmStart
SYMMETRY Symmetry
INVARIANTS
    ToldInOrder
    ToldIsInspected
PROPERTIES
    HeldWhenTold
CHECK_DEADLOCK FALSE
