SPECIFICATION JdiSafety
CONSTANTS
    Threads = {t1, t2}
    NoThread = NoThread
    Policies = {"thread"}
    LaunchMode = FALSE
    TargetMayExit = FALSE
    Commands = {"continue"}
    MaxStops = 3
    MaxRequests = 4
    RequestTimeouts = FALSE
    SidecarMayCrash = FALSE
    IdCap = 4
    NoEvent = NoEvent
    VmExit = VmExit
    VmStart = VmStart
SYMMETRY Symmetry
INVARIANTS
    NoOrphanSuspension
CHECK_DEADLOCK FALSE
