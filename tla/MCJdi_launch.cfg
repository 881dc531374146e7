SPECIFICATION JdiSafety
CONSTANTS
    Threads = {t1, t2}
    NoThread = NoThread
    Policies = {"all"}
    LaunchMode = TRUE
    TargetMayExit = FALSE
    Commands = {"run", "continue", "resume"}
    MaxStops = 2
    MaxRequests = 4
    RequestTimeouts = FALSE
    SidecarMayCrash = FALSE
    IdCap = 4
    NoEvent = NoEvent
    VmExit = VmExit
    VmStart = VmStart
SYMMETRY Symmetry
INVARIANTS
    NoOrphanSuspension
PROPERTIES
    ImplementsLedger
CHECK_DEADLOCK FALSE
