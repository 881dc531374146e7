SPECIFICATION JdiSpec
CONSTANTS
    Threads = {t1}
    NoThread = NoThread
    Policies = {"thread"}
    LaunchMode = FALSE
    TargetMayExit = FALSE
    Commands = {"continue", "kill"}
    MaxStops = 2
    MaxRequests = 2
    RequestTimeouts = TRUE
    SidecarMayCrash = TRUE
    IdCap = 4
    NoEvent = NoEvent
    VmExit = VmExit
    VmStart = VmStart
INVARIANTS
    StopAccounted
PROPERTIES
    CommandReturns
    StopNoticed
CHECK_DEADLOCK FALSE
