SPECIFICATION JdiSafety
CONSTANTS
    Threads = {t1}
    NoThread = NoThread
    Policies = {"thread"}
    LaunchMode = FALSE
    TargetMayExit = TRUE
    Commands = {"continue"}
    MaxStops = 2
    MaxRequests = 2
    RequestTimeouts = FALSE
    SidecarMayCrash = FALSE
    IdCap = 4
    NoEvent = NoEvent
    VmExit = VmExit
    VmStart = VmStart
PROPERTIES
    ExitedIsFinal
CHECK_DEADLOCK FALSE
