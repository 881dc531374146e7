SPECIFICATION WatchedSpec
CONSTANTS
    Threads = {t1}
    NoThread = NoThread
    Policies = {"thread"}
    LaunchMode = FALSE
    TargetMayExit = TRUE
    Commands = {"continue"}
    MaxStops = 1
    MaxRequests = 1
    RequestTimeouts = FALSE
    SidecarMayCrash = FALSE
    IdCap = 4
    NoEvent = NoEvent
    VmExit = VmExit
    VmStart = VmStart
PROPERTIES
    ExitNoticed
CHECK_DEADLOCK FALSE
