SPECIFICATION JdiSafety
CONSTANTS
    Threads = {t1, t2}
    NoThread = NoThread
    Policies = {"thread"}
    LaunchMode = FALSE
    TargetMayExit = FALSE
    Commands = {"continue", "step"}
    MaxStops = 2
    MaxRequests = 3
    RequestTimeouts = FALSE
    SidecarMayCrash = FALSE
    IdCap = 4
    NoEvent = NoEvent
    VmExit = VmExit
    VmStart = VmStart
SYMMETRY Symmetry
PROPERTIES
    StepNotReplaced
CHECK_DEADLOCK FALSE
