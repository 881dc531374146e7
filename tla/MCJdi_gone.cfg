SPECIFICATION JdiSafety
CONSTANTS
    Threads = {t1, t2}
    NoThread = NoThread
    Policies = {"thread"}
    LaunchMode = FALSE
    TargetMayExit = TRUE
    Commands = {"step", "suspend", "resume"}
    MaxStops = 2
    MaxRequests = 2
    RequestTimeouts = FALSE
    SidecarMayCrash = FALSE
    IdCap = 1
    NoEvent = NoEvent
    VmExit = VmExit
    VmStart = VmStart
SYMMETRY Symmetry
INVARIANTS
    JdiTypeOK
    StepLeavesNoFilter
    DiscardAtomic
    NoDuplicatePending
    PendingNotDelivered
    DeliveredIdsBounded
CHECK_DEADLOCK FALSE
