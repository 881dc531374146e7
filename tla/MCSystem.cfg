SPECIFICATION Spec
CHECK_DEADLOCK FALSE
CONSTANTS
    d1 = d1
    d2 = d2
    d3 = d3
    c1 = c1
    c2 = c2
    c3 = c3
    s1 = s1
    s2 = s2
    None = None
    NoSession = NoSession
    Daemons = {d1, d2, d3}
    Clients = {c1, c2, c3}
    Updater = c3
    SessionIds = {s1, s2}
    MaxCrashes = 1
    Requests <- MCRequests
    Plans <- MCPlans
INVARIANT SystemTypeOK
INVARIANTS OneDaemon RegisteredUnlessUpdated NoStrayProcess SnapshotTrue DuplicatesOverlap OncePerRequest SidecarLoadsJdi OldDaemonPastService UpdateKeeps ForeignKept
PROPERTIES ImplementsOneServer OnlyVerifiedJar RequestsReturn StopEnds StartReaches
