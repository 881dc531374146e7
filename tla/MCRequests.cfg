SPECIFICATION Spec
CONSTANTS
    Names <- MCNames
    Sites <- MCSites
    Plans <- MCPlans
INVARIANTS StopsAsAsked NoHiddenRequest
PROPERTIES EventsHandled
CHECK_DEADLOCK FALSE
