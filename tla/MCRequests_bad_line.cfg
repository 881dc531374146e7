SPECIFICATION Spec
CONSTANTS
    Names <- MCNames
    Sites <- MCSites
    Plans <- BadLinePlans
INVARIANT DeferredBinds
CHECK_DEADLOCK FALSE
