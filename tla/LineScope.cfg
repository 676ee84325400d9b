SPECIFICATION Spec
CONSTANTS
    NoPath <- MCNoPath
    Unplaced <- MCUnplaced
    Inputs <- LineScopeInputs
INVARIANT LineScopeRedactsEntireLine
CHECK_DEADLOCK FALSE
