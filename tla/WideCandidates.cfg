SPECIFICATION Spec
CONSTANTS
    NoPath <- MCNoPath
    Unplaced <- MCUnplaced
    Inputs <- WideInputs
INVARIANT DuplicatesMapToDistinctOccurrences
CHECK_DEADLOCK FALSE
