SPECIFICATION Spec
CONSTANTS
    NoPath <- MCNoPath
    Unplaced <- MCUnplaced
    Inputs <- GitDiffInputs
INVARIANT HunkLinesCovered
CHECK_DEADLOCK FALSE
