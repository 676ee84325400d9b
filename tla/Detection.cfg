SPECIFICATION Spec
CONSTANTS
    NoPath <- MCNoPath
    Unplaced <- MCUnplaced
    Inputs <- MCInputs
INVARIANTS
    SelectedDisjoint
    UnbeatenSelected
    RulesWithstandModel
    CandidatesPlacedApart
    RangesAreContent
    CustomFilesWithheld
CHECK_DEADLOCK FALSE
