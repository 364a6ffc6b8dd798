CONSTANTS
    Schemas <- MCSchemas
    Values <- MCValues
    Names <- MCNames
    Atoms <- MCAtoms
    Depth = 3
SPECIFICATION Spec
INVARIANTS
    StrictAnswersFit
    PartsFitTogether
CHECK_DEADLOCK FALSE
