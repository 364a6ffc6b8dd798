CONSTANTS
    Schemas <- MCSchemas
    Values <- MCValues
    Names <- MCNames
    Atoms <- MCAtoms
    Depth = 3
SPECIFICATION Spec
INVARIANT
    DataIsShaped
CHECK_DEADLOCK FALSE
