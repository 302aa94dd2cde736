CONSTANTS
    StepBound = 4
    Evaluations = 3
    Values <- AllValues
    Slopes <- AllSlopes
SPECIFICATION SearchSpec
CHECK_DEADLOCK FALSE
PROPERTY KeepsPromise
