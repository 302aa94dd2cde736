CONSTANTS
    Dimension = 2
    Lo = 0
    Hi = 2
    Funmin <- Bowl
    gcount = 3
    SelectionRate = 50
    LocalSearchGenerations = 1
    Foreign <- Migrants
    MaxGeneration = 3
SPECIFICATION Spec
CHECK_DEADLOCK FALSE
INVARIANTS InMargins SurvivorsAreEvaluated CrossoverStaysInside SelectSorts
PROPERTY BestNeverWorsens
