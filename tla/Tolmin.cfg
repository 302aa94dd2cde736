CONSTANTS
    N = 2
    Lower <- Low
    Upper <- High
    Coordinates <- Around
    Starts <- Points
    Objective <- Valley
    Gradients <- AnyGradient
    nfmax = 4
    CoarseTol = 2
    MaxDrops = 1
SPECIFICATION Spec
CHECK_DEADLOCK FALSE
INVARIANTS TypeOK EvaluatedInside ArrayIsWhole ValueIsOfThePoint AnswerIsRight
PROPERTY Returns
