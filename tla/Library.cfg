CONSTANTS
    v = v
    w = w
    Parameters = {epsilon}
    Values = {v, w}
    Default <- First
    Controls = {"PAUSE", "RESUME"}
    Generations = 1
    MaxRuns = 2
    MaxQueue = 0
    self = self
    Others = {other}
    MaxName = 6
SPECIFICATION FairSpec
CHECK_DEADLOCK FALSE
INVARIANTS NeverBroken DoneGetsBest ParametersAreOfThisRun EarlierKept
PROPERTY DoneReturns
