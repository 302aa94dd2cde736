CONSTANTS
    c1 = c1
    c2 = c2
    p1 = p1
    p2 = p2
    Clients = {c1, c2}
    Problems = {p1}
    NoProblem = none
    Generations = 1
    StopAfter = 0
    Script <- TwoRuns
    Runnable <- EveryMachine
    UserOps = {}
    MaxClicks = 0
    MaxLoads = 1
    Departures = {}
SPECIFICATION FairSpec
CHECK_DEADLOCK FALSE
PROPERTY ScriptCompletes
