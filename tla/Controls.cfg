CONSTANTS
    c1 = c1
    c2 = c2
    p1 = p1
    p2 = p2
    Clients = {c1}
    Problems = {p1}
    NoProblem = none
    Generations = 1
    StopAfter = 0
    Script <- OneRun
    Runnable <- EveryMachine
    UserOps = {"RUN", "STATUS", "PAUSE", "TERMINATE", "QUIT", "ACTIVATE"}
    MaxClicks = 3
    MaxLoads = 1
    Departures = {"disconnect"}
SPECIFICATION Spec
CHECK_DEADLOCK FALSE
INVARIANTS TypeOK LibraryHasItsOwnName
PROPERTY ClientsAreThoseOfClientSystem
