\* One client against every server: all control messages, all departures.
CONSTANTS
    Clients = {c1}
    Problems = {p}
    NoProblem = none
    Generations = 1
    StopAfter = 0
    Controls = {"CODE", "PROGRAM", "ASKSTATUS", "TERMINATE", "PAUSE", "RESUME"}
    Departures = {"close", "disconnect", "kill"}
    DownLengths = {0, 1}
    Backlogs = {0}
SPECIFICATION Spec
CHECK_DEADLOCK FALSE
INVARIANTS PopulationExclusive RequestKept ResumeFindsItStopped
PROPERTY HangIsForever
