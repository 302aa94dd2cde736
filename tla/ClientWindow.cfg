CONSTANTS
    AutoConnect = FALSE
    MaxAttempts = 3
    MaxBacklog = 2
SPECIFICATION FairSpec
CHECK_DEADLOCK FALSE
INVARIANTS TypeOK NoGhost CountedOnce
PROPERTY MembersLeave
