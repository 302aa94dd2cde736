CONSTANTS
    u1 = u1
    u2 = u2
    d1 = d1
    Up = {u1, u2}
    Down = {d1}
    Header = 2
    Length <- MCLength
    MaxMessages = 2
SPECIFICATION Spec
CHECK_DEADLOCK FALSE
INVARIANTS ReadInOrder
PROPERTIES ServerKeepsServing ClientsReadAsAssumed
