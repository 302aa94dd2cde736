------------------------------ MODULE Delivery ------------------------------
(***************************************************************************)
(* What GaClient takes for granted of the messages of the server: a signal *)
(* readyRead makes a client read one message, the oldest, and what came    *)
(* with it waits for another signal.                                       *)
(***************************************************************************)
EXTENDS Integers, Sequences

CONSTANT Messages

VARIABLES
    queue,      \* written and not read
    arrived     \* how many of them are in the buffer, announced before

vars == <<queue, arrived>>

Init == queue = <<>> /\ arrived = 0

Send == \E m \in Messages : queue' = Append(queue, m) /\ UNCHANGED arrived

\* The same as Receive of GaClient.
Receive ==
    /\ arrived < Len(queue)
    /\ \E n \in 1 .. Len(queue) : n >= arrived /\ arrived' = n - 1
    /\ queue' = Tail(queue)

Next == Send \/ Receive

Spec == Init /\ [][Next]_vars
=============================================================================
