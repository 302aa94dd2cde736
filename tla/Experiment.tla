----------------------------- MODULE Experiment -----------------------------
(***************************************************************************)
(* What the server promises to whoever runs experiments: a round starts    *)
(* only when no client works on an earlier one, every client that took     *)
(* part files exactly one result per round, and nothing is filed           *)
(* otherwise.  A client may be lost; it then files nothing more.           *)
(***************************************************************************)
EXTENDS Naturals

CONSTANTS
    Clients,
    Subjects   \* what results are filed under

VARIABLES
    working,   \* the clients that owe the result of the current round
    lost,      \* the clients that left, or whose process is no more
    filed      \* filed[c][s]: the results of c on record under s

\* Types: of the view that whoever runs experiments has of the system.
TypeOK ==
    /\ working \subseteq Clients
    /\ lost \subseteq Clients
    /\ filed \in [Clients -> [Subjects -> Nat]]

Init ==
    /\ working = {}
    /\ lost = {}
    /\ filed = [c \in Clients |-> [s \in Subjects |-> 0]]

FileOne(c) == \E s \in Subjects : filed' = [filed EXCEPT ![c][s] = @ + 1]

Start(team) ==
    /\ working = {}
    /\ working' = team
    /\ UNCHANGED <<lost, filed>>

File(c) ==
    /\ c \in working
    /\ working' = working \ {c}
    /\ FileOne(c)
    /\ UNCHANGED lost

\* The last result of a round may be what starts the next one.
FileAndStart(c, team) ==
    /\ working = {c}
    /\ working' = team
    /\ FileOne(c)
    /\ UNCHANGED lost

\* What it had sent already may still be filed.
Lose(c) ==
    /\ c \notin lost
    /\ lost' = lost \cup {c}
    /\ working' \in {working, working \ {c}}
    /\ UNCHANGED filed

Next ==
    \/ \E team \in SUBSET Clients : Start(team)
    \/ \E c \in Clients : File(c) \/ Lose(c)
    \/ \E c \in Clients, team \in SUBSET Clients : FileAndStart(c, team)

Spec == Init /\ [][Next]_<<working, lost, filed>>
=============================================================================
