------------------------------- MODULE MCOnePC -------------------------------
(***************************************************************************)
(* Scripts and machines for the runs of OnePC.                             *)
(***************************************************************************)
EXTENDS OnePC

CONSTANTS p1, p2, c1, c2

SetTo(p) == [cmd |-> "PROBLEM", problem |-> p]
Run == [cmd |-> "RUN"]

OneRun == <<SetTo(p1), Run>>
TwoRuns == <<SetTo(p1), Run, Run>>

\* The clients are interchangeable; used where no liveness is checked.
ClientSymmetry == Permutations(Clients)

EveryMachine == [p \in Problems |-> Clients]
=============================================================================
