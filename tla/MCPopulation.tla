---------------------------- MODULE MCPopulation ----------------------------
(***************************************************************************)
(* An objective function for the run of Population.                        *)
(***************************************************************************)
EXTENDS Population

Square == [1 .. 2 -> 0 .. 2]

\* Its minimum is 0, at <<1, 0>>; another valley is at <<2, 2>>.
Bowl == [x \in Square |-> IF x = <<2, 2>> THEN 1 ELSE (x[1] - 1) * (x[1] - 1) + 2 * x[2]]

Migrants == {[x |-> <<2, 2>>, y |-> 1], [x |-> <<0, 0>>, y |-> 4]}
=============================================================================
