------------------------------ MODULE MCTolmin ------------------------------
(***************************************************************************)
(* Bounds, an objective function and gradients for the run of Tolmin.      *)
(***************************************************************************)
EXTENDS Tolmin

Around == -1 .. 3

\* The bounds of the second variable are closer than the first tolerance.
Low == <<0, 0>>
High == <<2, 1>>

\* A valley along the diagonal with its end, below zero, at the upper corner.
Valley == [p \in Inside |-> 3 * (p[1] - p[2]) * (p[1] - p[2]) + 1 - p[1] - p[2]]

\* The gradient of the problem may be right or wrong everywhere.
AnyGradient == [p \in Inside |-> Directions]
=============================================================================
