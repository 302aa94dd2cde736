---------------------------- MODULE MCLineSearch ----------------------------
(***************************************************************************)
(* Every objective function of a small range along a direction of four     *)
(* steps, with every slope: flat, convex, concave or with valleys, and     *)
(* slopes that disagree with the values, as a wrong granal gives them.     *)
(***************************************************************************)
EXTENDS LineSearch

AllValues == {v \in [Lengths -> 0 .. 2] : v[0] = 1}
AllSlopes == {s \in [Lengths -> {-10, -6, 3}] : s[0] = -10}
=============================================================================
