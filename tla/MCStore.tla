------------------------------ MODULE MCStore ------------------------------
(***************************************************************************)
(* A small database: two problems, systems and parameters, and two results *)
(* of the same text with different minima.                                 *)
(***************************************************************************)
EXTENDS Store, FiniteSetsExt, TLC

CONSTANTS w, r1, r2

Minimum(r) == IF r = r2 THEN 2 ELSE 3
Text(r) == r1

OneParameter == {[n \in {1} |-> w]}

Interchangeable == Permutations(Problems) \union Permutations(Systems)

\* Not all tables are full at once: 12 rows and parameters would be.
Small ==
    Cardinality(DOMAIN problem)
        + MapThenSumSet(LAMBDA p : Cardinality(DOMAIN settings[p]), Problems)
        + MapThenSumSet(LAMBDA e : result[e], DOMAIN result) <= 5
=============================================================================
