----------------------------- MODULE MCFraming -----------------------------
(* Instance of Framing: a length of two bytes, texts of one and two.       *)
EXTENDS Framing

MCLength(m) == IF m = 1 THEN 2 ELSE 1
=============================================================================
