----------------------------- MODULE MCLibrary -----------------------------
(***************************************************************************)
(* A library with one parameter of two values.                             *)
(***************************************************************************)
EXTENDS Library

CONSTANTS v, w

First(parameter_) == v
=============================================================================
