---------------------------- MODULE MCPlacement -----------------------------
(* Model-checking instances of Placement: a model of 10 GB. *)
EXTENDS Placement

CONSTANT llama3

MCModel == [name |-> llama3, size |-> 10]
=============================================================================
