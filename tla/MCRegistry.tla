----------------------------- MODULE MCRegistry -----------------------------
(* Model-checking instance of Registry; the bounds are in MCRegistry.cfg. *)
EXTENDS Registry
=============================================================================
