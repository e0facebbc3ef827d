------------------------------ MODULE MCUpdate ------------------------------
(* Model-checking instance of Update; the bounds are in the .cfg files.    *)
EXTENDS Update
=============================================================================
