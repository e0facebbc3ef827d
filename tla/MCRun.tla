------------------------------- MODULE MCRun --------------------------------
(* Model-checking instance of Run: a host with ollama and one with vllm. *)
EXTENDS Run

CONSTANT llama3

MCLabelOf == [n \in Names |-> IF n = 1 THEN "ollama" ELSE "vllm"]
=============================================================================
