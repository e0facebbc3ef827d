------------------------------ MODULE MCWatch -------------------------------
(* Model-checking instance of Watch: an idle report and one with two jobs. *)
EXTENDS Watch

CONSTANTS idle, busy, llama3, mistral

MCReports == {idle, busy}
MCModels  == {llama3, mistral}
MCJobsOf  == [r \in MCReports |-> IF r = busy THEN <<llama3, mistral>> ELSE <<>>]
=============================================================================
