---------------------------- MODULE MCDiscovery -----------------------------
(* Model-checking instance of Discovery; the bounds are in MCDiscovery.cfg. *)
EXTENDS Discovery

MCAll       == <<"ollama", "vllm", "llama.cpp">>
MCPreferred == <<"vllm", "llama.cpp", "ollama">>
=============================================================================
