----------------------------- MODULE Scheduler ------------------------------
(***************************************************************************)
(* The placement of a model on a node (internal/scheduler).  A cluster is  *)
(* a sequence of nodes in the order of the snapshot, VRAM and model sizes  *)
(* are whole GB, utilization is in percent, and `cached' is the set of     *)
(* <<node name, model name>> pairs whose key is true.                      *)
(*                                                                         *)
(* Scores are counted in fifths of the code's points, which makes them     *)
(* whole numbers: 5 per GB of headroom, 1 per percent of idle GPU and 500  *)
(* for a cached model.  The code adds them as floating point numbers, so   *)
(* where two of these scores are equal but reached with different          *)
(* utilizations it may rank the two nodes either way.                      *)
(***************************************************************************)
EXTENDS Integers, Sequences, Sorting

CONSTANT None   (* no node is selected *)

Fits(node, model) == node.free >= model.size

(* Mutant: the health of the node is not looked at. *)
ViableAnyHealth(node, model) == Fits(node, model)

Viable(node, model) == node.health = "online" /\ Fits(node, model)

Cached(node, model, cached) == <<node.name, model.name>> \in cached

(* Mutant: a busy GPU is preferred. *)
ScoreBusy(node, model, cached) ==
  5 * (node.free - model.size) + node.util
    + (IF Cached(node, model, cached) THEN 500 ELSE 0)

Score(node, model, cached) ==
  5 * (node.free - model.size) + (100 - node.util)
    + (IF Cached(node, model, cached) THEN 500 ELSE 0)

(* Why a node is as it is: the last thing its reasons say.                 *)
Reason(node, model, cached) ==
  CASE node.health # "online"      -> "health"
    [] ~Fits(node, model)          -> "vram"
    [] Cached(node, model, cached) -> "cached"
    [] OTHER                       -> "download"

(* The candidate for the node listed i-th. *)
Candidate(i, node, model, cached) ==
  [at     |-> i,
   node   |-> node,
   viable |-> Viable(node, model),
   score  |-> IF Viable(node, model) THEN Score(node, model, cached) ELSE 0,
   reason |-> Reason(node, model, cached)]

(* Mutant: the sort is ascending. *)
BeforeAscending(c, d) ==
  IF c.viable # d.viable THEN c.viable
  ELSE IF c.score # d.score THEN c.score < d.score
  ELSE c.at < d.at

(* The order of the stable sort. *)
Before(c, d) ==
  IF c.viable # d.viable THEN c.viable
  ELSE IF c.score # d.score THEN c.score > d.score
  ELSE c.at < d.at

(* A node with its place in the snapshot. *)
Listed(cluster) == {<<i, cluster[i]>> : i \in DOMAIN cluster}

(* Mutant: a node that is not viable is skipped. *)
ConsideredViable(cluster, model, cached) ==
  {Candidate(l[1], l[2], model, cached) :
     l \in {k \in Listed(cluster) : Viable(k[2], model)}}

Considered(cluster, model, cached) ==
  {Candidate(l[1], l[2], model, cached) : l \in Listed(cluster)}

Ranked(cluster, model, cached) ==
  Sort(Considered(cluster, model, cached), Before)

(* An engine label as reported by a node, and the adapter driven for it.   *)
runtimeFor(label) ==
  CASE label = "vLLM"         -> "vllm"
    [] label = "llama.cpp"    -> "llama.cpp"
    [] label = "TensorRT-LLM" -> "tensorrt-llm"
    [] OTHER                  -> "ollama"

(* The decision: the best candidate wins if it is viable. *)
Verdict(ranked) ==
  IF ranked # <<>> /\ ranked[1].viable
  THEN [selected   |-> ranked[1].node,
        runtime    |-> runtimeFor(ranked[1].node.runtime),
        summary    |-> ranked[1].reason,
        candidates |-> ranked]
  ELSE [selected |-> None, runtime |-> "", summary |-> "", candidates |-> ranked]

Schedule(cluster, model, cached) == Verdict(Ranked(cluster, model, cached))
=============================================================================
