----------------------------- MODULE Placement ------------------------------
(***************************************************************************)
(* What `relay run' would choose while the fabric changes under it: nodes  *)
(* report new states, are degraded or leave, models are pulled and removed,*)
(* and in every state Scheduler is asked where to place one model.         *)
(***************************************************************************)
EXTENDS Scheduler

CONSTANTS
  N,         (* how many host names there are                              *)
  Labels,    (* engine labels that nodes report                            *)
  Frees,     (* free VRAM that nodes report, in GB                         *)
  Utils,     (* utilizations that nodes report, in percent                 *)
  model,     (* the model to place                                         *)
  Absent     (* a node that the snapshot does not list                     *)

(* Host names, numbered in alphabetical order. *)
Names == 1 .. N

State(n) == [name: {n}, runtime: Labels, free: Frees, util: Utils,
             health: {"online", "degraded"}]

ASSUME PlacementAssumption ==
  /\ N \in Nat
  /\ Frees \subseteq Nat
  /\ Utils \subseteq 0 .. 100
  /\ model.size \in Nat
  /\ \A n \in Names : None \notin State(n)

VARIABLES
  nodes,     (* nodes[n]: what the snapshot says of node n, or Absent      *)
  cached     (* the cache map                                              *)

vars == <<nodes, cached>>

TypeOK ==
  /\ DOMAIN nodes = Names
  /\ \A n \in Names : nodes[n] \in State(n) \cup {Absent}
  /\ cached \subseteq Names \X {model.name}

Present == {n \in Names : nodes[n] # Absent}

(* The snapshot lists the nodes by name. *)
Cluster == SortByName({nodes[n] : n \in Present})

Decision == Schedule(Cluster, model, cached)

Init ==
  /\ nodes = [n \in Names |-> Absent]
  /\ cached = {}

(* Mutant: the report is stored under a fixed name. *)
ChangeMisfiled(n) ==
  \E s \in State(n) :
    /\ nodes' = [nodes EXCEPT ![1] = s]
    /\ UNCHANGED cached

(* A heartbeat, or the lack of one, changes what is known of a node. *)
Change(n) ==
  \E s \in State(n) :
    /\ nodes' = [nodes EXCEPT ![n] = s]
    /\ UNCHANGED cached

(* The model is pulled to a node, or removed from it. *)
Pull(n) ==
  /\ nodes[n] # Absent
  /\ cached' = IF <<n, model.name>> \in cached THEN cached \ {<<n, model.name>>}
               ELSE cached \cup {<<n, model.name>>}
  /\ UNCHANGED nodes

Drop(n) ==
  /\ nodes' = [nodes EXCEPT ![n] = Absent]
  /\ cached' = cached \ {<<n, model.name>>}

Next == \E n \in Names : Change(n) \/ Pull(n) \/ Drop(n)

Spec == Init /\ [][Next]_vars
-----------------------------------------------------------------------------
Eligible(n) ==
  /\ nodes[n] # Absent
  /\ nodes[n].health = "online"
  /\ nodes[n].free >= model.size

(* A node is selected exactly when one is online and has room, and the     *)
(* selected one is such a node: a degraded node or one without room is     *)
(* never selected, whatever its score (TestSchedule_NothingFits,           *)
(* TestSchedule_OfflineExcluded).                                          *)
SelectsEligible ==
  LET s == Decision.selected
  IN  IF s = None THEN \A n \in Names : ~Eligible(n)
      ELSE nodes[s.name] = s /\ Eligible(s.name)

(* "Candidates: every node considered, best-first": each node of the       *)
(* snapshot is a candidate once, and none is ahead of a better one.        *)
BestFirst ==
  LET cs == Decision.candidates
  IN  /\ Len(cs) = Cardinality(Present)
      /\ {cs[i].node.name : i \in DOMAIN cs} = Present
      /\ \A i, j \in DOMAIN cs :
           i < j => /\ cs[j].viable => cs[i].viable
                    /\ cs[i].viable = cs[j].viable => cs[i].score >= cs[j].score

(* The name of the selected node, if one is selected. *)
Winner == {s.name : s \in {Decision.selected} \ {None}}

Copy(n) == <<n, model.name>> \in cached

(* A step makes node n a better place, or one as good. *)
Improves(n) ==
  /\ nodes[n] # Absent
  /\ nodes'[n] # Absent
  /\ nodes'[n].health = "online"
  /\ nodes'[n].free >= nodes[n].free
  /\ nodes'[n].util <= nodes[n].util
  /\ Copy(n) => Copy(n)'

(* A step makes node n a worse place, or one as bad. *)
Worsens(n) ==
  \/ nodes'[n] = Absent
  \/ /\ nodes[n] # Absent
     /\ nodes'[n].health = "online" => nodes[n].health = "online"
     /\ nodes'[n].free <= nodes[n].free
     /\ nodes'[n].util >= nodes[n].util
     /\ Copy(n)' => Copy(n)

OnlyChanges(n) ==
  \A k \in Names \ {n} : nodes'[k] = nodes[k] /\ Copy(k)' = Copy(k)

(* More memory, less load, a copy of the model: nothing that speaks for    *)
(* the selected node makes it lose the placement.                          *)
WinnerKeepsWinning ==
  [][\A n \in Names :
       OnlyChanges(n) /\ Improves(n) /\ Winner = {n} => Winner' = {n}]_vars

(* Another node that leaves, fills up or degrades changes nothing for the  *)
(* selected one.                                                           *)
LosersDoNotMatter ==
  [][\A n \in Names :
       OnlyChanges(n) /\ Worsens(n) /\ Winner \notin {{n}, {}} =>
         Winner' = Winner]_vars

(* "The node already reports the runtime it runs; we normalize it to an    *)
(* adapter id" (runtimeFor): a node that reports the id of an adapter is   *)
(* driven with that adapter.                                               *)
Adapters == {"ollama", "vllm", "llama.cpp"}

AdapterOfNode ==
  LET s == Decision.selected
  IN  s # None /\ s.runtime \in Adapters => Decision.runtime = s.runtime
=============================================================================
