-------------------------------- MODULE Run ---------------------------------
(***************************************************************************)
(* `relay run <model>' against a controller (cli.cmdRun).  The command     *)
(* makes three requests, for the nodes, for the catalogue and for the cache*)
(* map, and the fabric may change between any two of them.  Only the first *)
(* error ends the command: the errors of the other two are dropped, and    *)
(* their answers taken to be empty.                                        *)
(*                                                                         *)
(* One model is asked for.  Of a node's own list of models the controller's*)
(* readers use at most whether that model is on it and, with what size, its*)
(* first entry.                                                            *)
(***************************************************************************)
EXTENDS Scheduler

CONSTANTS
  N,           (* how many host names there are                            *)
  here,        (* the host name of the machine the command runs on         *)
  target,      (* the model asked for                                      *)
  LabelOf,     (* the engine label each host reports                       *)
  Frees,       (* free VRAM that nodes report, in GB                       *)
  Sizes,       (* sizes the model is listed with, in GB; 0 is "not known"  *)
  Unlisted,    (* a node does not list the model                           *)
  Absent,      (* a node that is not shown                                 *)
  MaxChanges   (* bound on the changes of the fabric during the command    *)

Names == 1 .. N

(* What the controller shows of node n: its state, and the size its own    *)
(* list gives the model.                                                   *)
Shown(n) ==
  [node: [name: {n}, runtime: {LabelOf[n]}, free: Frees, util: {0},
          health: {"online", "degraded"}],
   copy: Sizes \cup {Unlisted}]

Outcomes == {"unreachable", "unknown", "explained", "nowhere", "remote",
             "no adapter", "session"}

ASSUME RunAssumption ==
  /\ N \in Nat
  /\ LabelOf \in [Names -> STRING]
  /\ Frees \subseteq Nat
  /\ Sizes \subseteq Nat
  /\ MaxChanges \in Nat
  /\ Unlisted \notin Sizes
  /\ None \notin Outcomes
  /\ \A n \in Names : \A s \in Shown(n) : s.node # None

VARIABLES
  view,      (* what the controller shows of each name                     *)
  pc,        (* where the command is                                       *)
  c,         (* the nodes it has read                                      *)
  want,      (* the size it has read in the catalogue, Unlisted if unknown *)
  cached,    (* the cache map it has read                                  *)
  decision,  (* what the scheduler decided, or None                        *)
  outcome,   (* how the command ended                                      *)
  views,     (* history: the views there were since it started             *)
  failed     (* history: one of its later reads failed                     *)

vars == <<view, pc, c, want, cached, decision, outcome, views, failed>>

TypeOK ==
  /\ DOMAIN view = Names
  /\ \A n \in Names : view[n] \in Shown(n) \cup {Absent}
  /\ pc \in {"snapshot", "models", "cached", "schedule", "place", "done"}
  /\ \A i \in DOMAIN c : c[i] \in {s.node : s \in Shown(c[i].name)}
  /\ want \in Sizes \cup {Unlisted}
  /\ cached \subseteq Names \X {target}
  /\ outcome \in Outcomes \cup {None}
  /\ view \in views /\ Cardinality(views) <= MaxChanges + 1
  /\ failed \in BOOLEAN

(* The snapshot of a view: its nodes, sorted by name. *)
Snapshot(v) == SortByName({v[n].node : n \in {k \in Names : v[k] # Absent}})

Lists(v, n) == v[n] # Absent /\ v[n].copy # Unlisted

(* The sizes that the catalogue of a view may give the model: the first    *)
(* node in a walk of a map that lists it decides.                          *)
Models(v) == {v[n].copy : n \in {k \in Names : Lists(v, k)}}

(* Mutants: the parts of a key are swapped; what is in the catalogue is    *)
(* taken to be on every node.                                              *)
CacheMapSwapped(v)  == {target} \X {n \in Names : Lists(v, n)}
CacheMapAnywhere(v) == IF Models(v) = {} THEN {} ELSE Names \X {target}

(* The keys that are true in the cache map of a view. *)
CacheMap(v) == {n \in Names : Lists(v, n)} \X {target}

Init ==
  /\ view \in [Names -> (UNION {Shown(n) : n \in Names}) \cup {Absent}]
  /\ \A n \in Names : view[n] \in Shown(n) \cup {Absent}
  /\ pc = "snapshot"
  /\ c = <<>>
  /\ want = Unlisted
  /\ cached = {}
  /\ decision = None
  /\ outcome = None
  /\ views = {view}
  /\ failed = FALSE
-----------------------------------------------------------------------------
End(how) ==
  /\ pc' = "done"
  /\ outcome' = how

(* The first read; the command ends if it fails. *)
ReadSnapshot ==
  /\ pc = "snapshot"
  /\ \/ /\ c' = Snapshot(view)
        /\ pc' = "models"
        /\ UNCHANGED outcome
     \/ /\ End("unreachable")
        /\ UNCHANGED c
  /\ UNCHANGED <<view, want, cached, decision, views, failed>>

(* Mutant: the catalogue is read until it has the model. *)
ReadModelsUntilFound ==
  /\ pc = "models"
  /\ Models(view) # {}
  /\ pc' = "cached"
  /\ want' \in Models(view)
  /\ UNCHANGED <<view, c, cached, decision, outcome, views, failed>>

(* The second read, and the search for the model in its answer. *)
ReadModels ==
  /\ pc = "models"
  /\ pc' = "cached"
  /\ \/ /\ want' \in IF Models(view) = {} THEN {Unlisted} ELSE Models(view)
        /\ UNCHANGED failed
     \/ /\ want' = Unlisted
        /\ failed' = TRUE
  /\ UNCHANGED <<view, c, cached, decision, outcome, views>>

(* The third read. *)
ReadCached ==
  /\ pc = "cached"
  /\ pc' = "schedule"
  /\ \/ /\ cached' = CacheMap(view)
        /\ UNCHANGED failed
     \/ /\ cached' = {}
        /\ failed' = TRUE
  /\ UNCHANGED <<view, c, want, decision, outcome, views>>

(* Nothing is decided on a model that was not found.  With --explain the   *)
(* command ends with the explanation.                                      *)
Decide ==
  /\ pc = "schedule"
  /\ IF want = Unlisted
     THEN End("unknown") /\ UNCHANGED decision
     ELSE LET d == Schedule(c, [name |-> target, size |-> want], cached)
          IN  /\ decision' = [selected |-> d.selected, runtime |-> d.runtime,
                              summary |-> d.summary]
              /\ \E explain \in BOOLEAN :
                   IF explain THEN End("explained")
                   ELSE pc' = "place" /\ UNCHANGED outcome
  /\ UNCHANGED <<view, c, want, cached, views, failed>>

(* The names of the adapters that are shipped (runtime.All, ByName). *)
ByName == {"ollama", "vllm", "llama.cpp"}

(* The terminal is handed to the runtime if the selected node is this one. *)
Place ==
  /\ pc = "place"
  /\ End(CASE decision.selected = None           -> "nowhere"
           [] decision.selected.name # here      -> "remote"
           [] decision.runtime \notin ByName     -> "no adapter"
           [] OTHER                              -> "session")
  /\ UNCHANGED <<view, c, want, cached, decision, views, failed>>

Step == ReadSnapshot \/ ReadModels \/ ReadCached \/ Decide \/ Place

(* What is shown of a node changes while the command runs: a heartbeat, or *)
(* the lack of one.                                                        *)
Change(n) ==
  /\ pc # "done"
  /\ Cardinality(views) <= MaxChanges
  /\ \E s \in Shown(n) \cup {Absent} : view' = [view EXCEPT ![n] = s]
  /\ views' = views \cup {view'}
  /\ UNCHANGED <<pc, c, want, cached, decision, outcome, failed>>

Next == Step \/ \E n \in Names : Change(n)

(* The command is one goroutine and each of its requests times out. *)
Spec == Init /\ [][Next]_vars /\ WF_vars(Step)
-----------------------------------------------------------------------------
(* Three reads of a fabric that stays as it is, and answers, amount to one *)
(* read: the command decides what the scheduler decides on that one view,  *)
(* and a model is unknown only if no node lists it.                        *)
OneMoment ==
  views = {view} /\ ~failed =>
    /\ outcome = "unknown" => Models(view) = {}
    /\ decision # None =>
         \E size \in Models(view) :
           LET d == Schedule(Snapshot(view), [name |-> target, size |-> size],
                             {n \in Names : Lists(view, n)} \X {target})
           IN  decision = [selected |-> d.selected, runtime |-> d.runtime,
                           summary |-> d.summary]

(* However the fabric changes between the reads and whichever of the later *)
(* ones fail, a verdict is backed by what was true while the command ran:  *)
(* the selected node was shown, online, with room for a size that some node*)
(* gave the model; it had the model if that is the reason given; and if    *)
(* nothing was selected, there was a view in which no node would do.       *)
Attested ==
  decision # None =>
    \E u, v \in views : \E size \in Models(v) :
      LET Serves(n) == /\ u[n] # Absent
                       /\ u[n].node.health = "online"
                       /\ u[n].node.free >= size
          s == decision.selected
      IN  IF s = None
          THEN \A n \in Names : ~Serves(n)
          ELSE /\ Serves(s.name)
               /\ u[s.name].node = s
               /\ decision.summary = "cached" =>
                    \E w \in views : Lists(w, s.name)

(* The command ends, although any of its reads may fail or answer nothing. *)
Ends == <>(pc = "done")
=============================================================================
