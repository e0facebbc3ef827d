------------------------------- MODULE Watch --------------------------------
(***************************************************************************)
(* `relay watch` reading a controller (cli.cmdWatch, store.Snapshot,       *)
(* handleCluster, render.Dashboard): a frame is drawn at once and then     *)
(* every second from one View of the registry.  View walks a Go map, whose *)
(* order differs from walk to walk, and sorts the nodes afterwards.        *)
(*                                                                         *)
(* The registry appears as NodeLiveness.  Names are numbers, which stand   *)
(* for names in alphabetical order.                                        *)
(***************************************************************************)
EXTENDS Integers, SequencesExt, Sorting

CONSTANTS
  Names,          (* host names, as numbers                                *)
  Reports,        (* what agents report                                    *)
  Models,         (* what can run on a node                                *)
  JobsOf,         (* the models a report says are running, in its order    *)
  None,           (* "not shown"; also: no frame drawn yet                 *)
  DegradedAfter,  (* the controller's thresholds                           *)
  EvictAfter

ASSUME WatchAssumption ==
  /\ Names \subseteq Nat
  /\ JobsOf \in [Reports -> Seq(Models)]
  /\ DegradedAfter \in Nat \ {0}
  /\ EvictAfter \in Nat
  /\ DegradedAfter < EvictAfter
  /\ None \notin [age: Nat, health: {"online", "degraded"}, report: Reports]

VARIABLES
  shown,     (* what the controller shows of each name                     *)
  watching,  (* relay watch is running                                     *)
  frame      (* what is on the screen                                      *)

vars == <<shown, watching, frame>>

NL == INSTANCE NodeLiveness

Live == {n \in Names : shown[n] # None}

(* The jobs of a report, tagged with the node they run on. *)
JobsAt(n) ==
  LET models == JobsOf[shown[n].report]
  IN  [i \in DOMAIN models |-> [model |-> models[i], node |-> n]]

(* Mutant: the nodes are left in the order of the walk. *)
Walked(walk) == walk

Sorted(walk) == Sort(ToSet(walk), <)

JobsAlong(walk) == FlattenSeq([i \in DOMAIN walk |-> JobsAt(walk[i])])

(* What a reader is sent: the nodes sorted by name, the jobs in the order   *)
(* of the walk.                                                            *)
View(walk) ==
  LET sorted == Sorted(walk)
  IN  [nodes |-> [i \in DOMAIN sorted |->
                    [name |-> sorted[i], seen |-> shown[sorted[i]]]],
       jobs  |-> JobsAlong(walk)]

(* What is drawn of it: of a node its name and what it reported, but not   *)
(* its health, and every job.                                              *)
Dashboard(c) ==
  [nodes |-> [i \in DOMAIN c.nodes |->
                [name |-> c.nodes[i].name, report |-> c.nodes[i].seen.report]],
   jobs  |-> c.jobs]

TypeOK ==
  /\ NL!TypeOK
  /\ watching \in BOOLEAN
  /\ frame # None =>
       /\ \A i \in DOMAIN frame.nodes :
            frame.nodes[i] \in [name: Names, report: Reports]
       /\ \A k \in DOMAIN frame.jobs :
            frame.jobs[k] \in [model: Models, node: Names]

Init ==
  /\ NL!Init
  /\ watching = TRUE
  /\ frame = None

(* Mutant: an earlier frame keeps its jobs and only its nodes are drawn.   *)
drawNodes ==
  /\ watching
  /\ \E walk \in SetToSeqs(Live) :
       LET fresh == Dashboard(View(walk))
       IN  frame' = IF frame = None THEN fresh
                    ELSE [frame EXCEPT !.nodes = fresh.nodes]
  /\ UNCHANGED <<shown, watching>>

(* One turn of the loop: the screen is cleared and drawn anew.  A turn     *)
(* whose Snapshot fails leaves the screen as it was.                       *)
draw ==
  /\ watching
  /\ \E walk \in SetToSeqs(Live) : frame' = Dashboard(View(walk))
  /\ UNCHANGED <<shown, watching>>

(* Ctrl-C ends the loop; the last frame stays on the screen. *)
Interrupt ==
  /\ watching
  /\ watching' = FALSE
  /\ UNCHANGED <<shown, frame>>

(* The controller and its agents go on meanwhile. *)
Serving == NL!Next /\ UNCHANGED <<watching, frame>>

Next == draw \/ Interrupt \/ Serving

Spec == Init /\ [][Next]_vars
-----------------------------------------------------------------------------
Listed(f) == {f.nodes[i].name : i \in DOMAIN f.nodes}

(* The jobs listed on node n are these models: together, in this order.    *)
Together(jobs, n, models) ==
  \E a \in 0 .. Len(jobs) - Len(models) :
    \A k \in DOMAIN jobs :
      IF k - a \in DOMAIN models
      THEN jobs[k] = [model |-> models[k - a], node |-> n]
      ELSE jobs[k].node # n

(* A frame shows one moment: although heartbeats go on between frames,     *)
(* what is on the screen of a node and the jobs shown on it come from the  *)
(* same report of it: the jobs of the report stand together, in its order, *)
(* none is missing, and no other job is shown on the node, nor on a node   *)
(* that is not shown.                                                      *)
FrameWhole ==
  frame # None =>
    /\ \A k \in DOMAIN frame.jobs : frame.jobs[k].node \in Listed(frame)
    /\ \A i \in DOMAIN frame.nodes :
         LET node == frame.nodes[i]
         IN  Together(frame.jobs, node.name, JobsOf[node.report])

(* "Output is sorted by node name so `relay watch` renders a stable,       *)
(* non-flickering order" (View), for the nodes: two frames that list the   *)
(* same nodes list them in the same places.                                *)
NodesStable ==
  [][frame # None /\ Listed(frame') = Listed(frame)
       => \A i \in DOMAIN frame.nodes :
            frame'.nodes[i].name = frame.nodes[i].name]_frame

(* The same for the jobs: two frames that show the same jobs show them in  *)
(* the same order.  View does not sort them.                               *)
JobsStable ==
  [][frame # None /\ ToSet(frame'.jobs) = ToSet(frame.jobs)
       => frame'.jobs = frame.jobs]_frame
=============================================================================
