---------------------------- MODULE NodeLiveness ----------------------------
(***************************************************************************)
(* What the controller promises the readers of the fabric, independently   *)
(* of how its registry stores it: a node is shown with the age of its last *)
(* report, its health is a function of that age alone, and a node that has *)
(* been silent for EvictAfter is not shown.  Only a report can make a node *)
(* appear or younger; restarting the controller forgets every node.        *)
(*                                                                         *)
(* Registry implements this specification; Fabric composes its actions     *)
(* with agents and a network.  Both instantiate it with 0 < DegradedAfter  *)
(* < EvictAfter and a None that is no view of a node.                      *)
(***************************************************************************)
EXTENDS Integers

CONSTANTS
  Names,          (* node names                                            *)
  Reports,        (* what a heartbeat carries besides the name             *)
  None,           (* "not shown"                                           *)
  DegradedAfter,  (* age from which a node is degraded                     *)
  EvictAfter      (* age from which a node is not shown                    *)

VARIABLE shown    (* shown[n]: what a reader sees of node n, or None       *)

ShownNode ==
  [age: 0 .. EvictAfter - 1, health: {"online", "degraded"}, report: Reports]

(* Mutant: the eviction threshold itself still counts as alive. *)
GonePastLimit(g) == g > EvictAfter

Gone(g) == g >= EvictAfter

(* The view of a node whose last report, r, is g old. *)
Aged(g, r) ==
  IF Gone(g)
  THEN None
  ELSE [age    |-> g,
        health |-> IF g >= DegradedAfter THEN "degraded" ELSE "online",
        report |-> r]

TypeOK == shown \in [Names -> ShownNode \cup {None}]

Init == shown = [n \in Names |-> None]

(* A heartbeat of node n takes effect. *)
Report(n, r) == shown' = [shown EXCEPT ![n] = Aged(0, r)]

(* Mutant: a degraded node ages no further, so it is shown for ever. *)
OlderUnlessDegraded(v) ==
  IF v = None \/ v.health = "degraded" THEN v ELSE Aged(v.age + 1, v.report)

(* A view of a node one unit of time later. *)
Older(v) == IF v = None THEN None ELSE Aged(v.age + 1, v.report)

(* One unit of time passes. *)
Elapse == shown' = [n \in Names |-> Older(shown[n])]

(* The controller process is replaced by a new one with an empty registry. *)
Forget == shown' = [n \in Names |-> None]

Next ==
  \/ \E n \in Names, r \in Reports : Report(n, r)
  \/ Elapse
  \/ Forget

Spec == Init /\ [][Next]_shown
=============================================================================
