---------------------------- MODULE Installation ----------------------------
(***************************************************************************)
(* What `relay update` promises of the binary it is run from, however it   *)
(* does it: an update chooses a build, and then either replaces what is    *)
(* installed by that build, in one step, and says so, or leaves it and     *)
(* says something else, or nothing.                                        *)
(*                                                                         *)
(* Update implements this for one process at a time.                       *)
(***************************************************************************)
CONSTANTS Procs, Build, None

VARIABLES
  installed,   (* the build that is installed                              *)
  running,     (* the processes that are updating                          *)
  wanted,      (* wanted[p]: the build that p is to install, or None       *)
  said         (* said[p]: how the last update of p ended                  *)

vars == <<installed, running, wanted, said>>

Init ==
  /\ installed \in Build
  /\ running = {}
  /\ wanted = [p \in Procs |-> None]
  /\ said = [p \in Procs |-> "nothing"]

Begin(p) ==
  /\ p \notin running
  /\ running' = running \cup {p}
  /\ said' = [said EXCEPT ![p] = "nothing"]
  /\ UNCHANGED <<installed, wanted>>

Choose(p, b) ==
  /\ p \in running
  /\ wanted' = [wanted EXCEPT ![p] = b]
  /\ UNCHANGED <<installed, running, said>>

Finish(p, msg) ==
  /\ p \in running
  /\ running' = running \ {p}
  /\ wanted' = [wanted EXCEPT ![p] = None]
  /\ said' = [said EXCEPT ![p] = msg]

Replace(p) ==
  /\ wanted[p] # None
  /\ installed' = wanted[p]
  /\ Finish(p, "updated")

(* A crash says nothing. *)
GiveUp(p) ==
  /\ \E msg \in {"nothing", "uptodate", "failed"} : Finish(p, msg)
  /\ UNCHANGED installed

Next ==
  \E p \in Procs :
    \/ Begin(p) \/ Replace(p) \/ GiveUp(p)
    \/ \E b \in Build : Choose(p, b)

Spec == Init /\ [][Next]_vars
=============================================================================
