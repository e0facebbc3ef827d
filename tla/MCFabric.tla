------------------------------ MODULE MCFabric ------------------------------
(* Model-checking instances of Fabric: the host names of the machines, and *)
(* the behaviours that the run about heartbeats searches.                  *)
EXTENDS Fabric

MCNameOf == [a \in Agents |-> CHOOSE n \in Names : TRUE]

(* Machines join a running controller and stay, a post fails only when its *)
(* client times out, and who starts anew has nothing under way from before.*)
Patient ==
  /\ up => up'
  /\ stopping' = stopping
  /\ \A a \in Agents :
       /\ Joined(a) => Joined(a)'
       /\ HeartbeatFails(a) \/ RegisterFails(a) => TimedOut(a)
       /\ Join(a) => up /\ \A m \in net : m.from # a

PatientSpec == Init /\ [][Next /\ Patient]_vars
=============================================================================
