------------------------------ MODULE Registry ------------------------------
(***************************************************************************)
(* The controller's in-memory node table (internal/controller): heartbeat  *)
(* handlers running on their own goroutines, the reaper goroutine, and the *)
(* view computed for readers.  Every critical section of the registry's    *)
(* mutex is one step; it reads the clock inside the section, so stamping   *)
(* and storing are one step too.  What a handler does before it takes the  *)
(* mutex (method check, decoding, name check) is a step of its own, so     *)
(* that handlers reach the table in any order.                             *)
(*                                                                         *)
(* Time is counted in units of which HeartbeatInterval is a multiple.      *)
(***************************************************************************)
EXTENDS Integers

CONSTANTS
  Names,              (* non-empty node names                              *)
  NoName,             (* the empty name a body may carry                   *)
  Reports,            (* the rest of a registration: hardware, models, jobs*)
  None,               (* no entry under a name                             *)
  HeartbeatInterval,  (* cadence of heartbeats and of the reaper           *)
  MaxNow              (* bound on the clock                                *)

degradedAfter == 2 * HeartbeatInterval
evictAfter    == 4 * HeartbeatInterval

Entry == [reg: Reports, lastSeen: Nat]

ASSUME RegistryAssumption ==
  /\ HeartbeatInterval \in Nat \ {0}
  /\ MaxNow \in Nat
  /\ NoName \notin Names
  /\ None \notin Entry
  /\ None \notin [age: Nat, health: {"online", "degraded"}, report: Reports]

VARIABLES
  now,        (* the clock r.now() reads                                   *)
  nodes,      (* nodes[n]: the entry stored under n, or None               *)
  handlers,   (* decoded registrations whose handler has yet to lock       *)
  sinceReap   (* time since the reaper's ticker last was served            *)

vars == <<now, nodes, handlers, sinceReap>>

(* A request as handleHeartbeat meets it: POST or not, decodable or not. *)
Request ==
  [method: {"POST", "GET"}, decodes: BOOLEAN, name: Names \cup {NoName},
   report: Reports]

Registration == [name: Names, report: Reports]

TypeOK ==
  /\ now \in Nat
  /\ nodes \in [Names -> Entry \cup {None}]
  /\ handlers \in SUBSET Registration
  /\ sinceReap \in 0 .. HeartbeatInterval

Age(n) == now - nodes[n].lastSeen

(* View: what a reader of /v1/cluster is told of each name. *)
View ==
  [n \in Names |->
     IF nodes[n] = None THEN None
     ELSE IF Age(n) >= evictAfter THEN None
     ELSE [age    |-> Age(n),
           health |-> IF Age(n) >= degradedAfter THEN "degraded" ELSE "online",
           report |-> nodes[n].reg]]

Init ==
  /\ now = 0
  /\ nodes = [n \in Names |-> None]
  /\ handlers = {}
  /\ sinceReap = 0
-----------------------------------------------------------------------------
(* Mutant: the check of the node name is missing. *)
AcceptedUnnamed(req) ==
  /\ req.method = "POST"
  /\ req.decodes

(* A handler turns the request away with 405 or 400, touching nothing,     *)
(* unless it is a POST whose body decodes and names a node.                *)
Accepted(req) ==
  /\ req.method = "POST"
  /\ req.decodes
  /\ req.name # NoName

handleHeartbeat(req) ==
  /\ Accepted(req)
  /\ handlers' = handlers \cup {[name |-> req.name, report |-> req.report]}
  /\ UNCHANGED <<now, nodes, sinceReap>>

(* Mutant: an existing entry keeps its stamp. *)
StoredUnstamped(reg) ==
  [reg |-> reg.report,
   lastSeen |-> IF nodes[reg.name] = None THEN now ELSE nodes[reg.name].lastSeen]

Stored(reg) == [reg |-> reg.report, lastSeen |-> now]

(* The handler gets the mutex: the entry is replaced as a whole. *)
Upsert(reg) ==
  /\ reg \in handlers
  /\ nodes' = [nodes EXCEPT ![reg.name] = Stored(reg)]
  /\ handlers' = handlers \ {reg}
  /\ UNCHANGED <<now, sinceReap>>

(* Mutants: the entry that is exactly at the threshold survives; the       *)
(* reaper uses the wrong threshold.                                        *)
ExpiredLate(n)     == nodes[n] # None /\ Age(n) > evictAfter
ExpiredDegraded(n) == nodes[n] # None /\ Age(n) >= degradedAfter

Expired(n) == nodes[n] # None /\ Age(n) >= evictAfter

(* The reaper's ticker fired: entries past the threshold are deleted. *)
reap ==
  /\ sinceReap = HeartbeatInterval
  /\ nodes' = [n \in Names |-> IF Expired(n) THEN None ELSE nodes[n]]
  /\ sinceReap' = 0
  /\ UNCHANGED <<now, handlers>>

(* Mutant: the table outlives the process, and is not reaped at the start. *)
RestoredRegistry == nodes

NewRegistry == [n \in Names |-> None]

(* The controller is stopped and started again: Serve makes an empty       *)
(* registry and a new ticker, and handlers die with the old process.       *)
Serve ==
  /\ nodes' = NewRegistry
  /\ handlers' = {}
  /\ sinceReap' = 0
  /\ UNCHANGED now

(* A unit of time passes; a tick of the reaper is served before the next.  *)
Pass ==
  /\ now < MaxNow
  /\ sinceReap < HeartbeatInterval
  /\ now' = now + 1
  /\ sinceReap' = sinceReap + 1
  /\ UNCHANGED <<nodes, handlers>>

Next ==
  \/ \E req \in Request : handleHeartbeat(req)
  \/ \E reg \in Registration : Upsert(reg)
  \/ reap
  \/ Serve
  \/ Pass

Spec == Init /\ [][Next]_vars
-----------------------------------------------------------------------------
(* "so the map doesn't grow without bound" (reap): no entry outlives its   *)
(* node's last report by more than the eviction threshold and one period   *)
(* of the reaper, whatever the handlers do meanwhile.                      *)
NoLeak ==
  \A n \in Names :
    nodes[n] # None => Age(n) < evictAfter + HeartbeatInterval

(* NoLeak is not inductive by itself: an entry may be past the threshold   *)
(* by at most the time since the last reap, and is never from the future.  *)
RegistryInv ==
  /\ TypeOK
  /\ \A n \in Names :
       nodes[n] # None =>
         /\ nodes[n].lastSeen <= now
         /\ Age(n) < evictAfter + sinceReap

(* The reaper and View agree on the boundary: a reader can never tell      *)
(* whether the reaper has run, so a node is never dropped by the reaper    *)
(* before View drops it.                                                   *)
ReapUnseen == [][reap => View' = View]_vars

(* The registry, seen through View, is the specification of NodeLiveness:  *)
(* only a heartbeat rejuvenates a node, its health decays with the age of  *)
(* its own last heartbeat, no other name's traffic touches it.             *)
Promised == INSTANCE NodeLiveness
              WITH DegradedAfter <- degradedAfter, EvictAfter <- evictAfter,
                   shown <- View

KeepsPromise == Promised!Spec
=============================================================================
