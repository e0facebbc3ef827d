--------------------------- MODULE RegistryProofs ---------------------------
(***************************************************************************)
(* Proofs about Registry, for every set of names and reports, every        *)
(* heartbeat interval and every bound on the clock.                        *)
(***************************************************************************)
EXTENDS Registry, TLAPS

(* The table starts empty. *)
LEMMA InitInv == Init => RegistryInv
  BY RegistryAssumption DEF Init, RegistryInv, TypeOK

(* Each critical section, each handler and the clock keep the invariant.   *)
LEMMA NextInv == RegistryInv /\ [Next]_vars => RegistryInv'
<1> SUFFICES ASSUME RegistryInv, [Next]_vars PROVE RegistryInv'
  OBVIOUS
<1> USE RegistryAssumption
    DEF RegistryInv, TypeOK, Age, Entry, Registration, evictAfter
<1>1. ASSUME NEW req \in Request, handleHeartbeat(req) PROVE RegistryInv'
  BY <1>1 DEF handleHeartbeat, Accepted, Request
<1>2. ASSUME NEW reg \in Registration, Upsert(reg) PROVE RegistryInv'
  BY <1>2 DEF Upsert, Stored
<1>3. CASE reap
  BY <1>3 DEF reap, Expired
<1>4. CASE Serve
  BY <1>4 DEF Serve, NewRegistry
<1>5. CASE Pass
  BY <1>5 DEF Pass
<1>6. CASE UNCHANGED vars
  BY <1>6 DEF vars
<1>7. QED
  BY <1>1, <1>2, <1>3, <1>4, <1>5, <1>6 DEF Next

(* The inductive invariant holds throughout every behaviour. *)
THEOREM RegistryInvariant == Spec => []RegistryInv
  BY InitInv, NextInv, PTL DEF Spec

(* The variables of the registry keep their types. *)
THEOREM RegistryTypeOK == Spec => []TypeOK
<1>1. RegistryInv => TypeOK
  BY DEF RegistryInv
<1>2. QED
  BY RegistryInvariant, <1>1, PTL

(* The table does not grow without bound: an entry is gone at most one     *)
(* reaper period after its eviction threshold.                             *)
THEOREM RegistryNoLeak == Spec => []NoLeak
<1>1. RegistryInv => NoLeak
  BY RegistryAssumption
     DEF RegistryInv, TypeOK, NoLeak, Age, Entry, evictAfter
<1>2. QED
  BY RegistryInvariant, <1>1, PTL

(* Deleting only what View already hides leaves View as it was. *)
LEMMA ReapKeepsView == ASSUME reap PROVE View' = View
<1>1. ASSUME NEW n \in Names PROVE View'[n] = View[n]
  <2>1. CASE nodes[n] # None /\ Age(n) >= evictAfter
    BY <2>1 DEF reap, Expired, View, Age
  <2>2. CASE ~(nodes[n] # None /\ Age(n) >= evictAfter)
    <3>1. nodes'[n] = nodes[n] /\ now' = now
      BY <2>2 DEF reap, Expired
    <3>2. QED
      BY <3>1 DEF View, Age
  <2>3. QED
    BY <2>1, <2>2
<1>2. QED
  BY <1>1 DEF View

(* A run of the reaper never changes what a reader is shown. *)
THEOREM RegistryReapUnseen == Spec => ReapUnseen
<1>1. reap => View' = View
  BY ReapKeepsView
<1>2. QED
  BY <1>1, PTL DEF ReapUnseen

(* A view of a node is never mistaken for its absence. *)
LEMMA ViewShowsAge ==
  ASSUME RegistryInv, NEW n \in Names, View[n] # None
  PROVE  nodes[n] # None /\ View[n].age = Age(n) /\ View[n].report = nodes[n].reg
  BY DEF View

(* An expired or missing entry is shown as absent, and only those are. *)
LEMMA ViewAbsent ==
  ASSUME RegistryInv, NEW n \in Names
  PROVE  View[n] = None <=> (nodes[n] = None \/ Age(n) >= evictAfter)
<1>1. CASE nodes[n] = None \/ Age(n) >= evictAfter
  BY <1>1 DEF View
<1>2. CASE nodes[n] # None /\ ~(Age(n) >= evictAfter)
  <2>1. /\ Age(n) \in Nat
        /\ nodes[n].reg \in Reports
    BY <1>2 DEF RegistryInv, TypeOK, Entry, Age
  <2> DEFINE h == IF Age(n) >= degradedAfter THEN "degraded" ELSE "online"
             v == [age |-> Age(n), health |-> h, report |-> nodes[n].reg]
  <2>2. View[n] = v
    BY <1>2 DEF View
  <2>3. h \in {"online", "degraded"}
    OBVIOUS
  <2>4. v \in [age: Nat, health: {"online", "degraded"}, report: Reports]
    BY <2>1, <2>3
  <2>5. v # None
    BY <2>4, RegistryAssumption
  <2>6. QED
    BY <2>2, <2>5, <1>2
<1>3. QED
  BY <1>1, <1>2

(* Every step of the registry is, seen through View, a step of             *)
(* NodeLiveness or no step at all.                                         *)
LEMMA StepRefines == RegistryInv /\ [Next]_vars => [Promised!Next]_View
<1> SUFFICES ASSUME RegistryInv, [Next]_vars PROVE [Promised!Next]_View
  OBVIOUS
<1>0. RegistryInv'
  BY NextInv
<1>1. ASSUME NEW req \in Request, handleHeartbeat(req) PROVE View' = View
  BY <1>1 DEF handleHeartbeat, View, Age
<1>2. ASSUME NEW reg \in Registration, Upsert(reg)
      PROVE  Promised!Report(reg.name, reg.report)
  <2>1. /\ reg.name \in Names
        /\ evictAfter > 0
        /\ now \in Nat
    BY RegistryAssumption DEF Registration, evictAfter, RegistryInv, TypeOK
  <2>2. ASSUME NEW n \in Names, n # reg.name PROVE View'[n] = View[n]
    <3>1. nodes'[n] = nodes[n] /\ now' = now
      BY <1>2, <2>2 DEF Upsert, Stored, RegistryInv, TypeOK
    <3>2. QED
      BY <3>1 DEF View, Age
  <2>3. View'[reg.name] = Promised!Aged(0, reg.report)
    <3>1. /\ nodes'[reg.name] = [reg |-> reg.report, lastSeen |-> now]
          /\ now' = now
      BY <1>2, <2>1 DEF Upsert, Stored, RegistryInv, TypeOK
    <3>2. nodes'[reg.name] \in Entry
      BY <3>1, <2>1 DEF Entry, Registration
    <3>3. nodes'[reg.name] # None
      BY <3>2, RegistryAssumption
    <3>4. Age(reg.name)' = 0
      BY <3>1, <2>1 DEF Age
    <3>5. QED
      BY <3>1, <3>3, <3>4, <2>1 DEF View, Promised!Aged, Promised!Gone
  <2>4. QED
    BY <2>1, <2>2, <2>3 DEF Promised!Report, View
<1>3. ASSUME reap PROVE View' = View
  BY <1>3, ReapKeepsView
<1>4. ASSUME Serve PROVE Promised!Forget
  BY <1>4 DEF Serve, NewRegistry, Promised!Forget, View
<1>5. ASSUME Pass PROVE Promised!Elapse
  <2>1. ASSUME NEW n \in Names
        PROVE  View'[n] = IF View[n] = None THEN None
                          ELSE Promised!Aged(View[n].age + 1, View[n].report)
    <3>1. /\ nodes'[n] = nodes[n]
          /\ nodes[n] # None => Age(n)' = Age(n) + 1 /\ Age(n) \in Nat
      BY <1>5 DEF Pass, Age, RegistryInv, TypeOK, Entry
    <3>2. CASE View[n] = None
      BY <3>1, <3>2, <1>0, ViewAbsent, RegistryAssumption
         DEF View, evictAfter
    <3>3. CASE View[n] # None
      BY <3>1, <3>3, ViewShowsAge DEF View, Promised!Aged, Promised!Gone
    <3>4. QED
      BY <3>2, <3>3
  <2>2. QED
    BY <2>1 DEF Promised!Elapse, Promised!Older, View
<1>6. ASSUME UNCHANGED vars PROVE View' = View
  BY <1>6 DEF vars, View, Age
<1>7. QED
  BY <1>1, <1>2, <1>3, <1>4, <1>5, <1>6
     DEF Next, Promised!Next, Registration

(* The registry implements NodeLiveness: readers see exactly its promise. *)
THEOREM RegistryKeepsPromise == Spec => KeepsPromise
<1>1. Init => Promised!Init
  BY DEF Init, Promised!Init, View
<1>2. QED
  BY RegistryInvariant, StepRefines, <1>1, PTL
     DEF Spec, KeepsPromise, Promised!Spec
=============================================================================
