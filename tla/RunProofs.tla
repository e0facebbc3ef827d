----------------------------- MODULE RunProofs ------------------------------
(***************************************************************************)
(* The safety properties of Run, for any number of nodes, any figures and  *)
(* any number of changes between the reads.  The invariant says of every   *)
(* thing the command has read from which view it was read.                 *)
(***************************************************************************)
EXTENDS Run, SchedulerProofs

Wanted == [name |-> target, size |-> want]

(* The decision is what the scheduler makes of what was read. *)
Decided ==
  decision # None =>
    /\ want # Unlisted
    /\ LET d == Schedule(c, Wanted, cached)
       IN  decision = [selected |-> d.selected, runtime |-> d.runtime,
                       summary |-> d.summary]

(* The views the three answers are of. *)
NodesRead ==
  pc \in {"models", "cached", "schedule", "place"} \/ decision # None =>
    \E u \in views : c = Snapshot(u)

SizeRead == want # Unlisted => \E v \in views : want \in Models(v)

CopiesRead == \A p \in cached : \E w \in views : p \in CacheMap(w)

(* An answer that did not fail says all there was in the view. *)
SizeExact ==
  pc \in {"cached", "schedule", "place"} \/ decision # None \/ outcome = "unknown" =>
    failed \/ \E v \in views : IF Models(v) = {} THEN want = Unlisted
                               ELSE want \in Models(v)

CopiesExact ==
  pc \in {"schedule", "place"} \/ decision # None =>
    failed \/ \E w \in views : cached = CacheMap(w)

Progress ==
  /\ pc \in {"snapshot", "models", "cached", "schedule"} => decision = None
  /\ pc # "done" => outcome = None
  /\ outcome = "unknown" => want = Unlisted

ViewsOK ==
  /\ IsFiniteSet(views)
  /\ \A v \in views : \A n \in Names : v[n] \in Shown(n) \cup {Absent}

RunInv ==
  /\ TypeOK
  /\ ViewsOK
  /\ Progress
  /\ Decided
  /\ NodesRead
  /\ SizeRead
  /\ CopiesRead
  /\ SizeExact
  /\ CopiesExact
-----------------------------------------------------------------------------
(* What the controller shows of a node is about that node. *)
LEMMA ShownType ==
  ASSUME NEW n, NEW s \in Shown(n)
  PROVE  /\ s.node.name = n /\ s.node.free \in Int /\ s.node.util \in Int
         /\ s.copy \in Sizes \cup {Unlisted}
<1>1. /\ s.node \in [name: {n}, runtime: {LabelOf[n]}, free: Frees, util: {0},
                     health: {"online", "degraded"}]
      /\ s.copy \in Sizes \cup {Unlisted}
  BY DEF Shown
<1>2. s.node.name = n
  BY <1>1
<1>3. s.node.free \in Int
  <2>1. s.node.free \in Frees /\ Frees \subseteq Int
    BY <1>1, RunAssumption
  <2>2. QED
    BY <2>1
<1>4. s.node.util \in Int
  BY <1>1
<1>5. QED
  BY <1>1, <1>2, <1>3, <1>4

Present(v) == {n \in Names : v[n] # Absent}

(* The snapshot of a view lists its nodes by name. *)
LEMMA SnapshotCorrect ==
  ASSUME NEW v, \A n \in Names : v[n] \in Shown(n) \cup {Absent}
  PROVE  ListsByName(Snapshot(v), Present(v), [n \in Present(v) |-> v[n].node])
<1> DEFINE P == Present(v)
           f == [n \in P |-> v[n].node]
           S == {v[n].node : n \in P}
<1>1. IsFiniteSet(Names) /\ Names \subseteq Int
  BY FS_Interval, RunAssumption DEF Names
<1>2. IsFiniteSet(P) /\ P \subseteq Int
  BY <1>1, FS_Subset DEF Present
<1>3. ASSUME NEW p \in P PROVE f[p].name = p /\ f[p] \in S
  <2>1. v[p] \in Shown(p)
    BY DEF Present
  <2>2. QED
    BY <2>1, ShownType
<1>4. \A s \in S : \E p \in P : s = f[p]
  OBVIOUS
<1>5. Snapshot(v) = SortByName(S)
  BY DEF Snapshot, Present
<1> HIDE DEF P, f, S
<1>6. ListsByName(Snapshot(v), P, f)
  BY <1>2, <1>3, <1>4, <1>5, MapByName
<1>7. QED
  BY <1>6 DEF P, f

(* The sizes a view may give the model are sizes. *)
LEMMA ModelsType ==
  ASSUME NEW v, \A n \in Names : v[n] \in Shown(n) \cup {Absent}
  PROVE  Models(v) \subseteq Sizes /\ Unlisted \notin Models(v)
<1>1. ASSUME NEW n \in Names, Lists(v, n) PROVE v[n].copy \in Sizes /\ v[n].copy # Unlisted
  <2>1. v[n] \in Shown(n)
    BY <1>1 DEF Lists
  <2>2. QED
    BY <1>1, <2>1, ShownType DEF Lists
<1>2. QED
  BY <1>1 DEF Models
-----------------------------------------------------------------------------
(* When the command starts it has read nothing.                            *)
LEMMA RunInvInit == Init => RunInv
<1> SUFFICES ASSUME Init PROVE RunInv
  OBVIOUS
<1>1. DOMAIN view = Names /\ \A n \in Names : view[n] \in Shown(n) \cup {Absent}
  BY DEF Init
<1>2. IsFiniteSet(views) /\ Cardinality(views) = 1
  BY FS_Singleton DEF Init
<1>3. TypeOK
  <2>1. Cardinality(views) <= MaxChanges + 1
    BY <1>2, RunAssumption
  <2>2. \A i \in DOMAIN c : c[i] \in {s.node : s \in Shown(c[i].name)}
    BY DEF Init
  <2>3. view \in views
    BY DEF Init
  <2>4. QED
    BY <1>1, <2>1, <2>2, <2>3 DEF Init, TypeOK
<1>4. ViewsOK
  BY <1>1, <1>2 DEF Init, ViewsOK
<1>5. Progress /\ Decided /\ NodesRead /\ SizeRead /\ CopiesRead /\ SizeExact /\ CopiesExact
  BY RunAssumption DEF Init, Progress, Decided, NodesRead, SizeRead, CopiesRead,
     SizeExact, CopiesExact, Outcomes
<1>6. QED
  BY <1>3, <1>4, <1>5 DEF RunInv

(* A snapshot is of nodes that are shown. *)
LEMMA SnapshotShown ==
  ASSUME NEW v, \A n \in Names : v[n] \in Shown(n) \cup {Absent}
  PROVE  \A i \in DOMAIN Snapshot(v) :
           Snapshot(v)[i] \in {s.node : s \in Shown(Snapshot(v)[i].name)}
<1> DEFINE P == Present(v)
           f == [n \in P |-> v[n].node]
<1>1. ListsByName(Snapshot(v), P, f)
  BY SnapshotCorrect
<1>2. ASSUME NEW i \in DOMAIN Snapshot(v)
      PROVE  Snapshot(v)[i] \in {s.node : s \in Shown(Snapshot(v)[i].name)}
  <2>1. PICK p \in P : Snapshot(v)[i] = f[p]
    BY <1>1 DEF ListsByName
  <2>2. v[p] \in Shown(p) /\ f[p] = v[p].node
    BY DEF Present
  <2>3. f[p].name = p
    BY <2>2, ShownType
  <2> HIDE DEF f
  <2>4. Snapshot(v)[i] = v[p].node /\ Snapshot(v)[i].name = p
    BY <2>1, <2>2, <2>3
  <2>5. QED
    BY <2>2, <2>4
<1>3. QED
  BY <1>2

(* Each read, the decision, the hand-over and the fabric keep RunInv.      *)
LEMMA RunInvStep == RunInv /\ [Next]_vars => RunInv'
<1> SUFFICES ASSUME RunInv, [Next]_vars PROVE RunInv'
  OBVIOUS
<1>1. view \in views /\ \A v \in views : \A n \in Names : v[n] \in Shown(n) \cup {Absent}
  BY DEF RunInv, TypeOK, ViewsOK
<1>2. CASE ReadSnapshot
  <2>1. views' = views /\ view' = view /\ want' = want /\ cached' = cached
        /\ decision' = decision /\ failed' = failed
    BY <1>2 DEF ReadSnapshot
  <2>2. TypeOK'
    <3>1. \A i \in DOMAIN c' : c'[i] \in {s.node : s \in Shown(c'[i].name)}
      <4>1. CASE c' = Snapshot(view)
        BY <1>1, <4>1, SnapshotShown
      <4>2. CASE UNCHANGED c
        BY <4>2 DEF RunInv, TypeOK
      <4>3. QED
        BY <1>2, <4>1, <4>2 DEF ReadSnapshot
    <3>2. outcome' \in Outcomes \cup {None} /\ pc' \in {"models", "done"}
      BY <1>2 DEF ReadSnapshot, End, RunInv, TypeOK, Outcomes
    <3>3. QED
      BY <2>1, <3>1, <3>2 DEF RunInv, TypeOK
  <2>3. ViewsOK' /\ SizeRead' /\ CopiesRead'
    BY <2>1 DEF RunInv, ViewsOK, SizeRead, CopiesRead
  <2>4. decision' = None
    BY <1>2 DEF ReadSnapshot, RunInv, Progress
  <2>5. pc = "snapshot" /\ outcome = None
    BY <1>2 DEF ReadSnapshot, RunInv, Progress
  <2>6. \/ pc' = "models" /\ c' = Snapshot(view) /\ outcome' = None
        \/ pc' = "done" /\ outcome' = "unreachable"
    BY <1>2, <2>5 DEF ReadSnapshot, End
  <2>7. Progress' /\ Decided' /\ NodesRead' /\ SizeExact' /\ CopiesExact'
    BY <1>1, <2>1, <2>4, <2>6, RunAssumption
       DEF Progress, Decided, NodesRead, SizeExact, CopiesExact, Outcomes
  <2>8. QED
    BY <2>2, <2>3, <2>7 DEF RunInv
<1>3. CASE ReadModels
  <2>1. /\ pc = "models" /\ pc' = "cached" /\ views' = views /\ view' = view /\ c' = c
        /\ cached' = cached /\ decision' = decision /\ outcome' = outcome
    BY <1>3 DEF ReadModels
  <2>2. Models(view) \subseteq Sizes /\ Unlisted \notin Models(view)
    BY <1>1, ModelsType
  <2>3. \/ failed' = failed
           /\ (IF Models(view) = {} THEN want' = Unlisted ELSE want' \in Models(view))
        \/ failed' = TRUE /\ want' = Unlisted
    BY <1>3 DEF ReadModels
  <2>4. decision = None /\ outcome = None
    BY <2>1 DEF RunInv, Progress
  <2>5. want' \in Sizes \cup {Unlisted} /\ failed' \in BOOLEAN
    BY <2>2, <2>3 DEF RunInv, TypeOK
  <2>6. TypeOK'
    BY <2>1, <2>5 DEF RunInv, TypeOK
  <2>7. ViewsOK' /\ CopiesRead'
    BY <2>1 DEF RunInv, ViewsOK, CopiesRead
  <2>8. Progress' /\ Decided' /\ NodesRead' /\ CopiesExact'
    BY <2>1, <2>4, RunAssumption
       DEF RunInv, Progress, Decided, NodesRead, CopiesExact, Outcomes
  <2>9. SizeRead' /\ SizeExact'
    BY <1>1, <2>1, <2>3 DEF SizeRead, SizeExact
  <2>10. QED
    BY <2>6, <2>7, <2>8, <2>9 DEF RunInv
<1>4. CASE ReadCached
  <2>1. /\ pc = "cached" /\ pc' = "schedule" /\ views' = views /\ view' = view /\ c' = c
        /\ want' = want /\ decision' = decision /\ outcome' = outcome
    BY <1>4 DEF ReadCached
  <2>2. \/ failed' = failed /\ cached' = CacheMap(view)
        \/ failed' = TRUE /\ cached' = {}
    BY <1>4 DEF ReadCached
  <2>3. decision = None /\ outcome = None
    BY <2>1 DEF RunInv, Progress
  <2>4. cached' \subseteq Names \X {target} /\ failed' \in BOOLEAN
    BY <2>2 DEF RunInv, TypeOK, CacheMap
  <2>5. TypeOK'
    BY <2>1, <2>4 DEF RunInv, TypeOK
  <2>6. ViewsOK' /\ SizeRead'
    BY <2>1 DEF RunInv, ViewsOK, SizeRead
  <2>7. Progress' /\ Decided' /\ NodesRead'
    BY <2>1, <2>3, RunAssumption DEF RunInv, Progress, Decided, NodesRead, Outcomes
  <2>8. SizeExact'
    BY <2>1, <2>2 DEF RunInv, SizeExact
  <2>9. CopiesRead' /\ CopiesExact'
    BY <1>1, <2>1, <2>2 DEF CopiesRead, CopiesExact
  <2>10. QED
    BY <2>5, <2>6, <2>7, <2>8, <2>9 DEF RunInv
<1>5. CASE Decide
  <2>1. /\ pc = "schedule" /\ views' = views /\ view' = view /\ c' = c
        /\ want' = want /\ cached' = cached /\ failed' = failed
    BY <1>5 DEF Decide
  <2>2. decision = None /\ outcome = None
    BY <2>1 DEF RunInv, Progress
  <2>3. NodesRead' /\ SizeExact' /\ CopiesExact'
    BY <2>1 DEF RunInv, NodesRead, SizeExact, CopiesExact
  <2>4. ViewsOK' /\ SizeRead' /\ CopiesRead'
    BY <2>1 DEF RunInv, ViewsOK, SizeRead, CopiesRead
  <2>5. CASE want = Unlisted
    <3>1. pc' = "done" /\ outcome' = "unknown" /\ decision' = decision
      BY <1>5, <2>5 DEF Decide, End
    <3>2. TypeOK'
      BY <2>1, <3>1 DEF RunInv, TypeOK, Outcomes
    <3>3. Progress' /\ Decided'
      BY <2>1, <2>2, <2>5, <3>1, RunAssumption DEF Progress, Decided
    <3>4. QED
      BY <2>3, <2>4, <3>2, <3>3 DEF RunInv
  <2>6. CASE want # Unlisted
    <3>1. /\ decision' = [selected |-> Schedule(c, Wanted, cached).selected,
                          runtime |-> Schedule(c, Wanted, cached).runtime,
                          summary |-> Schedule(c, Wanted, cached).summary]
          /\ \/ pc' = "done" /\ outcome' = "explained"
             \/ pc' = "place" /\ outcome' = outcome
      BY <1>5, <2>6 DEF Decide, End, Wanted
    <3>2. TypeOK'
      BY <2>1, <3>1 DEF RunInv, TypeOK, Outcomes
    <3>3. Wanted' = Wanted
      BY <2>1 DEF Wanted
    <3>4. Decided'
      BY <2>1, <2>6, <3>1, <3>3 DEF Decided
    <3>5. Progress'
      BY <2>2, <3>1, RunAssumption DEF Progress, Outcomes
    <3>6. QED
      BY <2>3, <2>4, <3>2, <3>4, <3>5 DEF RunInv
  <2>7. QED
    BY <2>5, <2>6
<1>6. CASE Place
  <2>1. /\ pc = "place" /\ pc' = "done" /\ UNCHANGED <<view, c, want, cached, decision, views, failed>>
        /\ outcome' \in {"nowhere", "remote", "no adapter", "session"}
    BY <1>6 DEF Place, End
  <2>2. TypeOK'
    BY <2>1 DEF RunInv, TypeOK, Outcomes
  <2>3. Wanted' = Wanted
    BY <2>1 DEF Wanted
  <2>4. Decided' /\ ViewsOK' /\ SizeRead' /\ CopiesRead'
    BY <2>1, <2>3 DEF RunInv, Decided, ViewsOK, SizeRead, CopiesRead
  <2>5. Progress' /\ NodesRead' /\ SizeExact' /\ CopiesExact'
    BY <2>1 DEF RunInv, Progress, NodesRead, SizeExact, CopiesExact
  <2>6. QED
    BY <2>2, <2>4, <2>5 DEF RunInv
<1>7. ASSUME NEW n \in Names, Change(n) PROVE RunInv'
  <2>1. /\ UNCHANGED <<pc, c, want, cached, decision, outcome, failed>>
        /\ views' = views \cup {view'}
    BY <1>7 DEF Change
  <2>2. DOMAIN view' = Names /\ \A k \in Names : view'[k] \in Shown(k) \cup {Absent}
    BY <1>7 DEF Change, RunInv, TypeOK
  <2>3. IsFiniteSet(views') /\ Cardinality(views') <= MaxChanges + 1
    <3>1. IsFiniteSet(views) /\ Cardinality(views) \in Nat /\ Cardinality(views) <= MaxChanges
      BY <1>7, FS_CardinalityType DEF RunInv, ViewsOK, Change
    <3>2. IsFiniteSet(views') /\ (Cardinality(views') = Cardinality(views)
                                  \/ Cardinality(views') = Cardinality(views) + 1)
      BY <2>1, <3>1, FS_AddElement
    <3>3. QED
      BY <3>1, <3>2, RunAssumption
  <2>4. TypeOK'
    BY <2>1, <2>2, <2>3 DEF RunInv, TypeOK
  <2>5. ViewsOK'
    BY <1>1, <2>1, <2>2, <2>3 DEF ViewsOK
  <2>6. Wanted' = Wanted
    BY <2>1 DEF Wanted
  <2>7. Progress' /\ Decided'
    BY <2>1, <2>6 DEF RunInv, Progress, Decided
  <2>8. NodesRead' /\ SizeRead' /\ CopiesRead'
    BY <2>1 DEF RunInv, NodesRead, SizeRead, CopiesRead
  <2>9. SizeExact' /\ CopiesExact'
    BY <2>1 DEF RunInv, SizeExact, CopiesExact
  <2>10. QED
    BY <2>4, <2>5, <2>7, <2>8, <2>9 DEF RunInv
<1>8. CASE UNCHANGED vars
  <2>1. Wanted' = Wanted /\ UNCHANGED <<view, pc, c, want, cached, decision, outcome, views, failed>>
    BY <1>8 DEF vars, Wanted
  <2>2. TypeOK' /\ ViewsOK' /\ Progress' /\ Decided'
    BY <2>1 DEF RunInv, TypeOK, ViewsOK, Progress, Decided
  <2>3. NodesRead' /\ SizeRead' /\ CopiesRead' /\ SizeExact' /\ CopiesExact'
    BY <2>1 DEF RunInv, NodesRead, SizeRead, CopiesRead, SizeExact, CopiesExact
  <2>4. QED
    BY <2>2, <2>3 DEF RunInv
<1>9. QED
  BY <1>2, <1>3, <1>4, <1>5, <1>6, <1>7, <1>8 DEF Next, Step
-----------------------------------------------------------------------------
(* The inductive invariant holds throughout every behaviour.               *)
LEMMA RunInvariant == Spec => []RunInv
  BY RunInvInit, RunInvStep, PTL DEF Spec

(* Every variable of the command has its type, with any number of nodes.   *)
THEOREM RunTypeOK == Spec => []TypeOK
<1>1. RunInv => TypeOK
  BY DEF RunInv
<1>2. QED
  BY <1>1, RunInvariant, PTL

(* Three answers of one view make the decision of that view.               *)
THEOREM RunOneMoment == Spec => []OneMoment
<1>1. RunInv => OneMoment
  <2> SUFFICES ASSUME RunInv, views = {view}, ~ failed
               PROVE  /\ outcome = "unknown" => Models(view) = {}
                      /\ decision # None =>
                           \E size \in Models(view) :
                             LET d == Schedule(Snapshot(view),
                                               [name |-> target, size |-> size],
                                               {n \in Names : Lists(view, n)} \X {target})
                             IN  decision = [selected |-> d.selected,
                                             runtime |-> d.runtime,
                                             summary |-> d.summary]
    BY DEF OneMoment
  <2>1. Unlisted \notin Models(view)
    BY ModelsType DEF RunInv, TypeOK
  <2>2. outcome = "unknown" => Models(view) = {}
    BY <2>1 DEF RunInv, SizeExact, Progress
  <2>3. ASSUME decision # None
        PROVE  \E size \in Models(view) :
                 LET d == Schedule(Snapshot(view), [name |-> target, size |-> size],
                                   {n \in Names : Lists(view, n)} \X {target})
                 IN  decision = [selected |-> d.selected, runtime |-> d.runtime,
                                 summary |-> d.summary]
    <3>1. c = Snapshot(view)
      BY <2>3 DEF RunInv, NodesRead
    <3>2. want # Unlisted
      BY <2>3 DEF RunInv, Decided
    <3>3. want \in Models(view)
      BY <2>3, <3>2 DEF RunInv, SizeExact
    <3>4. cached = {n \in Names : Lists(view, n)} \X {target}
      BY <2>3 DEF RunInv, CopiesExact, CacheMap
    <3>5. LET d == Schedule(Snapshot(view), Wanted,
                            {n \in Names : Lists(view, n)} \X {target})
          IN  decision = [selected |-> d.selected, runtime |-> d.runtime,
                          summary |-> d.summary]
      BY <2>3, <3>1, <3>4 DEF RunInv, Decided
    <3>6. QED
      BY <3>3, <3>5 DEF Wanted
  <2>4. QED
    BY <2>2, <2>3
<1>2. QED
  BY <1>1, RunInvariant, PTL

(* Whatever changes or fails between the reads, a verdict is backed by what *)
(* was true while the command ran.                                         *)
THEOREM RunAttested == Spec => []Attested
<1>1. RunInv => Attested
  <2> SUFFICES ASSUME RunInv, decision # None PROVE Attested
    BY DEF Attested
  <2> DEFINE s == decision.selected
             d == Schedule(c, Wanted, cached)
  <2>1. PICK u \in views : c = Snapshot(u)
    BY DEF RunInv, NodesRead
  <2>2. want # Unlisted /\ s = d.selected /\ decision.summary = d.summary
    BY DEF RunInv, Decided
  <2>3. PICK v \in views : want \in Models(v)
    BY <2>2 DEF RunInv, SizeRead
  <2>4. /\ \A n \in Names : u[n] \in Shown(n) \cup {Absent}
        /\ \A n \in Names : v[n] \in Shown(n) \cup {Absent}
    BY DEF RunInv, ViewsOK
  <2> DEFINE P == Present(u)
             f == [n \in P |-> u[n].node]
             k == Cardinality(P)
             Serves(n) == /\ u[n] # Absent
                          /\ u[n].node.health = "online"
                          /\ u[n].node.free >= want
  <2>5. ListsByName(c, P, f)
    BY <2>1, <2>4, SnapshotCorrect
  <2>6. ASSUME NEW p \in P
        PROVE  /\ p \in Names /\ u[p] # Absent
               /\ f[p] = u[p].node /\ f[p].name = p
               /\ f[p].free \in Int /\ f[p].util \in Int /\ f[p] # None
    <3>1. p \in Names /\ u[p] # Absent
      BY DEF Present
    <3>2. u[p] \in Shown(p) /\ f[p] = u[p].node
      BY <2>4, <3>1
    <3>3. u[p].node # None
      BY <3>1, <3>2, RunAssumption
    <3> HIDE DEF f, P
    <3>4. QED
      BY <3>1, <3>2, <3>3, ShownType
  <2>7. \A n \in Names : Serves(n) <=> n \in P /\ Viable(f[n], Wanted)
    BY DEF Present, Viable, Fits, Wanted
  <2> HIDE DEF P, f, k, Serves, s, d
  <2>8. \A i \in 1 .. k : \E p \in P : c[i] = f[p]
    BY <2>5 DEF ListsByName, k
  <2>9. Comparable(k, c, Wanted)
    <3>1. Wanted.size = want /\ want \in Int
      <4>1. want \in Sizes /\ Sizes \subseteq Int
        BY <2>3, <2>4, ModelsType, RunAssumption
      <4>2. Wanted.size = want
        BY DEF Wanted
      <4>3. QED
        BY <4>1, <4>2
    <3>2. \A i \in 1 .. k : c[i].free \in Int /\ c[i].util \in Int
      BY <2>6, <2>8
    <3>3. QED
      BY <2>5, <3>1, <3>2 DEF Comparable, ListsByName, k
  <2>10. \A i \in 1 .. k : c[i] # None
    BY <2>6, <2>8
  <2>11. /\ s = None => \A i \in 1 .. k : ~ Viable(c[i], Wanted)
         /\ s # None => \E i \in 1 .. k : /\ Wins(i, k, c, Wanted, cached)
                                          /\ s = c[i]
                                          /\ decision.summary = Reason(c[i], Wanted, cached)
    BY <2>2, <2>9, <2>10, ScheduleCorrect DEF d
  <2>12. s = None => \A n \in Names : ~ Serves(n)
    <3>1. \A p \in P : \E i \in 1 .. k : c[i] = f[p]
      BY <2>5 DEF ListsByName, k
    <3>2. QED
      BY <2>7, <2>11, <3>1
  <2>13. ASSUME s # None
         PROVE  /\ Serves(s.name)
                /\ u[s.name].node = s
                /\ decision.summary = "cached" => \E w \in views : Lists(w, s.name)
    <3>1. PICK i \in 1 .. k : /\ Wins(i, k, c, Wanted, cached)
                              /\ s = c[i]
                              /\ decision.summary = Reason(c[i], Wanted, cached)
      BY <2>11, <2>13
    <3>2. PICK p \in P : c[i] = f[p]
      BY <2>8
    <3>3. s = f[p] /\ s.name = p /\ u[p].node = s /\ p \in Names
      BY <2>6, <3>1, <3>2
    <3>4. Serves(s.name)
      BY <2>7, <3>1, <3>2, <3>3 DEF Wins
    <3>5. ASSUME decision.summary = "cached" PROVE \E w \in views : Lists(w, s.name)
      <4>1. Cached(s, Wanted, cached)
        BY <3>1, <3>5 DEF Reason
      <4>2. <<p, target>> \in cached
        BY <3>3, <4>1 DEF Cached, Wanted
      <4>3. PICK w \in views : <<p, target>> \in CacheMap(w)
        BY <4>2 DEF RunInv, CopiesRead
      <4>4. QED
        BY <3>3, <4>3 DEF CacheMap
    <3>6. QED
      BY <3>3, <3>4, <3>5
  <2>14. QED
    BY <2>3, <2>12, <2>13 DEF Attested, s, Serves
<1>2. QED
  BY <1>1, RunInvariant, PTL
=============================================================================
