---------------------------- MODULE FabricProofs ----------------------------
(***************************************************************************)
(* Proofs about Fabric, for any number of machines and names, any          *)
(* assignment of names to machines, and any intervals and bounds.          *)
(***************************************************************************)
EXTENDS Fabric, TLAPS

(* The thresholds are positive. *)
LEMMA Thresholds ==
  /\ degradedAfter \in Nat /\ 0 < degradedAfter
  /\ evictAfter \in Nat /\ 0 < evictAfter
  BY FabricAssumption DEF degradedAfter, evictAfter

(* A fresh report is shown, with age 0. *)
LEMMA FreshReport ==
  ASSUME NEW r \in Report
  PROVE  /\ NL!Aged(0, r) = [age |-> 0, health |-> "online", report |-> r]
         /\ NL!Aged(0, r) \in NL!ShownNode
         /\ NL!Aged(0, r) # None
<1>1. NL!Aged(0, r) = [age |-> 0, health |-> "online", report |-> r]
  BY Thresholds DEF NL!Aged, NL!Gone
<1>2. r \in [from: Agents, lag: Nat]
  BY FabricAssumption DEF Report
<1>3. QED
  BY <1>1, <1>2, Thresholds, FabricAssumption DEF NL!ShownNode

(* What is shown is a view of a node. *)
LEMMA ShownType ==
  ASSUME NL!TypeOK, NEW n \in Names, shown[n] # None
  PROVE  /\ shown[n].age \in Nat
         /\ shown[n].age < evictAfter
         /\ shown[n].report \in Report
         /\ shown[n].report.from \in Agents
  BY FabricAssumption DEF NL!TypeOK, NL!ShownNode, Report, evictAfter

(* What time makes of a view: it gets older by one, or disappears. *)
LEMMA ElapseView ==
  ASSUME NL!TypeOK, NL!Elapse, NEW n \in Names
  PROVE  /\ shown'[n] \in NL!ShownNode \cup {None}
         /\ shown'[n] # None =>
              /\ shown[n] # None
              /\ shown'[n].age = shown[n].age + 1
              /\ shown'[n].report = shown[n].report
         /\ shown[n] # None /\ shown[n].age + 1 < evictAfter =>
              shown'[n] # None
<1>1. CASE shown[n] = None
  BY <1>1 DEF NL!Elapse, NL!Older
<1>2. CASE shown[n] # None
  <2> DEFINE v == NL!Aged(shown[n].age + 1, shown[n].report)
  <2>1. shown'[n] = v
    BY <1>2 DEF NL!Elapse, NL!Older
  <2>2. CASE shown[n].age + 1 >= evictAfter
    BY <2>1, <2>2, <1>2, ShownType, Thresholds DEF NL!Aged, NL!Gone
  <2>3. CASE ~(shown[n].age + 1 >= evictAfter)
    <3>1. /\ v.age = shown[n].age + 1
          /\ v.report = shown[n].report
          /\ v \in NL!ShownNode
      BY <2>3, <1>2, ShownType, Thresholds DEF NL!Aged, NL!Gone, NL!ShownNode
    <3>2. v \in [age: Nat, health: {"online", "degraded"},
                 report: [from: Agents, lag: Nat]]
      BY <3>1, Thresholds, FabricAssumption DEF NL!ShownNode, Report
    <3>3. v # None
      BY <3>2, FabricAssumption
    <3>4. QED
      BY <2>1, <2>3, <1>2, <3>1, <3>3
  <2>4. QED
    BY <2>2, <2>3
<1>3. QED
  BY <1>1, <1>2

(* Everything starts with its type. *)
LEMMA InitTime == Init => TimeInv
<1> USE FabricAssumption
<1>1. Init => NL!TypeOK
  BY DEF Init, NL!Init, NL!TypeOK
<1>2. 0 \in 0 .. GhostLimit /\ 0 \in 0 .. HeartbeatInterval - 1
  BY Thresholds DEF GhostLimit
<1>3. Init => TypeOK
  <2> SUFFICES ASSUME Init PROVE TypeOK
    OBVIOUS
  <2>1. up \in BOOLEAN /\ net \in SUBSET Message
    BY DEF Init
  <2>2. /\ elapsed \in [Agents -> Nat]
        /\ phase \in [Agents -> 0 .. HeartbeatInterval - 1]
        /\ deadFor \in [Agents -> 0 .. GhostLimit]
    BY <1>2 DEF Init
  <2>3. QED
    BY <1>1, <2>1, <2>2 DEF Init, TypeOK
<1>4. QED
  BY <1>3 DEF Init, TimeInv, Inspecting, Posting

(* Orphaned requests are requests. *)
LEMMA OrphanedType ==
  ASSUME TypeOK, NEW a \in Agents PROVE Orphaned(a) \in SUBSET Message
<1>1. ASSUME NEW m \in net
      PROVE  m \in Message /\ [m EXCEPT !.waiting = FALSE] \in Message
  BY DEF TypeOK, Message
<1>2. QED
  BY <1>1 DEF Orphaned

(* Every step keeps the types, and none but Pass brings a deadline nearer. *)
LEMMA NextTime == TimeInv /\ [Next]_vars => TimeInv'
<1> SUFFICES ASSUME TimeInv, [Next]_vars PROVE TimeInv'
  OBVIOUS
<1> USE FabricAssumption DEF TimeInv, Inspecting, Posting
<1>1. ASSUME NEW a \in Agents, Exit(a) PROVE TimeInv'
  <2>1. 0 \in 0 .. HeartbeatInterval - 1
    OBVIOUS
  <2>2. TypeOK'
    BY <1>1, <2>1, OrphanedType DEF Exit, GoTo, TypeOK, NL!TypeOK
  <2>3. QED
    BY <1>1, <2>2 DEF Exit, GoTo, TypeOK
<1>2. ASSUME NEW a \in Agents, Join(a) PROVE TimeInv'
  BY <1>2, Thresholds DEF Join, GoTo, TypeOK, NL!TypeOK, GhostLimit
<1>3. ASSUME NEW a \in Agents, EndInspect(a) PROVE TimeInv'
  <2> DEFINE m == [from |-> a, waiting |-> TRUE, connected |-> FALSE,
                   transit |-> 0, sample |-> elapsed[a]]
  <2>1. m \in Message
    BY <1>3 DEF EndInspect, TypeOK, Message
  <2>2. net' \in SUBSET Message
    BY <1>3, <2>1 DEF EndInspect, TypeOK
  <2>3. QED
    BY <1>3, <2>2 DEF EndInspect, GoTo, TypeOK, NL!TypeOK
<1>4. ASSUME NEW a \in Agents, PostOk(a) PROVE TimeInv'
  BY <1>4 DEF PostOk, GoTo, TypeOK, NL!TypeOK
<1>5. ASSUME NEW a \in Agents, HeartbeatFails(a) PROVE TimeInv'
  BY <1>5, OrphanedType DEF HeartbeatFails, GoTo, TypeOK, NL!TypeOK
<1>6. ASSUME NEW a \in Agents, Announce(a) PROVE TimeInv'
  BY <1>6 DEF Announce, GoTo, TypeOK, NL!TypeOK
<1>7. ASSUME NEW a \in Agents, Beat(a) PROVE TimeInv'
  BY <1>7 DEF Beat, GoTo, TypeOK, NL!TypeOK
<1>8. ASSUME NEW a \in Agents, Interrupt(a) PROVE TimeInv'
  BY <1>8 DEF Interrupt, TypeOK, NL!TypeOK
<1>9. ASSUME NEW m \in net, Handle(m) PROVE TimeInv'
  <2> DEFINE r == [from |-> m.from, lag |-> m.sample + m.transit]
  <2>1. m \in Message /\ r \in Report /\ NameOf[m.from] \in Names
    BY DEF TypeOK, Message, Report
  <2>2. NL!TypeOK'
    BY <1>9, <2>1, FreshReport DEF Handle, Upsert, NL!Report, TypeOK, NL!TypeOK
  <2>3. QED
    BY <1>9, <2>1, <2>2 DEF Handle, Upsert, TypeOK, Message
<1>10. ASSUME NEW m \in net, Lose(m) PROVE TimeInv'
  BY <1>10 DEF Lose, loopVars, TypeOK, NL!TypeOK, Message
<1>11. ASSUME CtlStop PROVE TimeInv'
  BY <1>11 DEF CtlStop, loopVars, TypeOK, NL!TypeOK, NL!Forget
<1>12. ASSUME CtlStart PROVE TimeInv'
  BY <1>12 DEF CtlStart, loopVars, TypeOK, NL!TypeOK
<1>13. ASSUME Pass PROVE TimeInv'
  <2>1. NL!TypeOK'
    BY <1>13, ElapseView DEF Pass, TypeOK, NL!TypeOK, NL!Elapse, NL!Older
  <2>2. net' \in SUBSET Message
    BY <1>13 DEF Pass, MayPass, TimedOut, TypeOK, Message
  <2>3. phase' \in [Agents -> 0 .. HeartbeatInterval - 1]
    BY <1>13 DEF Pass, TypeOK, Fires, Ticking
  <2>4. deadFor' \in [Agents -> 0 .. GhostLimit]
    BY <1>13, Thresholds DEF Pass, TypeOK, GhostLimit
  <2>5. TypeOK'
    BY <1>13, <2>1, <2>2, <2>3, <2>4 DEF Pass, TypeOK
  <2>6. QED
    BY <1>13, <2>5 DEF Pass, MayPass, TimedOut, TypeOK
<1>14. ASSUME UNCHANGED vars PROVE TimeInv'
  BY <1>14 DEF vars, loopVars, TypeOK, NL!TypeOK
<1>15. ASSUME NEW m \in net, Connect(m) PROVE TimeInv'
  <2>1. [m EXCEPT !.connected = TRUE] \in Message
    BY DEF TypeOK, Message
  <2>2. QED
    BY <1>15, <2>1 DEF Connect, loopVars, TypeOK, NL!TypeOK
<1>16. QED
  BY <1>1, <1>2, <1>3, <1>4, <1>5, <1>6, <1>7, <1>8, <1>9, <1>10, <1>11,
     <1>12, <1>13, <1>14, <1>15
     DEF Next, Step, RegisterFails, Leave, Crash

(* The variables of the fabric keep their types. *)
THEOREM FabricTypeOK == Spec => []TypeOK
<1>1. TimeInv => TypeOK
  BY DEF TimeInv
<1>2. QED
  BY InitTime, NextTime, <1>1, PTL DEF Spec
(* A step that ends no process, sends, delays or handles no request and    *)
(* lets no time pass has nothing to do with ghosts.                        *)
LEMMA GhostFrame ==
  ASSUME GhostInv, TimeInv',
         UNCHANGED <<shown, deadFor>>,
         \A m \in net' : \E k \in net : m.from = k.from /\ m.transit = k.transit,
         \A a \in Agents : pc'[a] # "off" => pc[a] # "off"
  PROVE  GhostInv'
<1>1. \A m \in net' : deadFor'[m.from] <= m.transit
  BY DEF GhostInv
<1>2. QED
  BY <1>1 DEF GhostInv

(* A process that ended has been dead no longer than its requests are old. *)
LEMMA NextGhost == GhostInv /\ [Next]_vars => GhostInv'
<1> SUFFICES ASSUME GhostInv, [Next]_vars PROVE GhostInv'
  OBVIOUS
<1>0. TimeInv /\ TypeOK /\ TimeInv'
  BY NextTime DEF GhostInv, TimeInv
<1>1. ASSUME NEW a \in Agents, Exit(a) PROVE GhostInv'
  <2>1. \A m \in net' : \E k \in net :
           m.from = k.from /\ m.transit = k.transit
    BY <1>0, <1>1 DEF Exit, Orphaned, TypeOK, Message
  <2>2. QED
    BY <1>0, <1>1, <2>1, GhostFrame DEF Exit, GoTo, TypeOK
<1>2. ASSUME NEW a \in Agents, Join(a) PROVE GhostInv'
  <2>1. \A b \in Agents : deadFor'[b] = deadFor[b] \/ deadFor'[b] = 0
    BY <1>0, <1>2 DEF Join, TypeOK
  <2>2. \A m \in net' : deadFor'[m.from] <= m.transit
    BY <1>0, <1>2, <2>1 DEF GhostInv, Join, TypeOK, Message
  <2>3. \A n \in Names : shown'[n] # None =>
          deadFor'[shown'[n].report.from] <= shown'[n].age + MaxDelay
    BY <1>0, <1>2, <2>1, ShownType, FabricAssumption DEF GhostInv, Join, TypeOK
  <2>4. \A b \in Agents : pc'[b] # "off" => deadFor'[b] = 0
    BY <1>0, <1>2, <2>1 DEF GhostInv, Join, GoTo, TypeOK
  <2>5. QED
    BY <1>0, <2>2, <2>3, <2>4 DEF GhostInv
<1>3. ASSUME NEW a \in Agents, EndInspect(a) PROVE GhostInv'
  <2>1. deadFor[a] = 0
    BY <1>3 DEF GhostInv, EndInspect, Inspecting
  <2>2. \A m \in net' : deadFor'[m.from] <= m.transit
    BY <1>3, <2>1 DEF GhostInv, EndInspect
  <2>3. QED
    BY <1>0, <1>3, <2>1, <2>2 DEF GhostInv, EndInspect, GoTo, TypeOK
<1>4. ASSUME NEW a \in Agents, PostOk(a) PROVE GhostInv'
  BY <1>0, <1>4, GhostFrame DEF PostOk, Posting, GoTo, TypeOK
<1>5. ASSUME NEW a \in Agents, HeartbeatFails(a) PROVE GhostInv'
  <2>1. \A m \in net' : \E k \in net :
           m.from = k.from /\ m.transit = k.transit
    BY <1>0, <1>5 DEF HeartbeatFails, Orphaned, TypeOK, Message
  <2>2. QED
    BY <1>0, <1>5, <2>1, GhostFrame DEF HeartbeatFails, GoTo, TypeOK
<1>6. ASSUME NEW a \in Agents, Announce(a) PROVE GhostInv'
  BY <1>0, <1>6, GhostFrame DEF Announce, GoTo, TypeOK
<1>7. ASSUME NEW a \in Agents, Beat(a) PROVE GhostInv'
  BY <1>0, <1>7, GhostFrame DEF Beat, GoTo, TypeOK
<1>8. ASSUME NEW a \in Agents, Interrupt(a) PROVE GhostInv'
  BY <1>0, <1>8, GhostFrame DEF Interrupt
<1>9. ASSUME NEW m \in net, Handle(m) PROVE GhostInv'
  <2> DEFINE r == [from |-> m.from, lag |-> m.sample + m.transit]
  <2>1. /\ m.from \in Agents /\ NameOf[m.from] \in Names
        /\ m.transit \in 0 .. MaxDelay
        /\ r \in Report
    BY <1>0, FabricAssumption DEF TypeOK, Message, Report
  <2>2. deadFor[m.from] <= MaxDelay
    BY <1>0, <2>1, FabricAssumption DEF GhostInv, TypeOK
  <2>3. ASSUME NEW n \in Names, shown'[n] # None
        PROVE  deadFor'[shown'[n].report.from] <= shown'[n].age + MaxDelay
    <3>1. CASE n = NameOf[m.from]
      <4>1. shown'[n].age = 0 /\ shown'[n].report.from = m.from
        BY <1>0, <1>9, <2>1, <3>1, FreshReport
           DEF Handle, Upsert, NL!Report, TypeOK, NL!TypeOK
      <4>2. QED
        BY <1>0, <1>9, <2>1, <2>2, <4>1, FabricAssumption DEF Handle, Upsert, TypeOK
    <3>2. CASE n # NameOf[m.from]
      <4>1. shown'[n] = shown[n]
        BY <1>0, <1>9, <3>2 DEF Handle, Upsert, NL!Report, TypeOK, NL!TypeOK
      <4>2. QED
        BY <1>9, <2>3, <4>1 DEF Handle, Upsert, GhostInv
    <3>3. QED
      BY <3>1, <3>2
  <2>4. QED
    BY <1>0, <1>9, <2>3 DEF GhostInv, Handle, Upsert
<1>10. ASSUME NEW m \in net, Lose(m) PROVE GhostInv'
  BY <1>0, <1>10, GhostFrame DEF Lose, loopVars
<1>11. ASSUME CtlStop PROVE GhostInv'
  BY <1>0, <1>11 DEF GhostInv, CtlStop, loopVars, NL!Forget
<1>12. ASSUME CtlStart PROVE GhostInv'
  BY <1>0, <1>12, GhostFrame DEF CtlStart, loopVars
<1>13. ASSUME Pass PROVE GhostInv'
  <2>1. \A a \in Agents : /\ deadFor[a] \in Nat
                          /\ deadFor'[a] \in Nat
                          /\ deadFor'[a] <= deadFor[a] + 1
                          /\ pc[a] # "off" => deadFor'[a] = deadFor[a]
    BY <1>0, <1>13, Thresholds, FabricAssumption DEF Pass, TypeOK, GhostLimit
  <2>2. ASSUME NEW m \in net' PROVE deadFor'[m.from] <= m.transit
    <3>1. PICK k \in net : m = [k EXCEPT !.transit = @ + 1]
      BY <1>13 DEF Pass
    <3>2. /\ m.from = k.from /\ m.transit = k.transit + 1
          /\ k.from \in Agents /\ k.transit \in Nat
      BY <1>0, <3>1, FabricAssumption DEF TypeOK, Message
    <3>3. QED
      BY <2>1, <3>2 DEF GhostInv
  <2>3. ASSUME NEW n \in Names, shown'[n] # None
        PROVE  deadFor'[shown'[n].report.from] <= shown'[n].age + MaxDelay
    <3>1. /\ shown[n] # None
          /\ shown'[n].age = shown[n].age + 1
          /\ shown'[n].report = shown[n].report
      BY <1>0, <1>13, <2>3, ElapseView DEF Pass, TypeOK
    <3>2. /\ shown[n].age \in Nat /\ shown[n].report.from \in Agents
          /\ deadFor[shown[n].report.from] <= shown[n].age + MaxDelay
      BY <1>0, <3>1, ShownType DEF TypeOK, GhostInv
    <3>3. QED
      BY <2>1, <3>1, <3>2, FabricAssumption
  <2>4. \A a \in Agents : pc'[a] # "off" => deadFor'[a] = 0
    BY <1>13, <2>1 DEF Pass, GhostInv
  <2>5. QED
    BY <1>0, <2>2, <2>3, <2>4 DEF GhostInv
<1>14. ASSUME UNCHANGED vars PROVE GhostInv'
  BY <1>0, <1>14, GhostFrame DEF vars, loopVars
<1>15. ASSUME NEW m \in net, Connect(m) PROVE GhostInv'
  <2>1. \A k \in net' : \E l \in net : k.from = l.from /\ k.transit = l.transit
    BY <1>0, <1>15 DEF Connect, TypeOK, Message
  <2>2. QED
    BY <1>0, <1>15, <2>1, GhostFrame DEF Connect, loopVars
<1>16. QED
  BY <1>1, <1>2, <1>3, <1>4, <1>5, <1>6, <1>7, <1>8, <1>9, <1>10, <1>11,
     <1>12, <1>13, <1>14, <1>15
     DEF Next, Step, RegisterFails, Leave, Crash

(* Whatever a dead machine still has under way, or is shown of it, was sent*)
(* before it died.                                                         *)
THEOREM FabricGhostInv == Spec => []GhostInv
<1>1. Init => GhostInv
  BY InitTime DEF Init, GhostInv, NL!Init
<1>2. QED
  BY <1>1, NextGhost, PTL DEF Spec

(* A machine that is gone is not shown longer than the eviction threshold  *)
(* and the longest delay of a request, whatever it still had under way.    *)
THEOREM FabricGhostBound == Spec => []GhostBound
<1>1. GhostInv => GhostBound
  <2> SUFFICES ASSUME GhostInv, NEW a \in Agents, ShownFor(a)
               PROVE  deadFor[a] < GhostLimit
    BY DEF GhostBound
  <2>1. /\ TypeOK /\ NameOf[a] \in Names
        /\ shown[NameOf[a]] # None /\ shown[NameOf[a]].report.from = a
    BY FabricAssumption DEF GhostInv, TimeInv, ShownFor
  <2>2. /\ shown[NameOf[a]].age \in Nat /\ shown[NameOf[a]].age < evictAfter
        /\ deadFor[a] <= shown[NameOf[a]].age + MaxDelay
    BY <2>1, ShownType DEF TypeOK, GhostInv
  <2>3. QED
    BY <2>1, <2>2, Thresholds, FabricAssumption DEF TypeOK, GhostLimit
<1>2. QED
  BY <1>1, FabricGhostInv, PTL
(* Every step keeps the answer each agent waits for unique. *)
LEMMA NextWait == WaitInv /\ [Next]_vars => WaitInv'
<1> SUFFICES ASSUME WaitInv, [Next]_vars PROVE WaitInv'
  OBVIOUS
<1>0. TimeInv /\ TypeOK /\ TimeInv'
  BY NextTime DEF WaitInv, TimeInv
<1> USE <1>0 DEF WaitInv, Posting, Inspecting
<1>1. ASSUME NEW a \in Agents, net' = Orphaned(a),
             \A b \in Agents \ {a} : pc'[b] = pc[b] /\ answered'[b] = answered[b]
      PROVE  WaitInv'
  <2>1. \A m \in net' : m \in Message /\ (m.waiting => m \in net /\ m.from # a)
    BY <1>1, OrphanedType DEF Orphaned, TypeOK, Message
  <2>2. QED
    BY <1>1, <2>1 DEF TypeOK, Message
<1>2. ASSUME NEW a \in Agents, Exit(a) PROVE WaitInv'
  BY <1>1, <1>2 DEF Exit, GoTo, TypeOK
<1>3. ASSUME NEW a \in Agents, Join(a) PROVE WaitInv'
  BY <1>3 DEF Join, GoTo, TypeOK, Message
<1>4. ASSUME NEW a \in Agents, EndInspect(a) PROVE WaitInv'
  <2> DEFINE m == [from |-> a, waiting |-> TRUE, connected |-> FALSE,
                   transit |-> 0, sample |-> elapsed[a]]
  <2>1. net' = net \cup {m}
    BY <1>4 DEF EndInspect
  <2>2. \A k \in net : k.waiting => k.from # a
    BY <1>4 DEF EndInspect
  <2>3. Posting(a)' /\ ~answered'[a]
    BY <1>4 DEF EndInspect, GoTo, TypeOK
  <2>4. \A b \in Agents \ {a} : pc'[b] = pc[b] /\ answered'[b] = answered[b]
    BY <1>4 DEF EndInspect, GoTo, TypeOK
  <2>5. m.from = a
    OBVIOUS
  <2> HIDE DEF m
  <2>6. \A k \in net' : k.waiting =>
           \/ k = m
           \/ k \in net /\ k.from \in Agents \ {a}
    BY <2>1, <2>2 DEF TypeOK, Message
  <2>7. \A k \in net' : k.waiting => Posting(k.from)' /\ ~answered'[k.from]
    BY <2>3, <2>4, <2>5, <2>6
  <2>8. QED
    BY <2>5, <2>6, <2>7
<1>5. ASSUME NEW a \in Agents, PostOk(a) PROVE WaitInv'
  BY <1>5 DEF PostOk, GoTo, TypeOK, Message
<1>6. ASSUME NEW a \in Agents, HeartbeatFails(a) PROVE WaitInv'
  BY <1>1, <1>6 DEF HeartbeatFails, GoTo, TypeOK
<1>7. ASSUME NEW a \in Agents, Announce(a) PROVE WaitInv'
  BY <1>7 DEF Announce, GoTo, TypeOK, Message
<1>8. ASSUME NEW a \in Agents, Beat(a) PROVE WaitInv'
  BY <1>8 DEF Beat, GoTo, TypeOK, Message
<1>9. ASSUME NEW a \in Agents, Interrupt(a) PROVE WaitInv'
  BY <1>9 DEF Interrupt
<1>10. ASSUME NEW m \in net, Handle(m) PROVE WaitInv'
  <2>1. \A k \in net' : k \in net /\ (k.waiting /\ m.waiting => k.from # m.from)
    BY <1>10 DEF Handle, Upsert
  <2>2. \A b \in Agents : answered'[b] = (answered[b] \/ (b = m.from /\ m.waiting))
    BY <1>10 DEF Handle, Upsert, TypeOK, Message
  <2>3. pc' = pc
    BY <1>10 DEF Handle, Upsert
  <2>4. QED
    BY <2>1, <2>2, <2>3 DEF TypeOK, Message
<1>11. ASSUME NEW m \in net, Lose(m) PROVE WaitInv'
  BY <1>11 DEF Lose, loopVars
<1>12. ASSUME CtlStop PROVE WaitInv'
  BY <1>12 DEF CtlStop, loopVars
<1>13. ASSUME CtlStart PROVE WaitInv'
  BY <1>13 DEF CtlStart, loopVars
<1>14. ASSUME Pass PROVE WaitInv'
  <2>1. \A m \in net' : \E k \in net :
           /\ m = [k EXCEPT !.transit = k.transit + 1]
           /\ m.from = k.from /\ m.waiting = k.waiting
    BY <1>14 DEF Pass, TypeOK, Message
  <2>2. pc' = pc /\ answered' = answered
    BY <1>14 DEF Pass
  <2>3. \A m, k \in net' : m.waiting /\ k.waiting /\ m.from = k.from => m = k
    BY <2>1
  <2>4. QED
    BY <2>1, <2>2, <2>3
<1>15. ASSUME UNCHANGED vars PROVE WaitInv'
  BY <1>15 DEF vars, loopVars
<1>16. ASSUME NEW m \in net, Connect(m) PROVE WaitInv'
  <2> DEFINE c == [m EXCEPT !.connected = TRUE]
  <2>1. net' = (net \ {m}) \cup {c} /\ pc' = pc /\ answered' = answered
    BY <1>16 DEF Connect, loopVars
  <2>2. c.from = m.from /\ c.waiting = m.waiting
    BY DEF TypeOK, Message
  <2> HIDE DEF c
  <2>3. \A k \in net' : k = c \/ (k \in net /\ k # m)
    BY <2>1
  <2>4. \A k \in net' : k.waiting => Posting(k.from)' /\ ~answered'[k.from]
    BY <2>1, <2>2, <2>3
  <2>5. \A k, l \in net' : k.waiting /\ l.waiting /\ k.from = l.from => k = l
    BY <2>2, <2>3
  <2>6. QED
    BY <2>4, <2>5
<1>17. QED
  BY <1>2, <1>3, <1>4, <1>5, <1>6, <1>7, <1>8, <1>9, <1>10, <1>11, <1>12,
     <1>13, <1>14, <1>15, <1>16
     DEF Next, Step, RegisterFails, Leave, Crash
(* What other agents do to themselves leaves an agent's report as it was.  *)
LEMMA SteadyFrame ==
  ASSUME NEW a \in Agents, Steady(a),
         UNCHANGED <<up, shown>>,
         pc'[a] = pc[a], elapsed'[a] = elapsed[a], phase'[a] = phase[a],
         tick'[a] = tick[a], answered'[a] = answered[a],
         lapsed[a] => lapsed'[a]
  PROVE  Steady(a)'
  BY DEF Steady, AgeLimit

(* An agent may go where a report may be at least as old. *)
LEMMA SteadyMove ==
  ASSUME TypeOK, TypeOK', NEW a \in Agents, Steady(a),
         UNCHANGED <<up, shown>>,
         lapsed[a] => lapsed'[a],
         ~lapsed[a] => /\ pc[a] \notin {"off", "regInspect"}
                       /\ pc'[a] \notin {"off", "regInspect", "regPost"}
                       /\ AgeLimit(a) <= AgeLimit(a)'
  PROVE  Steady(a)'
<1> SUFFICES ASSUME ~lapsed[a] PROVE Steady(a)'
  BY DEF Steady
<1>1. AgeLimit(a) \in Nat /\ AgeLimit(a)' \in Nat
  BY FabricAssumption DEF AgeLimit, TypeOK, Steady
<1>2. shown[NameOf[a]].age \in Nat
  BY ShownType, FabricAssumption DEF TypeOK, Steady
<1>3. QED
  BY <1>1, <1>2 DEF Steady

(* If the thresholds leave room, a report is renewed before it expires. *)
LEMMA NextSteady == SteadyInv /\ [Next]_vars => SteadyInv'
<1> SUFFICES ASSUME SteadyInv, [Next]_vars, Prompt, NEW b \in Agents
             PROVE  Steady(b)'
  BY NextWait DEF SteadyInv, Prompt, evictAfter
<1>0. /\ WaitInv /\ TimeInv /\ TypeOK /\ Steady(b)
      /\ WaitInv' /\ TimeInv' /\ TypeOK'
  BY NextWait DEF SteadyInv, WaitInv, TimeInv
<1>1. ASSUME NEW a \in Agents, Exit(a) PROVE Steady(b)'
  <2>1. CASE b = a
    BY <1>0, <1>1, <2>1 DEF Exit, Steady, TypeOK
  <2>2. CASE b # a
    BY <1>0, <1>1, <2>2, SteadyFrame DEF Exit, GoTo, TypeOK
  <2>3. QED
    BY <2>1, <2>2
<1>2. ASSUME NEW a \in Agents, Join(a) PROVE Steady(b)'
  <2>1. CASE b = a
    BY <1>0, <1>2, <2>1 DEF Join, Steady, TypeOK
  <2>2. CASE b # a
    BY <1>0, <1>2, <2>2, SteadyFrame DEF Join, GoTo, TypeOK
  <2>3. QED
    BY <2>1, <2>2
<1>3. ASSUME NEW a \in Agents, EndInspect(a) PROVE Steady(b)'
  <2>1. CASE b = a
    <3>1. ASSUME ~lapsed[b]
          PROVE  /\ pc[b] = "inspect" /\ pc'[b] = "post"
                 /\ elapsed'[b] = 0 /\ ~answered'[b]
                 /\ elapsed[b] <= MaxInspect
      BY <1>0, <1>3, <2>1, <3>1
         DEF EndInspect, Inspecting, GoTo, Steady, TypeOK, TimeInv
    <3>2. ASSUME ~lapsed[b] PROVE AgeLimit(b) <= AgeLimit(b)'
      BY <1>0, <3>1, <3>2, FabricAssumption DEF AgeLimit, TypeOK
    <3>3. QED
      BY <1>0, <1>3, <3>1, <3>2, SteadyMove DEF EndInspect
  <2>2. CASE b # a
    BY <1>0, <1>3, <2>2, SteadyFrame DEF EndInspect, GoTo, TypeOK
  <2>3. QED
    BY <2>1, <2>2
<1>4. ASSUME NEW a \in Agents, PostOk(a) PROVE Steady(b)'
  <2>1. CASE b = a
    <3>1. /\ Posting(b) /\ answered[b] /\ elapsed'[b] = 0
          /\ pc'[b] \in {"announce", "wait"}
          /\ elapsed[b] <= PostTimeout
          /\ UNCHANGED <<up, shown, lapsed, phase, tick, answered>>
      BY <1>0, <1>4, <2>1 DEF PostOk, GoTo, TypeOK, TimeInv
    <3>2. AgeLimit(b) <= AgeLimit(b)'
      BY <1>0, <3>1, FabricAssumption DEF AgeLimit, Posting, TypeOK
    <3>3. QED
      BY <1>0, <3>1, <3>2, SteadyMove DEF Posting
  <2>2. CASE b # a
    BY <1>0, <1>4, <2>2, SteadyFrame DEF PostOk, GoTo, TypeOK
  <2>3. QED
    BY <2>1, <2>2
<1>5. ASSUME NEW a \in Agents, HeartbeatFails(a) PROVE Steady(b)'
  <2>1. CASE b = a
    <3>1. /\ pc[b] = "post" /\ elapsed'[b] = 0 /\ pc'[b] = "wait"
          /\ elapsed[b] <= PostTimeout
          /\ lapsed'[b] = (lapsed[b] \/ ~answered[b])
          /\ UNCHANGED <<up, shown, phase, tick, answered>>
      BY <1>0, <1>5, <2>1 DEF HeartbeatFails, Posting, GoTo, TypeOK, TimeInv
    <3>2. CASE answered[b]
      <4>1. AgeLimit(b) <= AgeLimit(b)'
        BY <1>0, <3>1, <3>2, FabricAssumption DEF AgeLimit, TypeOK
      <4>2. QED
        BY <1>0, <3>1, <4>1, SteadyMove
    <3>3. CASE ~answered[b]
      BY <3>1, <3>3 DEF Steady
    <3>4. QED
      BY <3>2, <3>3
  <2>2. CASE b # a
    BY <1>0, <1>5, <2>2, SteadyFrame DEF HeartbeatFails, GoTo, TypeOK
  <2>3. QED
    BY <2>1, <2>2
<1>6. ASSUME NEW a \in Agents, Announce(a) PROVE Steady(b)'
  <2>1. CASE b = a
    <3>1. /\ pc[b] = "announce" /\ pc'[b] = "wait"
          /\ phase'[b] = 0 /\ ~tick'[b]
          /\ elapsed[b] <= MaxInspect
          /\ UNCHANGED <<up, shown, lapsed>>
      BY <1>0, <1>6, <2>1 DEF Announce, GoTo, TypeOK, TimeInv
    <3>2. AgeLimit(b) <= AgeLimit(b)'
      BY <1>0, <3>1, FabricAssumption DEF AgeLimit, TypeOK
    <3>3. QED
      BY <1>0, <3>1, <3>2, SteadyMove
  <2>2. CASE b # a
    BY <1>0, <1>6, <2>2, SteadyFrame DEF Announce, GoTo, TypeOK
  <2>3. QED
    BY <2>1, <2>2
<1>7. ASSUME NEW a \in Agents, Beat(a) PROVE Steady(b)'
  <2>1. CASE b = a
    <3>1. /\ pc[b] = "wait" /\ pc'[b] = "inspect"
          /\ tick[b] /\ elapsed'[b] = 0
          /\ UNCHANGED <<up, shown, lapsed>>
      BY <1>0, <1>7, <2>1 DEF Beat, GoTo, TypeOK
    <3>2. AgeLimit(b) <= AgeLimit(b)'
      BY <1>0, <3>1, FabricAssumption DEF AgeLimit, TypeOK
    <3>3. QED
      BY <1>0, <3>1, <3>2, SteadyMove
  <2>2. CASE b # a
    BY <1>0, <1>7, <2>2, SteadyFrame DEF Beat, GoTo, TypeOK
  <2>3. QED
    BY <2>1, <2>2
<1>8. ASSUME NEW a \in Agents, Interrupt(a) PROVE Steady(b)'
  BY <1>0, <1>8, SteadyFrame DEF Interrupt
<1>9. ASSUME NEW m \in net, Handle(m) PROVE Steady(b)'
  <2> DEFINE r == [from |-> m.from, lag |-> m.sample + m.transit]
  <2>1. /\ m \in Message /\ r \in Report
        /\ NameOf[m.from] \in Names /\ NameOf[b] \in Names
    BY <1>0, FabricAssumption DEF TypeOK, Message, Report
  <2>2. /\ pc' = pc /\ elapsed' = elapsed /\ up' = up /\ up
        /\ m.waiting => Posting(m.from)
    BY <1>0, <1>9 DEF Handle, Upsert, WaitInv
  <2>3. /\ answered'[b] = (answered[b] \/ (b = m.from /\ m.waiting))
        /\ lapsed'[b] = (lapsed[b] /\ ~(b = m.from /\ m.waiting))
    BY <1>0, <1>9, <2>1 DEF Handle, Upsert, TypeOK, Message
  <2>4. ASSUME ~lapsed'[b]
        PROVE  /\ pc'[b] \notin {"off", "regInspect"}
               /\ pc'[b] = "regPost" => answered'[b]
               /\ b # m.from => shown[NameOf[b]] # None
    BY <1>0, <2>2, <2>3, <2>4 DEF Steady, Posting
  <2>5. CASE NameOf[b] = NameOf[m.from]
    <3>1. shown'[NameOf[b]] # None /\ shown'[NameOf[b]].age = 0
      BY <1>0, <1>9, <2>1, <2>5, FreshReport
         DEF Handle, Upsert, NL!Report, TypeOK, NL!TypeOK
    <3>2. ASSUME ~lapsed'[b] PROVE 0 <= AgeLimit(b)'
      BY <1>0, <2>4, <3>2, FabricAssumption DEF AgeLimit, TypeOK
    <3>3. QED
      BY <2>2, <2>4, <3>1, <3>2 DEF Steady
  <2>6. CASE NameOf[b] # NameOf[m.from]
    <3>1. shown'[NameOf[b]] = shown[NameOf[b]] /\ b # m.from
      BY <1>0, <1>9, <2>6 DEF Handle, Upsert, NL!Report, TypeOK, NL!TypeOK
    <3>2. answered'[b] = answered[b] /\ lapsed'[b] = lapsed[b]
      BY <1>0, <2>3, <3>1 DEF TypeOK
    <3>3. QED
      BY <1>0, <1>9, <2>2, <3>1, <3>2 DEF Steady, AgeLimit, Handle, Upsert
  <2>7. QED
    BY <2>5, <2>6
<1>10. ASSUME NEW m \in net, Lose(m) PROVE Steady(b)'
  BY <1>0, <1>10, SteadyFrame DEF Lose, loopVars, TypeOK, Message
<1>11. ASSUME CtlStop PROVE Steady(b)'
  BY <1>11 DEF CtlStop, Steady
<1>12. ASSUME CtlStart PROVE Steady(b)'
  BY <1>0, <1>12 DEF CtlStart, Steady
<1>13. ASSUME Pass PROVE Steady(b)'
  <2> SUFFICES ASSUME ~lapsed[b] PROVE Steady(b)'
    BY <1>13 DEF Pass, Steady
  <2>1. /\ UNCHANGED <<up, pc, answered, lapsed>>
        /\ pc[b] \notin {"off", "regInspect"}
        /\ shown[NameOf[b]] # None /\ NameOf[b] \in Names
        /\ shown[NameOf[b]].age <= AgeLimit(b)
    BY <1>0, <1>13, FabricAssumption DEF Pass, Steady
  <2>2. AgeLimit(b)' = AgeLimit(b) + 1 /\ AgeLimit(b) + 1 < evictAfter
    <3>1. CASE pc[b] = "wait"
      <4>1. ~tick[b] /\ phase[b] + 1 <= HeartbeatInterval
        BY <1>0, <1>13, <3>1, FabricAssumption DEF Pass, MayPass, TimedOut, TypeOK
      <4>2. /\ Fires(b) => phase[b] + 1 = HeartbeatInterval
            /\ tick'[b] = Fires(b)
            /\ ~Fires(b) => phase'[b] = phase[b] + 1
        BY <1>0, <1>13, <3>1, <4>1 DEF Pass, Fires, Ticking, TypeOK
      <4>3. QED
        BY <1>0, <2>1, <3>1, <4>1, <4>2, FabricAssumption, Thresholds
           DEF AgeLimit, TypeOK, Prompt
    <3>2. CASE pc[b] # "wait"
      <4>1. elapsed'[b] = elapsed[b] + 1
        BY <1>0, <1>13, <2>1, <3>2 DEF Pass, TypeOK
      <4>2. /\ Posting(b) => elapsed[b] < PostTimeout
            /\ ~Posting(b) => elapsed[b] < MaxInspect
            /\ Posting(b) \/ pc[b] \in {"inspect", "announce"}
        BY <1>0, <1>13, <2>1, <3>2, FabricAssumption
           DEF Pass, MayPass, TimedOut, Inspecting, Posting, TypeOK
      <4>3. QED
        BY <1>0, <2>1, <3>2, <4>1, <4>2, FabricAssumption, Thresholds
           DEF AgeLimit, Posting, TypeOK, Prompt
    <3>3. QED
      BY <3>1, <3>2
  <2>3. AgeLimit(b) \in Nat /\ shown[NameOf[b]].age \in Nat
    BY <1>0, <2>1, FabricAssumption, ShownType DEF AgeLimit, TypeOK
  <2>4. shown[NameOf[b]].age + 1 < evictAfter
    BY <2>1, <2>2, <2>3, Thresholds
  <2>5. /\ shown'[NameOf[b]] # None
        /\ shown'[NameOf[b]].age = shown[NameOf[b]].age + 1
    BY <1>0, <1>13, <2>1, <2>4, ElapseView DEF Pass, TypeOK
  <2>6. QED
    BY <1>0, <2>1, <2>2, <2>3, <2>5 DEF Steady
<1>14. ASSUME UNCHANGED vars PROVE Steady(b)'
  BY <1>0, <1>14, SteadyFrame DEF vars, loopVars
<1>15. ASSUME NEW m \in net, Connect(m) PROVE Steady(b)'
  BY <1>0, <1>15, SteadyFrame DEF Connect, loopVars
<1>16. QED
  BY <1>1, <1>2, <1>3, <1>4, <1>5, <1>6, <1>7, <1>8, <1>9, <1>10, <1>11,
     <1>12, <1>13, <1>14, <1>15
     DEF Next, Step, RegisterFails, Leave, Crash

(* At every place of the agent's loop the last report is no older than the *)
(* sum of what can have delayed the next one so far.                       *)
THEOREM FabricSteadyInv == Spec => []SteadyInv
<1>1. Init => SteadyInv
  BY InitTime DEF Init, SteadyInv, WaitInv, Steady
<1>2. QED
  BY <1>1, NextSteady, PTL DEF Spec

(* If the thresholds leave room for late answers and slow inspections, a   *)
(* joined machine whose reports arrive never drops out of the fabric.      *)
THEOREM FabricSteadyShown == Spec => []SteadyShown
<1>1. SteadyInv => SteadyShown
  BY DEF SteadyInv, SteadyShown, Steady
<1>2. QED
  BY <1>1, FabricSteadyInv, PTL
=============================================================================
