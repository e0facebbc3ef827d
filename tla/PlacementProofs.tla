-------------------------- MODULE PlacementProofs ---------------------------
(***************************************************************************)
(* The properties of Placement, for any number of nodes, any figures they  *)
(* report and any model.  They rest on what Schedule decides in one state  *)
(* (SchedulerProofs): the winner is the eligible node that outranks every  *)
(* other eligible one, so it depends on nothing but the scores and names.  *)
(***************************************************************************)
EXTENDS Placement, SchedulerProofs

(* Reports, pulls and departures leave a state of every node.              *)
THEOREM PlacementTypeOK == Spec => []TypeOK
<1>1. Init => TypeOK
  BY DEF Init, TypeOK
<1>2. TypeOK /\ [Next]_vars => TypeOK'
  <2> SUFFICES ASSUME TypeOK, [Next]_vars PROVE TypeOK'
    OBVIOUS
  <2>1. ASSUME NEW n \in Names, Change(n) PROVE TypeOK'
    BY <2>1 DEF Change, TypeOK
  <2>2. ASSUME NEW n \in Names, Pull(n) PROVE TypeOK'
    BY <2>2 DEF Pull, TypeOK
  <2>3. ASSUME NEW n \in Names, Drop(n) PROVE TypeOK'
    BY <2>3 DEF Drop, TypeOK
  <2>4. CASE UNCHANGED vars
    BY <2>4 DEF vars, TypeOK
  <2>5. QED
    BY <2>1, <2>2, <2>3, <2>4 DEF Next
<1>3. QED
  BY <1>1, <1>2, PTL DEF Spec
-----------------------------------------------------------------------------
Place(n) == Score(nodes[n], model, cached)

(* Node n is eligible and outranks every other eligible node.              *)
Outranks(n, m) == Place(n) > Place(m) \/ (Place(n) = Place(m) /\ n < m)

Best(n) ==
  /\ n \in Names
  /\ Eligible(n)
  /\ \A m \in Names \ {n} : Eligible(m) => Outranks(n, m)

(* What a node reports. *)
LEMMA StateType ==
  ASSUME NEW n, NEW s \in State(n)
  PROVE  s.name = n /\ s.free \in Int /\ s.util \in Int
<1>1. s.name \in {n} /\ s.free \in Frees /\ s.util \in Utils
  BY DEF State
<1>2. Frees \subseteq Int /\ Utils \subseteq Int
  BY PlacementAssumption
<1>3. QED
  BY <1>1, <1>2

(* The cluster lists the nodes that are there, by name.                    *)
LEMMA ClusterCorrect ==
  ASSUME TypeOK
  PROVE  /\ ListsByName(Cluster, Present, nodes)
         /\ Comparable(Cardinality(Present), Cluster, model)
<1> DEFINE n == Cardinality(Present)
<1>1. IsFiniteSet(Names)
  BY FS_Interval, PlacementAssumption DEF Names
<1>2. IsFiniteSet(Present) /\ Present \subseteq Int
  BY <1>1, FS_Subset, PlacementAssumption DEF Present, Names
<1>3. \A p \in Present : p \in Names /\ nodes[p] \in State(p)
  BY DEF TypeOK, Present
<1>4. \A p \in Present :
        nodes[p].name = p /\ nodes[p].free \in Int /\ nodes[p].util \in Int
  BY <1>3, StateType
<1>5. ListsByName(Cluster, Present, nodes)
  <2> DEFINE S == {nodes[p] : p \in Present}
  <2>1. \A p \in Present : nodes[p].name = p
    BY <1>4
  <2>2. (\A p \in Present : nodes[p] \in S) /\ \A s \in S : \E p \in Present : s = nodes[p]
    OBVIOUS
  <2>3. Cluster = SortByName(S)
    BY DEF Cluster
  <2> HIDE DEF S
  <2>4. QED
    BY <1>2, <2>1, <2>2, <2>3, MapByName
<1>6. \A k \in 1 .. n : Cluster[k].free \in Int /\ Cluster[k].util \in Int
  BY <1>4, <1>5 DEF ListsByName
<1>7. QED
  BY <1>5, <1>6, PlacementAssumption DEF Comparable, ListsByName

(* What is decided in a state.                                             *)
LEMMA DecisionCorrect ==
  ASSUME TypeOK
  PROVE  LET s == Decision.selected
         IN  /\ s = None => \A n \in Names : ~ Eligible(n)
             /\ s # None => \E n \in Names : Best(n) /\ s = nodes[n] /\ s.name = n
<1> DEFINE n == Cardinality(Present)
           s == Decision.selected
<1>1. /\ Comparable(n, Cluster, model)
      /\ \A k \in 1 .. n : \E p \in Present : Cluster[k] = nodes[p]
      /\ \A p \in Present : \E k \in 1 .. n : Cluster[k] = nodes[p]
      /\ \A i, j \in 1 .. n : i < j => Cluster[i].name < Cluster[j].name
  BY ClusterCorrect DEF ListsByName
<1>2. \A p \in Present : p \in Names /\ nodes[p] \in State(p) /\ nodes[p].name = p
                         /\ nodes[p] # None /\ p \in Int
  BY PlacementAssumption DEF TypeOK, Present, State, Names
<1>3. \A p \in Names : Eligible(p) <=> p \in Present /\ Viable(nodes[p], model)
  BY DEF Eligible, Present, Viable, Fits
<1>4. \A k \in 1 .. n : Cluster[k] # None
  BY <1>1, <1>2
<1>5. /\ s = None => \A i \in 1 .. n : ~ Viable(Cluster[i], model)
      /\ s # None => \E i \in 1 .. n : Wins(i, n, Cluster, model, cached) /\ s = Cluster[i]
  BY <1>1, <1>4, ScheduleCorrect DEF Decision
<1>6. s = None => \A p \in Names : ~ Eligible(p)
  BY <1>1, <1>3, <1>5
<1>7. ASSUME s # None
      PROVE  \E p \in Names : Best(p) /\ s = nodes[p] /\ s.name = p
  <2>1. PICK i \in 1 .. n : Wins(i, n, Cluster, model, cached) /\ s = Cluster[i]
    BY <1>5, <1>7
  <2>2. PICK p \in Present : Cluster[i] = nodes[p]
    BY <1>1
  <2>3. p \in Names /\ Eligible(p)
    BY <1>2, <1>3, <2>1, <2>2 DEF Wins
  <2>4. ASSUME NEW m \in Names \ {p}, Eligible(m) PROVE Outranks(p, m)
    <3>1. m \in Present /\ Viable(nodes[m], model)
      BY <1>3, <2>4
    <3>2. PICK j \in 1 .. n : Cluster[j] = nodes[m]
      BY <1>1, <3>1
    <3>3. Cluster[i].name = p /\ Cluster[j].name = m /\ j # i
      BY <1>2, <2>2, <2>4, <3>1, <3>2
    <3>4. \/ Place(p) > Place(m)
          \/ Place(p) = Place(m) /\ i < j
      BY <2>1, <2>2, <3>1, <3>2, <3>3 DEF Wins, Place
    <3>5. i < j => p < m
      BY <1>1, <3>3
    <3>6. QED
      BY <3>4, <3>5 DEF Outranks
  <2>5. Best(p)
    BY <2>3, <2>4 DEF Best
  <2>6. QED
    BY <1>2, <2>1, <2>2, <2>3, <2>5
<1>8. QED
  BY <1>6, <1>7

(* No two nodes are best, so the winner is the best node.                  *)
LEMMA WinnerIsBest ==
  TypeOK => /\ \A n \in Names : Winner = {n} <=> Best(n)
            /\ Winner = {} \/ \E n \in Names : Winner = {n}
<1> SUFFICES ASSUME TypeOK
             PROVE  /\ \A n \in Names : Winner = {n} <=> Best(n)
                    /\ Winner = {} \/ \E n \in Names : Winner = {n}
  OBVIOUS
<1> DEFINE s == Decision.selected
<1>1. /\ s = None => \A n \in Names : ~ Eligible(n)
      /\ s # None => \E n \in Names : Best(n) /\ s = nodes[n] /\ s.name = n
  BY DecisionCorrect
<1>2. \A n, m \in Names : Best(n) /\ Best(m) => n = m
  <2>1. \A n \in Names : Eligible(n) => Place(n) \in Int
    <3>1. ASSUME NEW n \in Names, Eligible(n) PROVE Place(n) \in Int
      <4>1. nodes[n].free \in Int /\ nodes[n].util \in Int
        BY <3>1, StateType DEF Eligible, TypeOK
      <4>2. QED
        BY <4>1, PlacementAssumption DEF Place, Score
    <3>2. QED
      BY <3>1
  <2>2. \A n \in Names : n \in Int
    BY PlacementAssumption DEF Names
  <2>3. QED
    BY <2>1, <2>2 DEF Best, Outranks
<1> HIDE DEF s
<1>3. CASE s = None
  <2>1. Winner = {}
    BY <1>3 DEF Winner, s
  <2>2. \A n \in Names : ~ Best(n)
    BY <1>1, <1>3 DEF Best
  <2>3. QED
    BY <2>1, <2>2
<1>4. CASE s # None
  <2>1. PICK n \in Names : Best(n) /\ s = nodes[n] /\ s.name = n
    BY <1>1, <1>4
  <2>2. Winner = {s.name}
    BY <1>4 DEF Winner, s
  <2>3. Winner = {n}
    BY <2>1, <2>2
  <2>4. QED
    BY <1>2, <2>1, <2>3
<1>5. QED
  BY <1>3, <1>4
-----------------------------------------------------------------------------
(* A node is selected exactly if one is eligible, and it is eligible.      *)
THEOREM PlacementSelectsEligible == Spec => []SelectsEligible
<1>1. TypeOK => SelectsEligible
  <2> SUFFICES ASSUME TypeOK PROVE SelectsEligible
    OBVIOUS
  <2> DEFINE s == Decision.selected
  <2>1. /\ s = None => \A n \in Names : ~ Eligible(n)
        /\ s # None => \E n \in Names : Best(n) /\ s = nodes[n] /\ s.name = n
    BY DecisionCorrect
  <2> HIDE DEF s
  <2>2. s # None => nodes[s.name] = s /\ Eligible(s.name)
    BY <2>1 DEF Best
  <2>3. QED
    BY <2>1, <2>2 DEF SelectsEligible, s
<1>2. QED
  BY <1>1, PlacementTypeOK, PTL

(* Every node of the snapshot is a candidate, the best ones first.         *)
THEOREM PlacementBestFirst == Spec => []BestFirst
<1>1. TypeOK => BestFirst
  <2> SUFFICES ASSUME TypeOK PROVE BestFirst
    OBVIOUS
  <2> DEFINE n == Cardinality(Present)
             C(i) == Candidate(i, Cluster[i], model, cached)
             S == {C(i) : i \in 1 .. n}
             cs == Decision.candidates
  <2>1. Comparable(n, Cluster, model) /\ ListsByName(Cluster, Present, nodes)
    BY ClusterCorrect
  <2>2. \A p \in Present : nodes[p].name = p /\ nodes[p] # None
    <3>1. \A p \in Present : nodes[p] \in State(p) /\ p \in Names
      BY DEF Present, TypeOK
    <3>2. QED
      BY <3>1, StateType, PlacementAssumption
  <2>3. \A i \in 1 .. n : Cluster[i] # None
    BY <2>1, <2>2 DEF ListsByName
  <2>4. cs = Ranked(Cluster, model, cached)
    BY <2>1, <2>3, ScheduleCorrect DEF Decision
  <2>5. /\ cs \in [1 .. n -> S]
        /\ \A i \in 1 .. n : \E k \in 1 .. n : cs[k] = C(i)
        /\ \A j, k \in 1 .. n : j < k => Before(cs[j], cs[k])
    BY <2>1, <2>4, RankedCorrect
  <2>6. n \in Nat
    BY <2>1 DEF Comparable
  <2>7. \A i \in 1 .. n : C(i).node = Cluster[i]
    BY DEF Candidate
  <2>8. \A c \in S : /\ c.viable \in BOOLEAN /\ c.score \in Int
                     /\ \E i \in 1 .. n : c = C(i)
    <3>1. ASSUME NEW i \in 1 .. n PROVE C(i).viable \in BOOLEAN /\ C(i).score \in Int
      BY <2>1, CandidateType
    <3>2. QED
      BY <3>1
  <2> HIDE DEF n, C, S, cs
  <2>9. Len(cs) = n /\ DOMAIN cs = 1 .. n
    BY <2>5, <2>6
  <2>10. {cs[i].node.name : i \in DOMAIN cs} = Present
    <3>1. ASSUME NEW i \in 1 .. n PROVE cs[i].node.name \in Present
      <4>1. PICK k \in 1 .. n : cs[i] = C(k)
        BY <2>5, <2>8
      <4>2. QED
        BY <2>1, <2>2, <2>7, <4>1 DEF ListsByName, n
    <3>2. ASSUME NEW p \in Present PROVE \E i \in 1 .. n : cs[i].node.name = p
      <4>1. PICK k \in 1 .. n : Cluster[k] = nodes[p]
        BY <2>1 DEF ListsByName, n
      <4>2. PICK i \in 1 .. n : cs[i] = C(k)
        BY <2>5
      <4>3. QED
        BY <2>2, <2>7, <4>1, <4>2
    <3>3. QED
      BY <2>9, <3>1, <3>2
  <2>11. ASSUME NEW i \in DOMAIN cs, NEW j \in DOMAIN cs, i < j
         PROVE  /\ cs[j].viable => cs[i].viable
                /\ cs[i].viable = cs[j].viable => cs[i].score >= cs[j].score
    <3>1. cs[i] \in S /\ cs[j] \in S /\ Before(cs[i], cs[j])
      BY <2>5, <2>9, <2>11
    <3>2. QED
      BY <2>8, <3>1 DEF Before
  <2>12. QED
    BY <2>9, <2>10, <2>11 DEF BestFirst, cs, n
<1>2. QED
  BY <1>1, PlacementTypeOK, PTL
-----------------------------------------------------------------------------
(* A step that changes one node only leaves the others where they were.    *)
LEMMA OthersStay ==
  ASSUME TypeOK, NEW n \in Names, OnlyChanges(n), NEW m \in Names \ {n}
  PROVE  /\ Eligible(m)' <=> Eligible(m)
         /\ Eligible(m) => Place(m)' = Place(m)
<1>1. nodes'[m] = nodes[m] /\ (<<m, model.name>> \in cached' <=> <<m, model.name>> \in cached)
  BY DEF OnlyChanges, Copy
<1>2. Eligible(m)' <=> Eligible(m)
  BY <1>1 DEF Eligible
<1>3. ASSUME Eligible(m) PROVE Place(m)' = Place(m)
  <2>1. nodes[m].name = m
    BY <1>3, StateType DEF Eligible, TypeOK
  <2>2. QED
    BY <1>1, <2>1 DEF Place, Score, Cached
<1>4. QED
  BY <1>2, <1>3

(* What an eligible node's score is made of.                               *)
LEMMA PlaceIs ==
  TypeOK =>
    \A n \in Names : Eligible(n) =>
      /\ nodes[n].free \in Int /\ nodes[n].util \in Int
      /\ Place(n) \in Int
      /\ Place(n) = 5 * (nodes[n].free - model.size) + (100 - nodes[n].util)
                      + (IF Copy(n) THEN 500 ELSE 0)
<1> SUFFICES ASSUME TypeOK, NEW n \in Names, Eligible(n)
             PROVE  /\ nodes[n].free \in Int /\ nodes[n].util \in Int
                    /\ Place(n) \in Int
                    /\ Place(n) = 5 * (nodes[n].free - model.size) + (100 - nodes[n].util)
                                    + (IF Copy(n) THEN 500 ELSE 0)
  OBVIOUS
<1>1. nodes[n].name = n /\ nodes[n].free \in Int /\ nodes[n].util \in Int
  BY StateType DEF Eligible, TypeOK
<1>2. Cached(nodes[n], model, cached) <=> Copy(n)
  BY <1>1 DEF Cached, Copy
<1>3. QED
  BY <1>1, <1>2, PlacementAssumption DEF Place, Score

(* The winner after a step is what the state then makes of it.             *)
LEMMA PrimedFacts ==
  TypeOK' => /\ \A n \in Names : (Winner = {n})' <=> Best(n)'
             /\ \A n \in Names : Eligible(n)' =>
                  /\ nodes'[n].free \in Int /\ nodes'[n].util \in Int
                  /\ Place(n)' \in Int
                  /\ Place(n)' = 5 * (nodes'[n].free - model.size)
                                   + (100 - nodes'[n].util)
                                   + (IF Copy(n)' THEN 500 ELSE 0)
<1>1. TypeOK => \A n \in Names : Winner = {n} <=> Best(n)
  BY WinnerIsBest
<1>2. (TypeOK => \A n \in Names : Winner = {n} <=> Best(n))'
  BY <1>1, PTL
<1>3. (TypeOK =>
         \A n \in Names : Eligible(n) =>
           /\ nodes[n].free \in Int /\ nodes[n].util \in Int
           /\ Place(n) \in Int
           /\ Place(n) = 5 * (nodes[n].free - model.size) + (100 - nodes[n].util)
                           + (IF Copy(n) THEN 500 ELSE 0))'
  BY PlaceIs, PTL
<1>4. QED
  BY <1>2, <1>3
-----------------------------------------------------------------------------
(* Nothing that speaks for the selected node makes it lose the placement.  *)
THEOREM PlacementWinnerKeepsWinning == Spec => WinnerKeepsWinning
<1>1. ASSUME TypeOK, TypeOK', NEW n \in Names,
             OnlyChanges(n), Improves(n), Winner = {n}
      PROVE  Winner' = {n}
  <2>1. Best(n)
    BY <1>1, WinnerIsBest
  <2>2. Eligible(n) /\ Eligible(n)'
    <3>1. Eligible(n)
      BY <2>1 DEF Best
    <3>2. nodes[n].free \in Int /\ nodes[n].free >= model.size
      BY <1>1, <3>1, PlaceIs DEF Eligible
    <3>3. nodes'[n] # Absent /\ nodes'[n].health = "online"
          /\ nodes'[n].free >= nodes[n].free
      BY <1>1 DEF Improves
    <3>4. nodes'[n].free \in Int
      BY <1>1, <3>3, StateType DEF TypeOK
    <3>5. nodes'[n].free >= model.size
      BY <3>2, <3>3, <3>4, PlacementAssumption
    <3>6. QED
      BY <3>1, <3>3, <3>5 DEF Eligible
  <2>3. Place(n)' >= Place(n) /\ Place(n)' \in Int /\ Place(n) \in Int
    <3>1. /\ nodes[n].free \in Int /\ nodes[n].util \in Int /\ Place(n) \in Int
          /\ Place(n) = 5 * (nodes[n].free - model.size) + (100 - nodes[n].util)
                          + (IF Copy(n) THEN 500 ELSE 0)
      BY <1>1, <2>2, PlaceIs
    <3>2. /\ nodes'[n].free \in Int /\ nodes'[n].util \in Int /\ Place(n)' \in Int
          /\ Place(n)' = 5 * (nodes'[n].free - model.size) + (100 - nodes'[n].util)
                           + (IF Copy(n)' THEN 500 ELSE 0)
      BY <1>1, <2>2, PrimedFacts
    <3>3. /\ nodes'[n].free >= nodes[n].free /\ nodes'[n].util <= nodes[n].util
          /\ Copy(n) => Copy(n)'
      BY <1>1 DEF Improves
    <3>4. QED
      BY <3>1, <3>2, <3>3, PlacementAssumption
  <2>4. ASSUME NEW m \in Names \ {n}, Eligible(m)' PROVE Outranks(n, m)'
    <3>1. Eligible(m) /\ Place(m)' = Place(m)
      BY <1>1, <2>4, OthersStay
    <3>2. Outranks(n, m) /\ Place(m) \in Int
      BY <1>1, <2>1, <3>1, PlaceIs DEF Best
    <3>3. QED
      BY <2>3, <3>1, <3>2 DEF Outranks
  <2>5. Best(n)'
    BY <2>2, <2>4 DEF Best
  <2>6. QED
    BY <1>1, <2>5, PrimedFacts
<1>2. TypeOK /\ TypeOK' /\ [Next]_vars =>
        [\A n \in Names : OnlyChanges(n) /\ Improves(n) /\ Winner = {n} => Winner' = {n}]_vars
  BY <1>1
<1>3. QED
  BY <1>2, PlacementTypeOK, PTL DEF Spec, WinnerKeepsWinning

(* Nothing that speaks against another node makes the selected one lose.   *)
THEOREM PlacementLosersDoNotMatter == Spec => LosersDoNotMatter
<1>1. ASSUME TypeOK, TypeOK', NEW n \in Names,
             OnlyChanges(n), Worsens(n), Winner \notin {{n}, {}}
      PROVE  Winner' = Winner
  <2>1. PICK w \in Names \ {n} : Winner = {w}
    BY <1>1, WinnerIsBest
  <2>2. Best(w)
    BY <1>1, <2>1, WinnerIsBest
  <2>3. Eligible(w) /\ Eligible(w)' /\ Place(w)' = Place(w) /\ Place(w) \in Int
    <3>1. Eligible(w)
      BY <2>2 DEF Best
    <3>2. QED
      BY <1>1, <3>1, OthersStay, PlaceIs
  <2>4. ASSUME Eligible(n)' PROVE Outranks(w, n)'
    <3>1. /\ nodes'[n].free \in Int /\ nodes'[n].util \in Int /\ Place(n)' \in Int
          /\ Place(n)' = 5 * (nodes'[n].free - model.size) + (100 - nodes'[n].util)
                           + (IF Copy(n)' THEN 500 ELSE 0)
      BY <1>1, <2>4, PrimedFacts
    <3>2. nodes'[n] # Absent /\ nodes'[n].health = "online"
          /\ nodes'[n].free >= model.size
      BY <2>4 DEF Eligible
    <3>3. /\ nodes[n] # Absent /\ nodes[n].health = "online"
          /\ nodes'[n].free <= nodes[n].free /\ nodes'[n].util >= nodes[n].util
          /\ Copy(n)' => Copy(n)
      BY <1>1, <3>2 DEF Worsens
    <3>4. nodes[n].free \in Int
      BY <1>1, <3>3, StateType DEF TypeOK
    <3>5. nodes[n].free >= model.size
      BY <3>1, <3>2, <3>3, <3>4, PlacementAssumption
    <3>6. Eligible(n)
      BY <3>3, <3>5 DEF Eligible
    <3>7. /\ nodes[n].util \in Int /\ Place(n) \in Int
          /\ Place(n) = 5 * (nodes[n].free - model.size) + (100 - nodes[n].util)
                          + (IF Copy(n) THEN 500 ELSE 0)
      BY <1>1, <3>6, PlaceIs
    <3>8. Place(n)' <= Place(n)
      BY <3>1, <3>3, <3>4, <3>7, PlacementAssumption
    <3>9. Outranks(w, n)
      BY <2>1, <2>2, <3>6 DEF Best
    <3>10. QED
      BY <2>3, <3>1, <3>7, <3>8, <3>9 DEF Outranks
  <2>5. ASSUME NEW m \in Names \ {w, n}, Eligible(m)' PROVE Outranks(w, m)'
    <3>1. Eligible(m) /\ Place(m)' = Place(m)
      BY <1>1, <2>5, OthersStay
    <3>2. Outranks(w, m)
      BY <2>2, <2>5, <3>1 DEF Best
    <3>3. QED
      BY <2>3, <3>1, <3>2 DEF Outranks
  <2>6. Best(w)'
    BY <2>3, <2>4, <2>5 DEF Best
  <2>7. QED
    BY <1>1, <2>1, <2>6, PrimedFacts
<1>2. TypeOK /\ TypeOK' /\ [Next]_vars =>
        [\A n \in Names : OnlyChanges(n) /\ Worsens(n) /\ Winner \notin {{n}, {}} =>
           Winner' = Winner]_vars
  BY <1>1
<1>3. QED
  BY <1>2, PlacementTypeOK, PTL DEF Spec, LosersDoNotMatter
=============================================================================
