----------------------------- MODULE WatchProofs -----------------------------
(***************************************************************************)
(* Proofs about Watch, for any set of hosts, however many of them report,  *)
(* and any order in which View walks them.                                 *)
(***************************************************************************)
EXTENDS Watch, FiniteSetTheorems, WellFoundedInduction, TLAPS

(* The lemmas on sorting.                                                  *)
Sorts == INSTANCE SchedulerProofs

(* A set of numbers that is not empty has a least one.                     *)
LEMMA Least ==
  ASSUME NEW S, S \subseteq Nat, S # {}
  PROVE  \E x \in S : \A y \in S : ~(y < x)
<1>1. PICK x \in S : \A y \in S : <<y, x>> \notin OpToRel(<, Nat)
  BY NatLessThanWellFounded, WFMin
<1>2. ASSUME NEW y \in S, y < x PROVE FALSE
  <2>1. <<y, x>> \in Nat \X Nat /\ <<y, x>>[1] = y /\ <<y, x>>[2] = x
    OBVIOUS
  <2>2. QED
    BY <1>1, <1>2, <2>1 DEF OpToRel
<1>3. QED
  BY <1>2

(* f holds what the first m sequences of s are, one after the other.       *)
Appends(s, f, m) == f = [i \in 1 .. m |-> IF i = 1 THEN s[i] ELSE f[i - 1] \o s[i]]

Appendable(s, m) == \E f : Appends(s, f, m)

(* One sequence more can be appended.                                      *)
LEMMA AppendsMore ==
  ASSUME NEW s, NEW m \in Nat, m > 1, NEW f, Appends(s, f, m - 1)
  PROVE  Appendable(s, m)
<1> DEFINE g == [i \in 1 .. m |-> IF i = m THEN f[m - 1] \o s[m] ELSE f[i]]
<1>1. ASSUME NEW i \in 1 .. m
      PROVE  g[i] = IF i = 1 THEN s[i] ELSE g[i - 1] \o s[i]
  <2>1. i = m \/ i \in 1 .. m - 1
    OBVIOUS
  <2>2. i # 1 => i - 1 \in 1 .. m - 1 /\ i - 1 \in 1 .. m /\ i - 1 # m
    OBVIOUS
  <2>3. i # 1 => g[i - 1] = f[i - 1]
    BY <2>2
  <2>4. CASE i = m
    <3>1. m \in 1 .. m /\ i # 1
      BY <2>4
    <3>2. g[m] = f[m - 1] \o s[m]
      BY <3>1
    <3>3. QED
      BY <2>3, <2>4, <3>1, <3>2
  <2>5. CASE i \in 1 .. m - 1
    <3>1. g[i] = f[i]
      BY <2>5
    <3>2. f[i] = IF i = 1 THEN s[i] ELSE f[i - 1] \o s[i]
      BY <2>5 DEF Appends
    <3>3. QED
      BY <2>3, <3>1, <3>2
  <2>6. QED
    BY <2>1, <2>4, <2>5
<1>2. Appends(s, g, m)
  BY <1>1 DEF Appends
<1>3. QED
  BY <1>2 DEF Appendable

(* FlattenSeq appends one sequence after the other.                        *)
LEMMA Flattening ==
  ASSUME NEW n \in Nat \ {0}, NEW s, Len(s) = n
  PROVE  \E f : Appends(s, f, n) /\ FlattenSeq(s) = f[n]
<1> DEFINE Bad == {m \in 1 .. n : ~ Appendable(s, m)}
<1>1. ASSUME NEW m \in Bad, \A k \in Bad : ~(k < m) PROVE FALSE
  <2>1. CASE m = 1
    <3> DEFINE f == [i \in 1 .. 1 |-> s[i]]
    <3>1. f = [i \in 1 .. 1 |-> IF i = 1 THEN s[i] ELSE f[i - 1] \o s[i]]
      OBVIOUS
    <3>2. QED
      BY <2>1, <3>1 DEF Appends, Appendable
  <2>2. CASE m # 1
    <3>1. m - 1 \in 1 .. n /\ m - 1 < m /\ m \in Nat /\ m > 1
      BY <2>2
    <3>2. PICK f : Appends(s, f, m - 1)
      BY <1>1, <3>1 DEF Appendable
    <3>3. QED
      BY <3>1, <3>2, AppendsMore
  <2>3. QED
    BY <2>1, <2>2
<1>2. Bad = {}
  <2>1. Bad \subseteq Nat
    OBVIOUS
  <2> HIDE DEF Bad
  <2>2. QED
    BY <1>1, <2>1, Least
<1> DEFINE flat == CHOOSE f : Appends(s, f, n)
<1>3. Appends(s, flat, n)
  BY <1>2 DEF Appendable
<1>4. FlattenSeq(s) = flat[n]
  BY DEF FlattenSeq, Appends
<1>5. QED
  BY <1>3, <1>4
-----------------------------------------------------------------------------
Job == [model: Models, node: Names]

(* The models node n is said to run. *)
Told(n) == JobsOf[shown[n].report]

(* A node's jobs stay together when another node's are appended.           *)
LEMMA TogetherStill ==
  ASSUME NEW jobs \in Seq(Job), NEW more \in Seq(Job), NEW n,
         NEW models \in Seq(Models), Together(jobs, n, models),
         \A k \in 1 .. Len(more) : more[k].node # n
  PROVE  Together(jobs \o more, n, models)
<1> DEFINE all == jobs \o more
<1>1. /\ Len(jobs) \in Nat /\ Len(more) \in Nat /\ Len(models) \in Nat
      /\ DOMAIN models = 1 .. Len(models) /\ DOMAIN jobs = 1 .. Len(jobs)
      /\ Len(all) = Len(jobs) + Len(more) /\ DOMAIN all = 1 .. Len(all)
      /\ \A k \in 1 .. Len(jobs) : all[k] = jobs[k]
      /\ \A k \in Len(jobs) + 1 .. Len(all) : all[k] = more[k - Len(jobs)]
  OBVIOUS
<1> HIDE DEF all
<1>2. PICK a \in 0 .. Len(jobs) - Len(models) :
        \A k \in 1 .. Len(jobs) :
          IF k - a \in 1 .. Len(models)
          THEN jobs[k] = [model |-> models[k - a], node |-> n]
          ELSE jobs[k].node # n
  BY <1>1 DEF Together
<1>3. ASSUME NEW k \in 1 .. Len(all)
      PROVE  IF k - a \in 1 .. Len(models)
             THEN all[k] = [model |-> models[k - a], node |-> n]
             ELSE all[k].node # n
  <2>1. CASE k \in 1 .. Len(jobs)
    BY <1>1, <1>2, <2>1
  <2>2. CASE k \in Len(jobs) + 1 .. Len(all)
    <3>1. k - Len(jobs) \in 1 .. Len(more) /\ k - a \notin 1 .. Len(models)
      BY <1>1, <1>2, <2>2
    <3>2. QED
      BY <1>1, <2>2, <3>1
  <2>3. QED
    BY <1>1, <2>1, <2>2
<1>4. a \in 0 .. Len(all) - Len(models)
  BY <1>1, <1>2
<1>5. Together(all, n, models)
  BY <1>1, <1>3, <1>4 DEF Together
<1>6. QED
  BY <1>5 DEF all

(* The jobs of a node stand together when they are appended.               *)
LEMMA TogetherNow ==
  ASSUME NEW jobs \in Seq(Job), NEW n \in Names, NEW models \in Seq(Models),
         \A k \in 1 .. Len(jobs) : jobs[k].node # n,
         NEW more \in Seq(Job), Len(more) = Len(models),
         \A i \in 1 .. Len(models) : more[i] = [model |-> models[i], node |-> n]
  PROVE  Together(jobs \o more, n, models)
<1> DEFINE all == jobs \o more
           a   == Len(jobs)
<1>1. /\ a \in Nat /\ Len(more) \in Nat
      /\ DOMAIN models = 1 .. Len(models) /\ DOMAIN jobs = 1 .. Len(jobs)
      /\ Len(all) = a + Len(more) /\ DOMAIN all = 1 .. Len(all)
      /\ \A k \in 1 .. a : all[k] = jobs[k]
      /\ \A k \in a + 1 .. Len(all) : all[k] = more[k - a]
  OBVIOUS
<1> HIDE DEF all
<1>2. ASSUME NEW k \in 1 .. Len(all)
      PROVE  IF k - a \in 1 .. Len(models)
             THEN all[k] = [model |-> models[k - a], node |-> n]
             ELSE all[k].node # n
  <2>1. CASE k \in 1 .. a
    BY <1>1, <2>1
  <2>2. CASE k \in a + 1 .. Len(all)
    <3>1. k - a \in 1 .. Len(models)
      BY <1>1, <2>2
    <3>2. QED
      BY <1>1, <2>2, <3>1
  <2>3. QED
    BY <1>1, <2>1, <2>2
<1>3. a \in 0 .. Len(all) - Len(models)
  BY <1>1
<1>4. Together(all, n, models)
  BY <1>1, <1>2, <1>3 DEF Together
<1>5. QED
  BY <1>4 DEF all

(* Of a node that is shown, the controller knows what it reported; and     *)
(* "not shown" is no view of a node.                                       *)
LEMMA LiveNode ==
  ASSUME NL!TypeOK, NEW n \in Live
  PROVE  /\ n \in Names /\ n \in Nat
         /\ shown[n] \in NL!ShownNode
         /\ shown[n].report \in Reports
         /\ Told(n) \in Seq(Models)
<1>1. n \in Names /\ shown[n] \in NL!ShownNode
  BY DEF Live, NL!TypeOK
<1>2. QED
  BY <1>1, WatchAssumption DEF NL!ShownNode, Told

(* The jobs of one node.                                                   *)
LEMMA NodeJobs ==
  ASSUME NL!TypeOK, NEW n \in Live
  PROVE  /\ JobsAt(n) \in Seq(Job) /\ Len(JobsAt(n)) = Len(Told(n))
         /\ \A i \in 1 .. Len(Told(n)) :
              JobsAt(n)[i] = [model |-> Told(n)[i], node |-> n]
<1> DEFINE models == Told(n)
<1>1. n \in Names /\ models \in Seq(Models)
  BY LiveNode
<1>2. JobsAt(n) = [i \in DOMAIN models |-> [model |-> models[i], node |-> n]]
  BY DEF JobsAt, Told
<1> HIDE DEF models
<1>3. /\ Len(models) \in Nat /\ DOMAIN models = 1 .. Len(models)
      /\ \A i \in 1 .. Len(models) : models[i] \in Models
  BY <1>1
<1>4. QED
  BY <1>1, <1>2, <1>3 DEF Job, models

(* jobs is what the first m nodes of a walk run, node by node.             *)
Grouped(jobs, walk, m) ==
  /\ jobs \in Seq(Job)
  /\ \A k \in 1 .. Len(jobs) : \E j \in 1 .. m : jobs[k].node = walk[j]
  /\ \A j \in 1 .. m : Together(jobs, walk[j], Told(walk[j]))

(* The jobs of a walk, up to a node, and those of that node.               *)
LEMMA GroupedMore ==
  ASSUME NL!TypeOK, NEW walk, NEW m \in Nat \ {0},
         \A j \in 1 .. m : walk[j] \in Live,
         \A i, j \in 1 .. m : i # j => walk[i] # walk[j],
         NEW jobs, Grouped(jobs, walk, m - 1)
  PROVE  Grouped(jobs \o JobsAt(walk[m]), walk, m)
<1> DEFINE n == walk[m]
           more == JobsAt(n)
           all == jobs \o more
<1>0. m \in 1 .. m /\ n \in Live /\ \A j \in 1 .. m : j # m => j \in 1 .. m - 1
  OBVIOUS
<1>1. /\ jobs \in Seq(Job) /\ more \in Seq(Job) /\ n \in Names
      /\ Told(n) \in Seq(Models) /\ Len(more) = Len(Told(n))
      /\ \A i \in 1 .. Len(more) : more[i] = [model |-> Told(n)[i], node |-> n]
  BY <1>0, LiveNode, NodeJobs DEF Grouped
<1>2. \A k \in 1 .. Len(more) : more[k].node = n
  <2> SUFFICES ASSUME NEW k \in 1 .. Len(more) PROVE more[k].node = n
    OBVIOUS
  <2>1. more[k] = [model |-> Told(n)[k], node |-> n]
    BY <1>1
  <2> HIDE DEF more, n
  <2>2. QED
    BY <2>1
<1>3. \A k \in 1 .. Len(jobs) : jobs[k].node # n
  BY <1>0 DEF Grouped
<1> HIDE DEF more
<1>4. all \in Seq(Job)
  BY <1>1
<1>5. ASSUME NEW k \in 1 .. Len(all) PROVE \E j \in 1 .. m : all[k].node = walk[j]
  <2>1. /\ Len(jobs) \in Nat /\ Len(more) \in Nat
        /\ Len(all) = Len(jobs) + Len(more)
        /\ k \in 1 .. Len(jobs) => all[k] = jobs[k]
        /\ k \notin 1 .. Len(jobs) => all[k] = more[k - Len(jobs)]
    <3>1. jobs \in Seq(Job) /\ more \in Seq(Job)
      BY <1>1
    <3>2. QED
      BY <3>1
  <2>2. CASE k \in 1 .. Len(jobs)
    <3>1. PICK j \in 1 .. m - 1 : jobs[k].node = walk[j]
      BY <2>2 DEF Grouped
    <3>2. QED
      BY <2>1, <2>2, <3>1
  <2>3. CASE k \notin 1 .. Len(jobs)
    <3>1. k - Len(jobs) \in 1 .. Len(more)
      BY <2>1, <2>3
    <3>2. QED
      BY <1>0, <1>2, <2>1, <2>3, <3>1
  <2>4. QED
    BY <2>2, <2>3
<1>6. ASSUME NEW j \in 1 .. m PROVE Together(all, walk[j], Told(walk[j]))
  <2>1. CASE j = m
    BY <1>1, <1>3, <2>1, TogetherNow
  <2>2. CASE j # m
    <3>1. j \in 1 .. m - 1 /\ walk[j] \in Live /\ walk[j] # n
      BY <1>0, <2>2
    <3>2. Together(jobs, walk[j], Told(walk[j])) /\ Told(walk[j]) \in Seq(Models)
      BY <3>1, LiveNode DEF Grouped
    <3>3. \A k \in 1 .. Len(more) : more[k].node # walk[j]
      BY <1>2, <3>1
    <3>4. QED
      BY <1>1, <3>2, <3>3, TogetherStill
  <2>3. QED
    BY <2>1, <2>2
<1>7. Grouped(all, walk, m)
  BY <1>4, <1>5, <1>6 DEF Grouped
<1>8. QED
  BY <1>7 DEF more

(* The jobs of a walk of the nodes that are shown.                         *)
LEMMA GroupedWalk ==
  ASSUME NL!TypeOK, NEW n \in Nat, NEW walk \in [1 .. n -> Live],
         \A i, j \in 1 .. n : i # j => walk[i] # walk[j]
  PROVE  Grouped(JobsAlong(walk), walk, n)
<1> DEFINE s == [i \in DOMAIN walk |-> JobsAt(walk[i])]
<1>1. DOMAIN s = 1 .. n /\ \A i \in 1 .. n : s[i] = JobsAt(walk[i])
  OBVIOUS
<1>2. Len(s) = n
  OBVIOUS
<1> HIDE DEF s
<1>3. ASSUME n = 0 PROVE Grouped(FlattenSeq(s), walk, n)
  <2>1. FlattenSeq(s) = s
    BY <1>2, <1>3 DEF FlattenSeq
  <2>2. s = <<>>
    BY <1>3 DEF s
  <2>3. Grouped(<<>>, walk, n)
    BY <1>3 DEF Grouped
  <2>4. QED
    BY <2>1, <2>2, <2>3
<1>4. ASSUME n # 0 PROVE Grouped(FlattenSeq(s), walk, n)
  <2>0. n \in Nat \ {0}
    BY <1>4
  <2>1. PICK f : Appends(s, f, n) /\ FlattenSeq(s) = f[n]
    BY <1>2, <2>0, Flattening
  <2>2. /\ f[1] = s[1]
        /\ \A i \in 1 .. n : i # 1 => f[i] = f[i - 1] \o s[i]
    <3>1. f = [i \in 1 .. n |-> IF i = 1 THEN s[i] ELSE f[i - 1] \o s[i]]
      BY <2>1 DEF Appends
    <3>2. \A i \in 1 .. n : f[i] = IF i = 1 THEN s[i] ELSE f[i - 1] \o s[i]
      BY <3>1
    <3>3. 1 \in 1 .. n
      BY <2>0
    <3>4. f[1] = s[1]
      BY <3>2, <3>3, Zenon
    <3>5. \A i \in 1 .. n : i # 1 => f[i] = f[i - 1] \o s[i]
      BY <3>2, Zenon
    <3>6. QED
      BY <3>4, <3>5
  <2> DEFINE Bad == {m \in 1 .. n : ~ Grouped(f[m], walk, m)}
  <2>3. ASSUME NEW m \in Bad, \A k \in Bad : ~(k < m) PROVE FALSE
    <3>1. /\ m \in 1 .. n /\ m \in Nat \ {0}
          /\ \A j \in 1 .. m : walk[j] \in Live
          /\ \A i, j \in 1 .. m : i # j => walk[i] # walk[j]
          /\ s[m] = JobsAt(walk[m])
      BY <1>1
    <3>2. CASE m = 1
      <4>1. Grouped(<<>>, walk, m - 1)
        BY <3>2 DEF Grouped
      <4>2. Grouped(<<>> \o s[m], walk, m)
        BY <3>1, <4>1, GroupedMore
      <4>3. s[m] \in Seq(Job)
        BY <3>1, NodeJobs
      <4>4. <<>> \o s[m] = s[m]
        BY <4>3
      <4>5. QED
        BY <2>2, <2>3, <3>2, <4>2, <4>4
    <3>3. CASE m # 1
      <4>1. m - 1 \in 1 .. n /\ m - 1 < m
        BY <3>1, <3>3
      <4>2. Grouped(f[m - 1], walk, m - 1)
        BY <2>3, <4>1
      <4>3. Grouped(f[m - 1] \o s[m], walk, m)
        BY <3>1, <4>2, GroupedMore
      <4>4. QED
        BY <2>2, <2>3, <3>1, <3>3, <4>3
    <3>4. QED
      BY <3>2, <3>3
  <2>4. Bad = {}
    <3>1. Bad \subseteq Nat
      OBVIOUS
    <3> HIDE DEF Bad
    <3>2. QED
      BY <2>3, <3>1, Least
  <2>5. Grouped(f[n], walk, n)
    BY <2>0, <2>4
  <2>6. QED
    BY <2>1, <2>5
<1>5. QED
  BY <1>3, <1>4 DEF s, JobsAlong

(* A walk visits every node that is shown, once.                           *)
LEMMA Walks ==
  ASSUME IsFiniteSet(Live), NEW walk \in SetToSeqs(Live)
  PROVE  LET n == Cardinality(Live)
         IN  /\ n \in Nat
             /\ walk \in [1 .. n -> Live]
             /\ \A i, j \in 1 .. n : i # j => walk[i] # walk[j]
             /\ \A x \in Live : \E i \in 1 .. n : walk[i] = x
             /\ ToSet(walk) = Live
<1> DEFINE n == Cardinality(Live)
<1>1. /\ n \in Nat /\ walk \in [1 .. n -> Live]
      /\ \A i, j \in 1 .. n : i # j => walk[i] # walk[j]
  BY FS_CardinalityType DEF SetToSeqs
<1>2. IsFiniteSet(1 .. n) /\ Cardinality(1 .. n) = n
  BY <1>1, FS_Interval
<1>3. walk \in Injection(1 .. n, Live)
  BY <1>1 DEF Injection, IsInjective
<1>4. walk \in Surjection(1 .. n, Live)
  BY <1>2, <1>3, FS_Injection
<1>5. \A x \in Live : \E i \in 1 .. n : walk[i] = x
  BY <1>4 DEF Surjection
<1>6. ToSet(walk) = Live
  BY <1>1, <1>5 DEF ToSet
<1>7. QED
  BY <1>1, <1>5, <1>6

(* Hosts in alphabetical order.                                            *)
InOrder(S) == Sort(S, <)

(* A frame: the nodes that are shown, in alphabetical order, each with     *)
(* what it reported last, and the jobs node by node.                       *)
LEMMA Drawn ==
  ASSUME NL!TypeOK, IsFiniteSet(Live), NEW walk \in SetToSeqs(Live)
  PROVE  LET n == Cardinality(Live)
             c == InOrder(Live)
             f == Dashboard(View(walk))
         IN  /\ n \in Nat
             /\ c \in [1 .. n -> Live]
             /\ \A x \in Live : \E i \in 1 .. n : c[i] = x
             /\ DOMAIN f.nodes = 1 .. n
             /\ \A i \in 1 .. n : f.nodes[i] = [name |-> c[i], report |-> shown[c[i]].report]
             /\ f.jobs \in Seq(Job)
             /\ \A k \in 1 .. Len(f.jobs) : f.jobs[k].node \in Live
             /\ \A x \in Live : Together(f.jobs, x, Told(x))
<1> DEFINE n == Cardinality(Live)
<1>0. Live \subseteq Int
  BY LiveNode
<1> DEFINE c == Sort(Live, <)
           v == View(walk)
           f == Dashboard(v)
<1>1. /\ n \in Nat
      /\ c \in [1 .. n -> Live]
      /\ \A x \in Live : \E k \in 1 .. n : c[k] = x
      /\ \A i, j \in 1 .. n : i < j => c[i] < c[j]
  BY <1>0, Sorts!SortedNumbers
     DEF Sorts!Sort, Sort, Sorts!Cardinality, Cardinality,
         Sorts!IsFiniteSet, IsFiniteSet
<1>2. Sorted(walk) = c
  BY Walks DEF Sorted
<1> HIDE DEF c
<1>3. DOMAIN v.nodes = 1 .. n
      /\ \A i \in 1 .. n : v.nodes[i] = [name |-> c[i], seen |-> shown[c[i]]]
  BY <1>1, <1>2 DEF View
<1>4. v.jobs = JobsAlong(walk)
  BY DEF View
<1> HIDE DEF v
<1>5. f.jobs = v.jobs /\ DOMAIN f.nodes = 1 .. n
      /\ \A i \in 1 .. n : f.nodes[i] = [name |-> c[i], report |-> shown[c[i]].report]
  <2>1. f.jobs = v.jobs /\ f.nodes = [i \in DOMAIN v.nodes |->
               [name |-> v.nodes[i].name, report |-> v.nodes[i].seen.report]]
    BY DEF Dashboard
  <2>2. ASSUME NEW i \in 1 .. n
        PROVE  f.nodes[i] = [name |-> c[i], report |-> shown[c[i]].report]
    <3>1. /\ f.nodes[i] = [name |-> v.nodes[i].name, report |-> v.nodes[i].seen.report]
          /\ v.nodes[i] = [name |-> c[i], seen |-> shown[c[i]]]
      BY <1>3, <2>1
    <3>2. QED
      BY <3>1
  <2>3. QED
    BY <1>3, <2>1, <2>2
<1>6. /\ walk \in [1 .. n -> Live]
      /\ \A i, j \in 1 .. n : i # j => walk[i] # walk[j]
      /\ \A x \in Live : \E i \in 1 .. n : walk[i] = x
  BY Walks
<1>7. Grouped(v.jobs, walk, n)
  <2> HIDE DEF n, f
  <2>1. Grouped(JobsAlong(walk), walk, n)
    BY <1>1, <1>6, GroupedWalk
  <2>2. QED
    BY <1>4, <2>1
<1>8. /\ v.jobs \in Seq(Job)
      /\ \A k \in 1 .. Len(v.jobs) : v.jobs[k].node \in Live
      /\ \A x \in Live : Together(v.jobs, x, Told(x))
  BY <1>6, <1>7 DEF Grouped
<1>9. QED
  BY <1>1, <1>5, <1>8 DEF c, v, InOrder
-----------------------------------------------------------------------------
(* A controller that starts shows nobody.                                  *)
LEMMA InitLive == NL!Init => NL!TypeOK /\ IsFiniteSet(Live)
<1> SUFFICES ASSUME NL!Init PROVE NL!TypeOK /\ IsFiniteSet(Live)
  OBVIOUS
<1>1. Live = {}
  BY DEF NL!Init, Live
<1>2. QED
  BY <1>1, FS_EmptySet DEF NL!Init, NL!TypeOK

(* What is shown of a node that is so old.                                 *)
LEMMA AgedShown ==
  ASSUME NEW g \in Nat, NEW r \in Reports
  PROVE  NL!Aged(g, r) \in NL!ShownNode \cup {None}
  BY WatchAssumption DEF NL!Aged, NL!Gone, NL!ShownNode

(* However many hosts there are, at most one more is shown after a step.   *)
LEMMA NextLive ==
  ASSUME NL!TypeOK, IsFiniteSet(Live), NL!Next
  PROVE  NL!TypeOK' /\ IsFiniteSet(Live')
<1>1. ASSUME NEW n \in Names, NEW r \in Reports, NL!Report(n, r)
      PROVE  NL!TypeOK' /\ IsFiniteSet(Live')
  <2>1. NL!Aged(0, r) \in NL!ShownNode \cup {None}
    BY AgedShown
  <2>2. NL!TypeOK'
    BY <1>1, <2>1 DEF NL!Report, NL!TypeOK
  <2>3. Live' \in SUBSET (Live \cup {n})
    BY <1>1 DEF NL!Report, NL!TypeOK, Live
  <2>4. QED
    BY <2>2, <2>3, FS_AddElement, FS_Subset
<1>2. CASE NL!Elapse
  <2>1. ASSUME NEW n \in Names PROVE NL!Older(shown[n]) \in NL!ShownNode \cup {None}
    <3>1. CASE shown[n] = None
      BY <3>1 DEF NL!Older
    <3>2. CASE shown[n] # None
      <4>1. shown[n] \in NL!ShownNode
        BY <3>2 DEF NL!TypeOK
      <4>2. shown[n].age + 1 \in Nat /\ shown[n].report \in Reports
        BY <4>1, WatchAssumption DEF NL!ShownNode
      <4>3. QED
        BY <3>2, <4>2, AgedShown DEF NL!Older
    <3>3. QED
      BY <3>1, <3>2
  <2>2. NL!TypeOK'
    BY <1>2, <2>1 DEF NL!Elapse, NL!TypeOK
  <2>3. Live' \in SUBSET Live
    BY <1>2 DEF NL!Elapse, NL!Older, Live
  <2>4. QED
    BY <2>2, <2>3, FS_Subset
<1>3. CASE NL!Forget
  <2>1. Live' = {}
    BY <1>3 DEF NL!Forget, Live
  <2>2. QED
    BY <1>3, <2>1, FS_EmptySet DEF NL!Forget, NL!TypeOK
<1>4. QED
  BY <1>1, <1>2, <1>3 DEF NL!Next

(* The nodes of a frame are a finite set of hosts, sorted.                 *)
Alphabetical(f) ==
  \E S \in SUBSET Names :
    /\ {InOrder(S)[i] : i \in 1 .. Cardinality(S)} = S
    /\ DOMAIN f.nodes = 1 .. Cardinality(S)
    /\ \A i \in 1 .. Cardinality(S) : f.nodes[i].name = InOrder(S)[i]

(* A frame that has been drawn stays as it is: what TypeOK and FrameWhole  *)
(* say of the screen, they say of nothing else.                            *)
WatchInv ==
  /\ TypeOK
  /\ IsFiniteSet(Live)
  /\ frame # None => Alphabetical(frame)
  /\ FrameWhole

(* What is on the screen after it has been drawn.                          *)
LEMMA DrawWhole ==
  ASSUME WatchInv, NEW walk \in SetToSeqs(Live), frame' = Dashboard(View(walk))
  PROVE  /\ \A i \in DOMAIN frame'.nodes :
              frame'.nodes[i] \in [name: Names, report: Reports]
         /\ \A k \in DOMAIN frame'.jobs : frame'.jobs[k] \in [model: Models, node: Names]
         /\ Alphabetical(frame')
         /\ FrameWhole'
<1> DEFINE n == Cardinality(Live)
<1>0. Live \in SUBSET Names /\ NL!TypeOK /\ IsFiniteSet(Live)
  BY DEF Live, WatchInv, TypeOK
<1>1. /\ \A x \in Live : shown[x].report \in Reports
      /\ \A x \in Live : Told(x) = JobsOf[shown[x].report]
  BY <1>0, LiveNode DEF Told
<1> DEFINE c == InOrder(Live)
           f == frame'
<1>2. /\ n \in Nat
      /\ c \in [1 .. n -> Live]
      /\ \A x \in Live : \E i \in 1 .. n : c[i] = x
      /\ DOMAIN f.nodes = 1 .. n
      /\ \A i \in 1 .. n : f.nodes[i] = [name |-> c[i], report |-> shown[c[i]].report]
      /\ f.jobs \in Seq(Job)
      /\ \A k \in 1 .. Len(f.jobs) : f.jobs[k].node \in Live
      /\ \A x \in Live : Together(f.jobs, x, Told(x))
  BY <1>0, Drawn
<1>3. \A i \in 1 .. n : f.nodes[i].name = c[i] /\ f.nodes[i].report = shown[c[i]].report
  <2> SUFFICES ASSUME NEW i \in 1 .. n
               PROVE  f.nodes[i].name = c[i] /\ f.nodes[i].report = shown[c[i]].report
    OBVIOUS
  <2>1. f.nodes[i] = [name |-> c[i], report |-> shown[c[i]].report]
    BY <1>2
  <2> HIDE DEF f, c
  <2>2. QED
    BY <2>1
<1>4. DOMAIN f.jobs = 1 .. Len(f.jobs)
  BY <1>2
<1>5. ASSUME NEW i \in DOMAIN f.nodes
      PROVE  /\ f.nodes[i] \in [name: Names, report: Reports]
             /\ Together(f.jobs, f.nodes[i].name, JobsOf[f.nodes[i].report])
  <2>1. /\ f.nodes[i] = [name |-> c[i], report |-> shown[c[i]].report]
        /\ c[i] \in Live
    BY <1>2
  <2>2. QED
    BY <1>0, <1>1, <1>2, <2>1
<1>6. ASSUME NEW k \in DOMAIN f.jobs
      PROVE  /\ f.jobs[k] \in [model: Models, node: Names]
             /\ f.jobs[k].node \in Listed(f)
  <2>1. f.jobs[k] \in Job /\ f.jobs[k].node \in Live
    BY <1>2, <1>4
  <2>2. PICK i \in 1 .. n : c[i] = f.jobs[k].node
    BY <1>2, <2>1
  <2>3. i \in DOMAIN f.nodes /\ f.nodes[i].name = f.jobs[k].node
    BY <1>2, <1>3, <2>2
  <2>4. QED
    BY <2>1, <2>3 DEF Job, Listed
<1>7. Alphabetical(f)
  <2>1. {c[i] : i \in 1 .. n} = Live
    BY <1>2
  <2>2. /\ DOMAIN f.nodes = 1 .. n
        /\ \A i \in 1 .. n : f.nodes[i].name = c[i]
    BY <1>2, <1>3
  <2>3. QED
    BY <1>0, <2>1, <2>2 DEF Alphabetical, c, n
<1>8. QED
  BY <1>5, <1>6, <1>7 DEF f, FrameWhole

(* A controller that shows nobody, and a screen with nothing on it.        *)
LEMMA InitWatch == Init => WatchInv
  BY InitLive DEF Init, WatchInv, TypeOK, FrameWhole

(* Every step keeps the invariant: only draw changes the screen, and it    *)
(* changes all of it.                                                      *)
LEMMA NextWatch == WatchInv /\ [Next]_vars => WatchInv'
<1> SUFFICES ASSUME WatchInv, [Next]_vars PROVE WatchInv'
  OBVIOUS
<1>0. NL!TypeOK /\ IsFiniteSet(Live)
  BY DEF WatchInv, TypeOK
<1>1. ASSUME UNCHANGED frame, NL!TypeOK', IsFiniteSet(Live'), watching' \in BOOLEAN
      PROVE  WatchInv'
  BY <1>1 DEF WatchInv, TypeOK, Alphabetical, FrameWhole, Listed
<1>2. ASSUME UNCHANGED shown PROVE NL!TypeOK' /\ IsFiniteSet(Live')
  BY <1>0, <1>2 DEF NL!TypeOK, Live
<1>3. CASE draw
  <2>1. PICK walk \in SetToSeqs(Live) : frame' = Dashboard(View(walk))
    BY <1>3 DEF draw
  <2>2. NL!TypeOK' /\ IsFiniteSet(Live') /\ watching' \in BOOLEAN
    BY <1>2, <1>3 DEF draw, WatchInv, TypeOK
  <2>3. QED
    BY <2>1, <2>2, DrawWhole DEF WatchInv, TypeOK
<1>4. CASE Interrupt
  BY <1>1, <1>2, <1>4 DEF Interrupt
<1>5. CASE Serving
  <2>1. NL!TypeOK' /\ IsFiniteSet(Live')
    BY <1>0, <1>5, NextLive DEF Serving
  <2>2. QED
    BY <1>1, <1>5, <2>1 DEF Serving, WatchInv, TypeOK
<1>6. CASE UNCHANGED vars
  BY <1>1, <1>2, <1>6 DEF vars, WatchInv, TypeOK
<1>7. QED
  BY <1>3, <1>4, <1>5, <1>6 DEF Next

(* A frame lists hosts, with what they can report, and jobs on hosts.      *)
THEOREM WatchTypeOK == Spec => []TypeOK
<1>1. WatchInv => TypeOK
  BY DEF WatchInv
<1>2. QED
  BY <1>1, InitWatch, NextWatch, PTL DEF Spec

(* Whatever order View walks the hosts in and however heartbeats go on     *)
(* meanwhile, the jobs on the screen are, node by node, those of the       *)
(* report that is shown of the node.                                       *)
THEOREM WatchFrameWhole == Spec => []FrameWhole
<1>1. WatchInv => FrameWhole
  BY DEF WatchInv
<1>2. QED
  BY <1>1, InitWatch, NextWatch, PTL DEF Spec

(* What a frame lists fixes where it lists it.                             *)
LEMMA SamePlaces ==
  ASSUME NEW f, NEW g, Alphabetical(f), Alphabetical(g), Listed(f) = Listed(g)
  PROVE  \A i \in DOMAIN f.nodes : g.nodes[i].name = f.nodes[i].name
<1>1. ASSUME NEW h, NEW S, DOMAIN h.nodes = 1 .. Cardinality(S),
             {InOrder(S)[i] : i \in 1 .. Cardinality(S)} = S,
             \A i \in 1 .. Cardinality(S) : h.nodes[i].name = InOrder(S)[i]
      PROVE  Listed(h) = S
  BY <1>1 DEF Listed
<1>2. ASSUME NEW h, Alphabetical(h)
      PROVE  LET S == Listed(h)
             IN  /\ DOMAIN h.nodes = 1 .. Cardinality(S)
                 /\ \A i \in 1 .. Cardinality(S) : h.nodes[i].name = InOrder(S)[i]
  <2>1. PICK S \in SUBSET Names :
          /\ {InOrder(S)[i] : i \in 1 .. Cardinality(S)} = S
          /\ DOMAIN h.nodes = 1 .. Cardinality(S)
          /\ \A i \in 1 .. Cardinality(S) : h.nodes[i].name = InOrder(S)[i]
    BY <1>2 DEF Alphabetical
  <2>2. Listed(h) = S
    BY <1>1, <2>1
  <2>3. QED
    BY <2>1, <2>2
<1>3. QED
  BY <1>2

(* Two frames that follow each other and list the same nodes, of any       *)
(* number, list each of them in the same place, in whatever order the map  *)
(* was walked for either.                                                  *)
THEOREM WatchNodesStable == Spec => NodesStable
<1>1. ASSUME WatchInv, WatchInv', [Next]_vars, frame # None, frame' # frame,
             Listed(frame') = Listed(frame)
      PROVE  \A i \in DOMAIN frame.nodes : frame'.nodes[i].name = frame.nodes[i].name
  <2>1. draw
    BY <1>1 DEF Next, Interrupt, Serving, vars
  <2>2. Alphabetical(frame) /\ Alphabetical(frame')
    BY <1>1, <2>1, DrawWhole DEF draw, WatchInv
  <2>3. QED
    BY <1>1, <2>2, SamePlaces
<1>2. WatchInv /\ WatchInv' /\ [Next]_vars
        => [frame # None /\ Listed(frame') = Listed(frame)
              => \A i \in DOMAIN frame.nodes :
                   frame'.nodes[i].name = frame.nodes[i].name]_frame
  BY <1>1
<1>3. QED
  BY <1>2, InitWatch, NextWatch, PTL DEF Spec, NodesStable
=============================================================================
