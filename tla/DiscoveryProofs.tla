-------------------------- MODULE DiscoveryProofs ---------------------------
(***************************************************************************)
(* Proofs about Discovery, for any adapters, preferences and models, and   *)
(* however often the machine changes; and, at the end, about Hardware.     *)
(***************************************************************************)
EXTENDS Discovery, FiniteSetTheorems, WellFoundedInduction, TLAPS

(* The lemmas on sorting.                                                  *)
Sorts == INSTANCE SchedulerProofs

(* A set of positions that is not empty has a first one.                   *)
LEMMA FirstPosition ==
  ASSUME NEW S, S \subseteq Nat, S # {}
  PROVE  Min(S) \in S /\ \A y \in S : Min(S) <= y
<1>1. PICK x \in S : \A y \in S : <<y, x>> \notin OpToRel(<, Nat)
  BY NatLessThanWellFounded, WFMin
<1>2. \A y \in S : x <= y
  <2> SUFFICES ASSUME NEW y \in S PROVE ~(y < x)
    OBVIOUS
  <2>1. <<y, x>> \in Nat \X Nat /\ <<y, x>>[1] = y /\ <<y, x>>[2] = x
    OBVIOUS
  <2>2. QED
    BY <1>1, <2>1 DEF OpToRel
<1>3. QED
  BY <1>2 DEF Min

(* A node leads with an engine that has been detected.                     *)
LEMMA PrimaryDetected ==
  ASSUME NEW es, es \subseteq Engines, es # {}
  PROVE  primaryRuntime(es) \in es
<1> DEFINE liked == {i \in DOMAIN Preferred : Preferred[i] \in es}
<1>1. liked \subseteq Nat
  BY DiscoveryAssumption
<1>2. liked # {}
  BY DiscoveryAssumption DEF ToSet
<1>3. Min(liked) \in liked
  BY <1>1, <1>2, FirstPosition
<1>4. QED
  BY <1>3 DEF primaryRuntime

(* A sequence that is not empty is its first element and the rest.         *)
LEMMA HeadTail ==
  ASSUME NEW X, NEW s \in Seq(X), s # <<>>
  PROVE  /\ Head(s) \in X /\ Head(s) = s[1]
         /\ Tail(s) \in Seq(X) /\ Len(Tail(s)) = Len(s) - 1
         /\ \A i \in 1 .. Len(s) - 1 : Tail(s)[i] = s[i + 1]
         /\ ToSet(s) = {Head(s)} \cup ToSet(Tail(s))
<1>1. /\ Len(s) \in Nat \ {0} /\ DOMAIN s = 1 .. Len(s)
      /\ Head(s) = s[1] /\ s[1] \in X
      /\ Tail(s) \in Seq(X) /\ Len(Tail(s)) = Len(s) - 1
      /\ DOMAIN Tail(s) = 1 .. Len(s) - 1
      /\ \A i \in 1 .. Len(s) - 1 : Tail(s)[i] = s[i + 1]
  OBVIOUS
<1>2. ToSet(s) \subseteq {Head(s)} \cup ToSet(Tail(s))
  <2> SUFFICES ASSUME NEW i \in 1 .. Len(s), i # 1 PROVE s[i] \in ToSet(Tail(s))
    BY <1>1 DEF ToSet
  <2>1. i - 1 \in 1 .. Len(s) - 1 /\ Tail(s)[i - 1] = s[i]
    BY <1>1
  <2>2. QED
    BY <1>1, <2>1 DEF ToSet
<1>3. {Head(s)} \cup ToSet(Tail(s)) \subseteq ToSet(s)
  <2> SUFFICES ASSUME NEW i \in 1 .. Len(s) - 1 PROVE Tail(s)[i] \in ToSet(s)
    BY <1>1 DEF ToSet
  <2>1. i + 1 \in 1 .. Len(s) /\ Tail(s)[i] = s[i + 1]
    BY <1>1
  <2>2. QED
    BY <1>1, <2>1 DEF ToSet
<1>4. QED
  BY <1>1, <1>2, <1>3

(* The end of a sequence, position by position.                            *)
LEMMA SuffixAt ==
  ASSUME NEW X, NEW s \in Seq(X), NEW t \in Seq(X)
  PROVE  IsSuffix(s, t) <=>
           /\ Len(s) <= Len(t)
           /\ \A i \in 1 .. Len(s) : s[i] = t[Len(t) - Len(s) + i]
<1> DEFINE m == Len(s)
           n == Len(t)
           rs == [i \in 1 .. m |-> s[m - i + 1]]
           rt == [i \in 1 .. n |-> t[n - i + 1]]
<1>1. /\ m \in Nat /\ n \in Nat
      /\ Reverse(s) = rs /\ Reverse(t) = rt
      /\ rs \in Seq(X) /\ rt \in Seq(X) /\ Len(rs) = m /\ Len(rt) = n
  BY DEF Reverse
<1>2. IsSuffix(s, t) <=> m <= n /\ SubSeq(rs, 1, m) = SubSeq(rt, 1, m)
  BY <1>1 DEF IsSuffix, IsPrefix
<1>3. SubSeq(rs, 1, m) = [i \in 1 .. m |-> rs[i]]
  BY <1>1
<1>4. m <= n => SubSeq(rt, 1, m) = [i \in 1 .. m |-> rt[i]]
  BY <1>1
<1>5. m <= n => (SubSeq(rs, 1, m) = SubSeq(rt, 1, m) <=>
                   \A i \in 1 .. m : s[m - i + 1] = t[n - i + 1])
  <2>1. (\A i \in 1 .. m : rs[i] = s[m - i + 1]) /\ \A i \in 1 .. n : rt[i] = t[n - i + 1]
    OBVIOUS
  <2> HIDE DEF rs, rt
  <2>2. m <= n => \A i \in 1 .. m : i \in 1 .. n
    BY <1>1
  <2>3. QED
    BY <1>3, <1>4, <2>1, <2>2
<1>6. m <= n => ((\A i \in 1 .. m : s[m - i + 1] = t[n - i + 1])
                 <=> \A i \in 1 .. m : s[i] = t[n - m + i])
  <2> SUFFICES ASSUME m <= n
               PROVE  (\A i \in 1 .. m : s[m - i + 1] = t[n - i + 1])
                      <=> \A i \in 1 .. m : s[i] = t[n - m + i]
    OBVIOUS
  <2>1. ASSUME \A i \in 1 .. m : s[m - i + 1] = t[n - i + 1], NEW j \in 1 .. m
        PROVE  s[j] = t[n - m + j]
    <3>1. m - j + 1 \in 1 .. m /\ m - (m - j + 1) + 1 = j
          /\ n - (m - j + 1) + 1 = n - m + j
      BY <1>1
    <3>2. QED
      BY <2>1, <3>1
  <2>2. ASSUME \A i \in 1 .. m : s[i] = t[n - m + i], NEW j \in 1 .. m
        PROVE  s[m - j + 1] = t[n - j + 1]
    <3>1. m - j + 1 \in 1 .. m /\ n - m + (m - j + 1) = n - j + 1
      BY <1>1
    <3>2. QED
      BY <2>2, <3>1
  <2>3. QED
    BY <2>1, <2>2
<1>7. QED
  BY <1>2, <1>5, <1>6

(* A sequence ends with itself, with nothing, and with less of an end; and *)
(* what is in its end is in it.                                            *)
LEMMA EndOfSequence ==
  ASSUME NEW X, NEW t \in Seq(X)
  PROVE  /\ IsSuffix(t, t)
         /\ IsSuffix(<<>>, t)
         /\ \A s \in Seq(X) : IsSuffix(s, t) =>
              /\ ToSet(s) \subseteq ToSet(t)
              /\ s # <<>> => IsSuffix(Tail(s), t)
<1>1. IsSuffix(t, t)
  BY SuffixAt
<1>2. IsSuffix(<<>>, t)
  <2>1. <<>> \in Seq(X) /\ Len(<<>>) = 0 /\ Len(t) \in Nat
    OBVIOUS
  <2>2. ASSUME NEW s \in Seq(X), Len(s) = 0 PROVE IsSuffix(s, t)
    <3>1. Len(s) <= Len(t) /\ \A i \in 1 .. Len(s) : s[i] = t[Len(t) - Len(s) + i]
      BY <2>1, <2>2
    <3>2. QED
      BY <3>1, SuffixAt
  <2>3. QED
    BY <2>1, <2>2
<1>3. ASSUME NEW s \in Seq(X), IsSuffix(s, t) PROVE ToSet(s) \subseteq ToSet(t)
  <2> SUFFICES ASSUME NEW i \in 1 .. Len(s) PROVE s[i] \in ToSet(t)
    BY DEF ToSet
  <2>1. Len(t) - Len(s) + i \in 1 .. Len(t) /\ s[i] = t[Len(t) - Len(s) + i]
    BY <1>3, SuffixAt
  <2>2. QED
    BY <2>1 DEF ToSet
<1>4. ASSUME NEW s \in Seq(X), IsSuffix(s, t), s # <<>> PROVE IsSuffix(Tail(s), t)
  <2> DEFINE r == Tail(s)
  <2>1. /\ Len(s) \in Nat /\ Len(t) \in Nat /\ Len(s) <= Len(t)
        /\ \A i \in 1 .. Len(s) : s[i] = t[Len(t) - Len(s) + i]
    BY <1>4, SuffixAt
  <2>2. /\ r \in Seq(X) /\ Len(r) = Len(s) - 1
        /\ \A i \in 1 .. Len(s) - 1 : r[i] = s[i + 1]
    BY <1>4, HeadTail
  <2>3. ASSUME NEW i \in 1 .. Len(r) PROVE r[i] = t[Len(t) - Len(r) + i]
    <3>1. i + 1 \in 1 .. Len(s) /\ Len(t) - Len(s) + (i + 1) = Len(t) - Len(r) + i
      BY <2>1, <2>2
    <3>2. QED
      BY <2>1, <2>2, <3>1
  <2> HIDE DEF r
  <2>4. Len(r) <= Len(t)
    BY <2>1, <2>2
  <2>5. IsSuffix(r, t)
    BY <2>2, <2>3, <2>4, SuffixAt
  <2>6. QED
    BY <2>5 DEF r
<1>5. QED
  BY <1>1, <1>2, <1>3, <1>4

(* Every engine has a place among the adapters.                            *)
LEMMA PositionOf ==
  ASSUME NEW e \in Engines
  PROVE  Position(e) \in DOMAIN All /\ Position(e) \in Int /\ All[Position(e)] = e
<1>1. \E i \in DOMAIN All : All[i] = e
  BY DEF Engines, ToSet
<1>2. Position(e) \in DOMAIN All /\ All[Position(e)] = e /\ All \in Seq(Engines)
  BY <1>1, DiscoveryAssumption DEF Position
<1>3. QED
  BY <1>2

(* InOrder lists the engines it is given, in the order of the adapters.    *)
LEMMA Ordered ==
  ASSUME NEW es, es \subseteq Engines
  PROVE  LET s == InOrder(es)
         IN  /\ s \in Seq(es)
             /\ ToSet(s) = es
             /\ \A i, j \in DOMAIN s : i < j => Position(s[i]) < Position(s[j])
<1> DEFINE S == {i \in DOMAIN All : All[i] \in es}
           c == Sort(S, <)
           n == Cardinality(S)
<1>1. All \in Seq(Engines) /\ DOMAIN All = 1 .. Len(All) /\ Len(All) \in Nat
  BY DiscoveryAssumption
<1>2. IsFiniteSet(S) /\ S \subseteq Int
  <2>1. IsFiniteSet(1 .. Len(All)) /\ S \in SUBSET (1 .. Len(All))
    BY <1>1, FS_Interval
  <2>2. QED
    BY <2>1, FS_Subset
<1> HIDE DEF S
<1>3. /\ n \in Nat
      /\ c \in [1 .. n -> S]
      /\ \A s \in S : \E k \in 1 .. n : c[k] = s
      /\ \A i, j \in 1 .. n : i < j => c[i] < c[j]
  BY <1>2, Sorts!SortedNumbers
     DEF Sorts!Sort, Sort, Sorts!Cardinality, Cardinality, Sorts!IsFiniteSet,
         IsFiniteSet
<1>4. InOrder(es) = [k \in DOMAIN c |-> All[c[k]]]
  BY DEF InOrder, S
<1> HIDE DEF c, n
<1>5. InOrder(es) = [k \in 1 .. n |-> All[c[k]]]
  BY <1>3, <1>4
<1>6. \A k \in 1 .. n : c[k] \in DOMAIN All /\ All[c[k]] \in es
  BY <1>3 DEF S
<1>7. InOrder(es) \in Seq(es)
  BY <1>3, <1>5, <1>6
<1>8. ToSet(InOrder(es)) = es
  <2>1. ASSUME NEW e \in es PROVE \E k \in 1 .. n : All[c[k]] = e
    <3>1. PICK i \in DOMAIN All : All[i] = e
      BY DEF Engines, ToSet
    <3>2. i \in S
      BY <3>1 DEF S
    <3>3. QED
      BY <1>3, <3>1, <3>2
  <2>2. QED
    BY <1>5, <1>6, <2>1 DEF ToSet
<1>9. \A k \in 1 .. n : Position(All[c[k]]) = c[k]
  BY <1>6, DiscoveryAssumption DEF Position, IsInjective
<1>10. QED
  BY <1>3, <1>5, <1>7, <1>8, <1>9

(* A runtime that is there is that of an adapter.                          *)
LEMMA RuntimeOfAdapter ==
  ASSUME NEW e, Runtime(e) \in Facts PROVE e \in Engines
  BY DEF Facts, Runtime, Model, Job

(* What has been detected was there at some moment of the read.            *)
AttestedInv ==
  /\ machine \subseteq ever
  /\ ever \subseteq Facts
  /\ \A e \in found : Runtime(e) \in ever
  /\ Attested

(* Nothing has been reported yet.                                          *)
LEMMA InitAttested == Init => AttestedInv
  BY DEF Init, Machines, AttestedInv, Attested

(* Every call, its failure, and every change of an engine keep it.         *)
LEMMA NextAttested == AttestedInv /\ [Next]_vars => AttestedInv'
<1> SUFFICES ASSUME AttestedInv, [Next]_vars PROVE AttestedInv'
  OBVIOUS
<1> USE DEF AttestedInv, Attested
<1>1. ASSUME NEW r \in DOMAIN Sweeps, Begin(r) PROVE AttestedInv'
  BY <1>1 DEF Begin, NewReport
<1>2. CASE Detect
  BY <1>2 DEF Detect
<1>3. CASE Detected
  <2>1. found \subseteq Engines
    BY RuntimeOfAdapter
  <2>2. label' # None => Runtime(label') \in ever
    <3>1. found # {} => primaryRuntime(found) \in found
      BY <2>1, PrimaryDetected
    <3>2. found = {} => primaryRuntime(found) = None
      BY DEF primaryRuntime
    <3>3. QED
      BY <1>3, <3>1, <3>2 DEF Detected
  <2>3. report' \subseteq ever
    BY <1>3 DEF Detected
  <2>4. QED
    BY <1>3, <2>2, <2>3 DEF Detected
<1>4. CASE Query
  <2>1. Answer(Head(left)) \subseteq report \cup machine
    BY DEF Answer, Merged, JobsIn
  <2>2. QED
    BY <1>4, <2>1 DEF Query
<1>5. CASE EndSweep
  BY <1>5 DEF EndSweep
<1>6. ASSUME NEW e \in Engines, Change(e) PROVE AttestedInv'
  <2>1. machine' \subseteq Facts
    BY <1>6 DEF Change, States, Of
  <2>2. QED
    BY <1>6, <2>1 DEF Change
<1>7. CASE UNCHANGED vars
  BY <1>7 DEF vars
<1>8. QED
  BY <1>1, <1>2, <1>3, <1>4, <1>5, <1>6, <1>7 DEF Next, Step

(* Engines may come and go between the sweeps of a read, and any call may  *)
(* fail: a heartbeat, or an answer of the local store, tells of nothing    *)
(* that was not so while it was put together.                              *)
THEOREM DiscoveryAttested == Spec => []Attested
<1>1. AttestedInv => Attested
  BY DEF AttestedInv
<1>2. QED
  BY <1>1, InitAttested, NextAttested, PTL DEF Spec
-----------------------------------------------------------------------------
(* An API that answers is that of an engine that is there.                 *)
Closed(fs) == \A f \in fs : f[2] \in Engines /\ Runtime(f[2]) \in fs

Kinds == {"label", "inspect", "jobs", "catalogue"}

(* Types, with what is still to be swept and to be asked being the end of  *)
(* what there was, and a question being asked of engines that were found.  *)
TypeInv ==
  /\ TypeOK
  /\ sweeps \in Seq(Kinds)
  /\ left \in Seq(Engines)
  /\ Closed(always)

(* The sweeps that have ended.                                             *)
Gone == ToSet(Sweeps[read]) \ ToSet(sweeps)

(* The node leads with no engine that comes after one that was there all   *)
(* the while.                                                              *)
Led ==
  \A i \in DOMAIN Preferred :
    Runtime(Preferred[i]) \in always => \E k \in 1 .. i : label = Preferred[k]

(* What a sweep of this kind owes of these facts to those who are told.    *)
Owed(kind, facts, told, led) ==
  /\ kind = "label"     => led
  /\ kind = "inspect"   => {f \in facts : f[1] # "job"} \subseteq told
  /\ kind = "jobs"      => JobsIn(facts) \subseteq told
  /\ kind = "catalogue" => Names(facts) \subseteq Names(told)

(* Of the facts that were so all the while, the sweep under way has dealt  *)
(* with the presence of engines and with those it has asked.               *)
Dealt == {f \in always : f[1] = "runtime" \/ f[2] \notin ToSet(left)}

(* While every call is answered, the sweep finds every engine that is      *)
(* there all the while, the sweeps that have ended owe nothing, and the    *)
(* one under way owes what it has not yet dealt with.                      *)
SweepInv ==
  ~failed =>
    /\ ~Done => \A e \in Engines :
                  Runtime(e) \in always =>
                    e \in found \/ (asking = "detect" /\ e \in ToSet(left))
    /\ \A kind \in Gone : Owed(kind, always, report, Led)
    /\ asking = "query" => ~Done /\ Owed(Head(sweeps), Dealt, report, Led)

(* Engines are asked in the order of the adapters, so that of a machine    *)
(* that stays as it is, the entry of a name that is kept is the first.     *)
MergeInv ==
  /\ asking = "query" =>
       /\ \A i, j \in DOMAIN left : i < j => Position(left[i]) < Position(left[j])
       /\ ~Done /\ (Head(sweeps) = "label" => left = <<>>)
  /\ read = "Snapshot" => report = JobsIn(report)
  /\ read \in {"Models", "Cached"} =>
       /\ \A f \in report : f[1] = "model"
       /\ ~failed /\ ever = always =>
            \A f \in report, g \in machine :
              g[1] = "model" /\ g[3] = f[3] => Position(f[2]) <= Position(g[2])

(* A fact is of an engine, and tells what it is.                           *)
LEMMA FactOf ==
  ASSUME NEW f \in Facts
  PROVE  f[2] \in Engines /\ f[1] \in {"runtime", "model", "job"}
         /\ (f[1] = "runtime" => f = Runtime(f[2]))
         /\ (f[1] = "model" => f = Model(f[2], f[3]))
         /\ (f[1] = "job" => f[2] = "ollama")
  BY DiscoveryAssumption DEF Facts, Runtime, Model, Job

(* What is so of a machine is so of engines that are there.                *)
LEMMA MachineClosed ==
  ASSUME NEW m \in Machines PROVE m \subseteq Facts /\ Closed(m)
<1>1. m \subseteq Facts
  BY DEF Machines
<1>2. ASSUME NEW f \in m PROVE f[2] \in Engines /\ Runtime(f[2]) \in m
  <2>1. f[2] \in Engines /\ f \in m \cap Of(f[2])
    BY <1>1, FactOf DEF Of
  <2>2. m \cap Of(f[2]) \in States(f[2])
    BY <2>1 DEF Machines
  <2>3. QED
    BY <2>1, <2>2 DEF States
<1>3. QED
  BY <1>1, <1>2 DEF Closed

(* The reads and their sweeps.                                             *)
LEMMA SweepsType ==
  /\ DOMAIN Sweeps = {"registration", "Snapshot", "Models", "Cached"}
  /\ \A r \in DOMAIN Sweeps : Sweeps[r] \in Seq(Kinds) /\ Sweeps[r] # <<>>
  /\ ToSet(Sweeps["registration"]) = {"label", "inspect", "jobs"}
  /\ ToSet(Sweeps["Snapshot"]) = {"label", "jobs"}
  /\ ToSet(Sweeps["Models"]) = {"catalogue"}
  /\ ToSet(Sweeps["Cached"]) = {"label", "catalogue"}
<1>1. DOMAIN Sweeps = {"registration", "Snapshot", "Models", "Cached"}
  BY DEF Sweeps
<1>2. /\ Sweeps["registration"] = <<"label", "inspect", "jobs">>
      /\ Sweeps["Snapshot"] = <<"label", "jobs">>
      /\ Sweeps["Models"] = <<"catalogue">>
      /\ Sweeps["Cached"] = <<"label", "catalogue">>
  BY DEF Sweeps
<1>3. ASSUME NEW X, NEW a \in X, NEW b \in X, NEW c \in X
      PROVE  /\ <<a, b, c>> \in Seq(X) /\ <<a, b, c>> # <<>>
             /\ <<a, b>> \in Seq(X) /\ <<a, b>> # <<>>
             /\ <<a>> \in Seq(X) /\ <<a>> # <<>>
  OBVIOUS
<1>4. \A a, b, c : /\ ToSet(<<a, b, c>>) = {a, b, c}
                  /\ ToSet(<<a, b>>) = {a, b}
                  /\ ToSet(<<a>>) = {a}
  BY DEF ToSet
<1>5. /\ <<"label", "inspect", "jobs">> \in Seq(Kinds)
      /\ <<"label", "jobs">> \in Seq(Kinds)
      /\ <<"catalogue">> \in Seq(Kinds)
      /\ <<"label", "catalogue">> \in Seq(Kinds)
  <2>1. "label" \in Kinds /\ "inspect" \in Kinds /\ "jobs" \in Kinds /\ "catalogue" \in Kinds
    BY DEF Kinds
  <2>2. QED
    BY <1>3, <2>1
<1>6. ASSUME NEW r \in DOMAIN Sweeps PROVE Sweeps[r] \in Seq(Kinds) /\ Sweeps[r] # <<>>
  <2>1. Sweeps[r] \in Seq(Kinds)
    BY <1>1, <1>2, <1>5
  <2>2. Sweeps[r] # <<>>
    BY <1>1, <1>2
  <2>3. QED
    BY <2>1, <2>2
<1>7. /\ ToSet(<<"label", "inspect", "jobs">>) = {"label", "inspect", "jobs"}
      /\ ToSet(<<"label", "jobs">>) = {"label", "jobs"}
      /\ ToSet(<<"catalogue">>) = {"catalogue"}
      /\ ToSet(<<"label", "catalogue">>) = {"label", "catalogue"}
  BY <1>4
<1>8. QED
  BY <1>1, <1>2, <1>6, <1>7

(* An engine that changes leaves a machine.                                *)
LEMMA ChangeMachine ==
  ASSUME machine \in Machines, NEW e \in Engines, Change(e) PROVE machine' \in Machines
<1>1. PICK s \in States(e) : machine' = (machine \ Of(e)) \cup s
  BY DEF Change
<1>2. s \subseteq Of(e) /\ machine' \subseteq Facts
  BY <1>1 DEF States, Of, Machines
<1>3. ASSUME NEW d \in Engines PROVE machine' \cap Of(d) \in States(d)
  <2>1. CASE d = e
    <3>1. machine' \cap Of(d) = s
      BY <1>1, <1>2, <2>1
    <3>2. QED
      BY <1>1, <2>1, <3>1
  <2>2. CASE d # e
    <3>1. machine' \cap Of(d) = machine \cap Of(d)
      BY <1>1, <1>2, <2>2 DEF Of
    <3>2. QED
      BY <3>1 DEF Machines
  <2>3. QED
    BY <2>1, <2>2
<1>4. QED
  BY <1>2, <1>3 DEF Machines

(* A fresh read.                                                           *)
LEMMA InitType == Init => TypeInv
<1> SUFFICES ASSUME Init PROVE TypeInv
  OBVIOUS
<1>1. IsSuffix(<<>>, Sweeps["Models"]) /\ IsSuffix(<<>>, All)
  BY SweepsType, EndOfSequence, DiscoveryAssumption
<1>2. Closed(always)
  BY MachineClosed DEF Init
<1>3. "Models" \in DOMAIN Sweeps /\ 0 \in 0 .. MaxChanges
  BY SweepsType, DiscoveryAssumption
<1>4. <<>> \in Seq(Kinds) /\ <<>> \in Seq(Engines)
  OBVIOUS
<1>5. QED
  BY <1>1, <1>2, <1>3, <1>4 DEF Init, TypeInv, TypeOK

(* Every call and every change keeps the types.                            *)
LEMMA NextType == TypeInv /\ AttestedInv /\ [Next]_vars => TypeInv'
<1> SUFFICES ASSUME TypeInv, AttestedInv, [Next]_vars PROVE TypeInv'
  OBVIOUS
<1> USE DEF TypeInv, TypeOK
<1>0. /\ sweeps \in Seq(Kinds) /\ left \in Seq(Engines)
      /\ All \in Seq(Engines) /\ ToSet(All) = Engines
      /\ read \in DOMAIN Sweeps /\ Sweeps[read] \in Seq(Kinds)
  BY SweepsType, DiscoveryAssumption DEF Engines
<1>1. ASSUME NEW r \in DOMAIN Sweeps, Begin(r) PROVE TypeInv'
  <2>1. Sweeps[r] \in Seq(Kinds) /\ IsSuffix(Sweeps[r], Sweeps[r]) /\ IsSuffix(All, All)
    BY <1>0, SweepsType, EndOfSequence
  <2>2. Closed(machine)
    BY MachineClosed
  <2>3. Closed(always')
    BY <1>1, <2>2 DEF Begin
  <2>4. {} \subseteq Facts /\ 0 \in 0 .. MaxChanges
    BY DiscoveryAssumption
  <2> HIDE DEF Facts, Closed
  <2>5. QED
    BY <1>0, <1>1, <2>1, <2>3, <2>4 DEF Begin, NewReport
<1>2. CASE Detect
  <2>1. /\ Head(left) \in Engines /\ Tail(left) \in Seq(Engines)
        /\ IsSuffix(Tail(left), All)
    BY <1>0, <1>2, HeadTail, EndOfSequence DEF Detect
  <2>2. QED
    BY <1>2, <2>1 DEF Detect
<1>3. CASE Detected
  <2>1. Queried \subseteq found
    BY DEF Queried
  <2>2. InOrder(Queried) \in Seq(Engines) /\ ToSet(InOrder(Queried)) \subseteq found
    BY <2>1, Ordered
  <2>3. label' \in Engines \cup {None}
    BY <1>3, PrimaryDetected DEF Detected, primaryRuntime
  <2>4. report' \subseteq Facts
    BY <1>3 DEF Detected, Facts
  <2>5. QED
    BY <1>3, <2>2, <2>3, <2>4 DEF Detected
<1>4. CASE Query
  <2>1. /\ Tail(left) \in Seq(Engines) /\ ToSet(Tail(left)) \subseteq found
    BY <1>0, <1>4, HeadTail DEF Query
  <2>2. Answer(Head(left)) \subseteq report \cup machine /\ machine \subseteq Facts
    BY MachineClosed DEF Answer, Merged, JobsIn
  <2>3. QED
    BY <1>4, <2>1, <2>2 DEF Query
<1>5. CASE EndSweep
  <2>1. sweeps' \in Seq(Kinds) /\ IsSuffix(sweeps', Sweeps[read])
    BY <1>0, <1>5, HeadTail, EndOfSequence DEF EndSweep, Done
  <2>2. left' \in Seq(Engines) /\ IsSuffix(left', All)
    BY <1>0, <1>5, EndOfSequence DEF EndSweep
  <2>3. QED
    BY <1>5, <2>1, <2>2 DEF EndSweep
<1>6. ASSUME NEW e \in Engines, Change(e) PROVE TypeInv'
  <2>1. machine' \in Machines /\ Closed(machine')
    BY <1>6, ChangeMachine, MachineClosed
  <2>2. Closed(always')
    BY <1>6, <2>1 DEF Change, Closed
  <2>3. changes' \in 0 .. MaxChanges
    BY <1>6, DiscoveryAssumption DEF Change
  <2>4. QED
    BY <1>6, <2>1, <2>2, <2>3 DEF Change
<1>7. CASE UNCHANGED vars
  BY <1>7 DEF vars
<1>8. QED
  BY <1>1, <1>2, <1>3, <1>4, <1>5, <1>6, <1>7 DEF Next, Step

(* Less is owed of fewer facts, and the more has been told.                *)
LEMMA OwedLess ==
  ASSUME NEW kind, NEW facts, NEW less, less \subseteq facts,
         NEW told, NEW more, told \subseteq more,
         NEW led \in BOOLEAN, NEW led2 \in BOOLEAN, led => led2,
         Owed(kind, facts, told, led)
  PROVE  Owed(kind, less, more, led2)
<1>1. JobsIn(less) \subseteq JobsIn(facts)
  BY DEF JobsIn
<1>2. Names(less) \subseteq Names(facts) /\ Names(told) \subseteq Names(more)
  BY DEF Names
<1>3. QED
  BY <1>1, <1>2 DEF Owed

(* The node leads with the first of the preferred that has been detected.  *)
LEMMA PrimaryLeads ==
  ASSUME NEW es, es \subseteq Engines, NEW i \in DOMAIN Preferred, Preferred[i] \in es
  PROVE  \E k \in 1 .. i : primaryRuntime(es) = Preferred[k]
<1> DEFINE liked == {j \in DOMAIN Preferred : Preferred[j] \in es}
<1>1. i \in liked /\ liked \subseteq Nat \ {0}
  BY DiscoveryAssumption
<1>2. Min(liked) \in liked /\ Min(liked) <= i
  BY <1>1, FirstPosition
<1> HIDE DEF liked
<1>3. Min(liked) \in 1 .. i /\ i \in Nat
  BY <1>1, <1>2
<1>4. primaryRuntime(es) = Preferred[Min(liked)]
  BY DEF primaryRuntime, liked
<1>5. QED
  BY <1>3, <1>4

(* No read is under way.                                                   *)
LEMMA InitSweep == Init => SweepInv
  BY DEF Init, SweepInv

(* A sweep under way, once it is known which engines there are.            *)
LEMMA DetectedSweep ==
  ASSUME TypeInv, SweepInv, Detected PROVE SweepInv'
<1> SUFFICES ASSUME ~failed PROVE SweepInv'
  BY DEF SweepInv, Detected
<1> DEFINE kind == Head(sweeps)
<1>1. /\ ~Done /\ ~Done' /\ left = <<>> /\ asking = "detect" /\ asking' = "query"
      /\ found' = found /\ always' = always /\ sweeps' = sweeps /\ read' = read
      /\ left' = InOrder(Queried) /\ found \subseteq Engines
  BY DEF Detected, Done, TypeInv, TypeOK
<1>2. \A e \in Engines : Runtime(e) \in always => e \in found
  <2>1. ToSet(left) = {}
    BY <1>1 DEF ToSet
  <2>2. QED
    BY <1>1, <2>1 DEF SweepInv
<1>3. report \subseteq report'
  BY DEF Detected
<1>4. Led \in BOOLEAN /\ Led' \in BOOLEAN
  BY DEF Led
<1>5. kind = "label" => Led'
  <2>1. kind = "label" => label' = primaryRuntime(found)
    BY DEF Detected
  <2>2. ASSUME NEW i \in DOMAIN Preferred, Runtime(Preferred[i]) \in always
        PROVE  \E k \in 1 .. i : primaryRuntime(found) = Preferred[k]
    <3>1. Preferred[i] \in Engines
      BY DiscoveryAssumption
    <3>2. QED
      BY <1>1, <1>2, <2>2, <3>1, PrimaryLeads
  <2>3. QED
    BY <1>1, <2>1, <2>2 DEF Led
<1>6. Led => Led'
  <2>1. kind # "label" => label' = label
    BY DEF Detected
  <2>2. QED
    BY <1>1, <1>5, <2>1 DEF Led
<1>7. Gone' = Gone
  BY <1>1 DEF Gone
<1>8. \A k \in Gone' : Owed(k, always', report', Led')
  BY <1>1, <1>3, <1>4, <1>6, <1>7, OwedLess DEF SweepInv
<1>9. Owed(kind, Dealt', report', Led')
  <2>1. ToSet(left') = Queried
    <3>1. Queried \subseteq Engines
      BY <1>1 DEF Queried
    <3>2. QED
      BY <1>1, <3>1, Ordered
  <2>2. \A f \in always : f[2] \in found
    BY <1>2 DEF TypeInv, Closed
  <2>3. CASE kind = "label"
    BY <1>5, <2>3 DEF Owed
  <2>4. CASE kind = "inspect"
    <3>1. Queried = found /\ report' = report \cup {Runtime(e) : e \in found}
      BY <2>4 DEF Queried, Detected
    <3>2. \A f \in Dealt' : f = Runtime(f[2]) /\ f[2] \in found
      BY <1>1, <2>1, <2>2, <3>1, FactOf DEF Dealt, TypeInv, TypeOK, Machines
    <3>3. QED
      BY <2>4, <3>1, <3>2 DEF Owed
  <2>5. CASE kind = "jobs"
    <3>1. Queried = found \cap {"ollama"}
      BY <2>5 DEF Queried
    <3>2. JobsIn(Dealt') = {}
      BY <1>1, <2>1, <2>2, <3>1, FactOf DEF Dealt, JobsIn, TypeInv, TypeOK, Machines
    <3>3. QED
      BY <2>5, <3>2 DEF Owed
  <2>6. CASE kind = "catalogue"
    <3>1. Queried = found
      BY <2>6 DEF Queried
    <3>2. Names(Dealt') = {}
      BY <1>1, <2>1, <2>2, <3>1 DEF Dealt, Names
    <3>3. QED
      BY <2>6, <3>2 DEF Owed
  <2>7. QED
    BY <2>3, <2>4, <2>5, <2>6 DEF Owed
<1>10. QED
  BY <1>1, <1>2, <1>8, <1>9 DEF SweepInv

(* A sweep once one more engine has answered.                              *)
LEMMA QuerySweep ==
  ASSUME TypeInv, SweepInv, Query PROVE SweepInv'
<1> SUFFICES ASSUME ~failed' PROVE SweepInv'
  BY DEF SweepInv
<1> DEFINE kind == Head(sweeps)
           e == Head(left)
           asked == {f \in always : f[2] = e}
<1>1. /\ ~failed /\ left # <<>> /\ left \in Seq(Engines) /\ asking = "query"
      /\ left' = Tail(left) /\ report' = Answer(e)
      /\ UNCHANGED <<read, sweeps, asking, found, label, always>>
      /\ asked \subseteq machine
  BY DEF Query, TypeInv, TypeOK
<1>2. report \subseteq report'
  BY <1>1 DEF Answer, Merged
<1>3. /\ Led \in BOOLEAN /\ Led' = Led /\ Gone' = Gone /\ (Done' <=> Done)
      /\ ~Done
  BY <1>1 DEF Led, Gone, Done, SweepInv
<1>4. \A k \in Gone' : Owed(k, always', report', Led')
  BY <1>1, <1>2, <1>3, OwedLess DEF SweepInv
<1>5. Dealt' \subseteq Dealt \cup asked
  BY <1>1, HeadTail DEF Dealt
<1>6. Owed(kind, Dealt, report', Led)
  BY <1>1, <1>2, <1>3, OwedLess DEF SweepInv
<1>7. Owed(kind, asked, report', Led) \/ kind \in {"label", "inspect"}
  <2>1. CASE kind = "jobs"
    <3>1. report' = report \cup JobsIn(machine)
      BY <1>1, <2>1 DEF Answer
    <3>2. QED
      BY <1>1, <2>1, <3>1 DEF Owed, JobsIn
  <2>2. CASE kind = "catalogue"
    <3> DEFINE told == {f \in machine : f[2] = e /\ f[1] = "model"}
    <3>1. report' = report \cup {f \in told : f[3] \notin Names(report)}
      BY <1>1, <2>2 DEF Answer, Merged
    <3>2. ASSUME NEW f \in asked, f[1] = "model" PROVE f[3] \in Names(report')
      <4>1. f \in told
        BY <1>1, <3>2
      <4>2. CASE f[3] \in Names(report)
        BY <1>2, <4>2 DEF Names
      <4>3. CASE f[3] \notin Names(report)
        <5>1. f \in report'
          BY <3>1, <4>1, <4>3
        <5>2. QED
          BY <3>2, <5>1 DEF Names
      <4>4. QED
        BY <4>2, <4>3
    <3>3. QED
      BY <2>2, <3>2 DEF Owed, Names
  <2>3. QED
    BY <2>1, <2>2 DEF Owed
<1>8. Owed(kind, Dealt', report', Led)
  <2>1. CASE kind = "label"
    BY <1>6, <2>1 DEF Owed
  <2>2. CASE kind = "inspect"
    <3> DEFINE told == {f \in machine : f[2] = e /\ f[1] = "model"}
    <3>1. report' = report \cup told
      BY <1>1, <2>2 DEF Answer
    <3>2. ASSUME NEW f \in Dealt', f \notin Dealt, f[1] # "job" PROVE f \in told
      <4>1. f \in asked /\ f[1] # "runtime"
        BY <1>1, <1>5, <3>2 DEF Dealt
      <4>2. f[1] = "model"
        BY <1>1, <3>2, <4>1, FactOf DEF TypeInv, TypeOK, Machines
      <4>3. QED
        BY <1>1, <4>1, <4>2
    <3>3. {f \in Dealt : f[1] # "job"} \subseteq report'
      BY <1>6, <2>2 DEF Owed
    <3>4. {f \in Dealt' : f[1] # "job"} \subseteq report'
      BY <3>1, <3>2, <3>3
    <3>5. QED
      BY <2>2, <3>4 DEF Owed
  <2>3. CASE kind \notin {"label", "inspect"}
    BY <1>5, <1>6, <1>7, <2>3 DEF Owed, JobsIn, Names
  <2>4. QED
    BY <2>1, <2>2, <2>3
<1>9. QED
  BY <1>1, <1>3, <1>4, <1>8 DEF SweepInv

(* Every call that is answered, and every change, keeps what is owed.      *)
LEMMA NextSweep == TypeInv /\ SweepInv /\ [Next]_vars => SweepInv'
<1> SUFFICES ASSUME TypeInv, SweepInv, [Next]_vars PROVE SweepInv'
  OBVIOUS
<1>0. /\ left \in Seq(Engines) /\ sweeps \in Seq(Kinds)
      /\ always \subseteq machine /\ Led \in BOOLEAN /\ Led' \in BOOLEAN
      /\ ToSet(All) = Engines
  BY DEF TypeInv, TypeOK, Led, Engines
<1>1. ASSUME NEW r \in DOMAIN Sweeps, Begin(r) PROVE SweepInv'
  <2>1. Gone' = {}
    BY <1>1 DEF Begin, Gone
  <2>2. QED
    BY <1>0, <1>1, <2>1 DEF Begin, SweepInv
<1>2. CASE Detect
  <2>1. SUFFICES ASSUME ~failed, ~failed' PROVE SweepInv'
    BY <1>2 DEF Detect, SweepInv
  <2>2. /\ Gone' = Gone /\ Led' = Led /\ (Done' <=> Done)
        /\ always' = always /\ report' = report
        /\ asking = "detect" /\ asking' = "detect"
    BY <1>2 DEF Detect, Gone, Led, Done
  <2>3. ASSUME NEW e \in Engines, Runtime(e) \in always, ~Done
        PROVE  e \in found' \/ e \in ToSet(left')
    <3>1. e \in found \/ e \in ToSet(left)
      BY <2>1, <2>2, <2>3 DEF SweepInv
    <3>2. ToSet(left) = {Head(left)} \cup ToSet(left')
      BY <1>0, <1>2, HeadTail DEF Detect
    <3>3. found' = found \cup {d \in {Head(left)} : Runtime(d) \in machine}
      BY <1>2, <2>1 DEF Detect
    <3>4. QED
      BY <1>0, <2>3, <3>1, <3>2, <3>3
  <2>4. QED
    BY <2>1, <2>2, <2>3 DEF SweepInv
<1>3. CASE Detected
  BY <1>3, DetectedSweep
<1>4. CASE Query
  BY <1>4, QuerySweep
<1>5. CASE EndSweep
  <2>1. SUFFICES ASSUME ~failed, ~failed' PROVE SweepInv'
    BY <1>5 DEF EndSweep, SweepInv
  <2>2. /\ Led' = Led /\ always' = always /\ report' = report
        /\ asking = "query" /\ asking' = "detect" /\ ~Done
        /\ read' = read /\ sweeps' = Tail(sweeps)
        /\ left = <<>> /\ (~Done' => left' = All)
    BY <1>5 DEF EndSweep, Led, Done
  <2>3. Gone' \subseteq Gone \cup {Head(sweeps)}
    BY <1>0, <2>2, HeadTail DEF Gone, Done
  <2>4. Dealt = always
    BY <2>2 DEF Dealt, ToSet
  <2>5. \A kind \in Gone' : Owed(kind, always', report', Led')
    BY <2>1, <2>2, <2>3, <2>4 DEF SweepInv
  <2>6. QED
    BY <1>0, <2>2, <2>5 DEF SweepInv
<1>6. ASSUME NEW e \in Engines, Change(e) PROVE SweepInv'
  <2>1. SUFFICES ASSUME ~failed PROVE SweepInv'
    BY <1>6 DEF Change, SweepInv
  <2>2. /\ always' \subseteq always /\ Dealt' \subseteq Dealt /\ (Led => Led')
        /\ Gone' = Gone /\ (Done' <=> Done)
        /\ UNCHANGED <<sweeps, asking, left, found, report>>
    BY <1>6 DEF Change, Dealt, Led, Gone, Done
  <2>3. \A kind \in Gone' : Owed(kind, always', report', Led')
    BY <1>0, <2>1, <2>2, OwedLess DEF SweepInv
  <2>4. asking' = "query" => ~Done' /\ Owed(Head(sweeps'), Dealt', report', Led')
    BY <1>0, <2>1, <2>2, OwedLess DEF SweepInv
  <2>5. QED
    BY <2>1, <2>2, <2>3, <2>4 DEF SweepInv
<1>7. CASE UNCHANGED vars
  BY <1>7 DEF vars, SweepInv, Gone, Dealt, Led, Done
<1>8. QED
  BY <1>1, <1>2, <1>3, <1>4, <1>5, <1>6, <1>7 DEF Next, Step

(* No question has been asked, and nothing reported.                       *)
LEMMA InitMerge == Init => MergeInv
  BY DEF Init, MergeInv, JobsIn

(* What is merged of the answer of one more engine.                        *)
LEMMA QueryMerge ==
  ASSUME TypeInv, AttestedInv, SweepInv, MergeInv, Query PROVE MergeInv'
<1> DEFINE kind == Head(sweeps)
           e == Head(left)
           told == {f \in machine : f[2] = e /\ f[1] = "model"}
<1>1. /\ left # <<>> /\ left \in Seq(Engines) /\ asking = "query"
      /\ left' = Tail(left) /\ (report' = report \/ report' = Answer(e))
      /\ UNCHANGED <<machine, read, sweeps, asking, ever, always>>
      /\ (~failed' => ~failed /\ report' = Answer(e))
      /\ (Done' <=> Done)
  BY DEF Query, TypeInv, TypeOK, Done
<1>2. /\ e \in Engines /\ e = left[1] /\ Len(left') = Len(left) - 1
      /\ Len(left) \in Nat \ {0} /\ left' \in Seq(Engines)
      /\ \A i \in 1 .. Len(left) - 1 : left'[i] = left[i + 1]
      /\ DOMAIN left = 1 .. Len(left) /\ DOMAIN left' = 1 .. Len(left) - 1
  BY <1>1, HeadTail
<1>3. /\ \A i, j \in DOMAIN left' : i < j => Position(left'[i]) < Position(left'[j])
      /\ ~Done' /\ (Head(sweeps') = "label" => left' = <<>>)
  BY <1>1, <1>2 DEF MergeInv
<1>4. kind \in ToSet(Sweeps[read]) /\ kind # "label"
  <2>1. /\ sweeps \in Seq(Kinds) /\ sweeps # <<>> /\ IsSuffix(sweeps, Sweeps[read])
        /\ Sweeps[read] \in Seq(Kinds)
    BY <1>1, SweepsType DEF MergeInv, Done, TypeInv, TypeOK
  <2>2. kind \in ToSet(sweeps)
    BY <2>1, HeadTail
  <2>3. QED
    BY <1>1, <2>1, <2>2, EndOfSequence DEF MergeInv
<1>5. read = "Snapshot" => report' = JobsIn(report')
  <2> SUFFICES ASSUME read = "Snapshot" PROVE report' = JobsIn(report')
    OBVIOUS
  <2>1. kind = "jobs"
    BY <1>4, SweepsType
  <2>2. report' = report \/ report' = report \cup JobsIn(machine)
    BY <1>1, <2>1 DEF Answer
  <2>3. report = JobsIn(report)
    BY DEF MergeInv
  <2>4. QED
    BY <2>2, <2>3 DEF JobsIn
<1>6. ASSUME read \in {"Models", "Cached"}
      PROVE  /\ \A f \in report : f[1] = "model"
             /\ report' = report \/ report' = Merged(told)
             /\ kind = "catalogue"
             /\ (~failed' => report' = Merged(told))
  <2>1. kind = "catalogue"
    BY <1>4, <1>6, SweepsType
  <2>2. Answer(e) = Merged(told)
    BY <2>1 DEF Answer
  <2>3. QED
    BY <1>1, <1>6, <2>1, <2>2 DEF MergeInv
<1>7. ASSUME read \in {"Models", "Cached"} PROVE \A f \in report' : f[1] = "model"
  BY <1>6, <1>7 DEF Merged
<1>8. ASSUME read \in {"Models", "Cached"}, ~failed', ever = always,
             NEW f \in report', NEW g \in machine, g[1] = "model", g[3] = f[3]
      PROVE  Position(f[2]) <= Position(g[2])
  <2>0. ~failed /\ report' = Merged(told) /\ kind = "catalogue"
    BY <1>1, <1>6, <1>8
  <2>1. CASE f \in report
    BY <1>8, <2>0, <2>1 DEF MergeInv
  <2>2. CASE f \notin report
    <3>1. f \in told /\ f[3] \notin Names(report)
      BY <1>8, <2>0, <2>2 DEF Merged
    <3>2. g \in always
      BY <1>8 DEF TypeInv, TypeOK
    <3>3. Names(Dealt) \subseteq Names(report)
      BY <1>1, <2>0 DEF SweepInv, Owed
    <3>4. g[2] \in ToSet(left)
      <4>1. g \in Dealt => g[3] \in Names(Dealt)
        BY <1>8 DEF Names
      <4>2. QED
        BY <1>8, <3>1, <3>2, <3>3, <4>1 DEF Dealt
    <3>5. PICK j \in 1 .. Len(left) : g[2] = left[j]
      BY <1>2, <3>4 DEF ToSet
    <3>6. Position(e) \in Int
      BY <1>2, PositionOf
    <3>7. CASE j = 1
      BY <1>2, <3>1, <3>5, <3>6, <3>7
    <3>8. CASE j # 1
      <4>1. Position(left[1]) < Position(left[j])
        BY <1>1, <1>2, <3>5, <3>8 DEF MergeInv
      <4>2. Position(left[j]) \in Int
        BY <1>1, <1>2, PositionOf
      <4>3. QED
        BY <1>2, <3>1, <3>5, <3>6, <4>1, <4>2
    <3>9. QED
      BY <3>7, <3>8
  <2>3. QED
    BY <2>1, <2>2
<1>9. QED
  BY <1>1, <1>3, <1>5, <1>7, <1>8 DEF MergeInv

(* Every step keeps the order in which engines are asked and merged.       *)
LEMMA NextMerge ==
  TypeInv /\ AttestedInv /\ SweepInv /\ MergeInv /\ [Next]_vars => MergeInv'
<1> SUFFICES ASSUME TypeInv, AttestedInv, SweepInv, MergeInv, [Next]_vars
             PROVE  MergeInv'
  OBVIOUS
<1>1. ASSUME NEW r \in DOMAIN Sweeps, Begin(r) PROVE MergeInv'
  BY <1>1 DEF Begin, NewReport, MergeInv, JobsIn
<1>2. CASE Detect
  BY <1>2 DEF Detect, MergeInv
<1>3. CASE Detected
  <2>1. /\ UNCHANGED <<machine, read, sweeps, ever, always, failed>>
        /\ left' = InOrder(Queried) /\ asking' = "query" /\ ~Done /\ ~Done'
    BY <1>3 DEF Detected, Done
  <2>2. Queried \subseteq Engines
    BY DEF Queried, TypeInv, TypeOK
  <2>3. /\ \A i, j \in DOMAIN left' : i < j => Position(left'[i]) < Position(left'[j])
        /\ left' \in Seq(Queried)
    BY <2>1, <2>2, Ordered
  <2>4. Head(sweeps') = "label" => left' = <<>>
    <3>1. Head(sweeps) = "label" => Queried = {}
      BY DEF Queried
    <3>2. \A s \in Seq({}) : s = <<>>
      OBVIOUS
    <3>3. QED
      BY <2>1, <2>3, <3>1, <3>2
  <2>5. read # "registration" => report' = report
    <3>1. /\ sweeps \in Seq(Kinds) /\ sweeps # <<>> /\ IsSuffix(sweeps, Sweeps[read])
          /\ Sweeps[read] \in Seq(Kinds) /\ read \in DOMAIN Sweeps
      BY <2>1, SweepsType DEF Done, TypeInv, TypeOK
    <3>2. Head(sweeps) \in ToSet(Sweeps[read])
      BY <3>1, HeadTail, EndOfSequence
    <3>3. read # "registration" => Head(sweeps) # "inspect"
      BY <3>1, <3>2, SweepsType
    <3>4. QED
      BY <1>3, <3>3 DEF Detected
  <2>6. QED
    BY <2>1, <2>3, <2>4, <2>5 DEF MergeInv
<1>4. CASE Query
  BY <1>4, QueryMerge
<1>5. CASE EndSweep
  BY <1>5 DEF EndSweep, MergeInv
<1>6. ASSUME NEW e \in Engines, Change(e) PROVE MergeInv'
  <2>1. UNCHANGED <<read, sweeps, asking, left, report, failed>> /\ (Done' <=> Done)
    BY <1>6 DEF Change, Done
  <2>2. ever' = always' => machine' = machine /\ ever = always
    BY <1>6 DEF Change, TypeInv, TypeOK
  <2>3. QED
    BY <2>1, <2>2 DEF MergeInv
<1>7. CASE UNCHANGED vars
  BY <1>7 DEF vars, MergeInv, Done
<1>8. QED
  BY <1>1, <1>2, <1>3, <1>4, <1>5, <1>6, <1>7 DEF Next, Step

(* Together they are inductive.                                            *)
ReadInv == TypeInv /\ AttestedInv /\ SweepInv /\ MergeInv

(* The invariant of the reads.                                             *)
LEMMA ReadInvariant == Spec => []ReadInv
<1>1. Init => ReadInv
  BY InitType, InitAttested, InitSweep, InitMerge DEF ReadInv
<1>2. ReadInv /\ [Next]_vars => ReadInv'
  BY NextType, NextAttested, NextSweep, NextMerge DEF ReadInv
<1>3. QED
  BY <1>1, <1>2, PTL DEF Spec

(* Types are kept, whatever is swept and however the machine changes.      *)
THEOREM DiscoveryTypeOK == Spec => []TypeOK
<1>1. ReadInv => TypeOK
  BY DEF ReadInv, TypeInv
<1>2. QED
  BY <1>1, ReadInvariant, PTL

(* When a read has ended without a failure, what was so all the while has  *)
(* been dealt with by each of its sweeps.                                  *)
LEMMA NothingOwed ==
  ASSUME ReadInv, Done, ~failed, NEW kind \in ToSet(Sweeps[read])
  PROVE  Owed(kind, always, report, Led)
<1>1. ToSet(sweeps) = {}
  BY DEF Done, ToSet
<1>2. QED
  BY <1>1 DEF ReadInv, SweepInv, Gone

(* However engines come, go and change between the calls of a read: if its *)
(* calls are answered, it misses nothing that was so from beginning to end,*)
(* and the node leads with no lesser engine than one that was there.       *)
LEMMA ReadMissesNothing == ReadInv => NothingMissed
<1> SUFFICES ASSUME ReadInv, Done, ~failed
    PROVE  /\ read = "registration" => always \subseteq report
           /\ read = "Snapshot" => JobsIn(always) \subseteq report
           /\ read \in {"Models", "Cached"} => Names(always) \subseteq Names(report)
           /\ read # "Models" => Led
  BY DEF NothingMissed, Led
<1>1. read \in DOMAIN Sweeps
  BY DEF ReadInv, TypeInv, TypeOK
<1>2. CASE read = "registration"
  <2>1. /\ Owed("label", always, report, Led) /\ Owed("inspect", always, report, Led)
        /\ Owed("jobs", always, report, Led)
    BY <1>2, NothingOwed, SweepsType
  <2>2. QED
    BY <1>2, <2>1 DEF Owed, JobsIn
<1>3. CASE read = "Snapshot"
  <2>1. Owed("label", always, report, Led) /\ Owed("jobs", always, report, Led)
    BY <1>3, NothingOwed, SweepsType
  <2>2. QED
    BY <1>3, <2>1 DEF Owed
<1>4. CASE read = "Models"
  <2>1. Owed("catalogue", always, report, Led)
    BY <1>4, NothingOwed, SweepsType
  <2>2. QED
    BY <1>4, <2>1 DEF Owed
<1>5. CASE read = "Cached"
  <2>1. Owed("label", always, report, Led) /\ Owed("catalogue", always, report, Led)
    BY <1>5, NothingOwed, SweepsType
  <2>2. QED
    BY <1>5, <2>1 DEF Owed
<1>6. QED
  BY <1>1, <1>2, <1>3, <1>4, <1>5, SweepsType

(* A read whose calls are all answered misses nothing that was so all the  *)
(* while, for any adapters, preferences, models and number of changes.     *)
THEOREM DiscoveryNothingMissed == Spec => []NothingMissed
  BY ReadInvariant, ReadMissesNothing, PTL

(* Of a machine that stays as it is a read makes the same, whether it goes *)
(* through the agent and the controller or through the local store.        *)
LEMMA ReadSeam == ReadInv => Seam
<1> SUFFICES ASSUME ReadInv, Done, ~failed, ever = always
    PROVE  CASE read = "registration" -> Catalogue(report) = Catalogue(machine)
                                         /\ JobsIn(report) = JobsIn(machine)
             [] read = "Snapshot"     -> report = JobsIn(machine)
             [] OTHER                 -> report = Catalogue(machine)
  BY DEF Seam
<1>1. /\ read \in DOMAIN Sweeps /\ always = machine /\ report \subseteq machine
      /\ machine \subseteq Facts
  BY DEF ReadInv, TypeInv, TypeOK, AttestedInv, Attested
<1>2. CASE read = "registration"
  <2>1. report = machine
    BY <1>1, <1>2, ReadMissesNothing DEF NothingMissed
  <2>2. QED
    BY <1>2, <2>1
<1>3. CASE read = "Snapshot"
  <2>1. JobsIn(machine) \subseteq report
    BY <1>1, <1>3, ReadMissesNothing DEF NothingMissed
  <2>2. report = JobsIn(report)
    BY <1>3 DEF ReadInv, MergeInv
  <2>3. report = JobsIn(machine)
    BY <1>1, <2>1, <2>2 DEF JobsIn
  <2>4. QED
    BY <1>3, <2>3
<1>4. CASE read \in {"Models", "Cached"}
  <2>1. Names(machine) \subseteq Names(report)
    BY <1>1, <1>4, ReadMissesNothing DEF NothingMissed
  <2>2. /\ \A f \in report : f[1] = "model"
        /\ \A f \in report, g \in machine :
             g[1] = "model" /\ g[3] = f[3] => Position(f[2]) <= Position(g[2])
    BY <1>4 DEF ReadInv, MergeInv
  <2>3. report \subseteq Catalogue(machine)
    BY <1>1, <2>2 DEF Catalogue
  <2>4. ASSUME NEW f \in Catalogue(machine) PROVE f \in report
    <3>1. f \in machine /\ f[1] = "model" /\ f[3] \in Names(report)
      BY <2>1, <2>4 DEF Catalogue, Names
    <3>2. PICK g \in report : g[1] = "model" /\ g[3] = f[3]
      BY <3>1 DEF Names
    <3>3. /\ f \in Facts /\ g \in Facts /\ g \in machine
          /\ f[2] \in Engines /\ g[2] \in Engines
      BY <1>1, <3>1, FactOf
    <3>4. /\ Position(g[2]) <= Position(f[2]) /\ Position(f[2]) <= Position(g[2])
          /\ Position(f[2]) \in Int /\ Position(g[2]) \in Int
      BY <2>2, <2>4, <3>1, <3>2, <3>3, PositionOf DEF Catalogue
    <3>5. f[2] = g[2]
      <4>1. Position(f[2]) = Position(g[2])
        BY <3>4
      <4>2. QED
        BY <3>3, <4>1, PositionOf
    <3>6. f = Model(f[2], f[3]) /\ g = Model(g[2], g[3])
      BY <3>1, <3>2, <3>3, FactOf
    <3>7. QED
      BY <3>2, <3>5, <3>6
  <2>5. QED
    BY <1>4, <2>3, <2>4
<1>5. QED
  BY <1>1, <1>2, <1>3, <1>4, SweepsType

(* The local store and the controller store tell the same of a machine     *)
(* that stays as it is, for any adapters and models, although they sweep   *)
(* and merge differently.                                                  *)
THEOREM DiscoverySeam == Spec => []Seam
  BY ReadInvariant, ReadSeam, PTL
-----------------------------------------------------------------------------
(* The memory an agent reports (Hardware).                                 *)
H == INSTANCE Hardware

(* Total and free memory are of one pool, so that no host offers more      *)
(* memory than it has, which the scheduler would believe; but for one      *)
(* case, which nvidiaGPU lets through, and which offers at least a GB of   *)
(* nothing.                                                                *)
THEOREM FreeWithinTotal ==
  ASSUME None \notin Int, NEW h \in H!Host, H!Consistent(h)
  PROVE  LET a == H!detectAccelerator(h)
         IN  /\ a.free \in Nat /\ a.total \in Nat
             /\ a.free > a.total <=> H!OnlyFree(h) /\ h.free >= 1024
<1>1. ASSUME NEW m \in Nat, NEW n \in Nat, m <= n
      PROVE  /\ m \div 1024 \in Nat /\ m \div 1024 <= n \div 1024
             /\ m \div 1048576 \in Nat /\ m \div 1048576 <= n \div 1048576
             /\ n \div 1024 \in Nat /\ n \div 1048576 \in Nat
  BY <1>1
<1>2. CASE h.smi /\ ~(H!Unified(h) /\ h.os = "linux" /\ h.mem # None)
  <2>1. H!detectAccelerator(h) = H!vram(h)
    BY <1>2 DEF H!detectAccelerator, H!nvidiaGPU
  <2>2. CASE H!OnlyFree(h)
    <3>1. h.free \in Nat /\ H!vram(h) = [total |-> 0, free |-> h.free \div 1024]
      BY <2>2 DEF H!OnlyFree, H!vram, H!Atoi, H!Host, H!Number
    <3>2. h.free \div 1024 > 0 <=> h.free >= 1024
      BY <3>1
    <3>3. QED
      BY <1>1, <2>1, <2>2, <3>1, <3>2
  <2>3. CASE ~H!OnlyFree(h)
    <3>1. h.total # None \/ h.free = None
      BY <1>2, <2>3 DEF H!OnlyFree, H!Unified
    <3>2. H!Atoi(h.free) \in Nat /\ H!Atoi(h.total) \in Nat
          /\ H!Atoi(h.free) <= H!Atoi(h.total)
      BY <3>1 DEF H!Atoi, H!Host, H!Number, H!Consistent
    <3>3. QED
      BY <1>1, <2>1, <2>3, <3>2 DEF H!vram
  <2>4. QED
    BY <2>2, <2>3
<1>3. CASE h.smi /\ H!Unified(h) /\ h.os = "linux" /\ h.mem # None
  BY <1>1, <1>3
     DEF H!detectAccelerator, H!nvidiaGPU, H!linuxSystemMemory, H!GB, H!Atoi,
         H!Host, H!Number, H!Consistent, H!OnlyFree
<1>4. CASE ~h.smi
  BY <1>1, <1>4
     DEF H!detectAccelerator, H!appleSilicon, H!GB, H!Atoi, H!Host, H!Number,
         H!OnlyFree
<1>5. QED
  BY <1>2, <1>3, <1>4 DEF H!Host

(* "Fall back to system RAM as the memory pool" (nvidiaGPU): a part whose  *)
(* driver does not know its memory is not reported as having none.         *)
THEOREM UnifiedOffersMemory ==
  ASSUME None \notin Int, NEW h \in H!Host, h.smi, h.os = "linux",
         h.free = None, h.avail >= 1048576, h.mem # None
  PROVE  H!detectAccelerator(h).free > 0
<1>1. H!detectAccelerator(h).free = h.avail \div 1048576
  BY DEF H!detectAccelerator, H!nvidiaGPU, H!Unified, H!linuxSystemMemory, H!GB,
         H!Atoi, H!Host
<1>2. ASSUME NEW n \in Nat, n >= 1048576 PROVE n \div 1048576 > 0
  BY <1>2
<1>3. QED
  BY <1>1, <1>2 DEF H!Host
=============================================================================
