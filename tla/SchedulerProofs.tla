-------------------------- MODULE SchedulerProofs ---------------------------
(***************************************************************************)
(* What the sort returns, and what Schedule decides: every node is a       *)
(* candidate once, the candidates are in order, and the first one that is  *)
(* viable, if any, is better than every other viable one.                  *)
(***************************************************************************)
EXTENDS Scheduler, FiniteSetTheorems, SequenceTheorems, TLAPS

(* An order, as a set of pairs, in which any two elements can be compared. *)
StrictTotal(S, Order) ==
  /\ \A x \in S : <<x, x>> \notin Order
  /\ \A x, y, z \in S : <<x, y>> \in Order /\ <<y, z>> \in Order => <<x, z>> \in Order
  /\ \A x, y \in S : x # y => <<x, y>> \in Order \/ <<y, x>> \in Order

InOrder(s, Order) == \A i, j \in DOMAIN s : i < j => <<s[i], s[j]>> \in Order

(* The place of an element: one more than the number of those before it.   *)
Rank(S, Order, x) == Cardinality({y \in S : <<y, x>> \in Order}) + 1

(* An element that comes before another has a lower place.                 *)
LEMMA RankGrows ==
  ASSUME NEW S, IsFiniteSet(S), NEW Order, StrictTotal(S, Order),
         NEW x \in S, NEW y \in S, <<x, y>> \in Order
  PROVE  Rank(S, Order, x) < Rank(S, Order, y)
<1> DEFINE B(z) == {w \in S : <<w, z>> \in Order}
<1>1. B(x) \in SUBSET B(y) /\ x \in B(y) /\ x \notin B(x)
  BY DEF StrictTotal
<1>2. IsFiniteSet(B(y)) /\ IsFiniteSet(B(x))
  BY FS_Subset
<1>3. Cardinality(B(x)) \in Nat /\ Cardinality(B(y)) \in Nat
  BY <1>2, FS_CardinalityType
<1>4. Cardinality(B(x)) <= Cardinality(B(y)) /\ Cardinality(B(x)) # Cardinality(B(y))
  BY <1>1, <1>2, FS_Subset
<1>5. QED
  BY <1>3, <1>4 DEF Rank

(* Every element has a place of its own, and every place its element.      *)
LEMMA RankBijection ==
  ASSUME NEW S, IsFiniteSet(S), NEW Order, StrictTotal(S, Order)
  PROVE  /\ Cardinality(S) \in Nat
         /\ \A x \in S : Rank(S, Order, x) \in 1 .. Cardinality(S)
         /\ \A x, y \in S : Rank(S, Order, x) = Rank(S, Order, y) => x = y
         /\ \A k \in 1 .. Cardinality(S) : \E x \in S : Rank(S, Order, x) = k
<1> DEFINE n == Cardinality(S)
           f == [x \in S |-> Rank(S, Order, x)]
<1>1. n \in Nat
  BY FS_CardinalityType
<1>2. ASSUME NEW x \in S PROVE Rank(S, Order, x) \in 1 .. n
  <2> DEFINE B == {w \in S : <<w, x>> \in Order}
  <2>1. B \in SUBSET S /\ B # S
    BY DEF StrictTotal
  <2>2. IsFiniteSet(B) /\ Cardinality(B) <= n /\ Cardinality(B) # n
    BY <2>1, FS_Subset
  <2>3. Cardinality(B) \in Nat
    BY <2>2, FS_CardinalityType
  <2>4. QED
    BY <1>1, <2>2, <2>3 DEF Rank
<1>3. ASSUME NEW x \in S, NEW y \in S, Rank(S, Order, x) = Rank(S, Order, y), x # y
      PROVE  FALSE
  <2>1. Rank(S, Order, x) < Rank(S, Order, y) \/ Rank(S, Order, y) < Rank(S, Order, x)
    BY <1>3, RankGrows DEF StrictTotal
  <2>2. QED
    BY <1>1, <1>2, <1>3, <2>1
<1>4. f \in Injection(S, 1 .. n)
  BY <1>2, <1>3 DEF Injection, IsInjective
<1>5. IsFiniteSet(1 .. n) /\ Cardinality(1 .. n) = n
  BY <1>1, FS_Interval
<1>6. f \in Surjection(S, 1 .. n)
  BY <1>4, <1>5, FS_Injection
<1>7. QED
  BY <1>1, <1>2, <1>3, <1>6 DEF Surjection

(* A finite set can be sorted.                                             *)
LEMMA SortExists ==
  ASSUME NEW S, IsFiniteSet(S), NEW Order, StrictTotal(S, Order)
  PROVE  \E s \in [1 .. Cardinality(S) -> S] : InOrder(s, Order)
<1> DEFINE n == Cardinality(S)
           s == [k \in 1 .. n |-> CHOOSE x \in S : Rank(S, Order, x) = k]
<1>1. s \in [1 .. n -> S] /\ \A k \in 1 .. n : Rank(S, Order, s[k]) = k
  BY RankBijection
<1> HIDE DEF s
<1>2. ASSUME NEW i \in 1 .. n, NEW j \in 1 .. n, i < j
      PROVE  <<s[i], s[j]>> \in Order
  <2>1. i \in Int /\ j \in Int /\ s[i] \in S /\ s[j] \in S
        /\ Rank(S, Order, s[i]) = i /\ Rank(S, Order, s[j]) = j
    BY <1>1, RankBijection
  <2>2. <<s[j], s[i]>> \in Order => j < i
    BY <2>1, RankGrows
  <2>3. s[i] # s[j]
    BY <1>2, <2>1
  <2>4. QED
    BY <1>2, <2>1, <2>2, <2>3 DEF StrictTotal
<1>3. QED
  BY <1>1, <1>2 DEF InOrder

(* A sorted set has each of its elements somewhere.                        *)
LEMMA SortOnto ==
  ASSUME NEW S, IsFiniteSet(S), NEW Order, StrictTotal(S, Order),
         NEW s \in [1 .. Cardinality(S) -> S], InOrder(s, Order)
  PROVE  s \in Surjection(1 .. Cardinality(S), S)
<1> DEFINE n == Cardinality(S)
<1>1. n \in Nat
  BY FS_CardinalityType
<1>2. ASSUME NEW i \in 1 .. n, NEW j \in 1 .. n
      PROVE  s[i] = s[j] => i = j
  <2>1. i \in Int /\ j \in Int /\ s[i] \in S /\ s[j] \in S
    BY <1>1
  <2>2. i < j => <<s[i], s[j]>> \in Order
    BY DEF InOrder
  <2>3. j < i => <<s[j], s[i]>> \in Order
    BY DEF InOrder
  <2>4. <<s[i], s[i]>> \notin Order
    BY <2>1 DEF StrictTotal
  <2>5. ~ (<<s[i], s[j]>> \in Order /\ <<s[j], s[i]>> \in Order)
    BY <2>1, <2>4 DEF StrictTotal
  <2>6. QED
    BY <2>1, <2>2, <2>3, <2>4, <2>5
<1>3. IsFiniteSet(1 .. n) /\ Cardinality(1 .. n) = n
  BY <1>1, FS_Interval
<1>4. s \in Injection(1 .. n, S)
  BY <1>2 DEF Injection, IsInjective
<1>5. QED
  BY <1>3, <1>4, FS_Injection

(* Numbers sorted: each of them is listed, in ascending order.             *)
LEMMA SortedNumbers ==
  ASSUME NEW S, IsFiniteSet(S), S \subseteq Int
  PROVE  LET c == Sort(S, <)
             n == Cardinality(S)
         IN  /\ n \in Nat
             /\ c \in [1 .. n -> S]
             /\ \A s \in S : \E k \in 1 .. n : c[k] = s
             /\ \A i, j \in 1 .. n : i < j => c[i] < c[j]
<1> DEFINE Order == {p \in S \X S : p[1] < p[2]}
           n == Cardinality(S)
           c == Sort(S, <)
<1>1. \A s, t \in S : <<s, t>> \in Order <=> s < t
  OBVIOUS
<1>2. c = CHOOSE s \in [1 .. n -> S] : \A i, j \in DOMAIN s : i < j => s[i] < s[j]
  BY DEF Sort
<1> HIDE DEF Order, c
<1>3. StrictTotal(S, Order)
  BY <1>1 DEF StrictTotal
<1>4. \E s \in [1 .. n -> S] : InOrder(s, Order)
  BY <1>3, SortExists
<1>5. \E s \in [1 .. n -> S] : \A i, j \in DOMAIN s : i < j => s[i] < s[j]
  BY <1>1, <1>4 DEF InOrder
<1>6. c \in [1 .. n -> S] /\ \A i, j \in DOMAIN c : i < j => c[i] < c[j]
  BY <1>2, <1>5
<1>7. InOrder(c, Order)
  BY <1>1, <1>6 DEF InOrder
<1>8. c \in Surjection(1 .. n, S)
  BY <1>3, <1>6, <1>7, SortOnto
<1>9. QED
  BY <1>6, <1>8, FS_CardinalityType DEF Surjection, c

(* Nodes sorted by name: each of them is listed, in the order of the names.*)
LEMMA SortedByName ==
  ASSUME NEW S, IsFiniteSet(S), \A s \in S : s.name \in Int,
         \A s, t \in S : s.name = t.name => s = t
  PROVE  LET c == SortByName(S)
             n == Cardinality(S)
         IN  /\ n \in Nat
             /\ c \in [1 .. n -> S]
             /\ \A s \in S : \E k \in 1 .. n : c[k] = s
             /\ \A i, j \in 1 .. n : i < j => c[i].name < c[j].name
<1> DEFINE Order == {p \in S \X S : p[1].name < p[2].name}
           n == Cardinality(S)
           c == SortByName(S)
<1>1. \A s, t \in S : <<s, t>> \in Order <=> s.name < t.name
  OBVIOUS
<1>2. c = CHOOSE s \in [1 .. n -> S] : \A i, j \in DOMAIN s : i < j => s[i].name < s[j].name
  BY DEF Sort, SortByName
<1> HIDE DEF Order, c
<1>3. StrictTotal(S, Order)
  BY <1>1 DEF StrictTotal
<1>4. \E s \in [1 .. n -> S] : InOrder(s, Order)
  BY <1>3, SortExists
<1>5. \E s \in [1 .. n -> S] : \A i, j \in DOMAIN s : i < j => s[i].name < s[j].name
  BY <1>1, <1>4 DEF InOrder
<1>6. c \in [1 .. n -> S] /\ \A i, j \in DOMAIN c : i < j => c[i].name < c[j].name
  BY <1>2, <1>5
<1>7. InOrder(c, Order)
  BY <1>1, <1>6 DEF InOrder
<1>8. c \in Surjection(1 .. n, S)
  BY <1>3, <1>6, <1>7, SortOnto
<1>9. QED
  BY <1>6, <1>8, FS_CardinalityType DEF Surjection, c

(* The sequence c lists the nodes f[p] of the names p in P, by name.       *)
ListsByName(c, P, f) ==
  LET n == Cardinality(P)
  IN  /\ n \in Nat
      /\ DOMAIN c = 1 .. n
      /\ \A k \in 1 .. n : \E p \in P : c[k] = f[p]
      /\ \A p \in P : \E k \in 1 .. n : c[k] = f[p]
      /\ \A i, j \in 1 .. n : i < j => c[i].name < c[j].name

(* The same of a map from names to nodes, as the controller keeps them.    *)
LEMMA MapByName ==
  ASSUME NEW P, IsFiniteSet(P), P \subseteq Int, NEW f, \A p \in P : f[p].name = p,
         NEW S, \A p \in P : f[p] \in S, \A s \in S : \E p \in P : s = f[p]
  PROVE  ListsByName(SortByName(S), P, f)
<1> DEFINE g == [p \in P |-> f[p]]
           n == Cardinality(P)
           c == SortByName(S)
<1>1. g \in Bijection(P, S)
  BY DEF Bijection, Injection, IsInjective, Surjection
<1>2. IsFiniteSet(S) /\ Cardinality(S) = n
  BY <1>1, FS_Bijection DEF ExistsBijection
<1> HIDE DEF n
<1>3. \A s \in S : s.name \in P /\ s = f[s.name]
  OBVIOUS
<1>4. (\A s \in S : s.name \in Int) /\ \A s, t \in S : s.name = t.name => s = t
  BY <1>3
<1>5. /\ n \in Nat
      /\ c \in [1 .. n -> S]
      /\ \A s \in S : \E k \in 1 .. n : c[k] = s
      /\ \A i, j \in 1 .. n : i < j => c[i].name < c[j].name
  BY <1>2, <1>4, SortedByName
<1> HIDE DEF c
<1>6. QED
  BY <1>5 DEF c, n, ListsByName
-----------------------------------------------------------------------------
(* A cluster of n nodes whose figures are numbers, and a model like that.  *)
Comparable(n, cluster, model) ==
  /\ n \in Nat
  /\ DOMAIN cluster = 1 .. n
  /\ \A i \in 1 .. n : cluster[i].free \in Int /\ cluster[i].util \in Int
  /\ model.size \in Int

(* What the candidate for the i-th node is.                                *)
LEMMA CandidateType ==
  ASSUME NEW n, NEW cluster, NEW model, NEW cached, Comparable(n, cluster, model),
         NEW i \in 1 .. n
  PROVE  LET c == Candidate(i, cluster[i], model, cached)
         IN  /\ c.node = cluster[i]
             /\ (c.viable <=> Viable(cluster[i], model))
             /\ c.viable \in BOOLEAN /\ c.score \in Int
             /\ (c.viable => c.score = Score(cluster[i], model, cached))
             /\ c.reason = Reason(cluster[i], model, cached)
<1> DEFINE c == Candidate(i, cluster[i], model, cached)
<1>1. /\ c.node = cluster[i]
      /\ c.viable = Viable(cluster[i], model)
      /\ c.score = IF Viable(cluster[i], model) THEN Score(cluster[i], model, cached)
                   ELSE 0
      /\ c.reason = Reason(cluster[i], model, cached)
  BY DEF Candidate
<1>2. Viable(cluster[i], model) \in BOOLEAN
  BY DEF Viable
<1>3. Score(cluster[i], model, cached) \in Int
  <2>1. /\ cluster[i].free \in Int /\ cluster[i].util \in Int
        /\ model.size \in Int
    BY DEF Comparable
  <2>2. ASSUME NEW f \in Int, NEW u \in Int, NEW z \in Int, NEW b \in {0, 500}
        PROVE  5 * (f - z) + (100 - u) + b \in Int
    BY <2>2
  <2>3. (IF Cached(cluster[i], model, cached) THEN 500 ELSE 0) \in {0, 500}
    OBVIOUS
  <2>4. QED
    BY <2>1, <2>2, <2>3 DEF Score
<1> HIDE DEF c
<1>4. c.viable \in BOOLEAN /\ c.score \in Int
      /\ (c.viable => c.score = Score(cluster[i], model, cached))
  BY <1>1, <1>2, <1>3
<1>5. QED
  BY <1>1, <1>4 DEF c

(* There is one candidate for every node.                                  *)
LEMMA ConsideredAll ==
  ASSUME NEW n, NEW cluster, NEW model, NEW cached, Comparable(n, cluster, model)
  PROVE  LET cs == Considered(cluster, model, cached)
         IN  /\ cs = {Candidate(i, cluster[i], model, cached) : i \in 1 .. n}
             /\ IsFiniteSet(cs) /\ Cardinality(cs) = n
<1> DEFINE cs == Considered(cluster, model, cached)
           C(i) == Candidate(i, cluster[i], model, cached)
           f == [i \in 1 .. n |-> C(i)]
<1>1. ASSUME NEW i \in 1 .. n PROVE C(i) \in cs
  <2>1. <<i, cluster[i]>> \in Listed(cluster)
    BY DEF Listed, Comparable
  <2>2. Candidate(<<i, cluster[i]>>[1], <<i, cluster[i]>>[2], model, cached) \in cs
    BY <2>1, Zenon DEF Considered
  <2>3. <<i, cluster[i]>>[1] = i /\ <<i, cluster[i]>>[2] = cluster[i]
    OBVIOUS
  <2>4. QED
    BY <2>2, <2>3, Zenon
<1>2. ASSUME NEW c \in cs PROVE \E i \in 1 .. n : c = C(i)
  <2>1. PICK l \in Listed(cluster) : c = Candidate(l[1], l[2], model, cached)
    BY Zenon DEF Considered
  <2>2. PICK i \in 1 .. n : l = <<i, cluster[i]>>
    BY DEF Listed, Comparable
  <2>3. l[1] = i /\ l[2] = cluster[i]
    BY <2>2
  <2>4. QED
    BY <2>1, <2>3, Zenon
<1>3. \A i \in 1 .. n : C(i).at = i
  BY DEF Candidate
<1> HIDE DEF C, cs
<1>4. cs = {C(i) : i \in 1 .. n}
  BY <1>1, <1>2
<1>5. f \in Bijection(1 .. n, cs)
  BY <1>3, <1>4 DEF Bijection, Injection, IsInjective, Surjection
<1>6. IsFiniteSet(1 .. n) /\ Cardinality(1 .. n) = n
  BY FS_Interval DEF Comparable
<1>7. ExistsBijection(1 .. n, cs)
  BY <1>5 DEF ExistsBijection
<1>8. IsFiniteSet(cs) /\ Cardinality(cs) = n
  BY <1>6, <1>7, FS_Bijection
<1>9. QED
  BY <1>4, <1>8 DEF C, cs

BestFirstOrder(cs) == {p \in cs \X cs : Before(p[1], p[2])}

(* The order of the sort compares any two candidates.                      *)
LEMMA BeforeTotal ==
  ASSUME NEW n, NEW cluster, NEW model, NEW cached, Comparable(n, cluster, model)
  PROVE  LET cs == Considered(cluster, model, cached)
         IN  StrictTotal(cs, BestFirstOrder(cs))
<1> DEFINE cs == Considered(cluster, model, cached)
<1> DEFINE C(i) == Candidate(i, cluster[i], model, cached)
<1>a. cs = {C(i) : i \in 1 .. n}
  BY ConsideredAll
<1>b. ASSUME NEW i \in 1 .. n
      PROVE  C(i).at = i /\ C(i).viable \in BOOLEAN /\ C(i).score \in Int
  <2>1. C(i).at = i
    BY DEF Candidate
  <2>2. C(i).viable \in BOOLEAN /\ C(i).score \in Int
    BY CandidateType
  <2>3. QED
    BY <2>1, <2>2
<1> HIDE DEF cs, C
<1>1. \A c \in cs : c.viable \in BOOLEAN /\ c.score \in Int /\ c.at \in Int
  BY <1>a, <1>b
<1>2. \A c, d \in cs : c.at = d.at => c = d
  BY <1>a, <1>b
<1>3. \A c, d \in cs : <<c, d>> \in BestFirstOrder(cs) <=> Before(c, d)
  BY DEF BestFirstOrder
<1>4. \A c \in cs : ~ Before(c, c)
  BY <1>1 DEF Before
<1>5. \A c, d, e \in cs : Before(c, d) /\ Before(d, e) => Before(c, e)
  BY <1>1 DEF Before
<1>6. \A c, d \in cs : c # d => Before(c, d) \/ Before(d, c)
  BY <1>1, <1>2 DEF Before
<1>7. QED
  BY <1>3, <1>4, <1>5, <1>6 DEF StrictTotal, cs

(* The candidates are sorted, and none is lost.                            *)
LEMMA RankedCorrect ==
  ASSUME NEW n, NEW cluster, NEW model, NEW cached, Comparable(n, cluster, model)
  PROVE  LET r == Ranked(cluster, model, cached)
         IN  /\ r \in [1 .. n -> {Candidate(i, cluster[i], model, cached) : i \in 1 .. n}]
             /\ \A i \in 1 .. n : \E k \in 1 .. n :
                  r[k] = Candidate(i, cluster[i], model, cached)
             /\ \A j, k \in 1 .. n : j < k => Before(r[j], r[k])
<1> DEFINE cs == Considered(cluster, model, cached)
           r == Ranked(cluster, model, cached)
<1>1. /\ cs = {Candidate(i, cluster[i], model, cached) : i \in 1 .. n}
      /\ IsFiniteSet(cs) /\ Cardinality(cs) = n
  BY ConsideredAll
<1>2. StrictTotal(cs, BestFirstOrder(cs))
  BY BeforeTotal
<1> HIDE DEF cs
<1>3. \A c, d \in cs : <<c, d>> \in BestFirstOrder(cs) <=> Before(c, d)
  BY DEF BestFirstOrder
<1>4. \E s \in [1 .. n -> cs] : InOrder(s, BestFirstOrder(cs))
  BY <1>1, <1>2, SortExists
<1>5. r = CHOOSE s \in [1 .. n -> cs] : \A i, j \in DOMAIN s : i < j => Before(s[i], s[j])
  BY <1>1 DEF Ranked, Sort, cs
<1> HIDE DEF r
<1>6. \E s \in [1 .. n -> cs] : \A i, j \in DOMAIN s : i < j => Before(s[i], s[j])
  BY <1>3, <1>4 DEF InOrder
<1>7. r \in [1 .. n -> cs] /\ \A i, j \in DOMAIN r : i < j => Before(r[i], r[j])
  BY <1>5, <1>6
<1>8. InOrder(r, BestFirstOrder(cs))
  BY <1>3, <1>7 DEF InOrder
<1>9. \A c \in cs : \E k \in 1 .. n : r[k] = c
  <2>1. r \in [1 .. Cardinality(cs) -> cs]
    BY <1>1, <1>7
  <2>2. r \in Surjection(1 .. Cardinality(cs), cs)
    BY <1>1, <1>2, <1>8, <2>1, SortOnto
  <2>3. QED
    BY <1>1, <2>2 DEF Surjection
<1>10. QED
  BY <1>1, <1>7, <1>9 DEF r

(* Node i wins against all the others that are viable.                     *)
Wins(i, n, cluster, model, cached) ==
  /\ i \in 1 .. n
  /\ Viable(cluster[i], model)
  /\ \A j \in 1 .. n \ {i} :
       Viable(cluster[j], model) =>
         \/ Score(cluster[i], model, cached) > Score(cluster[j], model, cached)
         \/ /\ Score(cluster[i], model, cached) = Score(cluster[j], model, cached)
            /\ i < j

(* Schedule selects the viable node with the highest score, the first such *)
(* one in the snapshot, and no node only if none is viable.                *)
THEOREM ScheduleCorrect ==
  ASSUME NEW n, NEW cluster, NEW model, NEW cached, Comparable(n, cluster, model),
         \A i \in 1 .. n : cluster[i] # None
  PROVE  LET d == Schedule(cluster, model, cached)
         IN  /\ d.candidates = Ranked(cluster, model, cached)
             /\ d.selected = None => \A i \in 1 .. n : ~ Viable(cluster[i], model)
             /\ d.selected # None =>
                  \E i \in 1 .. n :
                    /\ Wins(i, n, cluster, model, cached)
                    /\ d.selected = cluster[i]
                    /\ d.summary = Reason(cluster[i], model, cached)
<1> DEFINE C(i) == Candidate(i, cluster[i], model, cached)
           S == {C(i) : i \in 1 .. n}
           r == Ranked(cluster, model, cached)
           d == Schedule(cluster, model, cached)
<1>1. n \in Nat
  BY DEF Comparable
<1>2. /\ r \in [1 .. n -> S]
      /\ \A i \in 1 .. n : \E k \in 1 .. n : r[k] = C(i)
      /\ \A j, k \in 1 .. n : j < k => Before(r[j], r[k])
  BY RankedCorrect
<1>3. ASSUME NEW i \in 1 .. n
      PROVE  /\ C(i).at = i /\ C(i).node = cluster[i]
             /\ C(i).viable <=> Viable(cluster[i], model)
             /\ C(i).viable \in BOOLEAN
             /\ C(i).viable => C(i).score = Score(cluster[i], model, cached)
             /\ C(i).score \in Int
             /\ C(i).reason = Reason(cluster[i], model, cached)
  <2>1. C(i).at = i
    BY DEF Candidate
  <2>2. QED
    BY <2>1, CandidateType
<1>4. r # <<>> <=> n # 0
  <2> HIDE DEF S, r
  <2>1. r \in Seq(S) /\ Len(r) = n
    BY <1>1, <1>2
  <2>2. QED
    BY <2>1, EmptySeq
<1>5. d = Verdict(r)
  BY DEF Schedule
<1>a. ASSUME NEW k \in 1 .. n PROVE \E i \in 1 .. n : r[k] = C(i)
  <2>1. r[k] \in S
    BY <1>2
  <2>2. QED
    BY <2>1
<1> HIDE DEF C, S, r, d
<1>6. d.candidates = r
  BY <1>5 DEF Verdict
<1>7. CASE r # <<>> /\ r[1].viable
  <2>1. d.selected = r[1].node /\ d.summary = r[1].reason
    BY <1>5, <1>7 DEF Verdict
  <2>2. PICK i \in 1 .. n : r[1] = C(i)
    BY <1>1, <1>4, <1>7, <1>a
  <2>3. ASSUME NEW j \in 1 .. n, j # i, Viable(cluster[j], model)
        PROVE  \/ Score(cluster[i], model, cached) > Score(cluster[j], model, cached)
               \/ /\ Score(cluster[i], model, cached) = Score(cluster[j], model, cached)
                  /\ i < j
    <3>1. PICK k \in 1 .. n : r[k] = C(j)
      BY <1>2
    <3>2. k # 1
      BY <1>3, <2>2, <2>3, <3>1
    <3>3. Before(C(i), C(j))
      <4>1. 1 \in 1 .. n /\ 1 < k
        BY <1>1, <3>2
      <4>2. Before(r[1], r[k])
        BY <1>2, <4>1
      <4>3. QED
        BY <2>2, <3>1, <4>2
    <3>4. /\ C(i).viable /\ C(j).viable
          /\ C(i).score = Score(cluster[i], model, cached)
          /\ C(j).score = Score(cluster[j], model, cached)
          /\ C(i).at = i /\ C(j).at = j
      BY <1>3, <1>7, <2>2, <2>3
    <3>5. QED
      BY <3>3, <3>4 DEF Before
  <2>4. Wins(i, n, cluster, model, cached)
    BY <1>3, <1>7, <2>2, <2>3 DEF Wins
  <2>5. d.selected = cluster[i] /\ d.summary = Reason(cluster[i], model, cached)
    BY <1>3, <2>1, <2>2
  <2>6. QED
    BY <1>6, <2>4, <2>5 DEF d, r
<1>8. CASE ~ (r # <<>> /\ r[1].viable)
  <2>1. d.selected = None
    BY <1>5, <1>8 DEF Verdict
  <2>2. ASSUME NEW j \in 1 .. n, Viable(cluster[j], model)
        PROVE  FALSE
    <3>1. PICK k \in 1 .. n : r[k] = C(j)
      BY <1>2
    <3>2. PICK i \in 1 .. n : r[1] = C(i)
      BY <1>1, <1>a
    <3>3. C(j).viable /\ C(j).viable \in BOOLEAN /\ C(i).viable \in BOOLEAN
      BY <1>3, <2>2
    <3>4. ~ C(i).viable
      BY <1>1, <1>4, <1>8, <3>2
    <3>5. k # 1
      BY <3>1, <3>2, <3>3, <3>4
    <3>6. Before(C(i), C(j))
      <4>1. 1 \in 1 .. n /\ 1 < k
        BY <1>1, <3>5
      <4>2. Before(r[1], r[k])
        BY <1>2, <4>1
      <4>3. QED
        BY <3>1, <3>2, <4>2
    <3>7. QED
      BY <3>3, <3>4, <3>6 DEF Before
  <2>3. QED
    BY <1>6, <2>1, <2>2 DEF d, r
<1>9. QED
  BY <1>7, <1>8 DEF d
=============================================================================
