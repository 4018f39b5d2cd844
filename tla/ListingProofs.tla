--------------------------- MODULE ListingProofs ---------------------------
(***************************************************************************)
(* The list of packages: what a Pull mirrors first (Planner), which part   *)
(* of the list a page shows (Paging), and what a client that reads page    *)
(* after page may miss (Listing).                                          *)
(*                                                                         *)
(* The sort and the loops of planner.go are arrangements: an entry stands  *)
(* at the place that counts those before it.  Under a strict total order   *)
(* that is a bijection (ArrangedFacts), from which the order of each list  *)
(* follows.  The loop that finds the best version of each name has the     *)
(* invariant Tops.  For the client, the invariant bounds the entries it    *)
(* missed among those that its pages should have covered: an insertion     *)
(* brings none of them nearer to the front, a withdrawal at most one onto  *)
(* a page that was read.                                                   *)
(***************************************************************************)
EXTENDS Listing, FiniteSetTheorems, SequenceTheorems, WellFoundedInduction, TLAPS

-----------------------------------------------------------------------------
(* Arranged, for an order that is strict and total on the positions.       *)
Orders(is, less) ==
  /\ \A i \in is : <<i, i>> \notin less
  /\ \A i, j \in is : i # j => <<i, j>> \in less \/ <<j, i>> \in less
  /\ \A i, j, k \in is : <<i, j>> \in less /\ <<j, k>> \in less => <<i, k>> \in less

(* The place function of an arrangement: increasing and onto.              *)
Places(f, is, less) ==
  /\ f \in [1..Cardinality(is) -> is]
  /\ \A k, m \in 1..Cardinality(is) : k < m => <<f[k], f[m]>> \in less
  /\ \A i \in is : \E k \in 1..Cardinality(is) : f[k] = i

(* Each position has a place of its own, the number of those before it, so *)
(* that the arrangement lists every position once.                         *)
LEMMA ArrangedFacts ==
  ASSUME NEW list, NEW is, IsFiniteSet(is), NEW less, Orders(is, less)
  PROVE  /\ Cardinality(is) \in Nat
         /\ \E f : /\ Places(f, is, less)
                   /\ Arranged(list, is, less) = [k \in 1..Cardinality(is) |-> list[f[k]]]
<1> DEFINE n == Cardinality(is)
           below(i) == {j \in is : <<j, i>> \in less}
           rank == [i \in is |-> Cardinality(below(i)) + 1]
           f == [k \in 1..n |-> CHOOSE i \in is : Cardinality(below(i)) = k - 1]
<1>1. n \in Nat
  BY FS_CardinalityType
<1>2. ASSUME NEW i \in is
      PROVE  Cardinality(below(i)) \in Nat /\ Cardinality(below(i)) < n
  <2>1. below(i) \subseteq is /\ i \notin below(i)
    BY DEF Orders
  <2> HIDE DEF below
  <2> QED
    BY <1>1, <2>1, FS_Subset, FS_CardinalityType
<1>3. ASSUME NEW i \in is, NEW j \in is, <<i, j>> \in less
      PROVE  Cardinality(below(i)) < Cardinality(below(j))
  <2>1. below(i) \subseteq below(j) /\ i \in below(j) /\ i \notin below(i)
    BY <1>3 DEF Orders
  <2>2. IsFiniteSet(below(j))
    <3>1. below(j) \subseteq is
      OBVIOUS
    <3> HIDE DEF below
    <3> QED
      BY <3>1, FS_Subset
  <2> HIDE DEF below
  <2> QED
    BY <1>2, <2>1, <2>2, FS_Subset
<1>4. rank \in [is -> 1..n]
  BY <1>1, <1>2
<1>5. ASSUME NEW i \in is, NEW j \in is, rank[i] = rank[j] PROVE i = j
  <2>1. Cardinality(below(i)) = Cardinality(below(j))
    BY <1>2, <1>5
  <2>2. ~(<<i, j>> \in less) /\ ~(<<j, i>> \in less)
    <3> HIDE DEF below
    <3> QED
      BY <1>2, <1>3, <2>1
  <2> QED
    BY <2>2 DEF Orders
<1>6. \A k \in 1..n : \E i \in is : rank[i] = k
  <2>1. rank \in Injection(is, 1..n)
    <3> HIDE DEF rank
    <3> QED
      BY <1>4, <1>5 DEF Injection, IsInjective
  <2>2. IsFiniteSet(1..n) /\ Cardinality(1..n) = n
    BY <1>1, FS_Interval
  <2>3. rank \in Surjection(is, 1..n)
    <3> HIDE DEF rank
    <3> QED
      BY <2>1, <2>2, FS_Injection
  <2> HIDE DEF rank
  <2> QED
    BY <2>3 DEF Surjection
<1>7. \A k \in 1..n : f[k] \in is /\ rank[f[k]] = k
  <2> SUFFICES ASSUME NEW k \in 1..n PROVE f[k] \in is /\ rank[f[k]] = k
    OBVIOUS
  <2>1. PICK i \in is : rank[i] = k
    BY <1>6
  <2>2. Cardinality(below(i)) = k - 1
    BY <1>1, <1>2, <2>1
  <2>3. f[k] \in is /\ Cardinality(below(f[k])) = k - 1
    <3> HIDE DEF below
    <3> QED
      BY <2>2
  <2> HIDE DEF f, below
  <2> QED
    BY <1>1, <2>3
<1>8. f \in [1..n -> is]
  BY <1>7
<1>9. ASSUME NEW k \in 1..n, NEW m \in 1..n, k < m PROVE <<f[k], f[m]>> \in less
  <2>1. f[k] \in is /\ f[m] \in is /\ rank[f[k]] < rank[f[m]]
    BY <1>7, <1>9
  <2> HIDE DEF f
  <2>2. \A i, j \in is : <<i, j>> \in less => rank[i] < rank[j]
    <3>1. \A i, j \in is : <<i, j>> \in less => Cardinality(below(i)) < Cardinality(below(j))
      BY <1>3
    <3>2. \A i \in is : Cardinality(below(i)) \in Nat /\ rank[i] = Cardinality(below(i)) + 1
      BY <1>2
    <3> HIDE DEF below, rank
    <3> QED
      BY <3>1, <3>2
  <2>4. \A i \in is : rank[i] \in Nat
    BY <1>1, <1>4
  <2> HIDE DEF rank
  <2>3. f[k] # f[m] /\ ~(<<f[m], f[k]>> \in less)
    BY <2>1, <2>2, <2>4
  <2> QED
    BY <2>1, <2>3 DEF Orders
<1>10. \A i \in is : f[rank[i]] = i /\ rank[i] \in 1..n
  BY <1>4, <1>5, <1>7
<1>11. Arranged(list, is, less) = [k \in 1..n |-> list[f[k]]]
  BY DEF Arranged
<1> HIDE DEF f, rank
<1> QED
  BY <1>1, <1>8, <1>9, <1>10, <1>11 DEF Places

-----------------------------------------------------------------------------
(* Induction and recursion along a list.                                   *)
LEMMA SmallestOf ==
  ASSUME NEW T \in SUBSET Nat, T # {}
  PROVE  \E n \in T : \A m \in Nat : m < n => m \notin T
<1> DEFINE less == OpToRel(<, Nat)
<1>1. PICK n \in T : \A m \in T : ~(<<m, n>> \in less)
  <2>1. IsWellFoundedOn(less, Nat)
    BY NatLessThanWellFounded
  <2> HIDE DEF less
  <2> QED
    BY <2>1, WFMin
<1> QED
  BY <1>1 DEF OpToRel

(* What holds at 0 and is handed on from each number to the next holds up  *)
(* to n.                                                                   *)
LEMMA StepByStep ==
  ASSUME NEW n \in Nat, NEW S, 0 \in S, \A k \in 0..n : k # n /\ k \in S => k + 1 \in S
  PROVE  \A k \in 0..n : k \in S
<1> DEFINE Bad == {k \in 0..n : k \notin S}
<1>1. CASE Bad = {}
  BY <1>1
<1>2. CASE Bad # {}
  <2>1. PICK k \in Bad : \A m \in Nat : m < k => m \notin Bad
    <3>1. Bad \in SUBSET Nat
      OBVIOUS
    <3> HIDE DEF Bad
    <3> QED
      BY <1>2, <3>1, SmallestOf
  <2>2. k # 0 /\ k - 1 \in 0..n /\ k - 1 # n /\ (k - 1) + 1 = k
    BY <2>1
  <2>3. k - 1 \in S
    BY <2>1, <2>2
  <2> QED
    BY <2>1, <2>2, <2>3
<1> QED
  BY <1>1, <1>2

Recurses(F, n, b, G) == F = [k \in 0..n |-> IF k = 0 THEN b ELSE G[<<k, F[k - 1]>>]]

(* A loop over n steps has a result for every step.                        *)
LEMMA Recursion ==
  ASSUME NEW n \in Nat, NEW A, NEW b \in A, NEW G \in [(1..n) \X A -> A]
  PROVE  \E F \in [0..n -> A] : Recurses(F, n, b, G)
<1> DEFINE Fits(F, k) == \A i \in 0..k : F[i] = IF i = 0 THEN b ELSE G[<<i, F[i - 1]>>]
           Good == {k \in 0..n : \E F \in [0..k -> A] : Fits(F, k)}
<1>1. 0 \in Good
  <2> DEFINE F == [i \in 0..0 |-> b]
  <2>1. F \in [0..0 -> A] /\ \A i \in 0..0 : i = 0 /\ F[i] = b
    OBVIOUS
  <2> HIDE DEF F
  <2>2. Fits(F, 0)
    BY <2>1
  <2> QED
    BY <2>1, <2>2
<1>2. ASSUME NEW k \in 0..n, k # n, k \in Good PROVE k + 1 \in Good
  <2>1. PICK F \in [0..k -> A] : Fits(F, k)
    BY <1>2
  <2> DEFINE longer == [i \in 0..(k + 1) |-> IF i = k + 1 THEN G[<<k + 1, F[k]>>] ELSE F[i]]
  <2>2. longer \in [0..(k + 1) -> A]
    <3>1. G[<<k + 1, F[k]>>] \in A
      BY <1>2
    <3> QED
      BY <3>1
  <2>3. \A i \in 0..k : longer[i] = F[i]
    OBVIOUS
  <2>4. longer[k + 1] = G[<<k + 1, F[k]>>]
    OBVIOUS
  <2> HIDE DEF longer
  <2>5. ASSUME NEW i \in 0..(k + 1)
        PROVE  longer[i] = IF i = 0 THEN b ELSE G[<<i, longer[i - 1]>>]
    <3>1. CASE i = k + 1
      <4>1. i # 0 /\ i - 1 = k /\ longer[k] = F[k]
        BY <2>3, <3>1
      <4> QED
        BY <2>4, <3>1, <4>1
    <3>2. CASE i # k + 1
      <4>1. i \in 0..k /\ (i # 0 => i - 1 \in 0..k)
        BY <3>2
      <4> QED
        BY <2>1, <2>3, <4>1
    <3> QED
      BY <3>1, <3>2
  <2> QED
    BY <1>2, <2>2, <2>5
<1>3. n \in Good
  <2> HIDE DEF Good
  <2> QED
    BY <1>1, <1>2, StepByStep
<1>4. PICK F \in [0..n -> A] : Fits(F, n)
  BY <1>3
<1>5. F = [k \in 0..n |-> IF k = 0 THEN b ELSE G[<<k, F[k - 1]>>]]
  <2>1. F = [k \in 0..n |-> F[k]]
    OBVIOUS
  <2> QED
    BY <1>4, <2>1
<1> QED
  BY <1>5 DEF Recurses

-----------------------------------------------------------------------------
(* The comparisons of versions.                                            *)
LEMMA PartIsNat ==
  ASSUME NEW s \in Seq(Nat), NEW i \in Nat \ {0}
  PROVE  Part(s, i) \in Nat /\ (Part(s, i) > 0 => i <= Len(s))
BY DEF Part

(* The parts of a version are numbers; of a release they are its three.    *)
LEMMA PartsTyped ==
  ASSUME NEW v \in Versions
  PROVE  Parts(v) \in Seq(Nat) /\ v.core \in Seq(Nat) /\ Len(v.core) = 3
         /\ (v.pre = <<>> => Parts(v) = v.core)
<1>1. v.core \in [1..3 -> Nat] /\ v.pre \in Seq(0..Word)
  BY PlannerAssumption DEF PlannerAssumption
<1>2. v.core \in Seq(Nat) /\ Len(v.core) = 3
  <2> DEFINE copy == [i \in 1..3 |-> v.core[i]]
  <2>1. v.core = copy /\ copy \in [1..3 -> Nat]
    BY <1>1
  <2>2. copy \in Seq(Nat) /\ Len(copy) = 3
    BY <1>1
  <2> QED
    BY <2>1, <2>2
<1> DEFINE n == IF v.pre = <<>> THEN 0 ELSE Len(v.pre) - 1
           tail == [i \in 1..n |-> IF v.pre[i + 1] = Word THEN 0 ELSE v.pre[i + 1]]
<1>3. tail \in Seq(Nat) /\ n \in Nat /\ Len(tail) = n
  <2>1. n \in Nat
    BY <1>1
  <2>2. ASSUME NEW i \in 1..n PROVE v.pre[i + 1] \in 0..Word
    <3>1. i + 1 \in 1..Len(v.pre)
      BY <1>1, <2>2
    <3> QED
      BY <1>1, <3>1, ElementOfSeq
  <2>3. tail \in [1..n -> Nat]
    BY <2>2 DEF Word
  <2> HIDE DEF n, tail
  <2> QED
    BY <2>1, <2>3
<1>4. Parts(v) = v.core \o tail
  BY DEF Parts
<1>5. v.pre = <<>> => tail = <<>>
  <2>1. v.pre = <<>> => n = 0
    OBVIOUS
  <2> HIDE DEF n
  <2> QED
    BY <2>1
<1> HIDE DEF tail, n
<1> QED
  BY <1>2, <1>3, <1>4, <1>5

(* The comparison is strict and transitive, and tells lists of three       *)
(* numbers apart.                                                          *)
LEMMA ExceedsOrder ==
  ASSUME NEW s \in Seq(Nat), NEW t \in Seq(Nat), NEW u \in Seq(Nat)
  PROVE  /\ ~Exceeds(s, s)
         /\ Exceeds(s, t) /\ Exceeds(t, u) => Exceeds(s, u)
         /\ Len(s) = 3 /\ Len(t) = 3 /\ s # t => Exceeds(s, t) \/ Exceeds(t, s)
<1>1. ~Exceeds(s, s)
  <2>1. \A i \in 1..(Len(s) + Len(s)) : Part(s, i) \in Nat
    BY PartIsNat
  <2> QED
    BY <2>1 DEF Exceeds
<1>2. ASSUME Exceeds(s, t), Exceeds(t, u) PROVE Exceeds(s, u)
  <2>1. PICK i \in 1..(Len(s) + Len(t)) : /\ Part(s, i) > Part(t, i)
                                          /\ \A j \in 1..(i - 1) : Part(s, j) = Part(t, j)
    BY <1>2 DEF Exceeds
  <2>2. PICK k \in 1..(Len(t) + Len(u)) : /\ Part(t, k) > Part(u, k)
                                          /\ \A j \in 1..(k - 1) : Part(t, j) = Part(u, j)
    BY <1>2 DEF Exceeds
  <2> DEFINE m == IF i <= k THEN i ELSE k
  <2>3. m \in Nat \ {0} /\ m <= i /\ m <= k /\ (m = i \/ m = k)
    OBVIOUS
  <2>4. \A j \in Nat \ {0} : Part(s, j) \in Nat /\ Part(t, j) \in Nat /\ Part(u, j) \in Nat
    BY PartIsNat
  <2> HIDE DEF m
  <2>5. Part(s, m) > Part(u, m)
    <3>1. CASE m = i /\ m = k
      BY <2>1, <2>2, <2>3, <2>4, <3>1
    <3>2. CASE m = i /\ m < k
      <4>1. Part(t, m) = Part(u, m)
        BY <2>2, <2>3, <3>2
      <4> QED
        BY <2>1, <3>2, <4>1
    <3>3. CASE m < i /\ m = k
      <4>1. Part(s, m) = Part(t, m)
        BY <2>1, <2>3, <3>3
      <4> QED
        BY <2>2, <3>3, <4>1
    <3> QED
      BY <2>3, <3>1, <3>2, <3>3
  <2>6. \A j \in 1..(m - 1) : Part(s, j) = Part(u, j)
    BY <2>1, <2>2, <2>3
  <2>7. m \in 1..(Len(s) + Len(u))
    <3>1. Part(s, m) > 0
      BY <2>3, <2>4, <2>5
    <3>2. m <= Len(s)
      BY <2>3, <3>1, PartIsNat
    <3> QED
      BY <2>3, <3>2
  <2> QED
    BY <2>5, <2>6, <2>7 DEF Exceeds
<1>3. ASSUME Len(s) = 3, Len(t) = 3, s # t PROVE Exceeds(s, t) \/ Exceeds(t, s)
  <2>1. ASSUME NEW i \in 1..3
        PROVE  Part(s, i) = s[i] /\ Part(t, i) = t[i] /\ s[i] \in Nat /\ t[i] \in Nat
    <3>1. i \in 1..Len(s) /\ i \in 1..Len(t) /\ i <= 3
      BY <1>3
    <3> QED
      BY <1>3, <3>1, ElementOfSeq DEF Part
  <2>2. \E i \in {1, 2, 3} : s[i] # t[i] /\ \A j \in 1..(i - 1) : s[j] = t[j]
    <3>1. s[1] # t[1] \/ s[2] # t[2] \/ s[3] # t[3]
      <4>1. PICK i \in 1..Len(s) : s[i] # t[i]
        BY <1>3, SeqEqual
      <4>2. i = 1 \/ i = 2 \/ i = 3
        BY <1>3
      <4> QED
        BY <4>1, <4>2
    <3>2. CASE s[1] # t[1]
      BY <3>2
    <3>3. CASE s[1] = t[1] /\ s[2] # t[2]
      <4>1. \A j \in 1..(2 - 1) : j = 1
        OBVIOUS
      <4> QED
        BY <3>3, <4>1
    <3>4. CASE s[1] = t[1] /\ s[2] = t[2] /\ s[3] # t[3]
      <4>1. \A j \in 1..(3 - 1) : j = 1 \/ j = 2
        OBVIOUS
      <4> QED
        BY <3>4, <4>1
    <3> QED
      BY <3>1, <3>2, <3>3, <3>4, Zenon
  <2>3. PICK i \in {1, 2, 3} : s[i] # t[i] /\ \A j \in 1..(i - 1) : s[j] = t[j]
    BY <2>2, Zenon
  <2>8. i \in 1..3 /\ \A j \in 1..(i - 1) : j \in 1..3
    OBVIOUS
  <2>4. \A j \in 1..(i - 1) : Part(s, j) = Part(t, j)
    BY <2>1, <2>3, <2>8
  <2>5. i \in 1..(Len(s) + Len(t)) /\ i \in 1..(Len(t) + Len(s))
    BY <1>3
  <2>6. Part(s, i) > Part(t, i) \/ Part(t, i) > Part(s, i)
    <3>1. Part(s, i) # Part(t, i) /\ Part(s, i) \in Nat /\ Part(t, i) \in Nat
      BY <2>1, <2>3, <2>8
    <3> QED
      BY <3>1
  <2> QED
    BY <2>4, <2>5, <2>6 DEF Exceeds
<1> QED
  BY <1>1, <1>2, <1>3

(* compareVer is a strict order, in which versions may be equal.           *)
LEMMA NewerIsOrder ==
  ASSUME NEW a \in Versions, NEW b \in Versions, NEW c \in Versions
  PROVE  ~Newer(a, a) /\ (Newer(a, b) /\ Newer(b, c) => Newer(a, c))
BY PartsTyped, ExceedsOrder DEF Newer

-----------------------------------------------------------------------------
(* The loop over the sorted list: what it holds of a name is the version   *)
(* of an entry that it has seen and that no other exceeds.                 *)
Tops(best, list, k) ==
  /\ DOMAIN best = {list[i].name : i \in 1..k}
  /\ \A i \in 1..k : \E j \in 1..k :
       /\ list[j].name = list[i].name /\ list[j].version = best[list[i].name]
       /\ ~Newer(list[i].version, list[j].version)

(* One turn of the loop of planner.go:44.                                  *)
LEMMA KeepTops ==
  ASSUME NEW list \in Seq(Entry), NEW k \in 0..Len(list), k # Len(list), NEW best, Tops(best, list, k)
  PROVE  Tops(Keep(best, list[k + 1]), list, k + 1)
<1> DEFINE p == list[k + 1]
<1>1. p \in Entry /\ \A i \in 1..k : list[i] \in Entry /\ i \in 1..(k + 1)
  OBVIOUS
<1>2. p.version \in Versions /\ \A i \in 1..k : list[i].version \in Versions
  BY <1>1 DEF Entry
<1>3. 1..(k + 1) = 1..k \cup {k + 1}
  OBVIOUS
<1>4. ASSUME p.name \in DOMAIN best, ~Newer(p.version, best[p.name])
      PROVE  Tops(best, list, k + 1)
  <2>1. PICK i \in 1..k : list[i].name = p.name
    BY <1>4 DEF Tops
  <2>2. DOMAIN best = {list[m].name : m \in 1..(k + 1)}
    BY <1>3, <2>1 DEF Tops
  <2>3. \E j \in 1..(k + 1) : /\ list[j].name = p.name /\ list[j].version = best[p.name]
                              /\ ~Newer(p.version, list[j].version)
    BY <1>1, <1>4, <2>1 DEF Tops
  <2> QED
    BY <1>3, <2>2, <2>3 DEF Tops
<1>5. ASSUME p.name \notin DOMAIN best \/ Newer(p.version, best[p.name]),
             NEW kept, kept = [n \in DOMAIN best \cup {p.name} |-> IF n = p.name THEN p.version
                                                                   ELSE best[n]]
      PROVE  Tops(kept, list, k + 1)
  <2>1. DOMAIN kept = {list[m].name : m \in 1..(k + 1)}
    BY <1>3, <1>5 DEF Tops
  <2>2. kept[p.name] = p.version /\ \A n \in DOMAIN best : n # p.name => kept[n] = best[n]
    BY <1>5
  <2>3. ASSUME NEW i \in 1..(k + 1)
        PROVE  \E j \in 1..(k + 1) : /\ list[j].name = list[i].name
                                     /\ list[j].version = kept[list[i].name]
                                     /\ ~Newer(list[i].version, list[j].version)
    <3>1. CASE i = k + 1
      BY <1>2, <2>2, <3>1, NewerIsOrder
    <3>2. CASE i # k + 1 /\ list[i].name # p.name
      <4>1. i \in 1..k /\ list[i].name \in DOMAIN best
        BY <1>3, <3>2 DEF Tops
      <4>2. PICK j \in 1..k : /\ list[j].name = list[i].name /\ list[j].version = best[list[i].name]
                              /\ ~Newer(list[i].version, list[j].version)
        BY <4>1 DEF Tops
      <4> QED
        BY <1>1, <2>2, <3>2, <4>1, <4>2
    <3>3. CASE i # k + 1 /\ list[i].name = p.name
      <4>1. i \in 1..k /\ list[i].name \in DOMAIN best
        BY <1>3, <3>3 DEF Tops
      <4>2. PICK j \in 1..k : /\ list[j].name = list[i].name /\ list[j].version = best[list[i].name]
                              /\ ~Newer(list[i].version, list[j].version)
        BY <4>1 DEF Tops
      <4>3. Newer(p.version, list[j].version)
        BY <1>5, <3>3, <4>1, <4>2
      <4>4. ~Newer(list[i].version, p.version)
        BY <1>2, <4>1, <4>2, <4>3, NewerIsOrder
      <4> QED
        BY <1>3, <2>2, <3>3, <4>4
    <3> QED
      BY <3>1, <3>2, <3>3
  <2> QED
    BY <2>1, <2>3 DEF Tops
<1> HIDE DEF p
<1>6. Tops(Keep(best, p), list, k + 1)
  BY <1>4, <1>5 DEF Keep
<1> QED
  BY <1>6 DEF p

-----------------------------------------------------------------------------
(* The loop as a whole, and the result of it.                              *)
LEMMA LatestMapTops ==
  ASSUME NEW list \in Seq(Entry)
  PROVE  Tops(latestMap(list), list, Len(list))
<1> DEFINE n == Len(list)
           A == UNION {[D -> Versions] : D \in SUBSET Packages}
           G == [ka \in (1..n) \X A |-> Keep(ka[2], list[ka[1]])]
           Loop(F) == F = [k \in 0..n |-> IF k = 0 THEN <<>> ELSE Keep(F[k - 1], list[k])]
           after == CHOOSE F : Loop(F)
           S == {k \in 0..n : Tops(after[k], list, k)}
<1>1. n \in Nat /\ \A k \in 1..n : list[k] \in Entry
  OBVIOUS
<1>2. G \in [(1..n) \X A -> A]
  <2> SUFFICES ASSUME NEW k \in 1..n, NEW best \in A PROVE Keep(best, list[k]) \in A
    OBVIOUS
  <2>1. PICK D \in SUBSET Packages : best \in [D -> Versions]
    OBVIOUS
  <2>2. list[k].name \in Packages /\ list[k].version \in Versions
    BY <1>1 DEF Entry
  <2>3. [m \in DOMAIN best \cup {list[k].name} |-> IF m = list[k].name THEN list[k].version ELSE best[m]]
          \in [D \cup {list[k].name} -> Versions]
    BY <2>1, <2>2
  <2>4. D \cup {list[k].name} \in SUBSET Packages
    BY <2>2
  <2>5. [m \in DOMAIN best \cup {list[k].name} |-> IF m = list[k].name THEN list[k].version ELSE best[m]]
          \in A
    BY <2>3, <2>4
  <2> HIDE DEF A
  <2> QED
    BY <2>5 DEF Keep
<1>3. \E F : Loop(F)
  <2>1. <<>> \in A
    <3>1. <<>> \in [{} -> Versions]
      OBVIOUS
    <3> QED
      BY <3>1
  <2>2. PICK F \in [0..n -> A] : Recurses(F, n, <<>>, G)
    <3>1. n \in Nat
      BY <1>1
    <3> HIDE DEF G, A, n
    <3> QED
      BY <1>2, <2>1, <3>1, Recursion
  <2>3. ASSUME NEW k \in 0..n
        PROVE  F[k] = IF k = 0 THEN <<>> ELSE Keep(F[k - 1], list[k])
    <3>1. k # 0 => k \in 1..n /\ F[k - 1] \in A
      <4> HIDE DEF A
      <4> QED
        OBVIOUS
    <3>2. k # 0 => G[<<k, F[k - 1]>>] = Keep(F[k - 1], list[k])
      <4> HIDE DEF A
      <4> QED
        BY <3>1
    <3> HIDE DEF G, A
    <3> QED
      BY <2>2, <3>2 DEF Recurses
  <2>4. F = [k \in 0..n |-> F[k]]
    <3> HIDE DEF A
    <3> QED
      OBVIOUS
  <2> QED
    BY <2>3, <2>4
<1>4. Loop(after)
  <2> HIDE DEF Loop
  <2> QED
    BY <1>3
<1>5. latestMap(list) = after[n]
  BY DEF latestMap
<1> HIDE DEF after
<1>6. after[0] = <<>> /\ \A k \in 0..n : k # n => after[k + 1] = Keep(after[k], list[k + 1])
  BY <1>1, <1>4
<1>7. 0 \in S
  BY <1>1, <1>6 DEF Tops
<1>8. \A k \in 0..n : k # n /\ k \in S => k + 1 \in S
  BY <1>1, <1>6, KeepTops
<1>9. n \in S
  <2>1. n \in Nat /\ n \in 0..n
    BY <1>1
  <2> HIDE DEF S, n
  <2>2. \A k \in 0..n : k \in S
    BY <1>7, <1>8, <2>1, StepByStep
  <2> QED
    BY <2>1, <2>2
<1> QED
  BY <1>5, <1>9

-----------------------------------------------------------------------------
(* What a loop appends: all that it chooses, in the order of the list.     *)
LEMMA ChosenFacts ==
  ASSUME NEW S, NEW list \in Seq(S), NEW is \in SUBSET (1..Len(list))
  PROVE  /\ Chosen(list, is) \in Seq(S) /\ Cardinality(is) \in Nat
         /\ \E f \in [1..Cardinality(is) -> is] :
              /\ Chosen(list, is) = [k \in 1..Cardinality(is) |-> list[f[k]]]
              /\ \A k, m \in 1..Cardinality(is) : k < m => f[k] < f[m]
              /\ \A i \in is : \E k \in 1..Cardinality(is) : f[k] = i
<1> DEFINE less == {ij \in is \X is : ij[1] < ij[2]}
           n == Cardinality(is)
<1>1. IsFiniteSet(is)
  <2>1. Len(list) \in Nat
    BY LenProperties
  <2>2. IsFiniteSet(1..Len(list))
    BY <2>1, FS_Interval
  <2> QED
    BY <2>2, FS_Subset
<1>2. Orders(is, less)
  BY LenProperties DEF Orders
<1>3. \A i, j \in is : <<i, j>> \in less => i < j
  OBVIOUS
<1>4. Chosen(list, is) = Arranged(list, is, less)
  BY DEF Chosen
<1> HIDE DEF less
<1>5. PICK f : Places(f, is, less) /\ Chosen(list, is) = [k \in 1..n |-> list[f[k]]]
  BY <1>1, <1>2, <1>4, ArrangedFacts
<1>6. n \in Nat
  BY <1>1, FS_CardinalityType
<1>7. /\ f \in [1..n -> is]
      /\ \A k, m \in 1..n : k < m => f[k] < f[m]
      /\ \A i \in is : \E k \in 1..n : f[k] = i
  BY <1>3, <1>5 DEF Places
<1>8. \A k \in 1..n : list[f[k]] \in S
  BY <1>7, ElementOfSeq
<1> HIDE DEF n
<1>9. [k \in 1..n |-> list[f[k]]] \in Seq(S)
  BY <1>6, <1>8
<1> QED
  BY <1>5, <1>6, <1>7, <1>9 DEF n

-----------------------------------------------------------------------------
(* The sort: scoped packages first, the rest by name, equal names as the   *)
(* index has them.                                                         *)
LEMMA BeforeIsOrder ==
  ASSUME NEW a \in Entry, NEW b \in Entry, NEW c \in Entry
  PROVE  /\ ~Before(a, a)
         /\ Before(a, b) => ~Before(b, a)
         /\ Before(a, b) => Before(a, c) \/ Before(c, b)
<1>1. Order[a.name] \in Nat /\ Order[b.name] \in Nat /\ Order[c.name] \in Nat
  BY PlannerAssumption DEF PlannerAssumption, Entry
<1> QED
  BY <1>1 DEF Before

(* The entries at the positions f[1], f[2], ... of the index, each before  *)
(* the next.                                                               *)
InLine(list, f) ==
  /\ f \in [1..Len(list) -> DOMAIN index]
  /\ \A k \in 1..Len(list) : list[k] = index[f[k]]
  /\ \A k, m \in 1..Len(list) : k < m => SortedBefore(f[k], f[m])

Wanted == {e \in ToSet(index) : Plannable(e)}

(* What a Pull may plan, in line: nothing else, nothing left out.          *)
LEMMA SortedFacts ==
  ASSUME index \in Seq(Entry)
  PROVE  /\ determinePackagesToSync \in Seq(Entry)
         /\ ToSet(determinePackagesToSync) = Wanted
         /\ \E f : InLine(determinePackagesToSync, f)
<1> DEFINE is == {i \in DOMAIN index : Plannable(index[i])}
           less == {ij \in is \X is : SortedBefore(ij[1], ij[2])}
           n == Cardinality(is)
<1>1. DOMAIN index = 1..Len(index) /\ Len(index) \in Nat /\ \A i \in is : index[i] \in Entry
  BY LenProperties, ElementOfSeq
<1>2. IsFiniteSet(is)
  <2>1. IsFiniteSet(1..Len(index)) /\ is \subseteq 1..Len(index)
    BY <1>1, FS_Interval
  <2> HIDE DEF is
  <2> QED
    BY <2>1, FS_Subset
<1>3. is \subseteq Nat
  BY <1>1
<1> HIDE DEF is
<1>4. Orders(is, less)
  <2>1. \A i, j \in is : <<i, j>> \in less <=> SortedBefore(i, j)
    OBVIOUS
  <2>2. ASSUME NEW i \in is PROVE ~SortedBefore(i, i)
    BY <1>1, <1>3, BeforeIsOrder DEF SortedBefore
  <2>3. ASSUME NEW i \in is, NEW j \in is, i # j PROVE SortedBefore(i, j) \/ SortedBefore(j, i)
    BY <1>3, <2>3 DEF SortedBefore
  <2>4. ASSUME NEW i \in is, NEW j \in is, NEW k \in is, SortedBefore(i, j), SortedBefore(j, k)
        PROVE  SortedBefore(i, k)
    <3>1. /\ Before(index[i], index[j]) => Before(index[i], index[k]) \/ Before(index[k], index[j])
          /\ Before(index[j], index[k]) => Before(index[j], index[i]) \/ Before(index[i], index[k])
          /\ Before(index[k], index[i]) => Before(index[k], index[j]) \/ Before(index[j], index[i])
          /\ Before(index[j], index[k]) => ~Before(index[k], index[j])
          /\ Before(index[i], index[j]) => ~Before(index[j], index[i])
      BY <1>1, BeforeIsOrder
    <3>2. i < j /\ j < k => i < k
      BY <1>3
    <3> QED
      BY <2>4, <3>1, <3>2, Zenon DEF SortedBefore
  <2> HIDE DEF less
  <2> QED
    BY <2>1, <2>2, <2>3, <2>4 DEF Orders
<1>5. determinePackagesToSync = Arranged(index, is, less)
  BY DEF determinePackagesToSync, SortedList, is
<1>6. \A i, j \in is : <<i, j>> \in less => SortedBefore(i, j)
  OBVIOUS
<1> HIDE DEF less
<1>7. n \in Nat
  BY <1>2, FS_CardinalityType
<1>8. PICK f : Places(f, is, less) /\ determinePackagesToSync = [k \in 1..n |-> index[f[k]]]
  BY <1>2, <1>4, <1>5, ArrangedFacts
<1>9. f \in [1..n -> is] /\ \A i \in is : \E k \in 1..n : f[k] = i
  BY <1>8 DEF Places
<1> DEFINE list == [k \in 1..n |-> index[f[k]]]
<1>10. list \in Seq(Entry) /\ Len(list) = n
  <2>1. \A k \in 1..n : index[f[k]] \in Entry
    BY <1>1, <1>9
  <2> HIDE DEF n
  <2> QED
    BY <1>7, <2>1
<1>11. ToSet(list) = Wanted
  <2>1. ASSUME NEW e \in ToSet(list) PROVE e \in Wanted
    <3>1. PICK k \in 1..n : e = index[f[k]] /\ f[k] \in is
      BY <1>9 DEF ToSet
    <3> QED
      BY <3>1 DEF ToSet, is, Wanted
  <2>2. ASSUME NEW e \in Wanted PROVE e \in ToSet(list)
    <3>1. PICK i \in is : e = index[i]
      BY DEF ToSet, is, Wanted
    <3>2. PICK k \in 1..n : f[k] = i
      BY <1>9
    <3> QED
      BY <3>1, <3>2 DEF ToSet
  <2> HIDE DEF list
  <2> QED
    BY <2>1, <2>2
<1>12. InLine(list, f)
  <2>1. f \in [1..n -> DOMAIN index]
    BY <1>9 DEF is
  <2>2. \A k, m \in 1..n : k < m => SortedBefore(f[k], f[m])
    BY <1>6, <1>8, <1>9 DEF Places
  <2>3. \A k \in 1..n : list[k] = index[f[k]]
    OBVIOUS
  <2> HIDE DEF list
  <2> QED
    BY <1>10, <2>1, <2>2, <2>3 DEF InLine
<1> HIDE DEF list, n
<1>13. determinePackagesToSync = list
  BY <1>8 DEF list
<1> QED
  BY <1>10, <1>11, <1>12, <1>13

(* The split: an entry with priority for every name, which no entry of the *)
(* name exceeds.                                                           *)
IsSplit(list, best, latest) ==
  /\ latest = {i \in 1..Len(list) : best[list[i].name] = list[i].version}
  /\ \A i \in 1..Len(list) : \E j \in latest :
       /\ list[j].name = list[i].name
       /\ ~Newer(list[i].version, best[list[i].name])

(* The two loops of planPriorityAndBackfill split the list at the positions*)
(* of the best versions.                                                   *)
LEMMA PlanFacts ==
  ASSUME NEW list \in Seq(Entry)
  PROVE  \E best, latest :
           /\ IsSplit(list, best, latest)
           /\ planPriorityAndBackfill(list) = [pri  |-> Chosen(list, latest),
                                               back |-> Chosen(list, (1..Len(list)) \ latest)]
<1> DEFINE best == latestMap(list)
           latest == {i \in 1..Len(list) : best[list[i].name] = list[i].version}
<1>1. Tops(best, list, Len(list)) /\ DOMAIN list = 1..Len(list)
  BY LatestMapTops, LenProperties
<1>2. planPriorityAndBackfill(list) = [pri  |-> Chosen(list, latest),
                                       back |-> Chosen(list, (1..Len(list)) \ latest)]
  BY <1>1 DEF planPriorityAndBackfill
<1> HIDE DEF best
<1>3. IsSplit(list, best, latest)
  <2>1. ASSUME NEW i \in 1..Len(list)
        PROVE  \E j \in latest : /\ list[j].name = list[i].name
                                 /\ ~Newer(list[i].version, best[list[i].name])
    <3>1. PICK j \in 1..Len(list) : /\ list[j].name = list[i].name
                                    /\ list[j].version = best[list[i].name]
                                    /\ ~Newer(list[i].version, list[j].version)
      BY <1>1 DEF Tops
    <3> QED
      BY <3>1
  <2> QED
    BY <2>1 DEF IsSplit
<1> QED
  BY <1>2, <1>3

(* The batch is the head of the history.                                   *)
LEMMA TruncatedFacts ==
  ASSUME NEW S, NEW list \in Seq(S)
  PROVE  /\ Truncated(list) \in Seq(S) /\ Len(Truncated(list)) <= Len(list)
         /\ \A i \in 1..Len(Truncated(list)) : Truncated(list)[i] = list[i]
<1>1. Len(list) \in Nat /\ BackfillBatch \in Nat
  BY LenProperties, PlannerAssumption DEF PlannerAssumption
<1>2. CASE BackfillBatch = 0 \/ Len(list) <= BackfillBatch
  BY <1>1, <1>2 DEF Truncated
<1>3. CASE ~(BackfillBatch = 0 \/ Len(list) <= BackfillBatch)
  <2>1. \A i \in 1..BackfillBatch : list[i] \in S
    BY <1>1, <1>3, ElementOfSeq
  <2>2. Truncated(list) = SubSeq(list, 1, BackfillBatch)
    BY <1>3 DEF Truncated
  <2>3. 1 \in Int /\ BackfillBatch \in Int /\ 1 <= BackfillBatch
    BY <1>1, <1>3
  <2>4. /\ SubSeq(list, 1, BackfillBatch) \in Seq(S)
        /\ Len(SubSeq(list, 1, BackfillBatch)) = BackfillBatch
        /\ \A i \in 1..BackfillBatch : SubSeq(list, 1, BackfillBatch)[i] = list[i]
    BY <2>1, <2>3, SubSeqProperties
  <2> QED
    BY <1>1, <1>3, <2>2, <2>4
<1> QED
  BY <1>2, <1>3

-----------------------------------------------------------------------------
(* The positions f[1], f[2], ... of a list are those in "older", in their  *)
(* order, and back is the list there, up to some place.                    *)
HeadOf(back, list, older, f, n) ==
  /\ n \in Nat /\ f \in [1..n -> older]
  /\ \A k, m \in 1..n : k < m => f[k] < f[m]
  /\ \A i \in older : \E k \in 1..n : f[k] = i
  /\ DOMAIN back \subseteq 1..n
  /\ \A k \in DOMAIN back, m \in 1..n : m \notin DOMAIN back => k < m
  /\ \A k \in DOMAIN back : back[k] = list[f[k]]

(* The batch, in positions of the sorted list.                             *)
LEMMA BatchFacts ==
  ASSUME NEW list \in Seq(Entry), NEW older \in SUBSET (1..Len(list))
  PROVE  \E f, n : HeadOf(Truncated(Chosen(list, older)), list, older, f, n)
<1> DEFINE n == Cardinality(older)
           back == Chosen(list, older)
           cut == Truncated(back)
<1>1. back \in Seq(Entry) /\ n \in Nat
  BY ChosenFacts
<1>2. PICK f \in [1..n -> older] :
        /\ back = [k \in 1..n |-> list[f[k]]]
        /\ \A k, m \in 1..n : k < m => f[k] < f[m]
        /\ \A i \in older : \E k \in 1..n : f[k] = i
  BY ChosenFacts
<1> HIDE DEF back, n
<1>3. Len(back) = n
  BY <1>1, <1>2, LenProperties
<1>4. /\ cut \in Seq(Entry) /\ Len(cut) <= n
      /\ \A k \in 1..Len(cut) : cut[k] = back[k]
  BY <1>1, <1>3, TruncatedFacts
<1> HIDE DEF cut
<1>5. Len(cut) \in Nat /\ DOMAIN cut = 1..Len(cut)
  BY <1>4, LenProperties
<1>6. \A k \in 1..n : back[k] = list[f[k]]
  BY <1>2
<1>7. HeadOf(cut, list, older, f, n)
  <2>1. DOMAIN cut \subseteq 1..n
    BY <1>1, <1>4, <1>5
  <2>2. \A k \in DOMAIN cut, m \in 1..n : m \notin DOMAIN cut => k < m
    BY <1>1, <1>4, <1>5
  <2>3. \A k \in DOMAIN cut : cut[k] = list[f[k]]
    BY <1>4, <1>5, <1>6, <2>1
  <2> QED
    BY <1>1, <1>2, <2>1, <2>2, <2>3 DEF HeadOf
<1> QED
  BY <1>7 DEF cut, back

(* What a Pull hands to its workers, of the sorted list of what is missing.*)
Planned(list, best, latest, plan) ==
  /\ list \in Seq(Entry) /\ ToSet(list) = Wanted
  /\ \E f : InLine(list, f)
  /\ IsSplit(list, best, latest)
  /\ ToSet(plan.pri) = {list[i] : i \in latest}
  /\ \E f, n : HeadOf(plan.back, list, (1..Len(list)) \ latest, f, n)

(* The plan of any state is such a one.                                    *)
LEMMA PlanIsPlanned ==
  ASSUME index \in Seq(Entry)
  PROVE  \E list, best, latest : Planned(list, best, latest, Plan)
<1> DEFINE list == determinePackagesToSync
<1>a. list \in Seq(Entry)
  BY SortedFacts
<1>1. list \in Seq(Entry) /\ ToSet(list) = Wanted /\ \E f : InLine(list, f)
  BY SortedFacts
<1> HIDE DEF list
<1>2. PICK best, latest :
        /\ IsSplit(list, best, latest)
        /\ planPriorityAndBackfill(list) = [pri  |-> Chosen(list, latest),
                                            back |-> Chosen(list, (1..Len(list)) \ latest)]
  BY <1>1, PlanFacts
<1> DEFINE older == (1..Len(list)) \ latest
<1>3. Plan.pri = Chosen(list, latest) /\ Plan.back = Truncated(Chosen(list, older))
  BY <1>2 DEF Plan, list
<1>4. latest \in SUBSET (1..Len(list)) /\ older \in SUBSET (1..Len(list))
  BY <1>2 DEF IsSplit
<1>5. ToSet(Plan.pri) = {list[i] : i \in latest}
  <2> HIDE DEF older
  <2>0. latest \in SUBSET (1..Len(list))
    BY <1>4
  <2>1. PICK f \in [1..Cardinality(latest) -> latest] :
          /\ Chosen(list, latest) = [k \in 1..Cardinality(latest) |-> list[f[k]]]
          /\ \A k, m \in 1..Cardinality(latest) : k < m => f[k] < f[m]
          /\ \A i \in latest : \E k \in 1..Cardinality(latest) : f[k] = i
    BY <1>a, <2>0, ChosenFacts
  <2>2. ToSet(Plan.pri) = {list[f[k]] : k \in 1..Cardinality(latest)}
    BY <1>3, <2>1 DEF ToSet
  <2> QED
    BY <2>1, <2>2
<1>6. \E f, n : HeadOf(Plan.back, list, older, f, n)
  <2> HIDE DEF older
  <2> QED
    BY <1>1, <1>3, <1>4, BatchFacts
<1>7. Planned(list, best, latest, Plan)
  BY <1>1, <1>2, <1>5, <1>6 DEF Planned
<1> QED
  BY <1>7

(* The entry with priority that the split names for each name is the one   *)
(* that NewestFirst asks for.                                              *)
LEMMA NewestGoFirst == index \in Seq(Entry) => NewestFirst
<1> SUFFICES ASSUME index \in Seq(Entry), NEW i \in DOMAIN Plan.back
             PROVE  \E j \in DOMAIN Plan.pri :
                      /\ Plan.pri[j].name = Plan.back[i].name
                      /\ \A e \in ToSet(index) :
                           e.name = Plan.pri[j].name /\ Plannable(e) =>
                             ~Newer(e.version, Plan.pri[j].version)
  BY DEF NewestFirst
<1>1. PICK list, best, latest : Planned(list, best, latest, Plan)
  BY PlanIsPlanned
<1>2. PICK q \in 1..Len(list) : Plan.back[i] = list[q]
  <2>1. PICK f, n : HeadOf(Plan.back, list, (1..Len(list)) \ latest, f, n)
    BY <1>1 DEF Planned
  <2> QED
    BY <2>1 DEF HeadOf
<1>3. PICK r \in latest : list[r].name = list[q].name
  BY <1>1, <1>2 DEF Planned, IsSplit
<1>4. PICK j \in DOMAIN Plan.pri : Plan.pri[j] = list[r]
  <2>1. list[r] \in ToSet(Plan.pri)
    BY <1>1, <1>3 DEF Planned
  <2> QED
    BY <2>1 DEF ToSet
<1>5. ASSUME NEW e \in ToSet(index), e.name = list[r].name, Plannable(e)
      PROVE  ~Newer(e.version, list[r].version)
  <2>1. e \in ToSet(list) /\ DOMAIN list = 1..Len(list) /\ e.name = list[r].name
    BY <1>1, <1>5, LenProperties DEF Planned, Wanted
  <2>2. PICK s \in 1..Len(list) : list[s] = e
    BY <2>1 DEF ToSet
  <2>3. IsSplit(list, best, latest)
    BY <1>1 DEF Planned
  <2>4. best[list[r].name] = list[r].version
    BY <1>3, <2>3 DEF IsSplit
  <2>5. ~Newer(list[s].version, best[list[s].name])
    BY <2>2, <2>3 DEF IsSplit
  <2> QED
    BY <2>1, <2>2, <2>4, <2>5
<1> QED
  BY <1>2, <1>3, <1>4, <1>5

(* No entry is listed twice.                                               *)
IndexOnce == \A i, j \in DOMAIN index : index[i] = index[j] => i = j

(* What is left out of the batch stands after all of it.                   *)
LEMMA BatchIsHead == index \in Seq(Entry) /\ IndexOnce => BatchIsPrefix
<1> SUFFICES ASSUME index \in Seq(Entry), IndexOnce, NEW i \in DOMAIN index, NEW j \in DOMAIN index,
                    Plannable(index[i]), index[i] \notin ToSet(Plan.back) \cup ToSet(Plan.pri),
                    index[j] \in ToSet(Plan.back)
             PROVE  SortedBefore(j, i)
  BY DEF BatchIsPrefix
<1>1. PICK list, best, latest : Planned(list, best, latest, Plan)
  BY PlanIsPlanned
<1> DEFINE older == (1..Len(list)) \ latest
<1>2. PICK f, n : HeadOf(Plan.back, list, older, f, n)
  BY <1>1 DEF Planned
<1>3. PICK g : InLine(list, g)
  BY <1>1 DEF Planned
<1>4. PICK q \in 1..Len(list) : index[i] = list[q]
  <2>1. index[i] \in ToSet(list) /\ DOMAIN list = 1..Len(list)
    BY <1>1, LenProperties DEF Planned, Wanted, ToSet
  <2> QED
    BY <2>1 DEF ToSet
<1>5. q \in older
  BY <1>1, <1>4 DEF Planned
<1>6. PICK m \in 1..n : f[m] = q
  BY <1>2, <1>5 DEF HeadOf
<1>7. m \notin DOMAIN Plan.back
  BY <1>2, <1>4, <1>6 DEF ToSet, HeadOf
<1>8. PICK k \in DOMAIN Plan.back : index[j] = Plan.back[k]
  BY DEF ToSet
<1>9. k \in 1..n /\ k < m
  BY <1>2, <1>6, <1>7, <1>8 DEF HeadOf
<1>10. f[k] < q /\ f[k] \in 1..Len(list) /\ Plan.back[k] = list[f[k]]
  BY <1>2, <1>6, <1>9 DEF HeadOf
<1>11. SortedBefore(g[f[k]], g[q])
  BY <1>3, <1>10 DEF InLine
<1>12. g[q] = i /\ g[f[k]] = j
  BY <1>3, <1>4, <1>8, <1>10 DEF InLine, IndexOnce
<1> QED
  BY <1>11, <1>12

-----------------------------------------------------------------------------
(* The versions of a package that has no pre-releases are ordered alike by *)
(* the two comparisons, and one of them is the latest.                     *)
LEMMA ImageIsFinite ==
  ASSUME NEW S, IsFiniteSet(S), NEW f, DOMAIN f = S
  PROVE  IsFiniteSet({f[x] : x \in S}) /\ Cardinality({f[x] : x \in S}) <= Cardinality(S)
<1> DEFINE T == {f[x] : x \in S}
           g == [x \in S |-> f[x]]
<1>1. g \in Surjection(S, T)
  BY DEF Surjection
<1> HIDE DEF g, T
<1>2. IsFiniteSet(T) /\ Cardinality(T) <= Cardinality(S)
  BY <1>1, FS_Surjection
<1> QED
  BY <1>2 DEF T

(* Among releases the tag "latest" is well defined: a version of the list  *)
(* that compareVer, too, puts above all others.                            *)
LEMMA LatestOf ==
  ASSUME NEW L \in SUBSET Versions, L # {}, \A v \in L : v.pre = <<>>
  PROVE  /\ \A v, w \in L : Later(v, w) <=> Newer(v, w)
         /\ \E v \in L : \A w \in L \ {v} : Newer(v, w)
<1> DEFINE after == {vw \in L \X L : Newer(vw[1], vw[2])}
<1>2. \A v \in L : v \in Versions /\ v.pre = <<>> /\ Parts(v) = v.core
  BY PartsTyped
<1>3. \A v, w \in L : v.core = w.core => v = w
  <2>1. \A v \in L : v = [core |-> v.core, pre |-> v.pre]
    BY <1>2, PlannerAssumption DEF PlannerAssumption
  <2> QED
    BY <1>2, <2>1
<1>4. IsFiniteSet(L)
  BY PlannerAssumption, FS_Subset DEF PlannerAssumption
<1>5. Orders(L, after)
  <2>1. \A v, w \in L : <<v, w>> \in after <=> Newer(v, w)
    OBVIOUS
  <2>2. \A u, v, w \in L : ~Newer(v, v) /\ (Newer(u, v) /\ Newer(v, w) => Newer(u, w))
    BY <1>2, NewerIsOrder
  <2>3. \A v, w \in L : v # w => Newer(v, w) \/ Newer(w, v)
    BY <1>2, <1>3, PartsTyped, ExceedsOrder DEF Newer
  <2> HIDE DEF after
  <2> QED
    BY <2>1, <2>2, <2>3 DEF Orders
<1>6. PICK f : Places(f, L, after) /\ Cardinality(L) \in Nat
  BY <1>4, <1>5, ArrangedFacts
<1>7. \E v \in L : \A w \in L \ {v} : Newer(v, w)
  <2> DEFINE N == Cardinality(L)
  <2>1. \E v \in L : TRUE
    OBVIOUS
  <2>2. f \in [1..N -> L] /\ \A v \in L : \E k \in 1..N : f[k] = v
    BY <1>6 DEF Places
  <2>3. 1 \in 1..N
    BY <1>6, <2>1, <2>2
  <2>4. \A k \in 1..N : k # 1 => <<f[1], f[k]>> \in after
    BY <1>6, <2>3 DEF Places
  <2>5. \A v, w \in L : <<v, w>> \in after => Newer(v, w)
    OBVIOUS
  <2> HIDE DEF N, after
  <2>6. \A w \in L \ {f[1]} : Newer(f[1], w)
    BY <2>2, <2>3, <2>4, <2>5
  <2> QED
    BY <2>2, <2>3, <2>6
<1>8. \A v, w \in L : Later(v, w) <=> Newer(v, w)
  BY <1>2 DEF Later, Newer
<1> QED
  BY <1>7, <1>8

(* The best of a name has priority.  Were the tagged version missing and   *)
(* not the best, the best would be above it, and so not among the versions *)
(* of which the tag is the latest.                                         *)
LEMMA LatestTagGoesFirst == index \in Seq(Entry) => LatestTagFirst
<1> DEFINE releases == {v \in Versions : v.pre = <<>>}
<1> SUFFICES ASSUME index \in Seq(Entry), NEW n \in {e.name : e \in ToSet(index)},
                    NEW rows \in SUBSET releases, Listed(n) \subseteq releases,
                    [name |-> n, version |-> LatestTag(n, rows)] \in ToSet(index),
                    Plannable([name |-> n, version |-> LatestTag(n, rows)])
             PROVE  \/ [name |-> n, version |-> LatestTag(n, rows)] \in ToSet(Plan.pri)
                    \/ \E e \in ToSet(Plan.pri) :
                         /\ e.name = n /\ rows # {} /\ e.version \notin rows
                         /\ Later(e.version, LatestTag(n, rows))
  BY Zenon DEF LatestTagFirst
<1> DEFINE latest == [name |-> n, version |-> LatestTag(n, rows)]
           L == IF rows # {} THEN rows ELSE Listed(n)
           v == LatestTag(n, rows)
<1>1. /\ latest.name = n /\ latest.version = v /\ v \in Listed(n) /\ v \in releases
      /\ latest \in ToSet(index) /\ Plannable(latest) /\ Listed(n) \subseteq releases
  <2>1. latest.name = n /\ latest.version = v
    OBVIOUS
  <2>2. v \in Listed(n)
    BY <2>1 DEF Listed
  <2> QED
    BY <2>1, <2>2
<1>2. L \in SUBSET releases /\ L # {} /\ v = CHOOSE u \in L : \A w \in L \ {u} : Later(u, w)
  <2>1. L \in SUBSET releases /\ L # {}
    BY <1>1
  <2> QED
    BY <1>1, <2>1 DEF LatestTag
<1> HIDE DEF L, latest
<1>3. v \in L /\ \A w \in L \ {v} : Newer(v, w)
  <2>1. \A u, w \in L : Later(u, w) <=> Newer(u, w)
    BY <1>2, LatestOf
  <2>2. \E u \in L : \A w \in L \ {u} : Newer(u, w)
    BY <1>2, LatestOf
  <2>3. \E u \in L : \A w \in L \ {u} : Later(u, w)
    BY <2>1, <2>2
  <2>4. v \in L /\ \A w \in L \ {v} : Later(v, w)
    <3> HIDE DEF v
    <3> QED
      BY <1>2, <2>3
  <2> HIDE DEF v
  <2> QED
    BY <2>1, <2>4
<1>4. PICK list, best, top : Planned(list, best, top, Plan)
  BY PlanIsPlanned
<1>5. latest \in ToSet(list) /\ DOMAIN list = 1..Len(list) /\ ToSet(list) \subseteq ToSet(index)
  BY <1>1, <1>4, LenProperties DEF Planned, Wanted
<1>6. PICK s \in 1..Len(list) : list[s] = latest
  BY <1>5 DEF ToSet
<1>7. IsSplit(list, best, top)
  BY <1>4 DEF Planned
<1>8. PICK j \in top : list[j].name = n /\ ~Newer(v, best[n])
  <2> HIDE DEF v
  <2>1. list[s].name = n /\ list[s].version = v
    BY <1>1, <1>6 DEF v
  <2> QED
    BY <1>7, <2>1 DEF IsSplit
<1>9. j \in 1..Len(list) /\ list[j].version = best[n] /\ list[j] \in ToSet(Plan.pri)
  BY <1>4, <1>7, <1>8 DEF IsSplit, Planned
<1>10. best[n] \in Listed(n)
  <2>1. list[j] \in ToSet(index)
    BY <1>5, <1>9 DEF ToSet
  <2> QED
    BY <1>8, <1>9, <2>1 DEF Listed
<1>11. CASE best[n] = v
  <2>1. s \in top
    BY <1>1, <1>6, <1>7, <1>11 DEF IsSplit
  <2>2. latest \in ToSet(Plan.pri)
    BY <1>4, <1>6, <2>1 DEF Planned
  <2> QED
    BY <2>2 DEF latest
<1>12. CASE best[n] # v
  <2>1. best[n] \notin L
    BY <1>3, <1>8, <1>12
  <2>2. rows # {} /\ best[n] \notin rows
    BY <1>10, <2>1 DEF L
  <2>3. Later(best[n], v)
    <3> DEFINE two == {best[n], v}
    <3>1. two \in SUBSET Versions /\ two # {} /\ \A u \in two : u.pre = <<>>
      BY <1>1, <1>10
    <3>2. /\ \A u, w \in two : Later(u, w) <=> Newer(u, w)
          /\ \E u \in two : \A w \in two \ {u} : Newer(u, w)
      <4> HIDE DEF two
      <4> QED
        BY <3>1, LatestOf
    <3> HIDE DEF v
    <3> QED
      BY <1>8, <1>12, <3>2
  <2> QED
    BY <1>8, <1>9, <2>2, <2>3
<1> QED
  BY <1>11, <1>12 DEF latest

-----------------------------------------------------------------------------
(* The index with an entry more or less.                                   *)
LEMMA InsertFacts ==
  ASSUME NEW S, NEW s \in Seq(S), NEW i \in 1..(Len(s) + 1), NEW e \in S
  PROVE  /\ InsertAt(s, i, e) \in Seq(S) /\ Len(InsertAt(s, i, e)) = Len(s) + 1
         /\ \A k \in 1..(Len(s) + 1) :
              InsertAt(s, i, e)[k] = IF k < i THEN s[k] ELSE IF k = i THEN e ELSE s[k - 1]
<1> DEFINE one == SubSeq(s, 1, i - 1)
           two == SubSeq(s, i, Len(s))
           mid == <<e>>
           low == one \o mid
<1>1. Len(s) \in Nat /\ i \in Nat /\ \A k \in 1..Len(s) : s[k] \in S
  BY LenProperties, ElementOfSeq
<1>2. /\ one \in Seq(S) /\ Len(one) = i - 1
      /\ \A k \in 1..(i - 1) : one[k] = s[k]
  <2>1. 1 \in Int /\ i - 1 \in Int /\ \A k \in 1..(i - 1) : s[k] \in S
    BY <1>1
  <2> QED
    BY <2>1, SubSeqProperties
<1>3. /\ two \in Seq(S) /\ Len(two) = Len(s) - i + 1
      /\ \A k \in 1..(Len(s) - i + 1) : two[k] = s[i + k - 1]
  <2>1. Len(s) \in Int /\ i \in Int /\ \A k \in i..Len(s) : s[k] \in S
    BY <1>1
  <2> QED
    BY <2>1, SubSeqProperties
<1>4. mid \in Seq(S) /\ Len(mid) = 1 /\ mid[1] = e
  OBVIOUS
<1>5. InsertAt(s, i, e) = low \o two
  BY DEF InsertAt
<1> HIDE DEF one, two, mid
<1>6. /\ low \in Seq(S) /\ Len(low) = i
      /\ \A k \in 1..i : low[k] = IF k <= i - 1 THEN one[k] ELSE mid[k - (i - 1)]
  <2>1. /\ low \in Seq(S) /\ Len(low) = Len(one) + Len(mid)
        /\ \A k \in 1..(Len(one) + Len(mid)) :
             low[k] = IF k <= Len(one) THEN one[k] ELSE mid[k - Len(one)]
    BY <1>2, <1>4, ConcatProperties
  <2>2. Len(one) + Len(mid) = i
    BY <1>1, <1>2, <1>4
  <2> HIDE DEF low
  <2> QED
    BY <1>2, <2>1, <2>2
<1> HIDE DEF low
<1>7. /\ low \o two \in Seq(S) /\ Len(low \o two) = Len(s) + 1
      /\ \A k \in 1..(Len(s) + 1) : (low \o two)[k] = IF k <= i THEN low[k] ELSE two[k - i]
  <2>1. /\ low \o two \in Seq(S) /\ Len(low \o two) = Len(low) + Len(two)
        /\ \A k \in 1..(Len(low) + Len(two)) :
             (low \o two)[k] = IF k <= Len(low) THEN low[k] ELSE two[k - Len(low)]
    BY <1>3, <1>6, ConcatProperties
  <2>2. Len(low) + Len(two) = Len(s) + 1
    BY <1>1, <1>3, <1>6
  <2> QED
    BY <1>6, <2>1, <2>2
<1>8. ASSUME NEW k \in 1..(Len(s) + 1)
      PROVE  (low \o two)[k] = IF k < i THEN s[k] ELSE IF k = i THEN e ELSE s[k - 1]
  <2>1. CASE k < i
    <3>1. k \in 1..(i - 1) /\ k \in 1..i /\ k <= i /\ k <= i - 1
      BY <1>1, <2>1
    <3> QED
      BY <1>2, <1>6, <1>7, <2>1, <3>1
  <2>2. CASE k = i
    BY <1>1, <1>4, <1>6, <1>7, <2>2
  <2>3. CASE k > i
    <3>1. k - i \in 1..(Len(s) - i + 1) /\ i + (k - i) - 1 = k - 1
      BY <1>1, <2>3
    <3>2. two[k - i] = s[k - 1]
      BY <1>3, <3>1
    <3> QED
      BY <1>1, <1>7, <2>3, <3>2
  <2>4. k < i \/ k = i \/ k > i
    BY <1>1
  <2>5. k > i => ~(k < i) /\ k # i
    BY <1>1
  <2>6. k = i => ~(k < i)
    BY <1>1
  <2> QED
    BY <2>1, <2>2, <2>3, <2>4, <2>5, <2>6
<1> QED
  BY <1>5, <1>7, <1>8

(* The index with an entry less.                                           *)
LEMMA RemoveFacts ==
  ASSUME NEW S, NEW s \in Seq(S), NEW i \in 1..Len(s)
  PROVE  /\ RemoveAt(s, i) \in Seq(S) /\ Len(RemoveAt(s, i)) = Len(s) - 1
         /\ \A k \in 1..(Len(s) - 1) : RemoveAt(s, i)[k] = IF k < i THEN s[k] ELSE s[k + 1]
<1> DEFINE one == SubSeq(s, 1, i - 1)
           two == SubSeq(s, i + 1, Len(s))
<1>1. Len(s) \in Nat /\ i \in Nat /\ \A k \in 1..Len(s) : s[k] \in S
  BY LenProperties, ElementOfSeq
<1>2. /\ one \in Seq(S) /\ Len(one) = i - 1
      /\ \A k \in 1..(i - 1) : one[k] = s[k]
  <2>1. 1 \in Int /\ i - 1 \in Int /\ \A k \in 1..(i - 1) : s[k] \in S
    BY <1>1
  <2> QED
    BY <2>1, SubSeqProperties
<1>3. /\ two \in Seq(S) /\ Len(two) = Len(s) - i
      /\ \A k \in 1..(Len(s) - i) : two[k] = s[i + k]
  <2>1. Len(s) \in Int /\ i + 1 \in Int /\ \A k \in (i + 1)..Len(s) : s[k] \in S
    BY <1>1
  <2>2. /\ two \in Seq(S) /\ Len(two) = IF i + 1 <= Len(s) THEN Len(s) - (i + 1) + 1 ELSE 0
        /\ \A k \in 1..(Len(s) - (i + 1) + 1) : two[k] = s[(i + 1) + k - 1]
    BY <2>1, SubSeqProperties
  <2> HIDE DEF two
  <2>3. Len(two) = Len(s) - i
    BY <1>1, <2>2
  <2>4. ASSUME NEW k \in 1..(Len(s) - i) PROVE two[k] = s[i + k]
    <3>1. k \in 1..(Len(s) - (i + 1) + 1) /\ (i + 1) + k - 1 = i + k
      BY <1>1
    <3> QED
      BY <2>2, <3>1
  <2> QED
    BY <2>2, <2>3, <2>4
<1>4. RemoveAt(s, i) = one \o two
  BY DEF RemoveAt
<1> HIDE DEF one, two
<1>5. /\ one \o two \in Seq(S) /\ Len(one \o two) = Len(s) - 1
      /\ \A k \in 1..(Len(s) - 1) : (one \o two)[k] = IF k <= i - 1 THEN one[k] ELSE two[k - (i - 1)]
  <2>1. /\ one \o two \in Seq(S) /\ Len(one \o two) = Len(one) + Len(two)
        /\ \A k \in 1..(Len(one) + Len(two)) :
             (one \o two)[k] = IF k <= Len(one) THEN one[k] ELSE two[k - Len(one)]
    BY <1>2, <1>3, ConcatProperties
  <2>2. Len(one) + Len(two) = Len(s) - 1
    BY <1>1, <1>2, <1>3
  <2> QED
    BY <1>2, <2>1, <2>2
<1>6. ASSUME NEW k \in 1..(Len(s) - 1)
      PROVE  (one \o two)[k] = IF k < i THEN s[k] ELSE s[k + 1]
  <2>1. CASE k < i
    BY <1>1, <1>2, <1>5, <2>1
  <2>2. CASE k >= i
    <3>1. k - (i - 1) \in 1..(Len(s) - i) /\ i + (k - (i - 1)) = k + 1
          /\ ~(k < i) /\ ~(k <= i - 1)
      BY <1>1, <2>2
    <3>2. two[k - (i - 1)] = s[k + 1]
      BY <1>3, <3>1
    <3> QED
      BY <1>5, <3>1, <3>2
  <2>3. k < i \/ k >= i
    BY <1>1
  <2> QED
    BY <2>1, <2>2, <2>3
<1> QED
  BY <1>4, <1>5, <1>6

-----------------------------------------------------------------------------
IndexTyped == index \in Seq(Entry)

(* The type invariant of the list.                                         *)
LEMMA IndexInvariance == ListingSpec => []IndexTyped
<1>1. ListingInit => IndexTyped
  BY EmptySeq DEF ListingInit, Init, IndexTyped
<1>2. IndexTyped /\ [ListingNext]_<<vars, reader>> => IndexTyped'
  <2> SUFFICES ASSUME IndexTyped, [ListingNext]_<<vars, reader>> PROVE IndexTyped'
    OBVIOUS
  <2>1. ASSUME NEW e \in Entry, Publish(e) PROVE IndexTyped'
    <3>1. PICK i \in 1..(Len(index) + 1) : index' = InsertAt(index, i, e)
      BY <2>1 DEF Publish
    <3> QED
      BY <3>1, InsertFacts DEF IndexTyped
  <2>2. ASSUME NEW i \in DOMAIN index, Withdraw(i) PROVE IndexTyped'
    <3>1. i \in 1..Len(index)
      BY LenProperties DEF IndexTyped
    <3> QED
      BY <2>2, <3>1, RemoveFacts DEF Withdraw, IndexTyped
  <2>3. CASE UNCHANGED index
    BY <2>3 DEF IndexTyped
  <2> QED
    BY <2>1, <2>2, <2>3 DEF ListingNext, Next, Pull, Resync, End, Open, ReadPage, vars
<1> QED
  BY <1>1, <1>2, PTL DEF ListingSpec

LEMMA OnceInvariance == ListingSpec => []IndexOnce
<1>1. ListingInit => IndexOnce
  BY DEF ListingInit, Init, IndexOnce
<1>2. IndexTyped /\ IndexOnce /\ [ListingNext]_<<vars, reader>> => IndexOnce'
  <2> SUFFICES ASSUME index \in Seq(Entry), IndexOnce, [ListingNext]_<<vars, reader>>
               PROVE  IndexOnce'
    BY DEF IndexTyped
  <2>0. DOMAIN index = 1..Len(index) /\ Len(index) \in Nat
    BY LenProperties
  <2>1. ASSUME NEW e \in Entry, Publish(e) PROVE IndexOnce'
    <3>1. PICK i \in 1..(Len(index) + 1) : index' = InsertAt(index, i, e)
      BY <2>1 DEF Publish
    <3>2. /\ index' \in Seq(Entry) /\ Len(index') = Len(index) + 1
          /\ \A k \in 1..(Len(index) + 1) :
               index'[k] = IF k < i THEN index[k] ELSE IF k = i THEN e ELSE index[k - 1]
      BY <3>1, InsertFacts
    <3>3. \A k \in 1..Len(index) : index[k] # e
      BY <2>0, <2>1 DEF Publish, ToSet
    <3>4. DOMAIN index' = 1..(Len(index) + 1)
      BY <3>2, LenProperties
    <3> DEFINE Old(k) == IF k < i THEN k ELSE k - 1
    <3>5. \A k \in DOMAIN index' : k # i => Old(k) \in DOMAIN index /\ index'[k] = index[Old(k)]
      BY <2>0, <3>2, <3>4
    <3>6. index'[i] = e
      BY <2>0, <3>2
    <3>7. \A k, m \in DOMAIN index' : k # i /\ m # i /\ Old(k) = Old(m) => k = m
      BY <2>0, <3>4
    <3> HIDE DEF Old
    <3> QED
      BY <2>0, <3>3, <3>5, <3>6, <3>7 DEF IndexOnce
  <2>2. ASSUME NEW i \in DOMAIN index, Withdraw(i) PROVE IndexOnce'
    <3>1. /\ index' \in Seq(Entry) /\ Len(index') = Len(index) - 1
          /\ \A k \in 1..(Len(index) - 1) : index'[k] = IF k < i THEN index[k] ELSE index[k + 1]
      <4>1. i \in 1..Len(index) /\ index' = RemoveAt(index, i)
        BY <2>0, <2>2 DEF Withdraw
      <4> QED
        BY <4>1, RemoveFacts
    <3>2. DOMAIN index' = 1..(Len(index) - 1)
      BY <3>1, LenProperties
    <3> DEFINE Old(k) == IF k < i THEN k ELSE k + 1
    <3>3. \A k \in DOMAIN index' : Old(k) \in DOMAIN index /\ index'[k] = index[Old(k)]
      BY <2>0, <3>1, <3>2
    <3>4. \A k, m \in DOMAIN index' : Old(k) = Old(m) => k = m
      BY <2>0, <3>2
    <3> HIDE DEF Old
    <3> QED
      BY <3>3, <3>4 DEF IndexOnce
  <2>3. CASE UNCHANGED index
    BY <2>3 DEF IndexOnce
  <2> QED
    BY <2>1, <2>2, <2>3 DEF ListingNext, Next, Pull, Resync, End, Open, ReadPage, vars
<1> QED
  BY <1>1, <1>2, IndexInvariance, PTL DEF ListingSpec

(* planner.go:41: see NewestFirst.                                         *)
THEOREM NewestVersionsGoFirst == ListingSpec => []NewestFirst
BY IndexInvariance, NewestGoFirst, PTL DEF IndexTyped

(* Among releases the version tagged "latest", if it is missing, goes      *)
(* first, or one that the tag will move on to: see LatestTagFirst.         *)
THEOREM LatestTagHasPriority == ListingSpec => []LatestTagFirst
BY IndexInvariance, LatestTagGoesFirst, PTL DEF IndexTyped

(* manager.go:159: the batch is the head of the sorted history: see        *)
(* BatchIsPrefix.                                                          *)
THEOREM BatchesAreInOrder == ListingSpec => []BatchIsPrefix
BY IndexInvariance, OnceInvariance, BatchIsHead, PTL DEF IndexTyped

-----------------------------------------------------------------------------
(* Where the entries of a text stand in the index, and the place of each   *)
(* of them in the list that the client is shown.                           *)
Hits(list, text) == {i \in 1..Len(list) : list[i].name \in text}
Place(is, i) == Cardinality({j \in is : j <= i})

(* There are finitely many of them.                                        *)
LEMMA HitsFinite ==
  ASSUME NEW list \in Seq(Entry), NEW text
  PROVE  IsFiniteSet(Hits(list, text)) /\ Hits(list, text) \in SUBSET Nat
         /\ Hits(list, text) \in SUBSET (1..Len(list))
         /\ \A T \in SUBSET Hits(list, text) : IsFiniteSet(T) /\ Cardinality(T) \in Nat
<1>1. Len(list) \in Nat
  BY LenProperties
<1>2. IsFiniteSet(1..Len(list)) /\ Hits(list, text) \in SUBSET (1..Len(list))
  BY <1>1, FS_Interval DEF Hits
<1>3. IsFiniteSet(Hits(list, text))
  BY <1>2, FS_Subset
<1> QED
  BY <1>1, <1>2, <1>3, FS_Subset, FS_CardinalityType

(* Places are positive and no two entries have the same.                   *)
LEMMA PlaceFacts ==
  ASSUME NEW is \in SUBSET Nat, IsFiniteSet(is), NEW i \in is, NEW j \in is
  PROVE  /\ Place(is, i) \in Nat \ {0}
         /\ Place(is, i) = Place(is, j) => i = j
<1> DEFINE upto(k) == {l \in is : l <= k}
<1>1. ASSUME NEW k \in is PROVE IsFiniteSet(upto(k)) /\ Cardinality(upto(k)) \in Nat /\ k \in upto(k)
  <2>1. upto(k) \in SUBSET is /\ k \in upto(k)
    OBVIOUS
  <2> HIDE DEF upto
  <2> QED
    BY <2>1, FS_Subset, FS_CardinalityType
<1>2. ASSUME NEW k \in is, NEW l \in is, k < l PROVE Cardinality(upto(k)) # Cardinality(upto(l))
  <2>1. \A m \in is : m \in Nat
    OBVIOUS
  <2>2. \A m \in is : m <= k => m <= l
    BY <1>2, <2>1
  <2>3. l \in upto(l) /\ l \notin upto(k)
    BY <1>2, <2>1
  <2>4. upto(k) \in SUBSET upto(l)
    BY <2>2
  <2> HIDE DEF upto
  <2> QED
    BY <1>1, <2>3, <2>4, FS_Subset
<1>3. Cardinality(upto(i)) # 0
  <2> HIDE DEF upto
  <2> QED
    BY <1>1, FS_EmptySet
<1>4. Place(is, i) = Cardinality(upto(i)) /\ Place(is, j) = Cardinality(upto(j))
  BY DEF Place
<1>5. i < j \/ j < i \/ i = j
  OBVIOUS
<1> HIDE DEF upto
<1> QED
  BY <1>1, <1>2, <1>3, <1>4, <1>5

(* A map that keeps the order brings no entry further to the front.        *)
LEMMA MovesBack ==
  ASSUME NEW is \in SUBSET Nat, NEW js \in SUBSET Nat, IsFiniteSet(is), IsFiniteSet(js),
         NEW move \in [is -> js], \A i, j \in is : i < j => move[i] < move[j],
         NEW i \in is
  PROVE  Place(is, i) <= Place(js, move[i])
<1> DEFINE A == {l \in is : l <= i}
           B == {m \in js : m <= move[i]}
           f == [l \in A |-> move[l]]
<1>1. \A l \in is : l \in Nat /\ move[l] \in js /\ move[l] \in Nat
  OBVIOUS
<1>2. \A l \in A : move[l] \in js /\ move[l] <= move[i]
  <2> SUFFICES ASSUME NEW l \in A PROVE move[l] \in js /\ move[l] <= move[i]
    OBVIOUS
  <2>1. l \in is /\ (l = i \/ l < i)
    BY <1>1
  <2> QED
    BY <1>1, <2>1
<1>3. \A l, m \in A : move[l] = move[m] => l = m
  <2> SUFFICES ASSUME NEW l \in A, NEW m \in A, move[l] = move[m] PROVE l = m
    OBVIOUS
  <2>1. l \in is /\ m \in is /\ (l < m \/ m < l \/ l = m)
    OBVIOUS
  <2>2. move[l] \in Nat /\ move[m] \in Nat
    BY <2>1
  <2>3. ~(l < m) /\ ~(m < l)
    BY <2>1, <2>2
  <2> QED
    BY <2>1, <2>3
<1>4. f \in Injection(A, B)
  <2>1. f \in [A -> B]
    BY <1>2
  <2> HIDE DEF A, B
  <2> QED
    BY <1>3, <2>1 DEF Injection, IsInjective
<1>5. IsFiniteSet(B)
  <2>1. B \in SUBSET js
    OBVIOUS
  <2> QED
    BY <2>1, FS_Subset
<1> HIDE DEF A, B, f
<1>6. Cardinality(A) <= Cardinality(B)
  BY <1>4, <1>5, FS_Injection
<1> QED
  BY <1>6 DEF Place, A, B

(* One entry less brings those after it one place further to the front.    *)
LEMMA OneLess ==
  ASSUME NEW is \in SUBSET Nat, IsFiniteSet(is), NEW r, NEW i \in is
  PROVE  Place(is, i) <= Place(is \ {r}, i) + 1
<1> DEFINE A == {l \in is : l <= i}
<1>1. {l \in is \ {r} : l <= i} = A \ {r}
  OBVIOUS
<1>2. IsFiniteSet(A)
  <2>1. A \in SUBSET is
    OBVIOUS
  <2> QED
    BY <2>1, FS_Subset
<1> HIDE DEF A
<1>3. Cardinality(A) <= Cardinality(A \ {r}) + 1
  <2>1. Cardinality(A) \in Nat
    BY <1>2, FS_CardinalityType
  <2>2. Cardinality(A \ {r}) = IF r \in A THEN Cardinality(A) - 1 ELSE Cardinality(A)
    BY <1>2, FS_RemoveElement
  <2> QED
    BY <2>1, <2>2
<1> QED
  BY <1>1, <1>3 DEF Place, A

(* The list that the client is shown has each entry at its place.          *)
LEMMA MatchingFacts ==
  ASSUME index \in Seq(Entry), NEW text
  PROVE  LET is == Hits(index, text)
             n == Cardinality(is)
         IN  /\ Matching(text) \in Seq(Entry) /\ Len(Matching(text)) = n /\ n <= Len(index)
             /\ n \in Nat
             /\ \A i \in is : Place(is, i) \in 1..n /\ Matching(text)[Place(is, i)] = index[i]
             /\ \A k \in 1..n : \E i \in is : Place(is, i) = k
<1> DEFINE is == Hits(index, text)
           n == Cardinality(is)
           list == Matching(text)
<1>1. IsFiniteSet(is) /\ is \in SUBSET Nat /\ is \in SUBSET (1..Len(index)) /\ n \in Nat
  BY HitsFinite
<1>2. list = Chosen(index, is)
  BY LenProperties DEF Matching, Hits
<1> HIDE DEF is, list
<1>3. list \in Seq(Entry)
  BY <1>1, <1>2, ChosenFacts
<1>4. PICK f \in [1..n -> is] :
        /\ list = [k \in 1..n |-> index[f[k]]]
        /\ \A k, m \in 1..n : k < m => f[k] < f[m]
        /\ \A i \in is : \E k \in 1..n : f[k] = i
  BY <1>1, <1>2, ChosenFacts
<1> HIDE DEF n
<1>5. Len(list) = n
  BY <1>1, <1>3, <1>4, LenProperties
<1>6. n <= Len(index)
  <2>1. Len(index) \in Nat
    BY LenProperties
  <2>2. IsFiniteSet(1..Len(index)) /\ Cardinality(1..Len(index)) = Len(index)
    BY <2>1, FS_Interval
  <2> QED
    BY <1>1, <2>2, FS_Subset DEF n
<1>7. ASSUME NEW k \in 1..n PROVE Place(is, f[k]) = k
  <2> DEFINE A == {l \in is : l <= f[k]}
             g == [m \in 1..k |-> f[m]]
  <2>1. \A m \in 1..n : m <= k <=> f[m] <= f[k]
    <3>1. \A m \in 1..n : f[m] \in Nat
      BY <1>1
    <3> QED
      BY <1>1, <1>4, <3>1
  <2>2. \A m \in 1..k : m \in 1..n /\ f[m] \in A
    BY <1>1, <2>1
  <2>3. \A l \in A : \E m \in 1..k : f[m] = l
    <3> SUFFICES ASSUME NEW l \in A PROVE \E m \in 1..k : f[m] = l
      OBVIOUS
    <3>1. PICK m \in 1..n : f[m] = l
      BY <1>4
    <3> QED
      BY <2>1, <3>1
  <2>4. \A l, m \in 1..k : f[l] = f[m] => l = m
    <3>1. \A l, m \in 1..k : l \in 1..n /\ m \in 1..n /\ (l < m \/ m < l \/ l = m)
      BY <1>1
    <3>2. \A m \in 1..n : f[m] \in Nat
      BY <1>1
    <3> QED
      BY <1>4, <3>1, <3>2
  <2> HIDE DEF A
  <2>5. g \in Surjection(1..k, A) /\ g \in Injection(1..k, A)
    <3>1. g \in [1..k -> A] /\ \A m \in 1..k : g[m] = f[m]
      BY <2>2
    <3> HIDE DEF g
    <3> QED
      BY <2>3, <2>4, <3>1 DEF Surjection, Injection, IsInjective
  <2>6. IsFiniteSet(1..k) /\ Cardinality(1..k) = k
    BY <1>1, FS_Interval
  <2> HIDE DEF g
  <2>7. Cardinality(A) = k
    BY <2>5, <2>6, FS_Surjection
  <2> QED
    BY <2>7 DEF Place, A
<1>8. ASSUME NEW i \in is PROVE Place(is, i) \in 1..n /\ list[Place(is, i)] = index[i]
  BY <1>4, <1>7
<1>9. ASSUME NEW k \in 1..n PROVE \E i \in is : Place(is, i) = k
  BY <1>4, <1>7
<1> QED
  BY <1>1, <1>3, <1>5, <1>6, <1>8, <1>9 DEF is, n, list

-----------------------------------------------------------------------------
(* The entries of a window, counted from 1.                                *)
Inside(w) == {i \in Int : w.from < i /\ i <= w.end}

(* A result that an int can hold is kept.                                  *)
LEMMA WrapKeeps ==
  ASSUME NEW i \in Int, -(IntMax + 1) <= i, i <= IntMax
  PROVE  Wrap(i) = i
<1>1. IntMax \in Nat \ {0}
  BY PagingAssumption
<1>2. /\ i + IntMax + 1 \in Int
      /\ 0 <= i + IntMax + 1 /\ i + IntMax + 1 < 2 * (IntMax + 1)
  BY <1>1
<1>3. (i + IntMax + 1) % (2 * (IntMax + 1)) = i + IntMax + 1
  BY <1>1, <1>2
<1> QED
  BY <1>1, <1>3 DEF Wrap

(* The page size in effect is positive and no larger than LargestPage.     *)
LEMMA PageSizeRange ==
  ASSUME NEW size \in Int
  PROVE  PageSize(size) \in Nat \ {0} /\ PageSize(size) <= LargestPage
BY PagingAssumption DEF PageSize

(* packages.go:55: page p of size s is made of the entries after (p - 1)*s *)
(* and up to p*s, whatever page and size were asked for, as long as p*s is *)
(* an int; and the slice that is taken is within the list.                 *)
THEOREM PageIsWindow ==
  ASSUME NEW n \in Nat, NEW page \in Int, NEW size \in Int,
         NEW first \in Int, first = (AtLeast(page, 1) - 1) * PageSize(size),
         first + PageSize(size) <= IntMax
  PROVE  LET w == PageWindow(n, page, size) IN
         /\ w.from \in 0..n /\ w.end \in 0..n /\ w.from <= w.end
         /\ Inside(w) = {i \in 1..n : first < i /\ i <= first + PageSize(size)}
<1> DEFINE s == PageSize(size)
<1>1. s \in Nat \ {0} /\ IntMax \in Nat \ {0}
  BY PageSizeRange, PagingAssumption
<1>2. AtLeast(page, 1) - 1 \in Nat
  BY DEF AtLeast
<1>3. first >= 0
  <2> DEFINE k == AtLeast(page, 1) - 1
  <2>1. \A a, b \in Nat : a * b >= 0
    OBVIOUS
  <2>2. k \in Nat /\ s \in Nat
    BY <1>1, <1>2
  <2>3. k * s >= 0
    BY <2>1, <2>2
  <2> QED
    BY <2>3
<1>4. Wrap(first) = first /\ Wrap(first + s) = first + s
  <2>1. -(IntMax + 1) <= first /\ first <= IntMax
    BY <1>1, <1>3
  <2>2. first + s \in Int /\ -(IntMax + 1) <= first + s /\ first + s <= IntMax
    BY <1>1, <1>3
  <2> QED
    BY <2>1, <2>2, WrapKeeps
<1>5. PageWindow(n, page, size)
        = IF first >= n THEN [from |-> 0, end |-> 0] ELSE [from |-> first, end |-> AtMost(first + s, n)]
  BY <1>4 DEF PageWindow
<1> HIDE DEF s
<1>6. CASE first >= n
  BY <1>1, <1>5, <1>6 DEF Inside, s
<1>7. CASE ~(first >= n)
  <2>1. PageWindow(n, page, size) = [from |-> first, end |-> AtMost(first + s, n)]
    BY <1>5, <1>7
  <2>2. AtMost(first + s, n) \in 0..n /\ first <= AtMost(first + s, n)
    BY <1>1, <1>3, <1>7 DEF AtMost
  <2>3. \A i \in Int : first < i /\ i <= AtMost(first + s, n)
                         <=> i \in 1..n /\ first < i /\ i <= first + s
    BY <1>1, <1>3, <1>7 DEF AtMost
  <2> QED
    BY <1>3, <1>7, <2>1, <2>2, <2>3 DEF Inside, s
<1> QED
  BY <1>6, <1>7

(* search.go:57: a search from a place in the list on answers with the     *)
(* next size entries or what is left of them, if from + size is an int.    *)
THEOREM SearchIsWindow ==
  ASSUME NEW n \in Nat, NEW from \in Nat, NEW size \in Nat, from + size <= IntMax
  PROVE  LET w == SearchWindow(n, from, size) IN
         /\ w.from \in 0..n /\ w.end \in 0..n /\ w.from <= w.end
         /\ Inside(w) = {i \in 1..n : from < i /\ i <= from + size}
<1>1. IntMax \in Nat \ {0}
  BY PagingAssumption
<1>2. Wrap(from + size) = from + size
  BY <1>1, WrapKeeps
<1> DEFINE end == AtMost(from + size, n)
           low == AtMost(from, end)
<1>3. SearchWindow(n, from, size) = [from |-> low, end |-> end]
  BY <1>2 DEF SearchWindow, AtLeast
<1>4. low \in 0..n /\ end \in 0..n /\ low <= end
  BY DEF AtMost
<1>5. \A i \in Int : low < i /\ i <= end <=> i \in 1..n /\ from < i /\ i <= from + size
  BY DEF AtMost
<1> HIDE DEF end, low
<1> QED
  BY <1>3, <1>4, <1>5 DEF Inside

-----------------------------------------------------------------------------
(* The client, and the entries that it has missed among those that its     *)
(* pages so far should have covered.                                       *)
ReaderTyped ==
  reader \in [via : Interfaces \cup {"off", "done"}, text : Texts \cup {{}},
             size : PageSizes \cup {1}, page : Nat \ {0}, total : Nat,
             missed : SUBSET Entry, withdrawn : Nat]

Asked == (reader.page - 1) * Step
Skipped == {i \in Hits(index, reader.text) :
              /\ index[i] \in reader.missed
              /\ Place(Hits(index, reader.text), i) <= Asked}

Reading ==
  /\ reader.size \in PageSizes /\ Len(index) <= MaxRead
  /\ Asked = 0 \/ Asked < MaxRead
  /\ reader.missed \subseteq {index[i] : i \in Hits(index, reader.text)}
  /\ Cardinality(Skipped) <= reader.withdrawn

ListingInv ==
  /\ IndexTyped /\ ReaderTyped
  /\ reader.via \in Interfaces => Reading
  /\ SkipsAreBounded

(* An int holds the length of the index and one page more.                 *)
PagesFitInt == \A s \in PageSizes \cup {LargestPage} : MaxRead + s <= IntMax

(* What the client has asked for so far, and its next page.                *)
LEMMA StepRange ==
  ASSUME ReaderTyped
  PROVE  /\ Step \in Nat \ {0} /\ Asked \in Nat
         /\ reader.size \in Nat \ {0} /\ reader.page \in Nat \ {0}
         /\ reader.page * Step = Asked + Step
<1>1. reader.size \in Nat \ {0} /\ reader.page \in Nat \ {0}
  <2>1. reader.size \in PageSizes \cup {1} /\ reader.page \in Nat \ {0}
    BY DEF ReaderTyped
  <2>2. \A s \in PageSizes \cup {1} : s \in Nat \ {0}
    BY ListingAssumption
  <2> QED
    BY <2>1, <2>2
<1>2. Step \in Nat \ {0}
  BY <1>1, PageSizeRange DEF Step
<1> DEFINE p == reader.page
           s == Step
<1>3. p - 1 \in Nat /\ s \in Nat /\ p \in Nat
  BY <1>1, <1>2
<1>4. \A a, b \in Nat : a * b \in Nat
  OBVIOUS
<1>5. \A a, b \in Int : a * b = (a - 1) * b + b
  OBVIOUS
<1> HIDE DEF p, s
<1>6. (p - 1) * s \in Nat /\ p * s = (p - 1) * s + s
  BY <1>3, <1>4, <1>5
<1> QED
  BY <1>1, <1>2, <1>6 DEF p, s, Asked

(* The next request shows the places from there on, whichever interface it *)
(* uses.                                                                   *)
LEMMA WindowShows ==
  ASSUME PagesFitInt, ReaderTyped, reader.via \in Interfaces, Reading, NEW n \in Nat
  PROVE  /\ Window(n).from \in 0..n /\ Window(n).end \in 0..n
         /\ Inside(Window(n)) = {k \in 1..n : Asked < k /\ k <= Asked + Step}
<1>1. Step \in Nat \ {0} /\ Asked \in Nat /\ reader.size \in Nat \ {0} /\ reader.page \in Nat \ {0}
  BY StepRange
<1>2. MaxRead + Step <= IntMax /\ MaxRead \in Nat
  <2>1. MaxRead \in Nat /\ LargestPage \in Nat /\ IntMax \in Nat
    BY ListingAssumption, PagingAssumption
  <2>2. MaxRead + reader.size <= IntMax /\ MaxRead + LargestPage <= IntMax
    BY DEF PagesFitInt, Reading
  <2>3. PageSize(reader.size) <= LargestPage /\ PageSize(reader.size) \in Nat
    BY <1>1, PageSizeRange
  <2>4. Step = PageSize(reader.size) \/ Step = reader.size
    BY DEF Step
  <2> QED
    BY <1>1, <2>1, <2>2, <2>3, <2>4
<1>3. Asked + Step <= IntMax
  BY <1>1, <1>2, PagingAssumption DEF Reading
<1>4. CASE reader.via = "packages"
  <2>1. Step = PageSize(reader.size)
    BY <1>4 DEF Step
  <2>2. Asked = (AtLeast(reader.page, 1) - 1) * PageSize(reader.size)
    BY <1>1, <2>1 DEF Asked, AtLeast
  <2>3. Window(n) = PageWindow(n, reader.page, reader.size)
    BY <1>4 DEF Window
  <2> QED
    BY <1>1, <1>3, <2>1, <2>2, <2>3, PageIsWindow
<1>5. CASE reader.via = "search"
  <2>1. Step = reader.size
    BY <1>5 DEF Step
  <2>2. Window(n) = SearchWindow(n, Asked, reader.size)
    BY <1>5, <2>1 DEF Window, Asked
  <2> QED
    BY <1>1, <1>3, <2>1, <2>2, SearchIsWindow
<1> QED
  BY <1>4, <1>5 DEF Interfaces

(* One request shows all entries whose place is in the window.             *)
LEMMA Shown ==
  ASSUME index \in Seq(Entry), NEW text, NEW low \in Nat, NEW high \in Nat,
         high <= Len(Matching(text)),
         NEW i \in Hits(index, text),
         low < Place(Hits(index, text), i), Place(Hits(index, text), i) <= high
  PROVE  index[i] \in ToSet(SubSeq(Matching(text), low + 1, high))
<1> DEFINE list == Matching(text)
           k == Place(Hits(index, text), i)
           part == SubSeq(list, low + 1, high)
<1>1. list \in Seq(Entry) /\ k \in 1..Len(list) /\ list[k] = index[i]
  BY MatchingFacts
<1>2. Len(list) \in Nat /\ \A m \in 1..Len(list) : list[m] \in Entry
  BY <1>1, LenProperties, ElementOfSeq
<1> HIDE DEF list, k
<1>3. low < k /\ k <= high /\ high <= Len(list)
  BY DEF list, k
<1>4. /\ part \in Seq(Entry) /\ Len(part) = high - (low + 1) + 1
      /\ \A m \in 1..(high - (low + 1) + 1) : part[m] = list[(low + 1) + m - 1]
  <2>1. low + 1 \in Int /\ high \in Int /\ low + 1 <= high
        /\ \A m \in (low + 1)..high : list[m] \in Entry
    BY <1>2, <1>3, <1>1
  <2>2. /\ part \in Seq(Entry) /\ Len(part) = IF low + 1 <= high THEN high - (low + 1) + 1 ELSE 0
        /\ \A m \in 1..(high - (low + 1) + 1) : part[m] = list[(low + 1) + m - 1]
    BY <2>1, SubSeqProperties
  <2> HIDE DEF part
  <2> QED
    BY <2>1, <2>2
<1> DEFINE m == k - low
<1>5. m \in 1..(high - (low + 1) + 1) /\ (low + 1) + m - 1 = k
  BY <1>1, <1>3
<1> HIDE DEF part, m
<1>6. part[m] = index[i] /\ m \in DOMAIN part
  BY <1>1, <1>4, <1>5, LenProperties
<1>7. index[i] \in ToSet(part)
  BY <1>6 DEF ToSet
<1> QED
  BY <1>7 DEF part, list

-----------------------------------------------------------------------------
(* An entry is inserted: all others stay in the list, none nearer to its   *)
(* front.                                                                  *)
LEMMA ReadingInsert ==
  ASSUME IndexTyped, ReaderTyped, Reading,
         NEW e \in Entry, e \notin ToSet(index),
         NEW i \in 1..(Len(index) + 1), index' = InsertAt(index, i, e),
         reader' = reader, Len(index') <= MaxRead
  PROVE  Reading'
<1> DEFINE is == Hits(index, reader.text)
           js == Hits(index', reader.text)
           move == [l \in is |-> IF l < i THEN l ELSE l + 1]
<1>1. /\ index \in Seq(Entry) /\ index' \in Seq(Entry) /\ Len(index') = Len(index) + 1
      /\ \A k \in 1..(Len(index) + 1) :
           index'[k] = IF k < i THEN index[k] ELSE IF k = i THEN e ELSE index[k - 1]
      /\ Len(index) \in Nat
  <2>1. index \in Seq(Entry)
    BY DEF IndexTyped
  <2>2. Len(index) \in Nat
    BY <2>1, LenProperties
  <2> QED
    BY <2>1, <2>2, InsertFacts
<1>2. /\ is \in SUBSET Nat /\ IsFiniteSet(is) /\ is \in SUBSET (1..Len(index))
      /\ js \in SUBSET Nat /\ IsFiniteSet(js)
  BY <1>1, HitsFinite
<1>3. ASSUME NEW l \in is
      PROVE  move[l] \in js /\ index'[move[l]] = index[l]
  <2>1. l \in 1..Len(index) /\ index[l].name \in reader.text
    BY DEF Hits
  <2>2. CASE l < i
    <3>1. l \in 1..(Len(index) + 1) /\ index'[l] = index[l]
      BY <1>1, <2>1, <2>2
    <3> QED
      BY <1>1, <2>1, <2>2, <3>1 DEF Hits
  <2>3. CASE ~(l < i)
    <3>1. l + 1 \in 1..(Len(index) + 1) /\ ~(l + 1 < i) /\ l + 1 # i /\ (l + 1) - 1 = l
      BY <1>1, <2>1, <2>3
    <3>2. index'[l + 1] = index[l]
      BY <1>1, <3>1
    <3> QED
      BY <1>1, <2>1, <2>3, <3>1, <3>2 DEF Hits
  <2> QED
    BY <2>2, <2>3
<1>4. ASSUME NEW m \in js, m # i
      PROVE  \E l \in is : move[l] = m
  <2>1. m \in 1..(Len(index) + 1) /\ index'[m].name \in reader.text
    BY <1>1 DEF Hits
  <2>2. CASE m < i
    <3>1. m \in 1..Len(index) /\ index'[m] = index[m]
      BY <1>1, <2>1, <2>2
    <3>2. m \in is
      BY <2>1, <3>1 DEF Hits
    <3> QED
      BY <2>2, <3>2
  <2>3. CASE ~(m < i)
    <3>1. m - 1 \in 1..Len(index) /\ ~(m - 1 < i) /\ (m - 1) + 1 = m
      BY <1>1, <1>4, <2>1, <2>3
    <3>2. index'[m] = index[m - 1]
      BY <1>1, <1>4, <2>1, <2>3
    <3>3. m - 1 \in is
      BY <2>1, <3>1, <3>2 DEF Hits
    <3> QED
      BY <3>1, <3>3
  <2> QED
    BY <2>2, <2>3
<1>5. \A k, l \in is : k < l => move[k] < move[l]
  <2>1. \A k \in is : k \in Nat
    BY <1>2
  <2> HIDE DEF is
  <2> QED
    BY <2>1
<1>6. \A l \in is : index[l] \in ToSet(index)
  BY <1>1, LenProperties DEF Hits, ToSet
<1>7. index'[i] = e
  BY <1>1
<1>8. /\ reader.missed \subseteq {index[l] : l \in is}
      /\ Skipped = {l \in is : index[l] \in reader.missed /\ Place(is, l) <= Asked}
  BY DEF Reading, Skipped
<1>9. Asked' = Asked /\ Asked \in Nat
  BY StepRange DEF Asked, Step
<1>10. Skipped' = {m \in js : index'[m] \in reader.missed /\ Place(js, m) <= Asked}
  BY <1>9 DEF Skipped
<1>11. move \in [is -> js]
  BY <1>3
<1> HIDE DEF is, js, move
<1>12. Skipped' \subseteq {move[l] : l \in Skipped}
  <2> SUFFICES ASSUME NEW m \in Skipped' PROVE \E l \in Skipped : move[l] = m
    OBVIOUS
  <2>1. m \in js /\ index'[m] \in reader.missed /\ Place(js, m) <= Asked
    BY <1>10
  <2>2. m # i
    BY <1>6, <1>7, <1>8, <2>1
  <2>3. PICK l \in is : move[l] = m
    BY <1>4, <2>1, <2>2
  <2>4. Place(is, l) <= Place(js, m)
    BY <1>2, <1>5, <1>11, <2>3, MovesBack
  <2>5. Place(is, l) \in Nat /\ Place(js, m) \in Nat
    BY <1>2, <2>1, PlaceFacts
  <2>6. Place(is, l) <= Asked
    BY <1>9, <2>1, <2>4, <2>5
  <2> QED
    BY <1>3, <1>8, <2>1, <2>3, <2>6
<1>13. Cardinality(Skipped') <= Cardinality(Skipped)
  <2> DEFINE f == [l \in Skipped |-> move[l]]
  <2>1. Skipped \in SUBSET is /\ IsFiniteSet(Skipped)
    BY <1>2, <1>8, FS_Subset
  <2>2. DOMAIN f = Skipped /\ {f[l] : l \in Skipped} = {move[l] : l \in Skipped}
    OBVIOUS
  <2> HIDE DEF f
  <2>3. /\ IsFiniteSet({move[l] : l \in Skipped})
        /\ Cardinality({move[l] : l \in Skipped}) <= Cardinality(Skipped)
    <3>1. /\ IsFiniteSet({f[l] : l \in Skipped})
          /\ Cardinality({f[l] : l \in Skipped}) <= Cardinality(Skipped)
      BY <2>1, <2>2, ImageIsFinite
    <3> QED
      BY <2>2, <3>1
  <2>4. IsFiniteSet(Skipped') /\ Cardinality(Skipped') <= Cardinality({move[l] : l \in Skipped})
    BY <1>12, <2>3, FS_Subset
  <2>5. /\ Cardinality(Skipped') \in Nat /\ Cardinality(Skipped) \in Nat
        /\ Cardinality({move[l] : l \in Skipped}) \in Nat
    BY <2>1, <2>3, <2>4, FS_CardinalityType
  <2> QED
    BY <2>3, <2>4, <2>5
<1>14. reader.missed \subseteq {index'[m] : m \in js}
  BY <1>3, <1>8
<1>15. Cardinality(Skipped') <= reader.withdrawn
  <2>1. Cardinality(Skipped) <= reader.withdrawn /\ reader.withdrawn \in Nat
    BY DEF Reading, ReaderTyped
  <2>2. Cardinality(Skipped) \in Nat /\ Cardinality(Skipped') \in Nat
    <3>1. Skipped \in SUBSET is /\ Skipped' \in SUBSET js
      BY <1>8, <1>10
    <3> QED
      BY <1>2, <3>1, FS_Subset, FS_CardinalityType
  <2> QED
    BY <1>13, <2>1, <2>2
<1> QED
  BY <1>9, <1>14, <1>15 DEF Reading, js

(* One is withdrawn: those after it move one place to the front, and at    *)
(* most one of them onto a page that was read.                             *)
LEMMA ReadingRemove ==
  ASSUME IndexTyped, ReaderTyped, Reading,
         NEW i \in 1..Len(index), index' = RemoveAt(index, i),
         reader' = [reader EXCEPT !.missed = @ \ {index[i]}, !.withdrawn = @ + 1]
  PROVE  Reading'
<1> DEFINE is == Hits(index, reader.text)
           kept == is \ {i}
           js == Hits(index', reader.text)
           move == [l \in kept |-> IF l < i THEN l ELSE l - 1]
<1>1. /\ index \in Seq(Entry) /\ index' \in Seq(Entry) /\ Len(index') = Len(index) - 1
      /\ \A k \in 1..(Len(index) - 1) : index'[k] = IF k < i THEN index[k] ELSE index[k + 1]
      /\ Len(index) \in Nat
  BY RemoveFacts, LenProperties DEF IndexTyped
<1>2. /\ is \in SUBSET Nat /\ IsFiniteSet(is) /\ is \in SUBSET (1..Len(index))
      /\ js \in SUBSET Nat /\ IsFiniteSet(js)
  BY <1>1, HitsFinite
<1>3. ASSUME NEW l \in kept
      PROVE  move[l] \in js /\ index'[move[l]] = index[l]
  <2>1. l \in 1..Len(index) /\ index[l].name \in reader.text /\ l # i
    BY DEF Hits
  <2>2. CASE l < i
    <3>1. l \in 1..(Len(index) - 1)
      BY <1>1, <2>1, <2>2
    <3>2. index'[l] = index[l]
      BY <1>1, <2>2, <3>1
    <3> QED
      BY <1>1, <2>1, <2>2, <3>1, <3>2 DEF Hits
  <2>3. CASE ~(l < i)
    <3>1. l - 1 \in 1..(Len(index) - 1) /\ ~(l - 1 < i) /\ (l - 1) + 1 = l
      BY <1>1, <2>1, <2>3
    <3>2. index'[l - 1] = index[l]
      BY <1>1, <3>1
    <3> QED
      BY <1>1, <2>1, <2>3, <3>1, <3>2 DEF Hits
  <2> QED
    BY <2>2, <2>3
<1>4. ASSUME NEW m \in js
      PROVE  \E l \in kept : move[l] = m
  <2>1. m \in 1..(Len(index) - 1) /\ index'[m].name \in reader.text
    BY <1>1 DEF Hits
  <2>2. CASE m < i
    <3>1. m \in 1..Len(index) /\ m # i /\ index'[m] = index[m]
      BY <1>1, <2>1, <2>2
    <3>2. m \in kept
      BY <2>1, <3>1 DEF Hits
    <3> QED
      BY <2>2, <3>2
  <2>3. CASE ~(m < i)
    <3>1. m + 1 \in 1..Len(index) /\ ~(m + 1 < i) /\ m + 1 # i /\ (m + 1) - 1 = m
      BY <1>1, <2>1, <2>3
    <3>2. index'[m] = index[m + 1]
      BY <1>1, <2>1, <2>3
    <3>3. m + 1 \in kept
      BY <2>1, <3>1, <3>2 DEF Hits
    <3> QED
      BY <3>1, <3>3
  <2> QED
    BY <2>2, <2>3
<1>5. \A k, l \in kept : k < l => move[k] < move[l]
  <2>1. \A k \in kept : k \in Nat /\ k # i
    BY <1>2
  <2> HIDE DEF kept
  <2> QED
    BY <2>1
<1>6. /\ reader'.via = reader.via /\ reader'.size = reader.size /\ reader'.page = reader.page
      /\ reader'.text = reader.text /\ reader'.missed = reader.missed \ {index[i]}
      /\ reader'.withdrawn = reader.withdrawn + 1
  BY DEF ReaderTyped
<1>7. Asked' = Asked /\ Asked \in Nat
  BY <1>6, StepRange DEF Asked, Step
<1>8. /\ reader.missed \subseteq {index[l] : l \in is}
      /\ Skipped = {l \in is : index[l] \in reader.missed /\ Place(is, l) <= Asked}
  BY DEF Reading, Skipped
<1>9. Skipped' = {m \in js : index'[m] \in reader.missed \ {index[i]} /\ Place(js, m) <= Asked}
  BY <1>6, <1>7 DEF Skipped
<1>10. move \in [kept -> js]
  BY <1>3
<1>11. kept \in SUBSET Nat /\ IsFiniteSet(kept)
  BY <1>2, FS_RemoveElement
<1>12. \A l \in kept : l \in is
  OBVIOUS
<1> DEFINE near == {l \in is : index[l] \in reader.missed /\ Place(is, l) <= Asked + 1}
<1>13. Skipped' \subseteq {move[l] : l \in near \cap kept}
  <2> SUFFICES ASSUME NEW m \in Skipped' PROVE \E l \in near \cap kept : move[l] = m
    OBVIOUS
  <2>1. m \in js /\ index'[m] \in reader.missed /\ Place(js, m) <= Asked
    BY <1>9
  <2>2. PICK l \in kept : move[l] = m
    BY <1>4, <2>1
  <2> HIDE DEF is, js, move
  <2>3. Place(is, l) <= Place(kept, l) + 1
    BY <1>2, <1>12, OneLess
  <2> HIDE DEF kept
  <2>4. Place(kept, l) <= Place(js, m)
    BY <1>2, <1>5, <1>10, <1>11, <2>2, MovesBack
  <2>5. Place(is, l) \in Nat /\ Place(kept, l) \in Nat /\ Place(js, m) \in Nat
    BY <1>2, <1>11, <1>12, <2>1, PlaceFacts
  <2>6. Place(is, l) <= Asked + 1
    BY <1>7, <2>1, <2>3, <2>4, <2>5
  <2> QED
    BY <1>3, <1>12, <2>1, <2>2, <2>6
<1> HIDE DEF is, kept, js, move
<1>14. near \in SUBSET is /\ Skipped \in SUBSET near /\ IsFiniteSet(near)
  <2>1. \A l \in is : Place(is, l) \in Nat
    BY <1>2, PlaceFacts
  <2>2. near \in SUBSET is
    OBVIOUS
  <2>3. Skipped \in SUBSET near
    BY <1>7, <1>8, <2>1
  <2> HIDE DEF near
  <2> QED
    BY <1>2, <2>2, <2>3, FS_Subset
<1>15. Cardinality(near) <= Cardinality(Skipped) + 1
  <2>1. IsFiniteSet(Skipped) /\ Cardinality(Skipped) \in Nat
    BY <1>14, FS_Subset, FS_CardinalityType
  <2>2. CASE near = Skipped
    <3> HIDE DEF near
    <3> QED
      BY <2>1, <2>2
  <2>3. CASE near # Skipped
    <3>1. PICK a \in near : a \notin Skipped
      BY <1>14, <2>3
    <3>2. \A l \in near : l \notin Skipped => l = a
      <4>1. \A l \in near : l \in is /\ Place(is, l) \in Nat /\ Place(is, l) <= Asked + 1
        BY <1>2, PlaceFacts
      <4>2. \A l \in near : l \notin Skipped => Place(is, l) = Asked + 1
        BY <1>7, <1>8, <4>1
      <4> HIDE DEF near
      <4> QED
        BY <1>2, <3>1, <4>1, <4>2, PlaceFacts
    <3>3. near = Skipped \cup {a}
      BY <1>14, <3>1, <3>2
    <3> HIDE DEF near
    <3>4. Cardinality(near) = Cardinality(Skipped) + 1
      BY <2>1, <3>1, <3>3, FS_AddElement
    <3> QED
      BY <2>1, <3>4
  <2> QED
    BY <2>2, <2>3
<1>16. IsFiniteSet(Skipped') /\ Cardinality(Skipped') <= Cardinality(near)
  <2> DEFINE part == near \cap kept
             f == [l \in part |-> move[l]]
  <2>1. part \in SUBSET near
    OBVIOUS
  <2>2. DOMAIN f = part /\ {f[l] : l \in part} = {move[l] : l \in part}
    OBVIOUS
  <2> HIDE DEF near
  <2>3. IsFiniteSet(part) /\ Cardinality(part) <= Cardinality(near)
    BY <1>14, <2>1, FS_Subset
  <2>4. Skipped' \subseteq {move[l] : l \in part}
    BY <1>13
  <2> HIDE DEF f, part
  <2>5. /\ IsFiniteSet({move[l] : l \in part})
        /\ Cardinality({move[l] : l \in part}) <= Cardinality(part)
    <3>1. /\ IsFiniteSet({f[l] : l \in part})
          /\ Cardinality({f[l] : l \in part}) <= Cardinality(part)
      BY <2>2, <2>3, ImageIsFinite
    <3> QED
      BY <2>2, <3>1
  <2>6. IsFiniteSet(Skipped') /\ Cardinality(Skipped') <= Cardinality({move[l] : l \in part})
    BY <2>4, <2>5, FS_Subset
  <2>7. /\ Cardinality(Skipped') \in Nat /\ Cardinality(part) \in Nat
        /\ Cardinality({move[l] : l \in part}) \in Nat /\ Cardinality(near) \in Nat
    BY <1>14, <2>3, <2>5, <2>6, FS_CardinalityType
  <2> QED
    BY <2>3, <2>5, <2>6, <2>7
<1>17. Cardinality(Skipped') <= reader.withdrawn + 1
  <2>1. Cardinality(Skipped) <= reader.withdrawn /\ reader.withdrawn \in Nat
    BY DEF Reading, ReaderTyped
  <2>2. IsFiniteSet(Skipped)
    BY <1>14, FS_Subset
  <2> HIDE DEF near
  <2>3. Cardinality(Skipped) \in Nat /\ Cardinality(Skipped') \in Nat /\ Cardinality(near) \in Nat
    BY <1>14, <1>16, <2>2, FS_CardinalityType
  <2> QED
    BY <1>15, <1>16, <2>1, <2>3
<1>18. reader.missed \ {index[i]} \subseteq {index'[m] : m \in js}
  <2> SUFFICES ASSUME NEW e \in reader.missed, e # index[i] PROVE \E m \in js : e = index'[m]
    OBVIOUS
  <2>1. PICK l \in is : e = index[l]
    BY <1>8
  <2>2. l \in kept
    BY <2>1 DEF kept
  <2> QED
    BY <1>3, <2>1, <2>2
<1>19. Len(index') <= MaxRead
  BY <1>1, ListingAssumption DEF Reading
<1> QED
  BY <1>6, <1>7, <1>17, <1>18, <1>19 DEF Reading, js

-----------------------------------------------------------------------------
(* A client begins: nothing is asked for, nothing skipped.                 *)
LEMMA ListingOpen ==
  ASSUME ListingInv, NEW via \in Interfaces, NEW text \in Texts, NEW size \in PageSizes,
         Open(via, text, size)
  PROVE  ListingInv'
<1> DEFINE is == Hits(index, text)
<1>1. /\ index' = index /\ Len(index) <= MaxRead /\ index \in Seq(Entry)
      /\ reader' = [via |-> via, text |-> text, size |-> size, page |-> 1,
                    total |-> 0, missed |-> ToSet(Matching(text)), withdrawn |-> 0]
  BY DEF Open, Off, vars, ListingInv, IndexTyped
<1>2. ToSet(Matching(text)) = {index[i] : i \in is}
  <2>1. /\ Matching(text) \in Seq(Entry) /\ Len(Matching(text)) = Cardinality(is)
        /\ \A i \in is : /\ Place(is, i) \in 1..Cardinality(is)
                         /\ Matching(text)[Place(is, i)] = index[i]
        /\ \A k \in 1..Cardinality(is) : \E i \in is : Place(is, i) = k
    BY <1>1, MatchingFacts
  <2>2. DOMAIN Matching(text) = 1..Cardinality(is)
    BY <2>1, LenProperties
  <2> HIDE DEF is
  <2> QED
    BY <2>1, <2>2 DEF ToSet
<1>3. {index[i] : i \in is} \in SUBSET Entry
  BY <1>1, ElementOfSeq DEF Hits
<1>4. ReaderTyped'
  BY <1>1, <1>2, <1>3 DEF ReaderTyped
<1>5. Asked' = 0
  <2>1. size \in Nat \ {0}
    BY ListingAssumption
  <2>2. Step' = (IF via = "packages" THEN PageSize(size) ELSE size)
    BY <1>1 DEF Step
  <2>3. Step' \in Nat
    BY <2>1, <2>2, PageSizeRange
  <2>4. \A b \in Nat : (1 - 1) * b = 0
    OBVIOUS
  <2>5. Asked' = (1 - 1) * Step'
    BY <1>1 DEF Asked
  <2> QED
    BY <2>3, <2>4, <2>5
<1>6. Skipped' = {}
  <2>1. \A i \in is : Place(is, i) \in Nat \ {0}
    BY <1>1, HitsFinite, PlaceFacts
  <2>2. Skipped' \subseteq {i \in is : Place(is, i) <= 0}
    BY <1>1, <1>5 DEF Skipped
  <2> HIDE DEF is
  <2> QED
    BY <2>1, <2>2
<1>7. Cardinality(Skipped') <= reader'.withdrawn
  BY <1>1, <1>6, FS_EmptySet
<1>8. Reading'
  BY <1>1, <1>2, <1>5, <1>7 DEF Reading
<1>9. SkipsAreBounded'
  BY <1>1 DEF SkipsAreBounded, Interfaces
<1>10. IndexTyped'
  BY <1>1 DEF IndexTyped
<1> QED
  BY <1>4, <1>8, <1>9, <1>10 DEF ListingInv

(* The client after a request that a page of this list answered.           *)
Answered(list) ==
  reader' =
    LET window == Window(Len(list))
        missed == reader.missed \ ToSet(SubSeq(list, window.from + 1, window.end))
    IN  IF reader.page * Step >= Len(list)
        THEN [Off EXCEPT !.via = "done", !.total = Len(list), !.missed = missed,
                         !.withdrawn = reader.withdrawn]
        ELSE [reader EXCEPT !.missed = missed, !.page = @ + 1]

(* A request of what is listed: what it should have shown and did not was  *)
(* skipped before.                                                         *)
LEMMA ListingShows ==
  ASSUME ListingInv, PagesFitInt, reader.via \in Interfaces, UNCHANGED vars,
         Answered(Matching(reader.text))
  PROVE  ListingInv'
<1> DEFINE list == Matching(reader.text)
           is == Hits(index, reader.text)
           n == Cardinality(is)
           w == Window(Len(list))
           shown == ToSet(SubSeq(list, w.from + 1, w.end))
           left == reader.missed \ shown
<1>1. /\ reader.via \in Interfaces /\ IndexTyped /\ ReaderTyped /\ Reading
      /\ index' = index /\ index \in Seq(Entry)
  BY DEF ListingInv, IndexTyped, vars
<1>2. reader' = IF reader.page * Step >= Len(list)
                THEN [Off EXCEPT !.via = "done", !.total = Len(list), !.missed = left,
                                 !.withdrawn = reader.withdrawn]
                ELSE [reader EXCEPT !.missed = left, !.page = @ + 1]
  BY DEF Answered
<1>3. /\ Step \in Nat \ {0} /\ Asked \in Nat /\ reader.page \in Nat \ {0}
      /\ reader.page * Step = Asked + Step
  BY <1>1, StepRange
<1>4. Len(list) = n /\ n \in Nat /\ n <= Len(index) /\ Len(index) \in Nat
  BY <1>1, MatchingFacts, LenProperties
<1>5. /\ IsFiniteSet(is) /\ is \in SUBSET Nat
      /\ \A T \in SUBSET is : IsFiniteSet(T) /\ Cardinality(T) \in Nat
  BY <1>1, HitsFinite
<1>6. Skipped = {i \in is : index[i] \in reader.missed /\ Place(is, i) <= Asked}
      /\ reader.missed \subseteq {index[i] : i \in is}
      /\ Cardinality(Skipped) <= reader.withdrawn /\ Len(index) <= MaxRead
  BY <1>1 DEF Skipped, Reading
<1>7. /\ w.from \in 0..n /\ w.end \in 0..n
      /\ Inside(w) = {k \in 1..n : Asked < k /\ k <= Asked + Step}
  BY <1>1, <1>4, WindowShows
<1>8. \A i \in is : Place(is, i) \in 1..n
  BY <1>1, MatchingFacts
<1>9. ASSUME NEW i \in is, Asked < Place(is, i), Place(is, i) <= Asked + Step
      PROVE  index[i] \in shown
  <2>1. Place(is, i) \in Inside(w)
    BY <1>7, <1>8, <1>9
  <2>2. w.from < Place(is, i) /\ Place(is, i) <= w.end
    BY <2>1 DEF Inside
  <2>3. w.from \in Nat /\ w.end \in Nat /\ w.end <= Len(list)
    BY <1>4, <1>7
  <2> HIDE DEF w
  <2> QED
    BY <1>1, <2>2, <2>3, Shown
<1> HIDE DEF shown, w, list
<1>10. ASSUME NEW i \in is, index[i] \in left, Place(is, i) <= Asked + Step
       PROVE  i \in Skipped
  <2>1. Place(is, i) <= Asked
    BY <1>3, <1>8, <1>9, <1>10
  <2> QED
    BY <1>6, <1>10, <2>1
<1>11. reader.missed \in SUBSET Entry /\ reader.withdrawn \in Nat /\ reader.size \in PageSizes
  BY <1>1 DEF ReaderTyped, Reading
<1> HIDE DEF is, n
<1>12. Skipped \in SUBSET is
  BY <1>6
<1>13. CASE reader.page * Step >= Len(list)
  <2>1. reader' = [via |-> "done", text |-> {}, size |-> 1, page |-> 1, total |-> n,
                   missed |-> left, withdrawn |-> reader.withdrawn]
    BY <1>2, <1>4, <1>13 DEF Off
  <2>2. \A i \in is : Place(is, i) <= Asked + Step
    BY <1>3, <1>4, <1>8, <1>13
  <2>3. left \subseteq {index[i] : i \in Skipped}
    <3> SUFFICES ASSUME NEW e \in left PROVE \E i \in Skipped : e = index[i]
      OBVIOUS
    <3>1. PICK i \in is : e = index[i]
      BY <1>6
    <3> QED
      BY <1>10, <2>2, <3>1
  <2>4. Cardinality(left) <= Cardinality(Skipped)
    <3> DEFINE f == [i \in Skipped |-> index[i]]
    <3>1. DOMAIN f = Skipped /\ {f[i] : i \in Skipped} = {index[i] : i \in Skipped}
      OBVIOUS
    <3> HIDE DEF f
    <3>2. IsFiniteSet(Skipped) /\ Cardinality(Skipped) \in Nat
      BY <1>5, <1>12
    <3>3. /\ IsFiniteSet({f[i] : i \in Skipped})
          /\ Cardinality({f[i] : i \in Skipped}) <= Cardinality(Skipped)
      BY <3>1, <3>2, ImageIsFinite
    <3> HIDE DEF left
    <3>4. IsFiniteSet(left) /\ Cardinality(left) <= Cardinality({f[i] : i \in Skipped})
      BY <2>3, <3>1, <3>3, FS_Subset
    <3>5. Cardinality(left) \in Nat /\ Cardinality({f[i] : i \in Skipped}) \in Nat
      BY <3>3, <3>4, FS_CardinalityType
    <3> QED
      BY <3>2, <3>3, <3>4, <3>5
  <2>5. Cardinality(left) <= reader.withdrawn
    <3>1. Cardinality(Skipped) \in Nat
      BY <1>5, <1>12
    <3>2. IsFiniteSet({index[i] : i \in Skipped})
      <4> DEFINE f == [i \in Skipped |-> index[i]]
      <4>1. DOMAIN f = Skipped /\ {f[i] : i \in Skipped} = {index[i] : i \in Skipped}
        OBVIOUS
      <4> HIDE DEF f
      <4>2. IsFiniteSet(Skipped)
        BY <1>5, <1>12
      <4>3. IsFiniteSet({f[i] : i \in Skipped})
        BY <4>1, <4>2, ImageIsFinite
      <4> QED
        BY <4>1, <4>3
    <3> HIDE DEF left
    <3>3. Cardinality(left) \in Nat
      BY <2>3, <3>2, FS_Subset, FS_CardinalityType
    <3> QED
      BY <1>6, <1>11, <2>4, <3>1, <3>3
  <2>6. SkipsAreBounded'
    BY <2>1, <2>5 DEF SkipsAreBounded
  <2>7. ReaderTyped'
    BY <1>4, <1>11, <2>1 DEF ReaderTyped
  <2>8. IndexTyped' /\ reader'.via \notin Interfaces
    BY <1>1, <2>1 DEF IndexTyped, Interfaces
  <2> QED
    BY <2>6, <2>7, <2>8 DEF ListingInv
<1>14. CASE ~(reader.page * Step >= Len(list))
  <2>1. reader' = [reader EXCEPT !.missed = left, !.page = @ + 1]
    BY <1>2, <1>14
  <2>2. /\ reader'.via = reader.via /\ reader'.size = reader.size /\ reader'.page = reader.page + 1
        /\ reader'.text = reader.text /\ reader'.missed = left
        /\ reader'.withdrawn = reader.withdrawn
    BY <1>1, <2>1 DEF ReaderTyped
  <2>3. ReaderTyped'
    <3>1. left \in SUBSET Entry /\ reader.page + 1 \in Nat \ {0}
      BY <1>3, <1>11
    <3> HIDE DEF left
    <3> QED
      BY <1>1, <2>1, <3>1 DEF ReaderTyped
  <2>4. Step' = Step
    BY <2>2 DEF Step
  <2>5. Asked' = Asked + Step
    BY <1>3, <2>2, <2>4 DEF Asked
  <2>6. Skipped' \subseteq Skipped
    <3>1. Skipped' = {i \in is : index[i] \in left /\ Place(is, i) <= Asked + Step}
      BY <1>1, <2>2, <2>5 DEF Skipped, is
    <3> QED
      BY <1>10, <3>1
  <2>7. Cardinality(Skipped') <= reader.withdrawn
    <3>1. Skipped' \in SUBSET is
      BY <1>12, <2>6
    <3>2. Cardinality(Skipped') \in Nat /\ Cardinality(Skipped) \in Nat /\ IsFiniteSet(Skipped)
      BY <1>5, <1>12, <3>1
    <3>3. Cardinality(Skipped') <= Cardinality(Skipped)
      BY <2>6, <3>2, FS_Subset
    <3> QED
      BY <1>6, <1>11, <3>2, <3>3
  <2>8. Asked + Step < MaxRead
    BY <1>3, <1>4, <1>6, <1>14, ListingAssumption
  <2>9. Reading'
    BY <1>1, <1>6, <1>11, <2>2, <2>5, <2>7, <2>8 DEF Reading, is
  <2>10. SkipsAreBounded'
    BY <1>1, <2>2 DEF SkipsAreBounded, Interfaces
  <2>11. IndexTyped'
    BY <1>1 DEF IndexTyped
  <2> QED
    BY <2>3, <2>9, <2>10, <2>11 DEF ListingInv
<1> QED
  BY <1>13, <1>14

(* An empty list: the client stops.                                        *)
LEMMA ListingRead ==
  ASSUME ListingInv, PagesFitInt, ReadPage
  PROVE  ListingInv'
<1>1. reader.via \in Interfaces /\ UNCHANGED vars
  BY DEF ReadPage
<1>2. PICK list \in Answers : Answered(list)
  BY DEF ReadPage, Answered
<1>3. CASE list = Matching(reader.text)
  BY <1>1, <1>2, <1>3, ListingShows
<1>4. CASE list = <<>>
  <2> DEFINE missed == reader.missed \ ToSet(SubSeq(list, Window(Len(list)).from + 1,
                                                    Window(Len(list)).end))
  <2>1. IndexTyped /\ ReaderTyped
    BY DEF ListingInv
  <2>2. Len(list) = 0 /\ reader.page * Step >= Len(list)
    <3>1. Len(list) = 0
      BY <1>4
    <3>2. Step \in Nat /\ Asked \in Nat /\ reader.page * Step = Asked + Step
      BY <2>1, StepRange
    <3> QED
      BY <3>1, <3>2
  <2>3. missed \in SUBSET Entry /\ reader.withdrawn \in Nat
    BY <2>1 DEF ReaderTyped
  <2>4. reader' = [Off EXCEPT !.via = "done", !.total = Len(list), !.missed = missed,
                              !.withdrawn = reader.withdrawn]
    BY <1>2, <2>2 DEF Answered
  <2> HIDE DEF missed
  <2>5. reader' = [via |-> "done", text |-> {}, size |-> 1, page |-> 1, total |-> 0,
                   missed |-> missed, withdrawn |-> reader.withdrawn]
    BY <2>2, <2>4 DEF Off
  <2>6. ReaderTyped' /\ SkipsAreBounded' /\ reader'.via \notin Interfaces
    BY <2>3, <2>5 DEF ReaderTyped, SkipsAreBounded, Interfaces
  <2>7. IndexTyped'
    BY <1>1, <2>1 DEF IndexTyped, vars
  <2> QED
    BY <2>6, <2>7 DEF ListingInv
<1> QED
  BY <1>2, <1>3, <1>4 DEF Answers

(* The invariant of the client that reads page after page.                 *)
LEMMA ListingInvariance == ASSUME PagesFitInt PROVE ListingSpec => []ListingInv
<1>1. ListingInit => ListingInv
  <2> SUFFICES ASSUME ListingInit PROVE ListingInv
    OBVIOUS
  <2>1. IndexTyped
    BY EmptySeq DEF ListingInit, Init, IndexTyped
  <2>2. reader = Off
    BY DEF ListingInit
  <2> QED
    BY <2>1, <2>2 DEF ListingInv, ReaderTyped, Off, SkipsAreBounded, Interfaces
<1>2. ListingInv /\ [ListingNext]_<<vars, reader>> => ListingInv'
  <2> SUFFICES ASSUME ListingInv, [ListingNext]_<<vars, reader>> PROVE ListingInv'
    OBVIOUS
  <2>1. IndexTyped /\ ReaderTyped /\ SkipsAreBounded
        /\ (reader.via \in Interfaces => Reading)
    BY DEF ListingInv
  <2>2. ASSUME NEW e \in Entry, Publish(e), reader' = reader,
               reader.via \in Interfaces => Len(index') <= MaxRead
        PROVE  ListingInv'
    <3>1. PICK i \in 1..(Len(index) + 1) : index' = InsertAt(index, i, e)
      BY <2>2 DEF Publish
    <3>2. e \notin ToSet(index)
      BY <2>2 DEF Publish
    <3>3. IndexTyped'
      BY <2>1, <3>1, InsertFacts DEF IndexTyped
    <3>4. ReaderTyped' /\ SkipsAreBounded'
      BY <2>1, <2>2 DEF ReaderTyped, SkipsAreBounded
    <3>5. reader'.via \in Interfaces => Reading'
      BY <2>1, <2>2, <3>1, <3>2, ReadingInsert
    <3> QED
      BY <3>3, <3>4, <3>5 DEF ListingInv
  <2>3. ASSUME UNCHANGED <<index, reader>> PROVE ListingInv'
    <3>1. Asked' = Asked /\ Skipped' = Skipped
      BY <2>3 DEF Asked, Step, Skipped
    <3>2. Reading => Reading'
      BY <2>3, <3>1 DEF Reading
    <3> QED
      BY <2>1, <2>3, <3>2 DEF ListingInv, IndexTyped, ReaderTyped, SkipsAreBounded
  <2>4. ASSUME NEW via \in Interfaces, NEW text \in Texts, NEW size \in PageSizes,
               Open(via, text, size)
        PROVE  ListingInv'
    BY <2>4, ListingOpen
  <2>5. CASE ReadPage
    BY <2>5, ListingRead
  <2>6. ASSUME NEW i \in DOMAIN index, Withdraw(i) PROVE ListingInv'
    <3>1. /\ i \in 1..Len(index) /\ index \in Seq(Entry)
          /\ reader.via \in Interfaces /\ index' = RemoveAt(index, i)
          /\ reader' = [reader EXCEPT !.missed = @ \ {index[i]}, !.withdrawn = @ + 1]
      BY <2>1, <2>6, LenProperties DEF Withdraw, IndexTyped
    <3>2. Reading'
      BY <2>1, <3>1, ReadingRemove
    <3>3. IndexTyped'
      BY <3>1, RemoveFacts DEF IndexTyped
    <3>4. ReaderTyped'
      <4> DEFINE missed == reader.missed \ {index[i]}
                 withdrawn == reader.withdrawn + 1
      <4>1. missed \in SUBSET Entry /\ withdrawn \in Nat
        BY <2>1 DEF ReaderTyped
      <4>2. reader' = [reader EXCEPT !.missed = missed, !.withdrawn = withdrawn]
        BY <3>1
      <4> HIDE DEF missed, withdrawn
      <4>3. ReaderTyped
        BY <2>1
      <4> QED
        BY <4>1, <4>2, <4>3 DEF ReaderTyped
    <3>5. reader'.via = reader.via
      <4>1. ReaderTyped
        BY <2>1
      <4> QED
        BY <3>1, <4>1 DEF ReaderTyped
    <3>6. SkipsAreBounded'
      BY <3>1, <3>5 DEF SkipsAreBounded, Interfaces
    <3> QED
      BY <3>2, <3>3, <3>4, <3>6 DEF ListingInv
  <2> QED
    BY <2>2, <2>3, <2>4, <2>5, <2>6 DEF ListingNext, Next, Pull, Resync, End, vars
<1> QED
  BY <1>1, <1>2, PTL DEF ListingSpec

(* packages.go:55, search.go:56: see SkipsAreBounded.                      *)
THEOREM ReadersMissLittle == ASSUME PagesFitInt PROVE ListingSpec => []SkipsAreBounded
BY ListingInvariance, PTL DEF ListingInv
=============================================================================
