------------------------------ MODULE LruProofs ------------------------------
(***************************************************************************)
(* The list and the map of the LRU stay in step, and the LRU implements    *)
(* Recency, for every set of keys, size and time to live.                  *)
(***************************************************************************)
EXTENDS Lru, FiniteSetTheorems, TLAPS

(* removeNode leaves the order of the other nodes.                         *)
LEMMA RemoveLinked ==
  ASSUME NEW l \in List, NEW S \in SUBSET Keys, NEW u \in [Keys -> Nat], NEW k \in S,
         Linked(l, S, u)
  PROVE  removeNode(l, k) \in List /\ Linked(removeNode(l, k), S \ {k}, u)
<1> USE LruAssumption
<1> DEFINE R == S \ {k}  m == removeNode(l, k)
<1>1. l.prev[k] \in Pointers /\ l.next[k] \in Pointers /\ m \in List
  BY DEF removeNode, List, Pointers
<1>2. \A j \in Keys : /\ m.next[j] = IF j = k THEN Nil ELSE IF j = l.prev[k] THEN l.next[k] ELSE l.next[j]
                      /\ m.prev[j] = IF j = k THEN Nil ELSE IF j = l.next[k] THEN l.prev[k] ELSE l.prev[j]
  BY DEF removeNode
<1>3. /\ m.head = IF l.prev[k] # Nil THEN l.head ELSE l.next[k]
      /\ m.tail = IF l.next[k] # Nil THEN l.tail ELSE l.prev[k]
  BY DEF removeNode
<1>4. Newest(m.head, R, u)
  BY <1>3 DEF Linked, Newest, Oldest, Before, After
<1>5. Oldest(m.tail, R, u)
  BY <1>3 DEF Linked, Newest, Oldest, Before, After
<1>a. \A i \in S : \/ l.next[i] = Nil /\ \A j \in S : ~(u[j] < u[i])
                   \/ /\ l.next[i] \in S /\ u[l.next[i]] < u[i]
                      /\ \A j \in S : u[j] < u[i] => u[j] <= u[l.next[i]]
  BY DEF Linked, Newest, Before
<1>b. \A i \in S : \/ l.prev[i] = Nil /\ \A j \in S : ~(u[i] < u[j])
                   \/ /\ l.prev[i] \in S /\ u[i] < u[l.prev[i]]
                      /\ \A j \in S : u[i] < u[j] => u[l.prev[i]] <= u[j]
  BY DEF Linked, Oldest, After
<1>c. (\A i, j \in S : u[i] = u[j] => i = j) /\ (\A i \in S : u[i] \in Nat /\ i # Nil)
  BY DEF Linked
<1> HIDE DEF m
<1>6. ASSUME NEW j \in R PROVE Newest(m.next[j], Before(j, R, u), u)
  <2>1. \/ m.next[j] = Nil /\ \A i \in R : ~(u[i] < u[j])
        \/ /\ m.next[j] \in R /\ u[m.next[j]] < u[j]
           /\ \A i \in R : u[i] < u[j] => u[i] <= u[m.next[j]]
    <3>1. CASE j = l.prev[k]
      <4>1. m.next[j] = l.next[k] BY <1>2, <3>1
      <4>2. u[k] < u[j] /\ \A i \in S : u[k] < u[i] => u[j] <= u[i] BY <1>b, <1>c, <3>1
      <4>3. \A i \in R : u[i] < u[j] => u[i] < u[k] BY <1>c, <4>2
      <4>4. CASE l.next[k] = Nil BY <1>a, <1>c, <4>1, <4>3, <4>4
      <4>5. CASE l.next[k] # Nil
        <5>1. /\ l.next[k] \in S /\ u[l.next[k]] < u[k]
              /\ \A i \in S : u[i] < u[k] => u[i] <= u[l.next[k]]
          BY <1>a, <4>5
        <5> QED BY <1>c, <5>1, <4>1, <4>2, <4>3
      <4> QED BY <4>4, <4>5
    <3>2. CASE j # l.prev[k]
      <4>1. m.next[j] = l.next[j] BY <1>2, <3>2
      <4>2. l.next[j] # k
        <5> SUFFICES ASSUME l.next[j] = k PROVE FALSE OBVIOUS
        <5>1. u[k] < u[j] /\ \A i \in S : u[i] < u[j] => u[i] <= u[k] BY <1>a, <1>c
        <5>2. l.prev[k] \in S /\ u[k] < u[l.prev[k]] /\ u[l.prev[k]] <= u[j] BY <1>b, <5>1
        <5> QED BY <1>c, <5>1, <5>2, <3>2
      <4> QED BY <1>a, <1>c, <4>1, <4>2
    <3> QED BY <3>1, <3>2
  <2> QED BY <2>1, <1>c DEF Newest, Before
<1>7. ASSUME NEW j \in R PROVE Oldest(m.prev[j], After(j, R, u), u)
  <2>1. \/ m.prev[j] = Nil /\ \A i \in R : ~(u[j] < u[i])
        \/ /\ m.prev[j] \in R /\ u[j] < u[m.prev[j]]
           /\ \A i \in R : u[j] < u[i] => u[m.prev[j]] <= u[i]
    <3>1. CASE j = l.next[k]
      <4>1. m.prev[j] = l.prev[k] BY <1>2, <3>1
      <4>2. u[j] < u[k] /\ \A i \in S : u[i] < u[k] => u[i] <= u[j] BY <1>a, <1>c, <3>1
      <4>3. \A i \in R : u[j] < u[i] => u[k] < u[i] BY <1>c, <4>2
      <4>4. CASE l.prev[k] = Nil BY <1>b, <1>c, <4>1, <4>3, <4>4
      <4>5. CASE l.prev[k] # Nil
        <5>1. /\ l.prev[k] \in S /\ u[k] < u[l.prev[k]]
              /\ \A i \in S : u[k] < u[i] => u[l.prev[k]] <= u[i]
          BY <1>b, <4>5
        <5> QED BY <1>c, <5>1, <4>1, <4>2, <4>3
      <4> QED BY <4>4, <4>5
    <3>2. CASE j # l.next[k]
      <4>1. m.prev[j] = l.prev[j] BY <1>2, <3>2
      <4>2. l.prev[j] # k
        <5> SUFFICES ASSUME l.prev[j] = k PROVE FALSE OBVIOUS
        <5>1. u[j] < u[k] /\ \A i \in S : u[j] < u[i] => u[k] <= u[i] BY <1>b, <1>c
        <5>2. l.next[k] \in S /\ u[l.next[k]] < u[k] /\ u[j] <= u[l.next[k]] BY <1>a, <5>1
        <5> QED BY <1>c, <5>1, <5>2, <3>2
      <4> QED BY <1>b, <1>c, <4>1, <4>2
    <3> QED BY <3>1, <3>2
  <2> QED BY <2>1, <1>c DEF Oldest, After
<1>8. \A i, j \in R : u[i] = u[j] => i = j BY <1>c
<1> QED BY <1>1, <1>4, <1>5, <1>6, <1>7, <1>8 DEF Linked, m

(* A new use of a node that is not in the list.                            *)
LEMMA StampLinked ==
  ASSUME NEW l \in List, NEW S \in SUBSET Keys, NEW u \in [Keys -> Nat], NEW k \in Keys \ S,
         NEW n \in Nat, Linked(l, S, u)
  PROVE  Linked(l, S, [u EXCEPT ![k] = n])
BY DEF Linked, Newest, Oldest, Before, After

(* addToFront makes the node that is used now the newest.                  *)
LEMMA AddLinked ==
  ASSUME NEW l \in List, NEW S \in SUBSET Keys, NEW u \in [Keys -> Nat], NEW k \in Keys \ S,
         Linked(l, S, u), \A j \in S : u[j] < u[k]
  PROVE  addToFront(l, k) \in List /\ Linked(addToFront(l, k), S \cup {k}, u)
<1> USE LruAssumption
<1> DEFINE A == S \cup {k}  m == addToFront(l, k)
<1>1. m \in List
  BY DEF addToFront, List, Pointers
<1>2. \A j \in Keys : /\ m.next[j] = IF j = k THEN l.head ELSE l.next[j]
                      /\ m.prev[j] = IF j = l.head THEN k ELSE IF j = k THEN Nil ELSE l.prev[j]
  BY DEF addToFront, List
<1>3. m.head = k /\ m.tail = IF l.tail = Nil THEN k ELSE l.tail
  BY DEF addToFront
<1>4. Newest(m.head, A, u) /\ Oldest(m.tail, A, u)
  BY <1>3 DEF Linked, Newest, Oldest
<1>5. ASSUME NEW j \in A PROVE Newest(m.next[j], Before(j, A, u), u)
  <2>1. CASE j = k
    <3>1. Before(j, A, u) = S BY <2>1 DEF Before
    <3> QED BY <3>1, <2>1, <1>2 DEF Linked
  <2>2. CASE j # k
    <3>1. Before(j, A, u) = Before(j, S, u) BY <2>2 DEF Before
    <3> QED BY <3>1, <2>2, <1>2 DEF Linked
  <2> QED BY <2>1, <2>2
<1>6. ASSUME NEW j \in A PROVE Oldest(m.prev[j], After(j, A, u), u)
  BY <1>2 DEF Linked, Newest, Oldest, After
<1>7. \A i, j \in A : u[i] = u[j] => i = j
  BY DEF Linked
<1> QED BY <1>1, <1>4, <1>5, <1>6, <1>7 DEF Linked

(* moveToFront makes a node of the list the newest.                        *)
LEMMA MoveLinked ==
  ASSUME NEW l \in List, NEW S \in SUBSET Keys, NEW u \in [Keys -> Nat], NEW k \in S,
         NEW n \in Nat, Linked(l, S, u), \A j \in S : u[j] < n
  PROVE  /\ moveToFront(l, k) \in List
         /\ Linked(moveToFront(l, k), S, [u EXCEPT ![k] = n])
<1> DEFINE v == [u EXCEPT ![k] = n]
<1>0. v \in [Keys -> Nat] /\ v[k] = n /\ \A j \in Keys \ {k} : v[j] = u[j]
  OBVIOUS
<1>1. CASE l.head = k
  <2>1. \A j \in S : u[j] <= u[k]
    BY <1>1 DEF Linked, Newest
  <2>2. \A j \in S : Before(j, S, v) = Before(j, S, u) /\ After(j, S, v) = After(j, S, u)
    BY <1>0, <2>1 DEF Before, After, Linked
  <2>3. \A i, j \in S : v[i] = v[j] => i = j
    BY <1>0 DEF Linked
  <2>4. Newest(l.head, S, v) /\ Oldest(l.tail, S, v)
    BY <1>0, <1>1, <2>1 DEF Linked, Newest, Oldest
  <2>5. \A j \in S : Newest(l.next[j], Before(j, S, v), v)
    BY <1>0, <2>1, <2>2 DEF Linked, Newest, Before
  <2>6. \A j \in S : Oldest(l.prev[j], After(j, S, v), v)
    BY <1>0, <2>1, <2>2 DEF Linked, Oldest, After
  <2> QED BY <1>1, <2>3, <2>4, <2>5, <2>6 DEF Linked, moveToFront
<1>2. CASE l.head # k
  <2> DEFINE r == removeNode(l, k)
  <2>1. r \in List /\ Linked(r, S \ {k}, u) BY RemoveLinked
  <2> HIDE DEF r
  <2>2. Linked(r, S \ {k}, v) BY <2>1, StampLinked
  <2>3. \A j \in S \ {k} : v[j] < v[k] BY <1>0
  <2> HIDE DEF v
  <2>4. addToFront(r, k) \in List /\ Linked(addToFront(r, k), (S \ {k}) \cup {k}, v)
    BY <1>0, <2>1, <2>2, <2>3, AddLinked
  <2>5. (S \ {k}) \cup {k} = S OBVIOUS
  <2> QED BY <1>2, <2>4, <2>5 DEF moveToFront, r, v
<1> QED BY <1>1, <1>2

-----------------------------------------------------------------------------
LEMMA InitKeeps == Init => LruInv
<1> SUFFICES ASSUME Init PROVE LruInv OBVIOUS
<1>1. TypeOK BY LruAssumption DEF Init, TypeOK, List, Pointers
<1>2. Linked(list, items, last) BY DEF Init, Linked, Newest, Oldest
<1>3. IsFiniteSet(items) /\ Cardinality(items) = 0 BY FS_EmptySet DEF Init
<1>4. Cap \in Nat \ {0} BY LruAssumption DEF Cap
<1> QED BY <1>1, <1>2, <1>3, <1>4 DEF Init, LruInv, ListInv

LEMMA CapPositive == Cap \in Nat \ {0}
BY LruAssumption DEF Cap

(* A node that is taken out of list and map.                               *)
LEMMA DropKeeps ==
  ASSUME LruInv, NEW k \in items, list' = removeNode(list, k), items' = items \ {k},
         last' = last, uses' = uses
  PROVE  ListInv' /\ list' \in List
<1>1. list' \in List /\ Linked(list', items \ {k}, last)
  BY RemoveLinked DEF LruInv, TypeOK, ListInv
<1>2. IsFiniteSet(items \ {k}) /\ Cardinality(items \ {k}) = Cardinality(items) - 1
  BY FS_RemoveElement DEF LruInv, ListInv
<1>3. Cardinality(items) \in Nat BY FS_CardinalityType DEF LruInv, ListInv
<1>4. Cardinality(items \ {k}) <= Cap BY <1>2, <1>3, CapPositive DEF LruInv, ListInv
<1>5. Linked(list', items', last') BY <1>1
<1>6. \A j \in items' : last'[j] <= uses' BY DEF LruInv, ListInv
<1>7. IsFiniteSet(items') /\ Cardinality(items') <= Cap BY <1>2, <1>4
<1> QED BY <1>1, <1>5, <1>6, <1>7 DEF ListInv

(* A use of a node that is in the list.                                    *)
LEMMA UseKeeps ==
  ASSUME LruInv, NEW k \in items, list' = moveToFront(list, k), Use(k), items' = items
  PROVE  ListInv' /\ list' \in List
<1>1. uses + 1 \in Nat /\ last' = [last EXCEPT ![k] = uses + 1] /\ uses' = uses + 1
  BY DEF Use, LruInv, TypeOK
<1>2. \A j \in items : last[j] < uses + 1 BY DEF LruInv, TypeOK, ListInv
<1>3. list' \in List /\ Linked(list', items, last')
  BY <1>1, <1>2, MoveLinked DEF LruInv, TypeOK, ListInv
<1>4. \A j \in items : last'[j] <= uses'
  BY <1>1, <1>2 DEF LruInv, TypeOK
<1> QED BY <1>3, <1>4 DEF LruInv, ListInv

LEMMA SameCardinality == \A S : Abstract!Cardinality(S) = Cardinality(S)
BY DEF Abstract!Cardinality, Cardinality

(* A new node, and the eviction of the oldest when there is no room.       *)
LEMMA SetAbsentKeeps ==
  ASSUME LruInv, NEW k \in Keys, NEW v \in Values, SetAbsent(k, v)
  PROVE  ListInv' /\ list' \in List /\ Abstract!Set(k, v)
<1> DEFINE all == items \cup {k}  grown == addToFront(list, k)
<1>0. k \notin items /\ k # Nil BY LruAssumption DEF SetAbsent
<1>1. uses + 1 \in Nat /\ last' = [last EXCEPT ![k] = uses + 1] /\ uses' = uses + 1
  BY DEF SetAbsent, Use, LruInv, TypeOK
<1>2. \A j \in all : last'[j] <= uses' BY <1>0, <1>1 DEF LruInv, TypeOK, ListInv
<1>3. grown \in List /\ Linked(grown, all, last')
  <2>1. Linked(list, items, last') BY <1>0, <1>1, StampLinked DEF LruInv, TypeOK, ListInv
  <2>2. last' \in [Keys -> Nat] BY <1>1 DEF LruInv, TypeOK
  <2>3. \A j \in items : last'[j] < last'[k] BY <1>0, <1>1 DEF LruInv, TypeOK, ListInv
  <2> QED BY <1>0, <2>1, <2>2, <2>3, AddLinked DEF LruInv, TypeOK
<1>4. /\ IsFiniteSet(all) /\ Cardinality(all) = Cardinality(items) + 1
      /\ Cardinality(items) \in Nat /\ Cardinality(items) <= Cap
  BY <1>0, FS_AddElement, FS_CardinalityType DEF LruInv, ListInv
<1>5. grown.tail \in all /\ \A j \in all : last'[grown.tail] <= last'[j]
  BY <1>3 DEF Linked, Oldest
<1>6. /\ value' = [value EXCEPT ![k] = v]
      /\ exp' = [exp EXCEPT ![k] = IF Ttl > 0 THEN now + Ttl ELSE 0]
      /\ UNCHANGED <<now, answer>>
  BY DEF SetAbsent, Stamp
<1>7. Abstract!Use(k) BY <1>1 DEF Abstract!Use
<1>8. Abstract!Cap = Cap BY DEF Cap, Abstract!Cap
<1>9. all \subseteq Keys /\ last' \in [Keys -> Nat]
  BY <1>1 DEF LruInv, TypeOK
<1> HIDE DEF all, grown
<1>10. CASE Cardinality(all) > Cap
  <2>1. list' = removeNode(grown, grown.tail) /\ items' = all \ {grown.tail}
    <3>1. grown.tail # Nil BY <1>5, <1>9, LruAssumption
    <3> QED BY <1>10, <3>1 DEF SetAbsent, all, grown
  <2>2. list' \in List /\ Linked(list', items', last')
    BY <1>3, <1>5, <1>9, <2>1, RemoveLinked
  <2>3. IsFiniteSet(items') /\ Cardinality(items') <= Cap
    <3>1. IsFiniteSet(all \ {grown.tail}) /\ Cardinality(all \ {grown.tail}) = Cardinality(all) - 1
      BY <1>4, <1>5, FS_RemoveElement
    <3> QED BY <1>4, <2>1, <3>1
  <2>4. ~(Cardinality(all) <= Cap) BY <1>4, <1>10, CapPositive
  <2>5. Abstract!Set(k, v)
    BY <1>0, <1>5, <1>6, <1>7, <1>8, <2>1, <2>4, SameCardinality DEF Abstract!Set, all
  <2> QED BY <1>2, <2>1, <2>2, <2>3, <2>5 DEF ListInv
<1>11. CASE ~(Cardinality(all) > Cap)
  <2>1. list' = grown /\ items' = all BY <1>11 DEF SetAbsent, all, grown
  <2>2. Cardinality(all) <= Cap BY <1>4, <1>11, CapPositive
  <2>3. Abstract!Set(k, v)
    BY <1>0, <1>6, <1>7, <1>8, <2>1, <2>2, SameCardinality DEF Abstract!Set, all
  <2> QED BY <1>2, <1>3, <1>4, <2>1, <2>2, <2>3 DEF ListInv
<1> QED BY <1>10, <1>11

(* Every step keeps the invariant and is a step, or a stutter, of Recency. *)
LEMMA StepKeeps ==
  ASSUME LruInv, [Next]_vars
  PROVE  LruInv' /\ [Abstract!Next]_(Abstract!vars)
<1> USE DEF LruInv
<1>1. CASE UNCHANGED vars
  BY <1>1 DEF vars, Abstract!vars, TypeOK, ListInv, Linked, Newest, Oldest, Before, After, List
<1>2. CASE Tick
  BY <1>2 DEF Tick, Abstract!Next, Abstract!Tick, TypeOK, ListInv, Linked, Newest, Oldest,
              Before, After
<1>3. ASSUME NEW k \in Keys, Get(k) \/ Del(k) \/ \E v \in Values : Set(k, v)
      PROVE  LruInv' /\ [Abstract!Next]_(Abstract!vars)
  <2>1. CASE GetAbsent(k)
    <3>1. Abstract!Misses(k)
      BY <2>1 DEF GetAbsent, Abstract!Misses, Abstract!Miss, Miss
    <3>2. LruInv'
      BY <2>1 DEF GetAbsent, TypeOK, ListInv, Linked, Newest, Oldest, Before, After
    <3> QED BY <3>1, <3>2 DEF Abstract!Next
  <2>2. CASE GetExpired(k)
    <3>1. Abstract!Misses(k)
      BY <2>2 DEF GetExpired, Expired, Abstract!Expired, Abstract!Misses, Abstract!Miss, Miss
    <3>2. ListInv' /\ list' \in List BY <2>2, DropKeeps DEF GetExpired
    <3>3. TypeOK' BY <2>2, <3>2 DEF GetExpired, TypeOK
    <3> QED BY <3>1, <3>2, <3>3 DEF Abstract!Next
  <2>3. CASE GetHit(k)
    <3>1. Abstract!Hits(k)
      BY <2>3 DEF GetHit, Expired, Use, Hit, Abstract!Expired, Abstract!Hits, Abstract!Use, Abstract!Hit
    <3>2. ListInv' /\ list' \in List BY <2>3, UseKeeps DEF GetHit
    <3>3. TypeOK' BY <2>3, <3>2 DEF GetHit, Use, TypeOK
    <3> QED BY <3>1, <3>2, <3>3 DEF Abstract!Next
  <2>4. ASSUME NEW v \in Values, SetPresent(k, v)
        PROVE  LruInv' /\ [Abstract!Next]_(Abstract!vars)
    <3>1. ListInv' /\ list' \in List BY <2>4, UseKeeps DEF SetPresent
    <3>2. TypeOK' BY <2>4, <3>1, LruAssumption DEF SetPresent, Stamp, Use, TypeOK
    <3>3. items \cup {k} = items BY <2>4 DEF SetPresent
    <3>4. Cardinality(items \cup {k}) <= Abstract!Cap
      BY <3>3 DEF ListInv, Cap, Abstract!Cap
    <3>5. Abstract!Set(k, v)
      BY <2>4, <3>3, <3>4, SameCardinality DEF SetPresent, Stamp, Use, TypeOK, Abstract!Set, Abstract!Use
    <3> QED BY <3>1, <3>2, <3>5 DEF Abstract!Next
  <2>5. ASSUME NEW v \in Values, SetAbsent(k, v)
        PROVE  LruInv' /\ [Abstract!Next]_(Abstract!vars)
    <3>1. ListInv' /\ list' \in List /\ Abstract!Set(k, v) BY <2>5, SetAbsentKeeps
    <3>2. items' \subseteq Keys BY <2>5 DEF SetAbsent, TypeOK
    <3>3. TypeOK' BY <2>5, <3>1, <3>2, LruAssumption DEF SetAbsent, Stamp, Use, TypeOK
    <3> QED BY <3>1, <3>3 DEF Abstract!Next
  <2>6. CASE Del(k)
    <3>1. Abstract!Del(k) BY <2>6 DEF Del, Abstract!Del
    <3>2. ListInv' /\ list' \in List BY <2>6, DropKeeps DEF Del
    <3>3. TypeOK' BY <2>6, <3>2 DEF Del, TypeOK
    <3> QED BY <3>1, <3>2, <3>3 DEF Abstract!Next
  <2> QED BY <1>3, <2>1, <2>2, <2>3, <2>4, <2>5, <2>6 DEF Get, Set
<1> QED BY <1>1, <1>2, <1>3 DEF Next

(* The list and the map hold the same nodes, in the order of use, and at   *)
(* most Cap of them, whatever the calls.                                   *)
THEOREM ListsAgree == Spec => []LruInv
<1>1. LruInv /\ [Next]_vars => LruInv' BY StepKeeps
<1> QED BY InitKeeps, <1>1, PTL DEF Spec

(* The LRU is a map that forgets what was used the longest ago.            *)
THEOREM IsRecency == Spec => ImplementsRecency
<1>1. Init => Abstract!Init
  <2> SUFFICES ASSUME Init PROVE Abstract!Init OBVIOUS
  <2>1. value \in [Keys -> Values] BY LruAssumption DEF Init
  <2> QED BY <2>1 DEF Init, Abstract!Init, Miss, Abstract!Miss
<1>2. LruInv /\ [Next]_vars => [Abstract!Next]_(Abstract!vars) BY StepKeeps
<1> QED BY ListsAgree, <1>1, <1>2, PTL DEF Spec, ImplementsRecency, Abstract!Spec
==============================================================================
