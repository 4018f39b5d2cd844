-------------------------- MODULE DataSourceProofs --------------------------
(***************************************************************************)
(* No call of Source.Get returns an index older than the one that the last *)
(* clear before it left room for: for every number of goroutines, of       *)
(* retries and of revisions.                                               *)
(***************************************************************************)
EXTENDS DataSource, TLAPS

(* A clear lowers no promise: all that may still be written is at least as *)
(* new as the old floor, and the new floor is one of these.                *)
LEMMA ClearKeepsFresh ==
  ASSUME FreshInv, NEW c \in Callers, ClearCache(c)
  PROVE  FreshInv'
<1> USE DEF FreshInv, TypeOK, Revisions
<1>1. CASE UNCHANGED <<cache, floor>>
  BY <1>1 DEF ClearCache, IndexIsFresh
<1>2. CASE cache' = 0 /\ \E r \in {revision} \cup {ds[d] : d \in {e \in Callers : pc[e] = "set"}} :
             /\ \A q \in {revision} \cup {ds[d] : d \in {e \in Callers : pc[e] = "set"}} : r <= q
             /\ floor' = r
  <2> DEFINE coming == {revision} \cup {ds[d] : d \in {e \in Callers : pc[e] = "set"}}
  <2>1. PICK r \in coming : (\A q \in coming : r <= q) /\ floor' = r
    BY <1>2
  <2>2. UNCHANGED <<revision, pc, tries, ds, failed, promised>>
    BY DEF ClearCache
  <2>3. \A q \in coming : q \in Revisions /\ floor <= q
    BY DataSourceAssumption DEF DataSourceAssumption
  <2>4. r \in Revisions /\ floor <= r
    BY <2>1, <2>3
  <2>5. r <= revision
    BY <2>1
  <2>6. \A d \in Callers : pc[d] = "set" => r <= ds[d]
    BY <2>1
  <2>7. \A d \in Callers : promised[d] <= floor'
    BY <2>1, <2>4
  <2> HIDE DEF coming
  <2> QED
    BY <1>2, <2>1, <2>2, <2>4, <2>5, <2>6, <2>7 DEF IndexIsFresh
<1> QED
  BY <1>1, <1>2 DEF ClearCache

(* One case per action.                                                    *)
LEMMA StepKeepsFresh ==
  ASSUME FreshInv, [Next]_vars
  PROVE  FreshInv'
<1> USE DataSourceAssumption DEF DataSourceAssumption, FreshInv, TypeOK, IndexIsFresh, Revisions, Pcs
<1>1. CASE UNCHANGED vars
  BY <1>1 DEF vars
<1>2. ASSUME NEW c \in Callers, ClearCache(c) PROVE FreshInv'
  BY <1>2, ClearKeepsFresh
<1>3. ASSUME NEW c \in Callers, GetBegins(c) PROVE FreshInv'
  BY <1>3 DEF GetBegins, Goto
<1>4. ASSUME NEW c \in Callers, TryCache(c) PROVE FreshInv'
  BY <1>4 DEF TryCache, Goto, Loop
<1>5. ASSUME NEW c \in Callers, FetchIndex(c) PROVE FreshInv'
  BY <1>5 DEF FetchIndex, Goto
<1>6. ASSUME NEW c \in Callers, FetchFails(c) PROVE FreshInv'
  BY <1>6 DEF FetchFails, Goto, Loop
<1>7. ASSUME NEW c \in Callers, CacheIndex(c) PROVE FreshInv'
  BY <1>7 DEF CacheIndex, Goto
<1>8. ASSUME NEW c \in Callers, LastTry(c) PROVE FreshInv'
  <2>1. CASE UNCHANGED <<ds, failed>>
    BY <1>8, <2>1 DEF LastTry, Goto
  <2>2. CASE /\ cache # 0
             /\ ds' = [ds EXCEPT ![c] = cache]
             /\ failed' = [failed EXCEPT ![c] = FALSE]
    <3>1. cache >= floor /\ promised[c] <= floor
      BY <2>2
    <3>2. TypeOK'
      BY <1>8, <2>2 DEF LastTry, Goto
    <3>3. IndexIsFresh'
      BY <1>8, <2>2, <3>1 DEF LastTry, Goto
    <3> QED
      BY <1>8, <2>2, <3>2, <3>3 DEF LastTry, Goto
  <2> QED
    BY <1>8, <2>1, <2>2 DEF LastTry
<1>9. CASE Expire
  BY <1>9 DEF Expire
<1>10. CASE Publish
  BY <1>10 DEF Publish
<1> QED
  BY <1>1, <1>2, <1>3, <1>4, <1>5, <1>6, <1>7, <1>8, <1>9, <1>10 DEF Next, Get

(* cache.go:10: what cleanCaches promises holds of every interleaving of   *)
(* clears, reads, writes and expiries of the shared key.                   *)
THEOREM IndexStaysFresh == Spec => []FreshInv
<1>1. Init => FreshInv
  BY DataSourceAssumption
  DEF DataSourceAssumption, Init, FreshInv, TypeOK, IndexIsFresh, Revisions, Pcs
<1>2. FreshInv /\ [Next]_vars => FreshInv'
  BY StepKeepsFresh
<1> QED
  BY <1>1, <1>2, PTL DEF Spec
=============================================================================
