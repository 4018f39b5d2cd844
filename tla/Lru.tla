--------------------------------- MODULE Lru ---------------------------------
(***************************************************************************)
(* cache.LRU: a map from keys to the nodes of a doubly linked list.  One   *)
(* mutex guards both, so that a call is one step.  A key has at most one   *)
(* node, so that a node is named by its key and Nil is the nil pointer.    *)
(***************************************************************************)
EXTENDS Integers, FiniteSets

CONSTANTS
  Keys, Values, Nil,
  Size,     \* the size asked for (CACHE_LRU_SIZE)
  Ttl,      \* CACHE_TTL, in seconds
  MaxNow,   \* bound: the clock
  MaxUses   \* bound: uses of an entry

ASSUME LruAssumption ==
  /\ Nil \notin Keys /\ Values # {} /\ Size \in Int
  /\ {Ttl, MaxNow, MaxUses} \subseteq Nat

VARIABLES
  now,          \* time.Now().Unix(), counted from the start
  list,         \* head and tail; prev and next of each node
  items,        \* the keys of the map
  value, exp,   \* fields of the nodes
  last, uses,   \* (observers) when a key was last used, the number of uses
  answer        \* what the last call of Get returned
vars == <<now, list, items, value, exp, last, uses, answer>>

Miss == [hit |-> FALSE]
Hit(v) == [hit |-> TRUE, value |-> v]
Pointers == Keys \cup {Nil}

(* NewLRU.                                                                 *)
Cap == IF Size <= 0 THEN 1 ELSE Size

Init ==
  /\ now = 0 /\ items = {} /\ last = [k \in Keys |-> 0] /\ uses = 0 /\ answer = Miss
  /\ list = [head |-> Nil, tail |-> Nil,
             prev |-> [k \in Keys |-> Nil], next |-> [k \in Keys |-> Nil]]
  /\ value = [k \in Keys |-> CHOOSE v \in Values : TRUE] /\ exp = [k \in Keys |-> 0]

-----------------------------------------------------------------------------
addToFront(l, n) ==
  [head |-> n,
   tail |-> IF l.tail = Nil THEN n ELSE l.tail,
   prev |-> [k \in Keys |-> IF k = l.head THEN n ELSE IF k = n THEN Nil ELSE l.prev[k]],
   next |-> [l.next EXCEPT ![n] = l.head]]

(* MUTANT of removeNode: the tail is not moved.                            *)
removeNodeKeepsTail(l, n) ==
  [head |-> IF l.prev[n] # Nil THEN l.head ELSE l.next[n],
   tail |-> IF l.head = n /\ l.next[n] = Nil THEN Nil ELSE l.tail,
   prev |-> [k \in Keys |-> IF k = n THEN Nil ELSE IF k = l.next[n] THEN l.prev[n] ELSE l.prev[k]],
   next |-> [k \in Keys |-> IF k = n THEN Nil ELSE IF k = l.prev[n] THEN l.next[n] ELSE l.next[k]]]

removeNode(l, n) ==
  [head |-> IF l.prev[n] # Nil THEN l.head ELSE l.next[n],
   tail |-> IF l.next[n] # Nil THEN l.tail ELSE l.prev[n],
   prev |-> [k \in Keys |-> IF k = n THEN Nil ELSE IF k = l.next[n] THEN l.prev[n] ELSE l.prev[k]],
   next |-> [k \in Keys |-> IF k = n THEN Nil ELSE IF k = l.prev[n] THEN l.next[n] ELSE l.next[k]]]

(* MUTANT of moveToFront: an entry keeps its place.                        *)
staysInPlace(l, n) == IF l.head = n THEN l ELSE l

moveToFront(l, n) == IF l.head = n THEN l ELSE addToFront(removeNode(l, n), n)

(* Use number uses' is of k.                                               *)
Use(k) ==
  /\ uses < MaxUses /\ uses' = uses + 1
  /\ last' = [last EXCEPT ![k] = uses']

GetAbsent(k) ==
  /\ k \notin items
  /\ answer' = Miss
  /\ UNCHANGED <<now, list, items, value, exp, last, uses>>

Expired(k) == exp[k] > 0 /\ now > exp[k]

GetExpired(k) ==
  /\ k \in items /\ Expired(k)
  /\ list' = removeNode(list, k) /\ items' = items \ {k}
  /\ answer' = Miss
  /\ UNCHANGED <<now, value, exp, last, uses>>

GetHit(k) ==
  /\ k \in items /\ ~Expired(k)
  /\ list' = moveToFront(list, k) /\ Use(k)
  /\ answer' = Hit(value[k])
  /\ UNCHANGED <<now, items, value, exp>>

Stamp(k, otherwise) == exp' = [exp EXCEPT ![k] = IF Ttl > 0 THEN now + Ttl ELSE otherwise]

SetPresent(k, v) ==
  /\ k \in items
  /\ value' = [value EXCEPT ![k] = v] /\ Stamp(k, exp[k])
  /\ list' = moveToFront(list, k) /\ Use(k)
  /\ UNCHANGED <<now, items, answer>>

(* SetAbsent ends with evictTail if the map has grown beyond its capacity. *)
SetAbsent(k, v) ==
  /\ k \notin items
  /\ value' = [value EXCEPT ![k] = v] /\ Stamp(k, 0) /\ Use(k)
  /\ LET grown == addToFront(list, k)
         all == items \cup {k}
     IN  IF Cardinality(all) > Cap /\ grown.tail # Nil
         THEN list' = removeNode(grown, grown.tail) /\ items' = all \ {grown.tail}
         ELSE list' = grown /\ items' = all
  /\ UNCHANGED <<now, answer>>

Del(k) ==
  /\ k \in items
  /\ list' = removeNode(list, k) /\ items' = items \ {k}
  /\ UNCHANGED <<now, value, exp, last, uses, answer>>

Tick == now < MaxNow /\ now' = now + 1 /\ UNCHANGED <<list, items, value, exp, last, uses, answer>>

Get(k) == GetAbsent(k) \/ GetExpired(k) \/ GetHit(k)
Set(k, v) == SetPresent(k, v) \/ SetAbsent(k, v)

Next ==
  \/ \E k \in Keys : Get(k) \/ Del(k) \/ \E v \in Values : Set(k, v)
  \/ Tick

Spec == Init /\ [][Next]_vars

-----------------------------------------------------------------------------
List == [head : Pointers, tail : Pointers, prev : [Keys -> Pointers], next : [Keys -> Pointers]]

TypeOK ==
  /\ now \in Nat /\ uses \in Nat /\ items \subseteq Keys /\ list \in List
  /\ value \in [Keys -> Values] /\ exp \in [Keys -> Nat] /\ last \in [Keys -> Nat]
  /\ answer \in {Miss} \cup {Hit(v) : v \in Values}

(* n is the node of S that was used last, or first; Nil if S is empty.     *)
Newest(n, S, u) == IF S = {} THEN n = Nil ELSE n \in S /\ \A k \in S : u[k] <= u[n]
Oldest(n, S, u) == IF S = {} THEN n = Nil ELSE n \in S /\ \A k \in S : u[n] <= u[k]

Before(k, S, u) == {j \in S : u[j] < u[k]}
After(k, S, u) == {j \in S : u[k] < u[j]}

(* The list l has the nodes S, ordered by when they were used.             *)
Linked(l, S, u) ==
  /\ \A j, k \in S : u[j] = u[k] => j = k
  /\ Newest(l.head, S, u) /\ Oldest(l.tail, S, u)
  /\ \A k \in S : /\ Newest(l.next[k], Before(k, S, u), u)
                  /\ Oldest(l.prev[k], After(k, S, u), u)

(* lru.go:16: the map and the list hold the same nodes, and the list is    *)
(* ordered by last use: head and tail are the newest and the oldest node,  *)
(* next and prev the neighbours.  Every operation moves up to six pointers,*)
(* and an error shows only several calls later.  There are at most Cap.    *)
ListInv ==
  /\ Linked(list, items, last) /\ \A k \in items : last[k] <= uses
  /\ IsFiniteSet(items) /\ Cardinality(items) <= Cap

(* Seen from outside, the pointers are a map of at most Cap keys that      *)
(* forgets the key whose last use is the longest ago.                      *)
Abstract == INSTANCE Recency
ImplementsRecency == Abstract!Spec

LruInv == TypeOK /\ ListInv
==============================================================================
