------------------------------- MODULE Recency -------------------------------
(***************************************************************************)
(* What cache.LRU promises, without nodes and pointers: a map of at most   *)
(* Cap keys whose entries last Ttl seconds, and which makes room by        *)
(* forgetting the key whose last use is the longest ago.                   *)
(***************************************************************************)
EXTENDS Naturals, FiniteSets

CONSTANTS Keys, Values, Size, Ttl
VARIABLES
  now,     \* the clock, in seconds
  items,   \* the keys the map holds
  value,   \* what was last set for a key
  exp,     \* its expiry, 0 for none
  last,    \* when a key was last used, as the number of that use
  uses,    \* how many uses there have been
  answer   \* what the last call returned
vars == <<now, items, value, exp, last, uses, answer>>

Miss == [hit |-> FALSE]
Hit(v) == [hit |-> TRUE, value |-> v]
Cap == IF Size <= 0 THEN 1 ELSE Size
Expired(k) == exp[k] > 0 /\ now > exp[k]

Init ==
  /\ now = 0 /\ items = {} /\ last = [k \in Keys |-> 0] /\ uses = 0 /\ answer = Miss
  /\ value \in [Keys -> Values] /\ exp = [k \in Keys |-> 0]

Use(k) == uses' = uses + 1 /\ last' = [last EXCEPT ![k] = uses']

Hits(k) ==
  /\ k \in items /\ ~Expired(k)
  /\ answer' = Hit(value[k]) /\ Use(k)
  /\ UNCHANGED <<now, items, value, exp>>

(* What has expired is dropped by the call that finds it.                  *)
Misses(k) ==
  /\ k \notin items \/ Expired(k)
  /\ answer' = Miss /\ items' = items \ {k}
  /\ UNCHANGED <<now, value, exp, last, uses>>

Set(k, v) ==
  /\ value' = [value EXCEPT ![k] = v]
  /\ exp' = [exp EXCEPT ![k] = IF Ttl > 0 THEN now + Ttl ELSE IF k \in items THEN @ ELSE 0]
  /\ Use(k)
  /\ LET all == items \cup {k}
     IN  IF Cardinality(all) <= Cap THEN items' = all
         ELSE \E old \in all : /\ \A j \in all : last'[old] <= last'[j]
                               /\ items' = all \ {old}
  /\ UNCHANGED <<now, answer>>

Del(k) == items' = items \ {k} /\ UNCHANGED <<now, value, exp, last, uses, answer>>

Tick == now' = now + 1 /\ UNCHANGED <<items, value, exp, last, uses, answer>>

Next ==
  \/ \E k \in Keys : Hits(k) \/ Misses(k) \/ Del(k) \/ \E v \in Values : Set(k, v)
  \/ Tick

Spec == Init /\ [][Next]_vars
==============================================================================
