----------------------------- MODULE RateLimit -----------------------------
(***************************************************************************)
(* RateLimitMiddleware: a token bucket for all requests, and one for each  *)
(* client address in a map from which an address that has been idle for    *)
(* longer than ttl is dropped.  A bucket is filled when it is used.        *)
(*                                                                         *)
(* Time is counted in ticks of 1/Unit seconds and tokens in fractions of   *)
(* 1/Unit, so that one tick adds exactly rate = qps fractions.             *)
(***************************************************************************)
EXTENDS Integers

CONSTANTS
  Requests,   \* goroutines that serve requests
  IPs,        \* client addresses
  Unit,       \* ticks in a second
  GlobalQPS,  \* cfg.RLGlobalQPS, 0 for no limit
  PerIPQPS,   \* cfg.RLPerIPQPS, 0 for no limit
  Ttl,        \* ttl, in ticks
  MaxStall,   \* ticks that may pass between the lookup of a bucket and its use
  MaxTime     \* bound: ticks of the clock

(* A bucket is full after a second.  2 * time.Minute leaves 119 s for a    *)
(* goroutine to be held up between two adjacent statements.                *)
ASSUME RateLimitAssumption ==
  /\ Unit \in Nat \ {0} /\ GlobalQPS \in Nat /\ PerIPQPS \in Nat
  /\ Ttl \in Nat /\ MaxStall \in Nat /\ MaxTime \in Nat
  /\ Ttl >= Unit + MaxStall

VARIABLES
  now,       \* time.Now()
  global,    \* the bucket of all requests
  perIP,     \* the bucket of each address, NoBucket if it is not in the map
  lastSeen,  \* when each address was looked up last
  pc,        \* where each request is
  ip,        \* clientIP(c)
  since,     \* (observer) when each request looked up its bucket
  mark,      \* (observer) start of a window of time
  admitted   \* (observer) requests of each address that passed in the window
vars == <<now, global, perIP, lastSeen, pc, ip, since, mark, admitted>>

Done == {"idle", "served", "refused"}
Pcs == Done \cup {"global", "lookup", "allow"}
Bucket == [tokens : Nat, last : Nat]
NoBucket == [tokens |-> 0, last |-> -1]

-----------------------------------------------------------------------------
newBucket(qps) == [tokens |-> qps * Unit, last |-> now]

Refilled(b, qps) ==
  LET tokens == b.tokens + (now - b.last) * qps
  IN  IF tokens > qps * Unit THEN qps * Unit ELSE tokens

admits(b, qps) == Refilled(b, qps) >= Unit

(* MUTANT of allow: a request that is refused does not set last, but keeps *)
(* the tokens that it has filled in.                                       *)
allowKeepsLast(b, qps) ==
  IF admits(b, qps) THEN [tokens |-> Refilled(b, qps) - Unit, last |-> now]
                    ELSE [tokens |-> Refilled(b, qps), last |-> b.last]

(* The bucket after a request.                                             *)
allow(b, qps) ==
  [tokens |-> Refilled(b, qps) - (IF admits(b, qps) THEN Unit ELSE 0), last |-> now]

Init ==
  /\ now = 0
  /\ global = newBucket(GlobalQPS)
  /\ perIP = [i \in IPs |-> NoBucket] /\ lastSeen = [i \in IPs |-> 0]
  /\ pc = [r \in Requests |-> "idle"] /\ ip \in [Requests -> IPs]
  /\ since = [r \in Requests |-> 0]
  /\ mark = 0 /\ admitted = [i \in IPs |-> 0]

Goto(r, at) == pc' = [pc EXCEPT ![r] = at]

Arrive(r) ==
  /\ pc[r] \in Done
  /\ Goto(r, "global")
  /\ \E i \in IPs : ip' = [ip EXCEPT ![r] = i]
  /\ UNCHANGED <<now, global, perIP, lastSeen, since, mark, admitted>>

(* A token that is taken here is gone even if the address is refused.      *)
Global(r) ==
  /\ pc[r] = "global"
  /\ \/ /\ GlobalQPS > 0 /\ global' = allow(global, GlobalQPS)
        /\ ~admits(global, GlobalQPS) /\ Goto(r, "refused")
     \/ /\ IF GlobalQPS > 0 THEN admits(global, GlobalQPS) /\ global' = allow(global, GlobalQPS)
                            ELSE UNCHANGED global
        /\ Goto(r, IF PerIPQPS > 0 THEN "lookup" ELSE "served")
  /\ UNCHANGED <<now, perIP, lastSeen, ip, since, mark, admitted>>

(* MUTANT of Idle: the time-out is forgotten.                              *)
IdleSoon(i) == perIP[i] # NoBucket /\ now - lastSeen[i] > 0

(* Addresses that the loop over lastSeen drops.                            *)
Idle(i) == perIP[i] # NoBucket /\ now - lastSeen[i] > Ttl

(* Under mu: the bucket of the address, made if there is none, and then    *)
(* the buckets of the other addresses that have been idle.                 *)
Lookup(r) ==
  /\ pc[r] = "lookup"
  /\ lastSeen' = [lastSeen EXCEPT ![ip[r]] = now]
  /\ perIP' = [i \in IPs |->
       IF i # ip[r] THEN IF Idle(i) THEN NoBucket ELSE perIP[i]
       ELSE IF perIP[i] = NoBucket THEN newBucket(PerIPQPS) ELSE perIP[i]]
  /\ since' = [since EXCEPT ![r] = now]
  /\ Goto(r, "allow")
  /\ UNCHANGED <<now, global, ip, mark, admitted>>

(* Outside mu: the bucket is used through the pointer.                     *)
Allow(r) ==
  /\ pc[r] = "allow"
  /\ perIP' = [perIP EXCEPT ![ip[r]] = allow(@, PerIPQPS)]
  /\ IF admits(perIP[ip[r]], PerIPQPS)
     THEN Goto(r, "served") /\ admitted' = [admitted EXCEPT ![ip[r]] = @ + 1]
     ELSE Goto(r, "refused") /\ UNCHANGED admitted
  /\ since' = [since EXCEPT ![r] = 0]
  /\ UNCHANGED <<now, global, lastSeen, ip, mark>>

Tick ==
  /\ now < MaxTime /\ now' = now + 1
  /\ \A r \in Requests : pc[r] = "allow" => now' - since[r] <= MaxStall
  /\ UNCHANGED <<global, perIP, lastSeen, pc, ip, since, mark, admitted>>

(* The observer opens a new window.                                        *)
Mark ==
  /\ mark' = now /\ admitted' = [i \in IPs |-> 0]
  /\ UNCHANGED <<now, global, perIP, lastSeen, pc, ip, since>>

Next ==
  \/ \E r \in Requests : Arrive(r) \/ Global(r) \/ Lookup(r) \/ Allow(r)
  \/ Tick \/ Mark

Spec == Init /\ [][Next]_vars

-----------------------------------------------------------------------------
Full == PerIPQPS * Unit

(* The tokens of an address; one that is not in the map has them all.      *)
Level(i) == IF perIP[i] = NoBucket THEN Full ELSE Refilled(perIP[i], PerIPQPS)

TypeOK ==
  /\ now \in Nat /\ mark \in 0..now
  /\ global \in Bucket /\ global.last <= now /\ global.tokens <= GlobalQPS * Unit
  /\ perIP \in [IPs -> Bucket \cup {NoBucket}]
  /\ \A i \in IPs : perIP[i].last <= now /\ perIP[i].tokens <= Full
  /\ lastSeen \in [IPs -> 0..now]
  /\ pc \in [Requests -> Pcs] /\ ip \in [Requests -> IPs]
  /\ since \in [Requests -> 0..now]
  /\ admitted \in [IPs -> Nat]

(* ratelimit.go:70: the loop never drops a bucket that a request holds: a  *)
(* request that looked its bucket up uses the one in the map.              *)
HeldIsKept == \A r \in Requests : pc[r] = "allow" => perIP[ip[r]] # NoBucket

(* ratelimit.go:37: in no window of time does an address get more than one *)
(* burst and what flows in meanwhile, though the map forgets its bucket.   *)
BurstBounded ==
  \A i \in IPs : admitted[i] * Unit <= Full + PerIPQPS * (now - mark)

(* Both, with what they rest on.                                           *)
LimitInv ==
  /\ TypeOK /\ HeldIsKept /\ BurstBounded
  /\ \A r \in Requests : pc[r] = "allow" => /\ now - since[r] <= MaxStall
                                            /\ since[r] <= lastSeen[ip[r]]
  /\ \A i \in IPs :
       /\ perIP[i] # NoBucket => perIP[i].last - lastSeen[i] <= MaxStall
       /\ admitted[i] * Unit + Level(i) <= Full + PerIPQPS * (now - mark)

(* Filling a bucket when it is used and dropping it when it is idle cannot *)
(* be told from keeping every bucket for ever.                             *)
Ideal == INSTANCE Limiter WITH
  global <- Refilled(global, GlobalQPS),
  level  <- [i \in IPs |-> Level(i)],
  stage  <- [r \in Requests |-> IF pc[r] \in {"lookup", "allow"} THEN "ip" ELSE pc[r]]
ImplementsLimiter == Ideal!Spec
=============================================================================
