-------------------------- MODULE RateLimitProofs --------------------------
(***************************************************************************)
(* RateLimitMiddleware bounds what an address gets in every window of time *)
(* and is indistinguishable from the Limiter that forgets no address.      *)
(***************************************************************************)
EXTENDS RateLimit, TLAPS

(* Nonlinear facts that the provers need to be told.                       *)
LEMMA Product == ASSUME NEW a \in Nat, NEW b \in Nat PROVE a * b \in Nat
OBVIOUS

LEMMA Distribute ==
  ASSUME NEW a \in Int, NEW b \in Int, NEW q \in Int
  PROVE  (a + b) * q = a * q + b * q /\ q * (a + b) = q * a + q * b
OBVIOUS

LEMMA Monotone ==
  ASSUME NEW a \in Nat, NEW b \in Int, a <= b, NEW q \in Nat
  PROVE  q * a <= b * q
OBVIOUS

-----------------------------------------------------------------------------
(* Refilled at a time of which the lemmas may speak.                       *)
At(b, q, t) ==
  LET tokens == b.tokens + (t - b.last) * q
  IN  IF tokens > q * Unit THEN q * Unit ELSE tokens

LEMMA RefilledNow == \A b, q : Refilled(b, q) = At(b, q, now)
BY DEF Refilled, At

LEMMA RefilledThen == ASSUME NEW b, NEW q PROVE At(b, q, now)' = At(b, q, now')
BY DEF At

(* The buckets that occur.                                                 *)
Sound(b, q, t) == b \in Bucket /\ b.last <= t /\ b.tokens <= q * Unit

LEMMA AtRange ==
  ASSUME NEW q \in Nat, NEW t \in Nat, NEW b, Sound(b, q, t)
  PROVE  At(b, q, t) \in Nat /\ At(b, q, t) <= q * Unit
<1>1. b.tokens \in Nat /\ b.last \in Nat /\ t - b.last \in Nat
  BY DEF Sound, Bucket
<1>2. (t - b.last) * q \in Nat /\ q * Unit \in Nat
  BY <1>1, Product, RateLimitAssumption DEF RateLimitAssumption
<1> QED
  BY <1>1, <1>2 DEF At

(* A tick fills in q fractions, up to the capacity.                        *)
LEMMA AtNext ==
  ASSUME NEW q \in Nat, NEW t \in Nat, NEW b, Sound(b, q, t)
  PROVE  At(b, q, t + 1) = IF At(b, q, t) + q > q * Unit THEN q * Unit ELSE At(b, q, t) + q
<1>1. b.tokens \in Nat /\ b.last \in Nat /\ t - b.last \in Nat
  BY DEF Sound, Bucket
<1>2. (t - b.last) * q \in Nat /\ q * Unit \in Nat
  BY <1>1, Product, RateLimitAssumption DEF RateLimitAssumption
<1>3. ((t + 1) - b.last) * q = (t - b.last) * q + q
  <2>1. (t + 1) - b.last = (t - b.last) + 1
    BY <1>1
  <2>2. \A d \in Nat : (d + 1) * q = d * q + q
    BY Distribute
  <2> QED
    BY <1>1, <2>1, <2>2
<1> QED
  BY <1>1, <1>2, <1>3 DEF At

(* A bucket that has not been used for a second is full.                   *)
LEMMA AtFull ==
  ASSUME NEW q \in Nat, NEW t \in Nat, NEW b, Sound(b, q, t), t - b.last >= Unit
  PROVE  At(b, q, t) = q * Unit
<1>1. b.tokens \in Nat /\ b.last \in Nat /\ t - b.last \in Nat /\ Unit \in Nat
  BY RateLimitAssumption DEF Sound, Bucket, RateLimitAssumption
<1>2. (t - b.last) * q \in Nat /\ q * Unit \in Nat
  BY <1>1, Product
<1>3. q * Unit <= (t - b.last) * q
  BY <1>1, Monotone
<1> QED
  BY <1>1, <1>2, <1>3 DEF At

(* A bucket that was just set has the tokens that were put in.             *)
LEMMA AtOnce ==
  ASSUME NEW q \in Nat, NEW t \in Nat, NEW b, Sound(b, q, t), b.last = t
  PROVE  At(b, q, t) = b.tokens
<1>1. b.tokens \in Nat /\ (t - b.last) * q = 0
  BY DEF Sound, Bucket
<1>2. q * Unit \in Nat
  BY Product, RateLimitAssumption DEF RateLimitAssumption
<1> QED
  BY <1>1, <1>2 DEF At, Sound

(* A request leaves a bucket in order and takes a token or none.           *)
LEMMA Used ==
  ASSUME NEW q \in Nat, now \in Nat, NEW b, Sound(b, q, now)
  PROVE  /\ Sound(allow(b, q), q, now)
         /\ allow(b, q).last = now
         /\ At(allow(b, q), q, now) =
              IF admits(b, q) THEN Refilled(b, q) - Unit ELSE Refilled(b, q)
<1>1. Refilled(b, q) \in Nat /\ Refilled(b, q) <= q * Unit
  BY AtRange, RefilledNow
<1>2. Unit \in Nat /\ q * Unit \in Nat
  BY Product, RateLimitAssumption DEF RateLimitAssumption
<1>3. allow(b, q).last = now /\ allow(b, q).tokens =
        IF admits(b, q) THEN Refilled(b, q) - Unit ELSE Refilled(b, q)
  BY <1>1, <1>2 DEF allow
<1>4. allow(b, q).tokens \in Nat /\ allow(b, q).tokens <= q * Unit
  BY <1>1, <1>2, <1>3 DEF admits
<1>5. allow(b, q) \in Bucket
  BY <1>3, <1>4 DEF allow, Bucket
<1>6. Sound(allow(b, q), q, now)
  BY <1>3, <1>4, <1>5 DEF Sound
<1> QED
  BY <1>3, <1>6, AtOnce

-----------------------------------------------------------------------------
(* What LimitInv says of one address, and of one request.                  *)
AddressInv(i) ==
  /\ perIP[i] # NoBucket => Sound(perIP[i], PerIPQPS, now) /\ perIP[i].last - lastSeen[i] <= MaxStall
  /\ admitted[i] * Unit + Level(i) <= Full + PerIPQPS * (now - mark)

LEMMA Constants ==
  /\ Unit \in Nat /\ Unit > 0 /\ GlobalQPS \in Nat /\ PerIPQPS \in Nat
  /\ Ttl \in Nat /\ MaxStall \in Nat /\ MaxTime \in Nat
  /\ Ttl >= Unit + MaxStall /\ Full \in Nat /\ GlobalQPS * Unit \in Nat
BY Product, RateLimitAssumption DEF RateLimitAssumption, Full

LEMMA NoBucketIsNone == NoBucket \notin Bucket /\ NoBucket.last = -1 /\ NoBucket.tokens = 0
BY DEF NoBucket, Bucket

LEMMA LevelRange ==
  ASSUME TypeOK, NEW i \in IPs
  PROVE  Level(i) \in Nat /\ Level(i) <= Full
<1>1. CASE perIP[i] = NoBucket
  BY <1>1, Constants DEF Level
<1>2. CASE perIP[i] # NoBucket
  <2>1. Sound(perIP[i], PerIPQPS, now)
    BY <1>2 DEF TypeOK, Sound, Full
  <2>2. Level(i) = At(perIP[i], PerIPQPS, now)
    BY <1>2, RefilledNow DEF Level
  <2>3. now \in Nat
    BY DEF TypeOK
  <2> QED
    BY <2>1, <2>2, <2>3, AtRange, Constants DEF Full
<1> QED
  BY <1>1, <1>2

(* The window's bound follows from the one that counts the tokens left.    *)
LEMMA BoundFollows ==
  ASSUME NEW a \in Nat, NEW l \in Nat, NEW w \in Int, a * Unit + l <= w
  PROVE  a * Unit <= w
<1>1. a * Unit \in Nat
  BY Product, Constants
<1> QED
  BY <1>1

-----------------------------------------------------------------------------
(* How each action changes the tokens, in terms of the present ones.       *)
LEMMA LevelThen ==
  ASSUME NEW i \in IPs
  PROVE  /\ Level(i) = IF perIP[i] = NoBucket THEN Full ELSE At(perIP[i], PerIPQPS, now)
         /\ Level(i)' = IF perIP'[i] = NoBucket THEN Full ELSE At(perIP'[i], PerIPQPS, now')
BY DEF Level, Refilled, At, Full

LEMMA GlobalThen ==
  /\ Refilled(global, GlobalQPS) = At(global, GlobalQPS, now)
  /\ Refilled(global, GlobalQPS)' = At(global', GlobalQPS, now')
BY DEF Refilled, At

LEMMA TickFills ==
  ASSUME TypeOK, Tick
  PROVE  /\ \A i \in IPs : Level(i)' =
              IF Level(i) + PerIPQPS > Full THEN Full ELSE Level(i) + PerIPQPS
         /\ Refilled(global, GlobalQPS)' =
              IF Refilled(global, GlobalQPS) + GlobalQPS > GlobalQPS * Unit
              THEN GlobalQPS * Unit ELSE Refilled(global, GlobalQPS) + GlobalQPS
<1>0. now \in Nat /\ now' = now + 1 /\ perIP' = perIP /\ global' = global
  BY DEF TypeOK, Tick
<1>1. ASSUME NEW i \in IPs
      PROVE  Level(i)' = IF Level(i) + PerIPQPS > Full THEN Full ELSE Level(i) + PerIPQPS
  <2>1. CASE perIP[i] = NoBucket
    <3>1. Level(i) = Full /\ Level(i)' = Full
      BY <1>0, <2>1, LevelThen
    <3> QED
      BY <3>1, Constants
  <2>2. CASE perIP[i] # NoBucket
    <3>1. Sound(perIP[i], PerIPQPS, now)
      BY <2>2 DEF TypeOK, Sound, Full
    <3>2. Level(i) = At(perIP[i], PerIPQPS, now) /\ Level(i)' = At(perIP[i], PerIPQPS, now + 1)
      BY <1>0, <2>2, LevelThen
    <3> QED
      BY <1>0, <3>1, <3>2, AtNext, Constants DEF Full
  <2> QED
    BY <2>1, <2>2
<1>2. Sound(global, GlobalQPS, now)
  BY DEF TypeOK, Sound
<1>3. Refilled(global, GlobalQPS)' = At(global, GlobalQPS, now + 1)
  BY <1>0, GlobalThen
<1> QED
  BY <1>0, <1>1, <1>2, <1>3, GlobalThen, AtNext, Constants

(* The bucket that a look-up makes is full, and so are those that it drops.*)
LEMMA LookupKeepsLevels ==
  ASSUME LimitInv, NEW r \in Requests, Lookup(r), NEW i \in IPs
  PROVE  Level(i)' = Level(i)
<1>0. TypeOK /\ now \in Nat /\ now' = now /\ ip[r] \in IPs
  BY DEF LimitInv, TypeOK, Lookup
<1>1. CASE i # ip[r] /\ Idle(i)
  <2>1. perIP[i] # NoBucket /\ now - lastSeen[i] > Ttl /\ perIP'[i] = NoBucket
    BY <1>1 DEF Idle, Lookup
  <2>2. Sound(perIP[i], PerIPQPS, now) /\ perIP[i].last \in Nat /\ lastSeen[i] \in Nat
    BY <1>0, <2>1 DEF TypeOK, Sound, Full, Bucket
  <2>3. perIP[i].last - lastSeen[i] <= MaxStall
    BY <2>1 DEF LimitInv
  <2>4. now - perIP[i].last >= Unit
    BY <1>0, <2>1, <2>2, <2>3, Constants
  <2>5. At(perIP[i], PerIPQPS, now) = Full
    BY <1>0, <2>2, <2>4, AtFull, Constants DEF Full
  <2> QED
    BY <2>1, <2>5, LevelThen
<1>2. CASE i = ip[r] /\ perIP[i] = NoBucket
  <2>1. perIP'[i] = newBucket(PerIPQPS)
    BY <1>2 DEF Lookup
  <2>2. newBucket(PerIPQPS) \in Bucket /\ newBucket(PerIPQPS).last = now
        /\ newBucket(PerIPQPS).tokens = Full
    BY <1>0, Constants DEF newBucket, Bucket, Full
  <2>3. Sound(newBucket(PerIPQPS), PerIPQPS, now)
    BY <1>0, <2>2, Constants DEF Sound, Full
  <2>4. At(newBucket(PerIPQPS), PerIPQPS, now) = Full
    BY <1>0, <2>2, <2>3, AtOnce, Constants
  <2> QED
    BY <1>0, <1>2, <2>1, <2>2, <2>4, LevelThen, NoBucketIsNone
<1>3. CASE ~(i # ip[r] /\ Idle(i)) /\ ~(i = ip[r] /\ perIP[i] = NoBucket)
  <2>1. perIP'[i] = perIP[i]
    BY <1>3 DEF Lookup
  <2> QED
    BY <1>0, <2>1, LevelThen
<1> QED
  BY <1>1, <1>2, <1>3

(* A request that is let through takes one token of its own address.       *)
LEMMA AllowTakes ==
  ASSUME LimitInv, NEW r \in Requests, Allow(r)
  PROVE  /\ perIP[ip[r]] # NoBucket
         /\ admits(perIP[ip[r]], PerIPQPS) <=> Level(ip[r]) >= Unit
         /\ Sound(perIP'[ip[r]], PerIPQPS, now) /\ perIP'[ip[r]].last = now
         /\ \A i \in IPs : i # ip[r] => perIP'[i] = perIP[i]
         /\ \A i \in IPs : Level(i)' = IF i = ip[r] /\ Level(i) >= Unit THEN Level(i) - Unit
                                       ELSE Level(i)
<1>0. TypeOK /\ now \in Nat /\ now' = now /\ ip[r] \in IPs
  BY DEF LimitInv, TypeOK, Allow
<1>1. perIP[ip[r]] # NoBucket
  BY DEF LimitInv, HeldIsKept, Allow
<1> DEFINE b == perIP[ip[r]]
<1>2. Sound(b, PerIPQPS, now)
  BY <1>0, <1>1 DEF TypeOK, Sound, Full
<1>3. perIP' = [perIP EXCEPT ![ip[r]] = allow(b, PerIPQPS)]
  BY DEF Allow
<1>4. perIP'[ip[r]] = allow(b, PerIPQPS) /\ \A i \in IPs : i # ip[r] => perIP'[i] = perIP[i]
  BY <1>0, <1>3 DEF TypeOK
<1>5. Level(ip[r]) = Refilled(b, PerIPQPS)
  BY <1>1 DEF Level
<1>6. admits(b, PerIPQPS) <=> Level(ip[r]) >= Unit
  BY <1>5 DEF admits
<1>7. /\ Sound(allow(b, PerIPQPS), PerIPQPS, now) /\ allow(b, PerIPQPS).last = now
      /\ At(allow(b, PerIPQPS), PerIPQPS, now) =
           IF admits(b, PerIPQPS) THEN Refilled(b, PerIPQPS) - Unit ELSE Refilled(b, PerIPQPS)
  BY <1>0, <1>2, Used, Constants
<1>8. perIP'[ip[r]] # NoBucket
  BY <1>4, <1>7, NoBucketIsNone DEF Sound
<1>9. ASSUME NEW i \in IPs, i = ip[r]
      PROVE  Level(i)' = IF Level(i) >= Unit THEN Level(i) - Unit ELSE Level(i)
  <2>1. Level(i)' = At(perIP'[i], PerIPQPS, now)
    BY <1>0, <1>8, <1>9, LevelThen
  <2> QED
    BY <1>4, <1>5, <1>6, <1>7, <1>9, <2>1
<1>10. \A i \in IPs : i # ip[r] => Level(i)' = Level(i)
  BY <1>0, <1>4, LevelThen
<1> QED
  BY <1>1, <1>4, <1>6, <1>7, <1>9, <1>10
-----------------------------------------------------------------------------
(* One lemma per kind of step, then the theorem.                           *)
LEMMA TickKeepsInv ==
  ASSUME LimitInv, Tick
  PROVE  LimitInv'
<1>0. TypeOK /\ now \in Nat /\ mark \in Nat /\ now' = now + 1 /\ now - mark \in Nat
  BY DEF LimitInv, TypeOK, Tick
<1>1. TypeOK'
  <2>1. /\ lastSeen \in [IPs -> 0..now] => lastSeen \in [IPs -> 0..(now + 1)]
        /\ since \in [Requests -> 0..now] => since \in [Requests -> 0..(now + 1)]
    BY <1>0
  <2>2. mark \in 0..(now + 1) /\ global.last <= now + 1
    BY <1>0 DEF TypeOK, Bucket
  <2>3. \A i \in IPs : perIP[i].last <= now + 1
    BY <1>0, NoBucketIsNone DEF TypeOK, Bucket
  <2> QED
    BY <1>0, <2>1, <2>2, <2>3 DEF TypeOK, Tick, Full
<1>2. \A r \in Requests : pc'[r] = "allow" =>
        now' - since'[r] <= MaxStall /\ since'[r] <= lastSeen'[ip'[r]]
  BY DEF LimitInv, Tick
<1>3. HeldIsKept'
  BY DEF LimitInv, Tick, HeldIsKept
<1>4. \A i \in IPs : perIP'[i] # NoBucket => perIP'[i].last - lastSeen'[i] <= MaxStall
  BY DEF LimitInv, Tick
<1>5. ASSUME NEW i \in IPs
      PROVE  admitted'[i] * Unit + Level(i)' <= Full + PerIPQPS * (now' - mark')
  <2>1. admitted[i] * Unit + Level(i) <= Full + PerIPQPS * (now - mark)
    BY DEF LimitInv
  <2>2. Level(i)' <= Level(i) + PerIPQPS
    BY <1>0, TickFills, LevelRange, Constants
  <2>3. PerIPQPS * (now' - mark) = PerIPQPS * (now - mark) + PerIPQPS
    <3>1. now' - mark = (now - mark) + 1
      BY <1>0
    <3>2. \A d \in Nat : PerIPQPS * (d + 1) = PerIPQPS * d + PerIPQPS
      BY Distribute, Constants
    <3> QED
      BY <1>0, <3>1, <3>2
  <2>4. Level(i) \in Nat /\ Level(i)' \in Nat
    BY <1>0, LevelRange, TickFills, Constants
  <2>5. admitted[i] * Unit \in Nat /\ PerIPQPS * (now - mark) \in Nat
    BY <1>0, Product, Constants DEF TypeOK
  <2>6. admitted' = admitted /\ mark' = mark
    BY DEF Tick
  <2> QED
    BY <2>1, <2>2, <2>3, <2>4, <2>5, <2>6, Constants
<1>6. BurstBounded'
  <2>1. \A i \in IPs : Level(i)' \in Nat
    BY <1>0, LevelRange, TickFills, Constants
  <2>2. admitted' \in [IPs -> Nat] /\ Full + PerIPQPS * (now' - mark') \in Int
    BY <1>1, Constants DEF TypeOK
  <2> QED
    BY <1>5, <2>1, <2>2, BoundFollows DEF BurstBounded, Full
<1> QED
  BY <1>1, <1>2, <1>3, <1>4, <1>5, <1>6 DEF LimitInv, Full
LEMMA ArriveKeepsInv ==
  ASSUME LimitInv, NEW r \in Requests, Arrive(r)
  PROVE  LimitInv'
<1>1. TypeOK'
  BY DEF LimitInv, TypeOK, Arrive, Goto, Pcs, Full
<1>2. \A q \in Requests : pc'[q] = "allow" => pc[q] = "allow" /\ ip'[q] = ip[q]
  BY DEF LimitInv, TypeOK, Arrive, Goto
<1>3. \A i \in IPs : Level(i)' = Level(i)
  BY LevelThen DEF Arrive
<1> QED
  BY <1>1, <1>2, <1>3 DEF LimitInv, Arrive, HeldIsKept, BurstBounded, Full

LEMMA GlobalKeepsInv ==
  ASSUME LimitInv, NEW r \in Requests, Global(r)
  PROVE  LimitInv'
<1>0. TypeOK /\ now \in Nat /\ Sound(global, GlobalQPS, now)
  BY DEF LimitInv, TypeOK, Sound
<1>1. global' = global \/ global' = allow(global, GlobalQPS)
  BY DEF Global
<1>2. Sound(global', GlobalQPS, now)
  BY <1>0, <1>1, Used, Constants
<1>3. TypeOK'
  BY <1>0, <1>2 DEF TypeOK, Global, Goto, Pcs, Done, Full, Sound
<1>4. \A q \in Requests : pc'[q] = "allow" => pc[q] = "allow"
  BY <1>0 DEF TypeOK, Global, Goto
<1>5. \A i \in IPs : Level(i)' = Level(i)
  BY LevelThen DEF Global
<1> QED
  BY <1>3, <1>4, <1>5 DEF LimitInv, Global, HeldIsKept, BurstBounded, Full

LEMMA LookupKeepsInv ==
  ASSUME LimitInv, NEW r \in Requests, Lookup(r)
  PROVE  LimitInv'
<1>0. TypeOK /\ now \in Nat /\ ip[r] \in IPs
      /\ now' = now /\ ip' = ip /\ mark' = mark /\ admitted' = admitted /\ global' = global
  BY DEF LimitInv, TypeOK, Lookup
<1>1. ASSUME NEW i \in IPs
      PROVE  /\ perIP'[i] \in Bucket \cup {NoBucket}
             /\ perIP'[i].last <= now /\ perIP'[i].tokens <= Full
             /\ perIP'[i] # NoBucket => perIP'[i].last - lastSeen'[i] <= MaxStall
             /\ lastSeen'[i] \in 0..now /\ lastSeen[i] <= lastSeen'[i]
  <2>0. lastSeen[i] \in 0..now /\ lastSeen'[i] = IF i = ip[r] THEN now ELSE lastSeen[i]
    BY <1>0 DEF TypeOK, Lookup
  <2>a. perIP[i].last <= now /\ perIP[i].tokens <= Full /\ perIP[i] \in Bucket \cup {NoBucket}
        /\ perIP[i].last \in Int
    BY NoBucketIsNone DEF LimitInv, TypeOK, Bucket
  <2>1. CASE perIP'[i] = perIP[i]
    BY <1>0, <2>0, <2>1, <2>a, Constants DEF LimitInv
  <2>2. CASE perIP'[i] = NoBucket
    BY <1>0, <2>0, <2>2, NoBucketIsNone, Constants
  <2>3. CASE i = ip[r] /\ perIP'[i] = newBucket(PerIPQPS)
    BY <1>0, <2>0, <2>3, Constants DEF newBucket, Bucket, Full
  <2> QED
    BY <2>1, <2>2, <2>3 DEF Lookup
<1>2. TypeOK'
  <2>1. perIP' \in [IPs -> Bucket \cup {NoBucket}]
    BY <1>1 DEF Lookup
  <2>2. lastSeen' \in [IPs -> 0..now]
    BY <1>1 DEF LimitInv, TypeOK, Lookup
  <2> QED
    BY <1>0, <1>1, <2>1, <2>2 DEF TypeOK, Lookup, Goto, Pcs, Full
<1>3. \A q \in Requests : pc'[q] = "allow" =>
        perIP'[ip[q]] # NoBucket /\ now - since'[q] <= MaxStall
        /\ since'[q] <= lastSeen'[ip[q]]
  <2> SUFFICES ASSUME NEW q \in Requests, pc'[q] = "allow"
               PROVE  perIP'[ip[q]] # NoBucket /\ now - since'[q] <= MaxStall
                      /\ since'[q] <= lastSeen'[ip[q]]
    OBVIOUS
  <2>0. ip[q] \in IPs /\ lastSeen[ip[q]] \in 0..now
    BY <1>0 DEF TypeOK
  <2>1. CASE ip[q] = ip[r] /\ q = r
    <3>1. since'[q] = now /\ lastSeen'[ip[q]] = now
      BY <1>0, <2>1 DEF TypeOK, Lookup
    <3>2. perIP'[ip[q]] # NoBucket
      BY <1>0, <2>0, <2>1, NoBucketIsNone DEF Lookup, newBucket
    <3> QED
      BY <1>0, <3>1, <3>2, Constants
  <2>2. CASE q # r
    <3>1. since'[q] = since[q] /\ pc[q] = "allow"
      BY <1>0, <2>2 DEF TypeOK, Lookup, Goto
    <3>2. perIP[ip[q]] # NoBucket /\ now - since[q] <= MaxStall
          /\ since[q] <= lastSeen[ip[q]] /\ since[q] \in Nat
      BY <1>0, <3>1 DEF LimitInv, HeldIsKept, TypeOK
    <3>3. ~Idle(ip[q])
      BY <1>0, <2>0, <3>2, Constants DEF Idle
    <3>4. perIP'[ip[q]] = perIP[ip[q]]
      BY <2>0, <3>2, <3>3 DEF Lookup
    <3> QED
      BY <1>0, <1>1, <2>0, <3>1, <3>2, <3>4
  <2> QED
    BY <2>1, <2>2
<1>4. \A i \in IPs : Level(i)' = Level(i)
  BY LookupKeepsLevels
<1> QED
  BY <1>0, <1>1, <1>2, <1>3, <1>4 DEF LimitInv, HeldIsKept, BurstBounded, Full
LEMMA AllowKeepsInv ==
  ASSUME LimitInv, NEW r \in Requests, Allow(r)
  PROVE  LimitInv'
<1>0. TypeOK /\ now \in Nat /\ ip[r] \in IPs /\ pc[r] = "allow" /\ mark \in 0..now
      /\ now' = now /\ ip' = ip /\ mark' = mark /\ global' = global /\ lastSeen' = lastSeen
      /\ since' = [since EXCEPT ![r] = 0] /\ perIP' = [perIP EXCEPT ![ip[r]] = perIP'[ip[r]]]
  BY DEF LimitInv, TypeOK, Allow
<1>1. /\ perIP[ip[r]] # NoBucket
      /\ admits(perIP[ip[r]], PerIPQPS) <=> Level(ip[r]) >= Unit
      /\ Sound(perIP'[ip[r]], PerIPQPS, now) /\ perIP'[ip[r]].last = now
      /\ \A i \in IPs : i # ip[r] => perIP'[i] = perIP[i]
      /\ \A i \in IPs : Level(i)' = IF i = ip[r] /\ Level(i) >= Unit THEN Level(i) - Unit
                                    ELSE Level(i)
  BY AllowTakes
<1>2. \A i \in IPs : admitted'[i] = IF i = ip[r] /\ Level(i) >= Unit THEN admitted[i] + 1
                                    ELSE admitted[i]
  BY <1>0, <1>1 DEF Allow, TypeOK
<1>3. admitted' \in [IPs -> Nat] /\ pc' \in [Requests -> Pcs]
      /\ \A q \in Requests : pc'[q] = "allow" => q # r /\ pc[q] = "allow"
  BY <1>0 DEF Allow, TypeOK, Goto, Pcs, Done
<1>4. since' \in [Requests -> 0..now] /\ \A q \in Requests : q # r => since'[q] = since[q]
  BY <1>0 DEF TypeOK
<1>5. perIP'[ip[r]] # NoBucket /\ perIP'[ip[r]] \in Bucket
  BY <1>1, NoBucketIsNone DEF Sound
<1>6. perIP' \in [IPs -> Bucket \cup {NoBucket}]
      /\ \A i \in IPs : perIP'[i].last <= now /\ perIP'[i].tokens <= Full
  <2>1. perIP' \in [IPs -> Bucket \cup {NoBucket}]
    BY <1>0, <1>5 DEF TypeOK
  <2> QED
    BY <1>0, <1>1, <2>1 DEF TypeOK, Sound, Full
<1>7. TypeOK'
  BY <1>0, <1>3, <1>4, <1>6 DEF TypeOK, Full
<1>8. HeldIsKept'
  BY <1>0, <1>1, <1>3, <1>5 DEF LimitInv, HeldIsKept, TypeOK
<1>9. ASSUME NEW i \in IPs
      PROVE  perIP'[i].last - lastSeen[i] <= MaxStall \/ perIP'[i] = NoBucket
  <2>1. CASE i = ip[r]
    <3>1. now - since[r] <= MaxStall /\ since[r] <= lastSeen[i]
          /\ since[r] \in Nat /\ lastSeen[i] \in Nat
      BY <1>0, <2>1 DEF LimitInv, TypeOK
    <3> QED
      BY <1>0, <1>1, <2>1, <3>1, Constants
  <2>2. CASE i # ip[r]
    BY <1>1, <2>2 DEF LimitInv
  <2> QED
    BY <2>1, <2>2
<1>10. ASSUME NEW i \in IPs
       PROVE  /\ Level(i)' \in Nat
              /\ admitted'[i] * Unit + Level(i)' <= Full + PerIPQPS * (now' - mark')
  <2>1. Level(i) \in Nat /\ admitted[i] \in Nat /\ admitted[i] * Unit \in Nat
        /\ PerIPQPS * (now - mark) \in Nat
    BY <1>0, LevelRange, Product, Constants DEF TypeOK
  <2>2. admitted[i] * Unit + Level(i) <= Full + PerIPQPS * (now - mark)
    BY DEF LimitInv
  <2>3. (admitted[i] + 1) * Unit = admitted[i] * Unit + Unit
    BY <2>1, Distribute, Constants
  <2> QED
    BY <1>0, <1>1, <1>2, <2>1, <2>2, <2>3, Constants
<1>11. BurstBounded'
  <2>1. admitted' \in [IPs -> Nat] /\ Full + PerIPQPS * (now' - mark') \in Int
    BY <1>0, <1>3, Constants
  <2> QED
    BY <1>10, <2>1, BoundFollows DEF BurstBounded, Full
<1>12. \A q \in Requests : pc'[q] = "allow" =>
         now' - since'[q] <= MaxStall /\ since'[q] <= lastSeen'[ip'[q]]
  BY <1>0, <1>3, <1>4 DEF LimitInv
<1> QED
  BY <1>0, <1>7, <1>8, <1>9, <1>10, <1>11, <1>12 DEF LimitInv, Full

LEMMA MarkKeepsInv ==
  ASSUME LimitInv, Mark
  PROVE  LimitInv'
<1>0. TypeOK /\ now \in Nat /\ now' = now /\ mark' = now /\ admitted' = [i \in IPs |-> 0]
      /\ UNCHANGED <<global, perIP, lastSeen, pc, ip, since>>
  BY DEF LimitInv, TypeOK, Mark
<1>1. TypeOK'
  BY <1>0 DEF TypeOK, Full
<1>2. ASSUME NEW i \in IPs
      PROVE  /\ admitted'[i] * Unit <= Full + PerIPQPS * (now' - mark')
             /\ admitted'[i] * Unit + Level(i)' <= Full + PerIPQPS * (now' - mark')
  <2>1. Level(i)' = Level(i) /\ Level(i) \in Nat /\ Level(i) <= Full
    BY <1>0, LevelThen, LevelRange
  <2>2. PerIPQPS * (now' - mark') = 0 /\ admitted'[i] * Unit = 0
    BY <1>0, Constants
  <2> QED
    BY <2>1, <2>2, Constants
<1> QED
  BY <1>0, <1>1, <1>2 DEF LimitInv, HeldIsKept, BurstBounded, Full

LEMMA InitHolds == Init => LimitInv
<1> SUFFICES ASSUME Init PROVE LimitInv
  OBVIOUS
<1>1. TypeOK
  BY Constants, NoBucketIsNone
  DEF Init, TypeOK, newBucket, Bucket, NoBucket, Full, Pcs, Done
<1>2. \A i \in IPs : Level(i) = Full /\ admitted[i] * Unit = 0 /\ perIP[i] = NoBucket
  BY Constants DEF Init, Level
<1>3. PerIPQPS * (now - mark) = 0
  BY Constants DEF Init
<1>4. \A r \in Requests : pc[r] # "allow"
  BY DEF Init
<1> QED
  BY <1>1, <1>2, <1>3, <1>4, Constants DEF LimitInv, HeldIsKept, BurstBounded, Full

(* ratelimit.go:37,70: in no window of time does an address get more than  *)
(* one burst and what flows in meanwhile, and no request uses a bucket that*)
(* the map has dropped; for every number of addresses and every rate.      *)
THEOREM WindowsAreBounded == Spec => []LimitInv
<1>1. LimitInv /\ [Next]_vars => LimitInv'
  <2> SUFFICES ASSUME LimitInv, [Next]_vars PROVE LimitInv'
    OBVIOUS
  <2>1. CASE UNCHANGED vars
    BY <2>1 DEF vars, LimitInv, TypeOK, HeldIsKept, BurstBounded, Level, Refilled, Full
  <2>2. CASE Next
    BY <2>2, ArriveKeepsInv, GlobalKeepsInv, LookupKeepsInv, AllowKeepsInv, TickKeepsInv,
       MarkKeepsInv DEF Next
  <2> QED
    BY <2>1, <2>2
<1> QED
  BY <1>1, InitHolds, PTL DEF Spec
-----------------------------------------------------------------------------
(* The stage of a request as the Limiter sees it.                          *)
Stage(r) == IF pc[r] \in {"lookup", "allow"} THEN "ip" ELSE pc[r]

Stages == [r \in Requests |-> Stage(r)]
Levels == [i \in IPs |-> Level(i)]

LEMMA InitIsIdeal == Init => Ideal!Init
<1> SUFFICES ASSUME Init PROVE Ideal!Init
  OBVIOUS
<1>1. Refilled(global, GlobalQPS) = GlobalQPS * Unit
  <2>1. global = [tokens |-> GlobalQPS * Unit, last |-> now] /\ now = 0
    BY DEF Init, newBucket
  <2>2. (now - global.last) * GlobalQPS = 0
    BY <2>1, Constants
  <2> QED
    BY <2>1, <2>2, Constants DEF Refilled
<1>2. \A i \in IPs : Level(i) = PerIPQPS * Unit
  BY DEF Init, Level, Full
<1>3. \A r \in Requests : pc[r] = "idle"
  BY DEF Init
<1> QED
  BY <1>1, <1>2, <1>3 DEF Init, Ideal!Init

(* Steps of the middleware are steps of the Limiter, or invisible to it.   *)
LEMMA StepIsIdeal ==
  ASSUME LimitInv, [Next]_vars
  PROVE  [Ideal!Next]_(Ideal!vars)
<1>0. TypeOK
  BY DEF LimitInv
<1>1. CASE UNCHANGED vars
  BY <1>1 DEF vars, Ideal!vars, Level, Refilled
<1>2. CASE Tick
  <2>1. Ideal!Elapse
    BY <1>0, <1>2, TickFills DEF Ideal!Elapse, Ideal!Filled, Tick, Full
  <2> QED
    BY <2>1 DEF Ideal!Next
<1>3. CASE Mark
  BY <1>3 DEF Mark, Ideal!vars, Level, Refilled
<1>4. ASSUME NEW r \in Requests, Arrive(r) PROVE Ideal!Arrive(r)
  <2>1. Stages' = [Stages EXCEPT ![r] = "global"] /\ Stages[r] \in Done
    BY <1>0, <1>4 DEF Arrive, Goto, TypeOK, Stages, Stage, Done
  <2>2. Levels' = Levels /\ Refilled(global, GlobalQPS)' = Refilled(global, GlobalQPS)
    BY <1>4 DEF Arrive, Levels, Level, Refilled
  <2> QED
    BY <1>4, <2>1, <2>2 DEF Ideal!Arrive, Ideal!Done, Arrive, Done, Stages, Levels, Stage
<1>5. ASSUME NEW r \in Requests, Global(r) PROVE Ideal!Global(r)
  <2>0. now \in Nat /\ now' = now /\ Sound(global, GlobalQPS, now)
    BY <1>0, <1>5 DEF TypeOK, Sound, Global
  <2>1. Levels' = Levels /\ ip' = ip
    BY <1>5 DEF Global, Levels, Level, Refilled
  <2>2. Stages[r] = "global"
    BY <1>5 DEF Global, Stages, Stage
  <2>3. global' = allow(global, GlobalQPS) =>
          Refilled(global, GlobalQPS)' = IF admits(global, GlobalQPS)
            THEN Refilled(global, GlobalQPS) - Unit ELSE Refilled(global, GlobalQPS)
    BY <2>0, GlobalThen, Used, Constants
  <2>4. CASE GlobalQPS > 0 /\ global' = allow(global, GlobalQPS)
             /\ ~admits(global, GlobalQPS) /\ Goto(r, "refused")
    <3>1. Stages' = [Stages EXCEPT ![r] = "refused"]
      BY <1>0, <2>4 DEF Goto, TypeOK, Stages, Stage
    <3>2. Refilled(global, GlobalQPS) < Unit
      BY <2>0, <2>4, AtRange, GlobalThen, Constants DEF admits
    <3> QED
      BY <2>1, <2>2, <2>3, <2>4, <3>1, <3>2 DEF Ideal!Global, Stages, Levels, Stage
  <2>5. CASE /\ IF GlobalQPS > 0 THEN admits(global, GlobalQPS) /\ global' = allow(global, GlobalQPS)
                                  ELSE UNCHANGED global
             /\ Goto(r, IF PerIPQPS > 0 THEN "lookup" ELSE "served")
    <3>1. Stages' = [Stages EXCEPT ![r] = IF PerIPQPS > 0 THEN "ip" ELSE "served"]
      BY <1>0, <2>5 DEF Goto, TypeOK, Stages, Stage
    <3>2. \/ GlobalQPS > 0 /\ Refilled(global, GlobalQPS) >= Unit
             /\ Refilled(global, GlobalQPS)' = Refilled(global, GlobalQPS) - Unit
          \/ GlobalQPS = 0 /\ Refilled(global, GlobalQPS)' = Refilled(global, GlobalQPS)
      <4>1. CASE GlobalQPS > 0
        BY <2>3, <2>5, <4>1 DEF admits
      <4>2. CASE GlobalQPS = 0
        BY <2>0, <2>5, <4>2, GlobalThen
      <4> QED
        BY <4>1, <4>2, Constants
    <3> QED
      BY <2>1, <2>2, <3>1, <3>2 DEF Ideal!Global, Stages, Levels, Stage
  <2> QED
    BY <1>5, <2>4, <2>5 DEF Global
<1>6. ASSUME NEW r \in Requests, Lookup(r) PROVE UNCHANGED Ideal!vars
  <2>1. Levels' = Levels
    BY <1>6, LookupKeepsLevels DEF Levels
  <2>2. Stages' = Stages
    BY <1>0, <1>6 DEF Lookup, Goto, TypeOK, Stages, Stage
  <2>3. Refilled(global, GlobalQPS)' = Refilled(global, GlobalQPS) /\ ip' = ip
    BY <1>6 DEF Lookup, Refilled
  <2> QED
    BY <2>1, <2>2, <2>3 DEF Ideal!vars, Stages, Levels, Stage
<1>7. ASSUME NEW r \in Requests, Allow(r) PROVE Ideal!PerIP(r)
  <2>0. ip[r] \in IPs /\ ip' = ip /\ Stages[r] = "ip"
        /\ Refilled(global, GlobalQPS)' = Refilled(global, GlobalQPS)
    BY <1>0, <1>7 DEF Allow, TypeOK, Stages, Stage, Refilled
  <2>1. /\ admits(perIP[ip[r]], PerIPQPS) <=> Level(ip[r]) >= Unit
        /\ \A i \in IPs : Level(i)' = IF i = ip[r] /\ Level(i) >= Unit THEN Level(i) - Unit
                                      ELSE Level(i)
    BY <1>7, AllowTakes
  <2>2. CASE Level(ip[r]) >= Unit
    <3>1. Stages' = [Stages EXCEPT ![r] = "served"]
      BY <1>0, <1>7, <2>1, <2>2 DEF Allow, Goto, TypeOK, Stages, Stage
    <3>2. Levels' = [Levels EXCEPT ![ip[r]] = @ - Unit]
      BY <2>0, <2>1, <2>2 DEF Levels
    <3>3. Levels[ip[r]] >= Unit
      BY <2>0, <2>2 DEF Levels
    <3> QED
      BY <2>0, <3>1, <3>2, <3>3 DEF Ideal!PerIP, Stages, Levels, Stage
  <2>3. CASE ~(Level(ip[r]) >= Unit)
    <3>1. Stages' = [Stages EXCEPT ![r] = "refused"]
      BY <1>0, <1>7, <2>1, <2>3 DEF Allow, Goto, TypeOK, Stages, Stage
    <3>2. Levels' = Levels
      BY <2>0, <2>1, <2>3 DEF Levels
    <3>3. Levels[ip[r]] < Unit
      BY <1>0, <2>0, <2>3, LevelRange, Constants DEF Levels
    <3> QED
      BY <2>0, <3>1, <3>2, <3>3 DEF Ideal!PerIP, Stages, Levels, Stage
  <2> QED
    BY <2>2, <2>3
<1> QED
  BY <1>1, <1>2, <1>3, <1>4, <1>5, <1>6, <1>7 DEF Next, Ideal!Next

(* ratelimit.go:25-40,69-73: nobody can tell from the answers that buckets *)
(* are filled only when they are used and that idle ones are dropped.      *)
THEOREM IsTheLimiter == Spec => ImplementsLimiter
<1>1. LimitInv /\ [Next]_vars => [Ideal!Next]_(Ideal!vars)
  BY StepIsIdeal
<1> QED
  BY <1>1, InitIsIdeal, WindowsAreBounded, PTL DEF Spec, ImplementsLimiter, Ideal!Spec
=============================================================================
