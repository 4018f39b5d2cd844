--------------------------- MODULE MetaCacheProofs ---------------------------
(***************************************************************************)
(* How old an answer can be, and that the caches only move forward, for    *)
(* every number of requests and all durations.                             *)
(***************************************************************************)
EXTENDS MetaCache, TLAPS

LEMMA InitKeeps == Init => CacheInv
BY MetaCacheAssumption
   DEF Init, CacheInv, TypeOK, Entries, None, NoAnswer, EntryInv, RebuildInv, AnswersAreRecent,
       Pcs, Stages

(* An entry that is written now is a good one.                             *)
LEMMA EntryIsGood ==
  ASSUME now \in Nat, NEW read \in Nat, read <= now, now <= read + MaxStall
  PROVE  Entry(read) \in Entries /\ EntryInv(Entry(read)) /\ Entry(read).asOf = read
BY MetaCacheAssumption DEF Entry, Entries, EntryInv

(* What a live entry gives to a request is recent enough.                  *)
LEMMA HitIsRecent ==
  ASSUME now \in Nat, NEW e \in Entries, EntryInv(e), Live(e), NEW from \in Nat, from <= now
  PROVE  /\ Age(from, e.asOf) \in Nat
         /\ Ttl > 0 => Age(from, e.asOf) <= Ttl + MaxStall
BY MetaCacheAssumption DEF Entries, EntryInv, Live, Age

(* The end of a flight, after a success or a failure.                      *)
LEMMA DoneKeeps ==
  ASSUME CacheInv, NEW r \in Requests, at[r] # "off", NEW ok \in BOOLEAN,
         ok => at[r] = "lru",
         Done(r, ok)
  PROVE  /\ pc' \in [Requests -> Pcs] /\ refresh' \in [Requests -> {"none", "due", "rebuilding"}]
         /\ gone' \subseteq Requests /\ flight' = NoRequest
         /\ leader' \in [Requests -> Requests \cup {NoRequest}]
         /\ at' \in [Requests -> Stages] /\ asOf' \in [Requests -> Nat]
         /\ began' \in [Requests -> Nat] /\ age' \in [Requests -> Nat \cup {NoAnswer}]
         /\ \A q \in Requests : at'[q] = "off" /\ began'[q] <= now
         /\ Ttl > 0 => \A q \in Requests : age'[q] <= Ttl + MaxStall
<1> USE DEF CacheInv, TypeOK
<1>1. flight = r /\ flight' = NoRequest
  BY DEF RebuildInv, Done, Deliver
<1>2. \A q \in Requests : at'[q] = "off"
  <2>1. at' = [at EXCEPT ![r] = "off"] BY DEF Done, Deliver, Stage
  <2>2. \A q \in Requests : q # r => at[q] = "off"
    BY <1>1, MetaCacheAssumption DEF RebuildInv
  <2> QED BY <2>1, <2>2
<1>3. at' \in [Requests -> Stages] /\ asOf' \in [Requests -> Nat]
  BY DEF Done, Deliver, Stage, Stages
<1>4. pc' \in [Requests -> Pcs] /\ refresh' \in [Requests -> {"none", "due", "rebuilding"}]
  BY DEF Done, Deliver, Pcs
<1>5. began' \in [Requests -> Nat] /\ \A q \in Requests : began'[q] <= now
  BY DEF Done, Deliver
<1>6. \A q \in Requests : ok => /\ Age(began[q], asOf[r]) \in Nat
                                /\ Age(began[q], asOf[r]) <= MaxStall
  BY MetaCacheAssumption DEF Age, RebuildInv
<1>7. age' \in [Requests -> Nat \cup {NoAnswer}]
  <2>1. age' = [q \in Requests |-> IF q \in Waiting(r) /\ ok THEN Age(began[q], asOf[r]) ELSE age[q]]
    BY DEF Done, Deliver
  <2> QED BY <2>1, <1>6
<1>8. Ttl > 0 => \A q \in Requests : age'[q] <= Ttl + MaxStall
  <2>1. age' = [q \in Requests |-> IF q \in Waiting(r) /\ ok THEN Age(began[q], asOf[r]) ELSE age[q]]
    BY DEF Done, Deliver
  <2> QED BY <2>1, <1>6, MetaCacheAssumption DEF AnswersAreRecent
<1>9. leader' \in [Requests -> Requests \cup {NoRequest}] /\ gone' \subseteq Requests
  BY DEF Done, Deliver
<1> QED BY <1>1, <1>2, <1>3, <1>4, <1>5, <1>7, <1>8, <1>9

Forward ==
  /\ lru # None /\ lru' # None => lru.asOf <= lru'.asOf
  /\ redis # None /\ redis' # None => redis.asOf <= redis'.asOf

LEMMA RebuildKeeps ==
  ASSUME CacheInv, NEW r \in Requests, Rebuild(r)
  PROVE  CacheInv' /\ Forward
<1> USE DEF CacheInv, TypeOK
<1>1. CASE ReadRows(r)
  <2>1. UNCHANGED <<now, caches, requests, flight>> /\ at[r] = "rows" BY <1>1 DEF ReadRows
  <2>2. \/ at' = [at EXCEPT ![r] = "index"] /\ asOf' = asOf
        \/ at' = [at EXCEPT ![r] = "redis"] /\ asOf' = [asOf EXCEPT ![r] = now]
    BY <1>1 DEF ReadRows, Stage
  <2>3. at' \in [Requests -> Stages] /\ asOf' \in [Requests -> Nat] BY <2>2 DEF Stages
  <2>4. \A q \in Requests : RebuildInv(q)'
    BY <2>1, <2>2, MetaCacheAssumption DEF RebuildInv, EntryInv, caches
  <2> QED BY <2>1, <2>3, <2>4 DEF caches, requests, EntryInv, AnswersAreRecent, Forward, Entries
<1>2. CASE ReadIndex(r)
  <2>0. UNCHANGED <<now, caches>> /\ at[r] = "index" BY <1>2 DEF ReadIndex
  <2>1. CASE Done(r, FALSE)
    <3>1. \A q \in Requests : RebuildInv(q)'
      BY <2>0, <2>1, DoneKeeps DEF RebuildInv
    <3>2. AnswersAreRecent' BY <2>0, <2>1, DoneKeeps DEF AnswersAreRecent
    <3>3. TypeOK' /\ \A q \in Requests : began'[q] <= now'
      BY <2>0, <2>1, DoneKeeps DEF caches
    <3> QED BY <2>0, <3>1, <3>2, <3>3 DEF caches, EntryInv, Forward, Entries
  <2>2. CASE ~Done(r, FALSE)
    <3>1. /\ at' = [at EXCEPT ![r] = "redis"] /\ asOf' = [asOf EXCEPT ![r] = now]
          /\ UNCHANGED <<requests, flight>>
      BY <1>2, <2>2 DEF ReadIndex, Stage
    <3>2. at' \in [Requests -> Stages] /\ asOf' \in [Requests -> Nat] BY <3>1 DEF Stages
    <3>3. \A q \in Requests : RebuildInv(q)'
      BY <2>0, <3>1, MetaCacheAssumption DEF RebuildInv, EntryInv, caches
    <3> QED BY <2>0, <3>1, <3>2, <3>3 DEF caches, requests, EntryInv, AnswersAreRecent, Forward, Entries
  <2> QED BY <2>1, <2>2
<1>3. CASE StoreRedis(r)
  <2>1. /\ UNCHANGED <<now, lru, requests, flight, asOf>> /\ at[r] = "redis"
        /\ at' = [at EXCEPT ![r] = "lru"]
        /\ redis' = redis \/ redis' = Entry(asOf[r])
    BY <1>3 DEF StoreRedis, Stage
  <2>2. asOf[r] <= now /\ now <= asOf[r] + MaxStall /\ redis.asOf <= asOf[r]
    BY <2>1 DEF RebuildInv
  <2>3. redis' \in Entries /\ EntryInv(redis)' /\ (redis' = redis \/ redis'.asOf = asOf[r])
    BY <2>1, <2>2, EntryIsGood DEF EntryInv
  <2>4. at' \in [Requests -> Stages] BY <2>1 DEF Stages
  <2>5. \A q \in Requests : RebuildInv(q)'
    BY <2>1, <2>2, <2>3, MetaCacheAssumption DEF RebuildInv, Entries
  <2>6. Forward BY <2>1, <2>2, <2>3 DEF Forward, Entries
  <2> QED BY <2>1, <2>3, <2>4, <2>5, <2>6 DEF requests, EntryInv, AnswersAreRecent
<1>4. CASE StoreLru(r)
  <2>1. UNCHANGED <<now, redis>> /\ at[r] = "lru" /\ lru' = Entry(asOf[r]) /\ Done(r, TRUE)
    BY <1>4 DEF StoreLru
  <2>2. asOf[r] <= now /\ now <= asOf[r] + MaxStall /\ lru.asOf <= asOf[r]
    BY <2>1 DEF RebuildInv
  <2>3. lru' \in Entries /\ EntryInv(lru)' /\ lru'.asOf = asOf[r]
    BY <2>1, <2>2, EntryIsGood DEF EntryInv
  <2>4. \A q \in Requests : RebuildInv(q)'
    BY <2>1, DoneKeeps DEF RebuildInv
  <2>5. Forward BY <2>1, <2>2, <2>3 DEF Forward, Entries
  <2> QED BY <2>1, <2>3, <2>4, <2>5, DoneKeeps DEF EntryInv, AnswersAreRecent
<1> QED BY <1>1, <1>2, <1>3, <1>4 DEF Rebuild

(* A request finds an answer in a cache, or does not, or goes on.          *)
LEMMA ServeKeeps ==
  ASSUME CacheInv, NEW r \in Requests,
         Begin(r) \/ Serve(r) \/ Refresh(r) \/ Disconnect(r)
  PROVE  CacheInv' /\ Forward
<1> USE DEF CacheInv, TypeOK
<1>1. CASE Begin(r)
  <2>1. UNCHANGED <<now, redis, refresh, leader, rebuilds>> /\ gone' \subseteq Requests
    BY <1>1 DEF Begin
  <2>2. CASE Live(lru)
    <3>1. age' = [age EXCEPT ![r] = Age(now, lru.asOf)] /\ UNCHANGED <<lru, began>>
          /\ pc' = [pc EXCEPT ![r] = "ttl"]
      BY <1>1, <2>2 DEF Begin, Goto
    <3>2. Age(now, lru.asOf) \in Nat /\ (Ttl > 0 => Age(now, lru.asOf) <= Ttl + MaxStall)
      BY <2>2, HitIsRecent
    <3>3. pc' \in [Requests -> Pcs] /\ age' \in [Requests -> Nat \cup {NoAnswer}]
      BY <3>1, <3>2 DEF Pcs
    <3>4. AnswersAreRecent' BY <3>1, <3>2 DEF AnswersAreRecent
    <3> QED BY <2>1, <3>1, <3>3, <3>4 DEF rebuilds, EntryInv, RebuildInv, Forward, Entries
  <2>3. CASE ~Live(lru)
    <3>1. began' = [began EXCEPT ![r] = now] /\ lru' = None /\ UNCHANGED age
          /\ pc' = [pc EXCEPT ![r] = "redis"]
      BY <1>1, <2>3 DEF Begin, Goto
    <3>2. pc' \in [Requests -> Pcs] /\ began' \in [Requests -> Nat]
          /\ \A q \in Requests : began'[q] <= now
      BY <3>1 DEF Pcs
    <3>3. lru' \in Entries /\ EntryInv(lru)' /\ lru'.asOf = 0
      BY <2>1, <3>1 DEF None, Entries, EntryInv
    <3>4. \A q \in Requests : RebuildInv(q)' BY <2>1, <3>3 DEF RebuildInv, rebuilds
    <3> QED BY <2>1, <3>1, <3>2, <3>3, <3>4 DEF rebuilds, EntryInv, AnswersAreRecent, Forward, Entries
  <2> QED BY <2>2, <2>3
<1>2. CASE TryRedis(r)
  <2>1. UNCHANGED <<now, caches, refresh, gone, leader, rebuilds>> BY <1>2 DEF TryRedis
  <2>2. pc' \in [Requests -> Pcs] BY <1>2 DEF TryRedis, Goto, Pcs
  <2>3. \/ UNCHANGED <<began, age>>
        \/ Live(redis) /\ Answer(r, redis.asOf)
    BY <1>2 DEF TryRedis
  <2>4. Live(redis) => /\ Age(began[r], redis.asOf) \in Nat
                       /\ Ttl > 0 => Age(began[r], redis.asOf) <= Ttl + MaxStall
    BY HitIsRecent
  <2>5. /\ began' \in [Requests -> Nat] /\ age' \in [Requests -> Nat \cup {NoAnswer}]
        /\ \A q \in Requests : began'[q] <= now
    BY <2>3, <2>4 DEF Answer
  <2>6. AnswersAreRecent' BY <2>3, <2>4 DEF AnswersAreRecent, Answer
  <2> QED BY <2>1, <2>2, <2>5, <2>6 DEF caches, rebuilds, EntryInv, RebuildInv, Forward, Entries
<1>3. CASE CheckTtl(r)
  <2>1. UNCHANGED <<now, caches, gone, leader, began, age, rebuilds>> BY <1>3 DEF CheckTtl
  <2>2. pc' \in [Requests -> Pcs] /\ refresh' \in [Requests -> {"none", "due", "rebuilding"}]
    BY <1>3 DEF CheckTtl, Goto, Pcs
  <2> QED BY <2>1, <2>2 DEF caches, rebuilds, EntryInv, RebuildInv, AnswersAreRecent, Forward, Entries
<1>4. CASE Join(r)
  <2>1. UNCHANGED <<now, caches, refresh, gone, began, age, asOf>> BY <1>4 DEF Join
  <2>2. pc' \in [Requests -> Pcs] /\ leader' \in [Requests -> Requests \cup {NoRequest}]
    BY <1>4 DEF Join, Goto, Pcs
  <2>3. \/ UNCHANGED <<flight, at>>
        \/ flight = NoRequest /\ flight' = r /\ at' = [at EXCEPT ![r] = "rows"]
    BY <1>4 DEF Join, Leads
  <2>4. /\ flight' \in Requests \cup {NoRequest} /\ at' \in [Requests -> Stages]
        /\ \A q \in Requests : RebuildInv(q)'
    BY <2>1, <2>3, MetaCacheAssumption DEF RebuildInv, Stages, caches
  <2> QED BY <2>1, <2>2, <2>4 DEF caches, EntryInv, AnswersAreRecent, Forward, Entries
<1>5. CASE Refresh(r)
  <2>1. UNCHANGED <<now, caches, pc, gone, leader, began, age, asOf>> BY <1>5 DEF Refresh
  <2>2. refresh' \in [Requests -> {"none", "due", "rebuilding"}] BY <1>5 DEF Refresh
  <2>3. \/ UNCHANGED <<flight, at>>
        \/ flight = NoRequest /\ flight' = r /\ at' = [at EXCEPT ![r] = "rows"]
    BY <1>5 DEF Refresh, Leads
  <2>4. /\ flight' \in Requests \cup {NoRequest} /\ at' \in [Requests -> Stages]
        /\ \A q \in Requests : RebuildInv(q)'
    BY <2>1, <2>3, MetaCacheAssumption DEF RebuildInv, Stages, caches
  <2> QED BY <2>1, <2>2, <2>4 DEF caches, EntryInv, AnswersAreRecent, Forward, Entries
<1>6. CASE Respond(r)
  <2>1. UNCHANGED <<now, caches, refresh, leader, began, rebuilds>> BY <1>6 DEF Respond
  <2>2. pc' \in [Requests -> Pcs] /\ gone' \subseteq Requests
    BY <1>6 DEF Respond, Goto, Pcs
  <2>3. age' = [age EXCEPT ![r] = NoAnswer] BY <1>6 DEF Respond
  <2>4. age' \in [Requests -> Nat \cup {NoAnswer}] /\ AnswersAreRecent'
    BY <2>3, MetaCacheAssumption DEF AnswersAreRecent, NoAnswer
  <2> QED BY <2>1, <2>2, <2>4 DEF caches, rebuilds, EntryInv, RebuildInv, Forward, Entries
<1>7. CASE Disconnect(r)
  BY <1>7 DEF Disconnect, caches, rebuilds, EntryInv, RebuildInv, AnswersAreRecent, Forward, Entries
<1> QED BY <1>1, <1>2, <1>3, <1>4, <1>5, <1>6, <1>7 DEF Serve

LEMMA StepKeeps == CacheInv /\ [Next]_vars => CacheInv' /\ Forward
<1> SUFFICES ASSUME CacheInv, [Next]_vars PROVE CacheInv' /\ Forward OBVIOUS
<1> USE DEF CacheInv, TypeOK
<1>1. ASSUME NEW r \in Requests,
             Begin(r) \/ Serve(r) \/ Refresh(r) \/ Rebuild(r) \/ Disconnect(r)
      PROVE  CacheInv' /\ Forward
  <2> HIDE DEF CacheInv
  <2> QED BY <1>1, ServeKeeps, RebuildKeeps
<1>2. CASE EvictLru
  BY <1>2 DEF EvictLru, requests, rebuilds, EntryInv, RebuildInv, AnswersAreRecent, Forward,
              Entries, None
<1>3. CASE DropRedis
  BY <1>3 DEF DropRedis, requests, rebuilds, EntryInv, RebuildInv, AnswersAreRecent, Forward,
              Entries, None
<1>4. CASE Restart
  <2>1. UNCHANGED <<now, redis>> /\ lru' = None /\ flight' = NoRequest /\ gone' = Requests
    BY <1>4 DEF Restart
  <2>2. /\ pc' \in [Requests -> Pcs] /\ refresh' \in [Requests -> {"none", "due", "rebuilding"}]
        /\ leader' \in [Requests -> Requests \cup {NoRequest}]
        /\ at' \in [Requests -> Stages] /\ asOf' \in [Requests -> Nat]
        /\ began' \in [Requests -> Nat] /\ age' \in [Requests -> Nat \cup {NoAnswer}]
    BY <1>4 DEF Restart, Pcs, Stages
  <2>3. \A r \in Requests : at'[r] = "off" /\ began'[r] = 0 /\ age'[r] = NoAnswer
    BY <1>4 DEF Restart
  <2>4. lru' \in Entries /\ EntryInv(lru)' BY <2>1 DEF None, Entries, EntryInv
  <2>5. \A r \in Requests : RebuildInv(r)' BY <2>3 DEF RebuildInv
  <2>6. AnswersAreRecent' BY <2>3, MetaCacheAssumption DEF AnswersAreRecent, NoAnswer
  <2> QED BY <2>1, <2>2, <2>3, <2>4, <2>5, <2>6 DEF EntryInv, Forward, Entries
<1>5. CASE Tick
  <2>1. now' = now + 1 /\ UNCHANGED <<caches, requests, rebuilds>> BY <1>5 DEF Tick
  <2>2. \A r \in Requests : RebuildInv(r)'
    BY <1>5, <2>1, MetaCacheAssumption DEF Tick, RebuildInv, caches, rebuilds, Entries
  <2> QED BY <2>1, <2>2 DEF caches, requests, rebuilds, EntryInv, AnswersAreRecent, Forward, Entries
<1>6. CASE UNCHANGED vars
  BY <1>6 DEF vars, caches, requests, rebuilds, EntryInv, RebuildInv, AnswersAreRecent, Forward,
              Entries
<1> QED BY <1>1, <1>2, <1>3, <1>4, <1>5, <1>6 DEF Next

(* An entry of a cache ends at most a TTL and a stall after its rows were  *)
(* read, and only the rebuild that holds the flight writes entries.        *)
THEOREM CopiesKeepTheirLife == Spec => []CacheInv
<1>1. CacheInv /\ [Next]_vars => CacheInv' BY StepKeeps
<1> QED BY InitKeeps, <1>1, PTL DEF Spec

(* No answer was read longer than the TTL, and the time it took to store   *)
(* it, before its request began.                                           *)
THEOREM NoAnswerIsOlder == Spec => []AnswersAreRecent
<1>1. CacheInv /\ [Next]_vars => CacheInv' BY StepKeeps
<1>2. CacheInv => AnswersAreRecent BY DEF CacheInv
<1> QED BY InitKeeps, <1>1, <1>2, PTL DEF Spec

(* No rebuild puts what was read earlier into the place of what was read   *)
(* later.                                                                  *)
THEOREM CachesNeverGoBack == Spec => CachesMoveForward
<1>1. CacheInv /\ [Next]_vars => CacheInv' BY StepKeeps
<1>2. CacheInv /\ [Next]_vars =>
        [/\ lru # None /\ lru' # None => lru.asOf <= lru'.asOf
         /\ redis # None /\ redis' # None => redis.asOf <= redis'.asOf]_vars
  BY StepKeeps DEF Forward
<1> QED BY InitKeeps, <1>1, <1>2, PTL DEF Spec, CachesMoveForward
==============================================================================
