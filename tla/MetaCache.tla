------------------------------ MODULE MetaCache ------------------------------
(***************************************************************************)
(* version.Controller: the metadata of one package, kept in the LRU of the *)
(* process and in Redis, and rebuilt from the table or, failing that, from *)
(* the index of upstream.  singleflight lets one goroutine rebuild while   *)
(* others wait for its result.  Metadata is identified by when it was read.*)
(*                                                                         *)
(* Other packages share the LRU with this one: its entry may be evicted at *)
(* any time, which is all that Recency promises of a single key.           *)
(***************************************************************************)
EXTENDS Integers

CONSTANTS
  Requests,     \* handlers that call BuildPackageMetadata
  NoRequest,
  Ttl,          \* CACHE_TTL, in seconds; 0 is for ever
  CacheSoftTTL, \* CACHE_SOFT_TTL
  MaxStall,     \* bound: from reading the metadata to the last write of a cache
  MaxNow        \* bound: the clock

ASSUME MetaCacheAssumption ==
  NoRequest \notin Requests /\ {Ttl, CacheSoftTTL, MaxStall, MaxNow} \subseteq Nat

VARIABLES
  now,      \* the clock, in seconds
  lru,      \* entry of the package in the LRU, or None
  redis,    \* the same in Redis
  pc,       \* where each request is
  refresh,  \* its goroutine of controller.go:48: none, due, or rebuilding
  gone,     \* requests whose context is cancelled
  flight,   \* who rebuilds, as singleflight knows it
  leader,   \* whose result each request waits for
  at,       \* where the rebuild of each request, or of its goroutine, is
  asOf,     \* when that rebuild read the metadata
  began,    \* (observer) when a request without an answer began
  age       \* (observer) how long before that its answer was read, or NoAnswer
caches == <<lru, redis>>
requests == <<pc, refresh, gone, leader, began, age>>
rebuilds == <<flight, at, asOf>>
vars == <<now, caches, requests, rebuilds>>

None == [asOf |-> 0, exp |-> -1]
NoAnswer == -1
Pcs == {"idle", "redis", "join", "flight", "ttl", "answered"}
Stages == {"off", "rows", "index", "redis", "lru"}

Init ==
  /\ now = 0 /\ lru = None /\ redis = None
  /\ pc = [r \in Requests |-> "idle"] /\ refresh = [r \in Requests |-> "none"]
  /\ gone = Requests
  /\ leader = [r \in Requests |-> NoRequest] /\ flight = NoRequest
  /\ at = [r \in Requests |-> "off"] /\ asOf = [r \in Requests |-> 0]
  /\ began = [r \in Requests |-> 0] /\ age = [r \in Requests |-> NoAnswer]

Goto(r, to) == pc' = [pc EXCEPT ![r] = to]

(* How old is what was read then, for a request that began at time from.   *)
Age(from, read) == IF read < from THEN from - read ELSE 0

(* An entry written now.                                                   *)
Entry(read) == [asOf |-> read, exp |-> IF Ttl > 0 THEN now + Ttl ELSE 0]
Live(e) == e # None /\ (e.exp = 0 \/ now <= e.exp)

-----------------------------------------------------------------------------
(* The request begins with a look at the LRU.  A goroutine of the last     *)
(* request in this place may outlive it.                                   *)
Begin(r) ==
  /\ pc[r] = "idle" /\ refresh[r] = "none"
  /\ gone' = gone \ {r}
  /\ IF Live(lru)
     THEN /\ age' = [age EXCEPT ![r] = Age(now, lru.asOf)] /\ Goto(r, "ttl")
          /\ UNCHANGED <<lru, began>>
     ELSE /\ began' = [began EXCEPT ![r] = now] /\ Goto(r, "redis")
          /\ lru' = None /\ UNCHANGED age
  /\ UNCHANGED <<now, redis, refresh, leader, rebuilds>>

Answer(r, read) ==
  /\ age' = [age EXCEPT ![r] = Age(began[r], read)] /\ began' = [began EXCEPT ![r] = 0]

(* MUTANT of TryRedis: a hit fills the LRU.                                *)
TryRedisFills(r) ==
  /\ pc[r] = "redis"
  /\ \/ /\ Live(redis) /\ r \notin gone
        /\ Answer(r, redis.asOf) /\ Goto(r, "ttl") /\ lru' = Entry(redis.asOf)
     \/ Goto(r, "join") /\ UNCHANGED <<began, age, lru>>
  /\ UNCHANGED <<now, redis, refresh, gone, leader, rebuilds>>

(* An error of Redis is a miss, and so is a cancelled context.             *)
TryRedis(r) ==
  /\ pc[r] = "redis"
  /\ \/ Live(redis) /\ r \notin gone /\ Answer(r, redis.asOf) /\ Goto(r, "ttl")
     \/ Goto(r, "join") /\ UNCHANGED <<began, age>>
  /\ UNCHANGED <<now, caches, refresh, gone, leader, rebuilds>>

(* TTL rounds to seconds, as the clock here does.                          *)
InSoftWindow ==
  /\ Live(redis) /\ redis.exp # 0
  /\ \E ttl \in (redis.exp - now - 1)..(redis.exp - now + 1) : ttl > 0 /\ ttl <= CacheSoftTTL

(* After a hit: late in the life of the copy in Redis, start a rebuild.    *)
CheckTtl(r) ==
  /\ pc[r] = "ttl"
  /\ \/ InSoftWindow /\ r \notin gone /\ refresh' = [refresh EXCEPT ![r] = "due"]
     \/ UNCHANGED refresh
  /\ Goto(r, "answered")
  /\ UNCHANGED <<now, caches, gone, leader, began, age, rebuilds>>

(* MUTANT of Leads: nobody waits for a rebuild that is under way.          *)
AlwaysLeads(r) == flight' = r /\ at' = [at EXCEPT ![r] = "rows"]

(* flight.Do: the first to call it rebuilds.                               *)
Leads(r) == flight = NoRequest /\ flight' = r /\ at' = [at EXCEPT ![r] = "rows"]

Join(r) ==
  /\ pc[r] = "join"
  /\ Goto(r, "flight")
  /\ \/ Leads(r) /\ leader' = [leader EXCEPT ![r] = r]
     \/ /\ flight # NoRequest /\ leader' = [leader EXCEPT ![r] = flight]
        /\ UNCHANGED <<flight, at>>
  /\ UNCHANGED <<now, caches, refresh, gone, began, age, asOf>>

(* The goroutine of controller.go:48.  If it waits, it ignores the result. *)
Refresh(r) ==
  /\ refresh[r] = "due"
  /\ \/ Leads(r) /\ refresh' = [refresh EXCEPT ![r] = "rebuilding"]
     \/ /\ flight # NoRequest /\ refresh' = [refresh EXCEPT ![r] = "none"]
        /\ UNCHANGED <<flight, at>>
  /\ UNCHANGED <<now, caches, pc, gone, leader, began, age, asOf>>

-----------------------------------------------------------------------------
(* rebuildAndCache by r.  It uses the context of r, whoever waits for it.  *)
Stage(r, to) == at' = [at EXCEPT ![r] = to]

(* The rows of the package; none, an error or a cancelled context: the     *)
(* index, which is read without a context.                                 *)
ReadRows(r) ==
  /\ at[r] = "rows"
  /\ \/ r \notin gone /\ asOf' = [asOf EXCEPT ![r] = now] /\ Stage(r, "redis")
     \/ Stage(r, "index") /\ UNCHANGED asOf
  /\ UNCHANGED <<now, caches, requests, flight>>

(* The goroutines S get the result of r: metadata, or an error.            *)
Deliver(r, S, ok) ==
  /\ flight' = (IF flight = r THEN NoRequest ELSE flight)
  /\ Stage(r, "off") /\ asOf' = [asOf EXCEPT ![r] = 0]
  /\ refresh' = [refresh EXCEPT ![r] = "none"]
  /\ pc' = [q \in Requests |-> IF q \in S THEN "answered" ELSE pc[q]]
  /\ age' = [q \in Requests |-> IF q \in S /\ ok THEN Age(began[q], asOf[r]) ELSE age[q]]
  /\ began' = [q \in Requests |-> IF q \in S THEN 0 ELSE began[q]]
  /\ leader' = [q \in Requests |-> IF q \in S THEN NoRequest ELSE leader[q]]
  /\ UNCHANGED gone

Waiting(r) == {q \in Requests : pc[q] = "flight" /\ leader[q] = r}

(* MUTANT of Done: who waits is told of success only.                      *)
DoneUnlessFailed(r, ok) == Deliver(r, IF ok THEN Waiting(r) ELSE Waiting(r) \cap {r}, ok)

(* The flight is over: all who wait for it get the result.                 *)
Done(r, ok) == Deliver(r, Waiting(r), ok)

(* The index lists the package, or does not, or cannot be had.             *)
ReadIndex(r) ==
  /\ at[r] = "index"
  /\ \/ /\ asOf' = [asOf EXCEPT ![r] = now] /\ Stage(r, "redis")
        /\ UNCHANGED <<requests, flight>>
     \/ Done(r, FALSE)
  /\ UNCHANGED <<now, caches>>

(* An error of SET is dropped.                                             *)
StoreRedis(r) ==
  /\ at[r] = "redis"
  /\ \/ r \notin gone /\ redis' = Entry(asOf[r])
     \/ UNCHANGED redis
  /\ Stage(r, "lru")
  /\ UNCHANGED <<now, lru, requests, flight, asOf>>

StoreLru(r) ==
  /\ at[r] = "lru"
  /\ lru' = Entry(asOf[r])
  /\ Done(r, TRUE)
  /\ UNCHANGED <<now, redis>>

Rebuild(r) == ReadRows(r) \/ ReadIndex(r) \/ StoreRedis(r) \/ StoreLru(r)

-----------------------------------------------------------------------------
(* The handler returns, which cancels the context of the request.          *)
Respond(r) ==
  /\ pc[r] = "answered"
  /\ Goto(r, "idle") /\ gone' = gone \cup {r} /\ age' = [age EXCEPT ![r] = NoAnswer]
  /\ UNCHANGED <<now, caches, refresh, leader, began, rebuilds>>

(* The client closes the connection; the handler goes on.  One that has its*)
(* answer is about to return, to the same effect.                          *)
Disconnect(r) ==
  /\ pc[r] \notin {"idle", "answered"} /\ r \notin gone /\ gone' = gone \cup {r}
  /\ UNCHANGED <<now, caches, pc, refresh, leader, began, age, rebuilds>>

EvictLru == lru # None /\ lru' = None /\ UNCHANGED <<now, redis, requests, rebuilds>>

(* Redis deletes what has expired, and what it has no room for.            *)
DropRedis == redis # None /\ redis' = None /\ UNCHANGED <<now, lru, requests, rebuilds>>

(* The process starts again; Redis keeps its copy.                         *)
Restart ==
  /\ \E r \in Requests : pc[r] # "idle" \/ refresh[r] # "none"
  /\ lru' = None /\ flight' = NoRequest
  /\ pc' = [r \in Requests |-> "idle"] /\ refresh' = [r \in Requests |-> "none"]
  /\ gone' = Requests /\ leader' = [r \in Requests |-> NoRequest]
  /\ at' = [r \in Requests |-> "off"] /\ began' = [r \in Requests |-> 0]
  /\ age' = [r \in Requests |-> NoAnswer] /\ asOf' = [r \in Requests |-> 0]
  /\ UNCHANGED <<now, redis>>

Tick ==
  /\ now < MaxNow /\ now' = now + 1
  /\ \A r \in Requests : at[r] \in {"redis", "lru"} => now < asOf[r] + MaxStall
  /\ UNCHANGED <<caches, requests, rebuilds>>

Serve(r) == TryRedis(r) \/ CheckTtl(r) \/ Join(r) \/ Respond(r)

Next ==
  \/ \E r \in Requests : Begin(r) \/ Serve(r) \/ Refresh(r) \/ Rebuild(r) \/ Disconnect(r)
  \/ EvictLru \/ DropRedis \/ Restart \/ Tick

Spec == Init /\ [][Next]_vars

(* Handlers go on, and the calls of the table and of Redis return.  That of*)
(* the index is a bare http.Get (controller.go:98), which may never do so. *)
FairSpec ==
  /\ Spec
  /\ \A r \in Requests : WF_vars(Serve(r)) /\ WF_vars(ReadRows(r) \/ StoreRedis(r) \/ StoreLru(r))

-----------------------------------------------------------------------------
Entries == [asOf : Nat, exp : Nat \cup {-1}]

TypeOK ==
  /\ now \in Nat /\ lru \in Entries /\ redis \in Entries
  /\ pc \in [Requests -> Pcs] /\ refresh \in [Requests -> {"none", "due", "rebuilding"}]
  /\ gone \subseteq Requests
  /\ flight \in Requests \cup {NoRequest} /\ leader \in [Requests -> Requests \cup {NoRequest}]
  /\ at \in [Requests -> Stages] /\ asOf \in [Requests -> Nat]
  /\ began \in [Requests -> Nat] /\ age \in [Requests -> Nat \cup {NoAnswer}]

(* controller.go:41: an answer is metadata that was read no longer than    *)
(* CACHE_TTL, and the time it took to store it, before the request began.  *)
(* The two caches must not feed each other, or each adds its own TTL; a    *)
(* request that waits gets what was read before it came.                   *)
AnswersAreRecent == Ttl > 0 => \A r \in Requests : age[r] <= Ttl + MaxStall

(* controller.go:76: a rebuild never replaces what a cache holds by        *)
(* something that was read earlier, because one finishes before the next   *)
(* one of the package begins.                                              *)
CachesMoveForward ==
  [][/\ lru # None /\ lru' # None => lru.asOf <= lru'.asOf
     /\ redis # None /\ redis' # None => redis.asOf <= redis'.asOf]_vars

(* controller.go:76: every request is answered, whether it hits, leads or  *)
(* waits, and whatever becomes of the request that it waits for, unless    *)
(* upstream is silent: then all who wait for the flight wait with it.      *)
RequestsReturn ==
  \A r \in Requests :
    []<>(pc[r] = "idle") \/ <>[](pc[r] = "flight" /\ at[leader[r]] = "index")

(* Why both hold: what an entry holds was read at most MaxStall before it  *)
(* was written, and only the one rebuild of the flight may write.          *)
EntryInv(e) ==
  /\ e.asOf <= now
  /\ Ttl > 0 /\ e # None => e.exp # 0 /\ e.exp <= e.asOf + MaxStall + Ttl
RebuildInv(r) ==
  /\ at[r] # "off" => flight = r
  /\ at[r] \in {"redis", "lru"} =>
       /\ lru.asOf <= asOf[r] /\ redis.asOf <= asOf[r]
       /\ asOf[r] <= now /\ now <= asOf[r] + MaxStall
CacheInv ==
  /\ TypeOK /\ EntryInv(lru) /\ EntryInv(redis)
  /\ \A r \in Requests : RebuildInv(r) /\ began[r] <= now
  /\ AnswersAreRecent
==============================================================================
