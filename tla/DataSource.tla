----------------------------- MODULE DataSource -----------------------------
(***************************************************************************)
(* datasource.Source: the index of upstream, seen through one Redis key    *)
(* that all goroutines share.  Pull and BootSync clear the key before they *)
(* read the index; API requests only read it.  Nothing orders the calls of *)
(* different goroutines, so an index fetched before a clear may be written *)
(* to the key after it.                                                    *)
(*                                                                         *)
(* An index is its revision, counted from 1; 0 stands for no packages.     *)
(***************************************************************************)
EXTENDS Naturals

CONSTANTS
  Callers,      \* goroutines that use the source
  MaxRetries,   \* DATA_SOURCE_MAX_RETRIES
  MaxRevision   \* bound: revisions that upstream publishes

ASSUME DataSourceAssumption == MaxRetries \in Nat /\ MaxRevision \in Nat \ {0}

VARIABLES
  revision,  \* what upstream publishes now
  cache,     \* Redis key "data_source:index", 0 if it is absent or expired
  pc,        \* where each call of Get is
  tries,     \* iterations of its retry loop
  ds,        \* the index it has, or has returned; 0 for none
  failed,    \* lastErr # nil, or the error it has returned
  floor,     \* (observer) the oldest index that could be cached after the last clear
  promised   \* (observer) floor when the call of Get began
vars == <<revision, cache, pc, tries, ds, failed, floor, promised>>

Pcs == {"idle", "cached", "fetch", "set", "last"}
Revisions == 1..MaxRevision

Init ==
  /\ revision = 1 /\ cache = 0
  /\ pc = [c \in Callers |-> "idle"] /\ tries = [c \in Callers |-> 0]
  /\ ds = [c \in Callers |-> 0] /\ failed = [c \in Callers |-> FALSE]
  /\ floor = 1 /\ promised = [c \in Callers |-> 0]

Goto(c, at) == pc' = [pc EXCEPT ![c] = at]

-----------------------------------------------------------------------------
(* MUTANT of ClearCache: the key stays.                                    *)
ClearNothing(c) ==
  /\ pc[c] = "idle"
  /\ floor' = revision
  /\ UNCHANGED <<revision, cache, pc, tries, ds, failed, promised>>

(* cleanCaches.  An index that another call has fetched but not yet written*)
(* may come after it.  An error of DEL is dropped, and nothing is cleared. *)
ClearCache(c) ==
  /\ pc[c] = "idle"
  /\ \/ LET coming == {revision} \cup {ds[d] : d \in {e \in Callers : pc[e] = "set"}}
        IN  /\ cache' = 0
            /\ \E r \in coming : (\A q \in coming : r <= q) /\ floor' = r
     \/ UNCHANGED <<cache, floor>>
  /\ UNCHANGED <<revision, pc, tries, ds, failed, promised>>

GetBegins(c) ==
  /\ pc[c] = "idle"
  /\ Goto(c, "cached")
  /\ tries' = [tries EXCEPT ![c] = 0]
  /\ ds' = [ds EXCEPT ![c] = 0] /\ failed' = [failed EXCEPT ![c] = FALSE]
  /\ promised' = [promised EXCEPT ![c] = floor]
  /\ UNCHANGED <<revision, cache, floor>>

(* The loop has another iteration, or the last try is next.                *)
Loop(c) == IF tries'[c] < MaxRetries THEN "fetch" ELSE "last"

(* "Try cache first": a hit is returned; an error of Redis is a miss.      *)
TryCache(c) ==
  /\ pc[c] = "cached"
  /\ \/ cache # 0 /\ ds' = [ds EXCEPT ![c] = cache] /\ Goto(c, "idle") /\ UNCHANGED tries
     \/ UNCHANGED <<tries, ds>> /\ Goto(c, Loop(c))
  /\ UNCHANGED <<revision, cache, failed, floor, promised>>

(* One iteration: an index that one of the decoders accepts ...            *)
FetchIndex(c) ==
  /\ pc[c] = "fetch"
  /\ ds' = [ds EXCEPT ![c] = revision]
  /\ Goto(c, "set")
  /\ UNCHANGED <<revision, cache, tries, failed, floor, promised>>

(* MUTANT of FetchFails: the iterations are not counted.                   *)
FetchFailsUncounted(c) ==
  /\ pc[c] = "fetch"
  /\ \E err \in BOOLEAN : failed' = [failed EXCEPT ![c] = err]
  /\ UNCHANGED <<revision, cache, pc, tries, ds, floor, promised>>

(* ... or an error, or an answer without packages, which leaves no error.  *)
FetchFails(c) ==
  /\ pc[c] = "fetch"
  /\ \E err \in BOOLEAN : failed' = [failed EXCEPT ![c] = err]
  /\ tries' = [tries EXCEPT ![c] = @ + 1]
  /\ Goto(c, Loop(c))
  /\ UNCHANGED <<revision, cache, ds, floor, promised>>

(* An error of SET is dropped.                                             *)
CacheIndex(c) ==
  /\ pc[c] = "set"
  /\ cache' \in {cache, ds[c]}
  /\ failed' = [failed EXCEPT ![c] = FALSE]
  /\ Goto(c, "idle")
  /\ UNCHANGED <<revision, tries, ds, floor, promised>>

(* "Last try": the key again; else no packages and the last error, if any. *)
LastTry(c) ==
  /\ pc[c] = "last"
  /\ \/ /\ cache # 0
        /\ ds' = [ds EXCEPT ![c] = cache] /\ failed' = [failed EXCEPT ![c] = FALSE]
     \/ UNCHANGED <<ds, failed>>
  /\ Goto(c, "idle")
  /\ UNCHANGED <<revision, cache, tries, floor, promised>>

Get(c) == TryCache(c) \/ FetchIndex(c) \/ FetchFails(c) \/ CacheIndex(c) \/ LastTry(c)

-----------------------------------------------------------------------------
(* CACHE_TTL is over: Redis deletes the key.                               *)
Expire == cache # 0 /\ cache' = 0 /\ UNCHANGED <<revision, pc, tries, ds, failed, floor, promised>>

Publish ==
  /\ revision < MaxRevision /\ revision' = revision + 1
  /\ UNCHANGED <<cache, pc, tries, ds, failed, floor, promised>>

Next ==
  \/ \E c \in Callers : ClearCache(c) \/ GetBegins(c) \/ Get(c)
  \/ Expire \/ Publish

(* Every request to upstream and to Redis has a time-out.                  *)
Spec == Init /\ [][Next]_vars /\ \A c \in Callers : WF_vars(Get(c))

-----------------------------------------------------------------------------
TypeOK ==
  /\ revision \in Revisions /\ cache \in Revisions \cup {0} /\ floor \in Revisions
  /\ pc \in [Callers -> Pcs] /\ tries \in [Callers -> 0..MaxRetries]
  /\ ds \in [Callers -> Revisions \cup {0}] /\ failed \in [Callers -> BOOLEAN]
  /\ promised \in [Callers -> Revisions \cup {0}]

(* cache.go:10: cleanCaches makes the next Get see upstream as it was at   *)
(* the time of the clear, or what another goroutine was about to write at  *)
(* that time, and nothing older, whatever the other goroutines do.         *)
IndexIsFresh == \A c \in Callers : ds[c] # 0 => ds[c] >= promised[c]

(* The strengthening that every step preserves: all that may yet be cached *)
(* or returned is at least as new as what was promised.                    *)
FreshInv ==
  /\ TypeOK /\ IndexIsFresh
  /\ floor <= revision
  /\ cache # 0 => cache >= floor
  /\ \A c \in Callers : /\ promised[c] <= floor
                        /\ pc[c] = "set" => ds[c] >= floor
                        /\ pc[c] = "fetch" => tries[c] < MaxRetries

(* source.go:67: the retries are bounded, so that every call returns.      *)
GetReturns == \A c \in Callers : pc[c] # "idle" ~> pc[c] = "idle"
=============================================================================
