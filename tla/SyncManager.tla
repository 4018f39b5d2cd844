---------------------------- MODULE SyncManager ----------------------------
(***************************************************************************)
(* The core of the mirror: the goroutine that main starts (BootSync, then  *)
(* StartCron) and the ones that API requests start (Pull, BootSync,        *)
(* RetryFailedNow, Reconcile), over one sync state, one database and one   *)
(* bucket.  Workers are in SyncWorker, the reconciliation in Reconcile.    *)
(***************************************************************************)
EXTENDS SyncWorker, Reconcile

Init ==
  /\ catalog \in SUBSET Pkgs
  /\ objects = [p \in Pkgs |-> 0] /\ meta = [n \in Names |-> NoRow] /\ lost = {}
  /\ rows = [r \in RowKeys |-> NoEntry]
  /\ saved = NoMap /\ mem = NoMap
  /\ jobs = {}
  /\ pc = [t \in Threads |-> IF t = Cron THEN "boot_load" ELSE "off"]
  /\ todo = [t \in Threads |-> NoList]
  /\ work = [t \in Threads |-> [p \in Pkgs |-> "idle"]]
  /\ body = [t \in Threads |-> [p \in Pkgs |-> 0]]
  /\ unsaved = [t \in Threads |-> {}]
  /\ frozen = [t \in Threads |-> FALSE]
  /\ snap = [t \in Threads |-> NoMap]
  /\ left = [t \in Threads |-> {}] /\ listed = [t \in Threads |-> NoSizes]
  /\ cur = [t \in Threads |-> NoRow] /\ seen = [t \in Threads |-> 0]
  /\ faults = 0 /\ crashes = 0 /\ requests = 0

-----------------------------------------------------------------------------
(* TryStartJob, and FinishJob when the goroutine returns.  Only "pull" and *)
(* "boot" requests are registered; the goroutine of main is not.           *)
Guarded == {"pull", "boot"}

(* MUTANT of TryStartJob: the registry is written but not read.            *)
TryStartJobUnchecked(k) == jobs' = jobs \cup {k}

TryStartJob(k) == k \notin jobs /\ jobs' = jobs \cup {k}
FinishJob(k) == jobs' = jobs \ {k}

Trigger(t) ==
  /\ pc[t] = "off" /\ requests < MaxRequests
  /\ IF Kind[t] \in Guarded THEN TryStartJob(Kind[t]) ELSE UNCHANGED jobs
  /\ Step(t, CASE Kind[t] = "pull" -> "get"
               [] Kind[t] = "boot" -> "boot_load"
               [] Kind[t] = "retry" -> "scan"
               [] Kind[t] = "reconcile" -> "rec_rows")
  /\ requests' = requests + 1
  /\ UNCHANGED <<catalog, bucket, rows, saved, mem, todo, work, body, saver, loop,
                 faults, crashes>>

(* The call returns; in the goroutine of main, "next" comes then.          *)
Return(t, next) ==
  IF t = Cron THEN Step(t, next) /\ UNCHANGED jobs
  ELSE Step(t, "off") /\ IF Kind[t] \in Guarded THEN FinishJob(Kind[t]) ELSE UNCHANGED jobs

(* StartCron's ticker.                                                     *)
Tick(t) ==
  /\ pc[t] = "rest"
  /\ Step(t, "get")
  /\ UNCHANGED <<catalog, bucket, rows, saved, mem, jobs, todo, work, body, saver, loop, bounds>>

-----------------------------------------------------------------------------
(* loadSyncState: reading the table, then replacing the map.  A stream of  *)
(* rows that breaks off is not noticed; an error leaves the map alone.     *)
ReadState(t) ==
  /\ pc[t] \in {"boot_load", "load"}
  /\ LET present == {p \in Pkgs : saved[p].status # "none"}
         after(at) == IF pc[t] = "boot_load" THEN at[1] ELSE at[2]
     IN  \/ \E got \in SUBSET present :
              /\ IF got = present THEN UNCHANGED faults ELSE Fault
              /\ snap' = [snap EXCEPT ![t] =
                            [p \in Pkgs |-> IF p \in got THEN saved[p] ELSE NoState]]
              /\ Step(t, after(<<"boot_swap", "swap">>))
         \/ Fault /\ Step(t, after(<<"rec_rows", "plan">>)) /\ UNCHANGED snap
  /\ UNCHANGED <<catalog, bucket, rows, saved, mem, jobs, todo, work, body, unsaved, frozen,
                 loop, crashes, requests>>

(* A save in progress keeps iterating the map that it started on.          *)
ReplaceState(t) ==
  /\ pc[t] \in {"boot_swap", "swap"}
  /\ mem' = snap[t]
  /\ LET losing == {s \in Threads : pc[s] \in SavePcs /\ ~frozen[s]} IN
       /\ frozen' = [s \in Threads |-> frozen[s] \/ s \in losing]
       /\ snap' = [s \in Threads |-> IF s = t THEN NoMap ELSE
                                     IF s \in losing THEN mem ELSE snap[s]]
  /\ Step(t, IF pc[t] = "boot_swap" THEN "rec_rows" ELSE "plan")
  /\ UNCHANGED <<catalog, bucket, rows, saved, jobs, todo, work, body, unsaved, loop, bounds>>

-----------------------------------------------------------------------------
(* MUTANT of Missing: the sync state is believed instead of the bucket.    *)
NotKnown(packages, page) == {p \in packages : mem[p].status # "success"}

(* BootSync after Reconcile: the index, the bucket listing (an error reads *)
(* as an empty bucket), and what the one has and the other has not.        *)
Missing(packages, page) == packages \ page

BootGet(t) ==
  /\ pc[t] = "boot_get"
  /\ \/ \E got \in SUBSET catalog :
          /\ Get(got)
          /\ left' = [left EXCEPT ![t] = got]
          /\ Step(t, "boot_index") /\ UNCHANGED jobs
     \/ Fault /\ Return(t, "get") /\ UNCHANGED left
  /\ UNCHANGED <<catalog, bucket, rows, saved, mem, todo, work, body, saver, listed, cur, seen,
                 crashes, requests>>

BootIndex(t) ==
  /\ pc[t] = "boot_index"
  /\ \E page \in SUBSET Pkgs :
       /\ \/ ListObjects(page) /\ UNCHANGED faults
          \/ Fault /\ page = {}
       /\ LET toSync == Missing(left[t], page) IN
            /\ todo' = [todo EXCEPT ![t].pri = toSync]
            /\ IF toSync = {} THEN Return(t, "get")
                              ELSE Step(t, "boot_run") /\ UNCHANGED jobs
  /\ left' = [left EXCEPT ![t] = {}]
  /\ UNCHANGED <<catalog, bucket, rows, saved, mem, work, body, saver, listed, cur, seen,
                 crashes, requests>>

-----------------------------------------------------------------------------
(* Pull: the index, the saved state, the plan.                             *)
PullGet(t) ==
  /\ pc[t] = "get"
  /\ \/ \E got \in SUBSET catalog :
          /\ Get(got)
          /\ left' = [left EXCEPT ![t] = got]
          /\ Step(t, "load") /\ UNCHANGED jobs
     \/ Fault /\ Return(t, "rest") /\ UNCHANGED left
  /\ UNCHANGED <<catalog, bucket, rows, saved, mem, todo, work, body, saver, listed, cur, seen,
                 crashes, requests>>

(* MUTANTS of determinePackagesToSync: everything; or nothing that failed. *)
EverythingIdle(packages) == {p \in packages : mem[p].status # "syncing"}
OnlyUnknown(packages) == {p \in packages : mem[p].status = "none"}

determinePackagesToSync(packages) ==
  {p \in packages : \/ mem[p].status \in {"none", "failed"}
                    \/ mem[p].status = "pending" /\ mem[p].retry < MaxRetries}

planPriorityAndBackfill(packages) ==
  LET latest == {p \in packages : \A q \in packages :
                                    NameOf[q] = NameOf[p] => VerOf[q] <= VerOf[p]}
  IN  [pri |-> latest, back |-> packages \ latest]

(* The head of the history, in list order, if BACKFILL_BATCH bounds it.    *)
Batch(back) ==
  IF ~BackfillEnabled THEN {}
  ELSE IF BackfillBatch = 0 THEN back
  ELSE {p \in back : Cardinality({q \in back : Rank[q] < Rank[p]}) < BackfillBatch}

Plan(t) ==
  /\ pc[t] = "plan"
  /\ LET plan == planPriorityAndBackfill(determinePackagesToSync(left[t])) IN
       todo' = [todo EXCEPT ![t] = [pri |-> plan.pri, back |-> Batch(plan.back)]]
  /\ left' = [left EXCEPT ![t] = {}]
  /\ Step(t, "run")
  /\ UNCHANGED <<catalog, bucket, rows, saved, mem, jobs, work, body, saver, listed, cur, seen,
                 bounds>>

-----------------------------------------------------------------------------
(* retryFailedPackages, from the list of failed packages on.               *)
Failed == {p \in Pkgs : mem[p].status = "failed" /\ mem[p].retry < MaxRetries}

Scan(t) ==
  /\ pc[t] = "scan"
  /\ todo' = [todo EXCEPT ![t].pri = Failed]
  /\ IF Failed = {} THEN Return(t, "rest")
                    ELSE Step(t, "retry_run") /\ UNCHANGED jobs
  /\ UNCHANGED <<catalog, bucket, rows, saved, mem, work, body, saver, loop, bounds>>

(* MUTANT of Busy: the wait group counts nothing.                          *)
NobodyBusy(t) == {}

Busy(t) == {p \in Pkgs : work[t][p] # "idle"}

(* sem <- struct{}{}; go ...: priority packages first, then the history.   *)
Launch(t, p) ==
  /\ pc[t] \in RunPcs
  /\ Cardinality(Busy(t)) < Concurrency
  /\ \/ p \in todo[t].pri /\ todo' = [todo EXCEPT ![t].pri = @ \ {p}]
     \/ /\ todo[t].pri = {}
        /\ p \in todo[t].back /\ todo' = [todo EXCEPT ![t].back = @ \ {p}]
  /\ Goto(t, p, IF pc[t] = "retry_run" THEN "fetch" ELSE "mark")
  /\ UNCHANGED <<catalog, bucket, rows, saved, mem, jobs, pc, body, saver, loop, bounds>>

(* wg.Wait(), then saveSyncState iterates the map, without the lock: keys  *)
(* that workers of other goroutines add meanwhile may be visited or not.   *)
Join(t) ==
  /\ pc[t] \in RunPcs /\ todo[t] = NoList /\ Busy(t) = {}
  /\ Step(t, CASE pc[t] = "boot_run" -> "boot_save"
               [] pc[t] = "run" -> "save"
               [] pc[t] = "retry_run" -> "retry_save")
  /\ \E late \in SUBSET {p \in Pkgs : mem[p].status = "none"} :
       unsaved' = [unsaved EXCEPT ![t] = {p \in Pkgs : mem[p].status # "none"} \cup late]
  /\ UNCHANGED <<catalog, bucket, rows, saved, mem, jobs, todo, work, body, frozen, snap, loop,
                 bounds>>

Iterated(t) == IF frozen[t] THEN snap[t] ELSE mem

(* One row; an error (of a statement that may have been applied) ends it.  *)
SaveRow(t, p) ==
  /\ pc[t] \in SavePcs /\ p \in unsaved[t]
  /\ Iterated(t)[p].status # "none"
  /\ LET written == [saved EXCEPT ![p] = Iterated(t)[p]] IN
       \/ saved' = written /\ unsaved' = [unsaved EXCEPT ![t] = @ \ {p}] /\ UNCHANGED faults
       \/ saved' \in {saved, written} /\ unsaved' = [unsaved EXCEPT ![t] = {}] /\ Fault
  /\ UNCHANGED <<catalog, bucket, rows, mem, jobs, flow, frozen, snap, loop, crashes, requests>>

SaveDone(t) ==
  /\ pc[t] \in SavePcs
  /\ \A p \in unsaved[t] : Iterated(t)[p].status = "none"
  /\ unsaved' = [unsaved EXCEPT ![t] = {}]
  /\ frozen' = [frozen EXCEPT ![t] = FALSE]
  /\ snap' = [snap EXCEPT ![t] = NoMap]
  /\ \/ pc[t] = "boot_save" /\ Return(t, "get")
     \/ pc[t] = "save" /\ Step(t, "scan") /\ UNCHANGED jobs
     \/ pc[t] = "retry_save" /\ Return(t, "rest")
  /\ UNCHANGED <<catalog, bucket, rows, saved, mem, todo, work, body, loop, bounds>>

-----------------------------------------------------------------------------
(* The environment: upstream publishes, the bucket loses an object, the    *)
(* process dies and is started again.                                      *)
Publish(p) ==
  /\ p \notin catalog
  /\ catalog' = catalog \cup {p}
  /\ UNCHANGED <<bucket, rows, saved, mem, jobs, flow, saver, loop, bounds>>

ObjectLost(p) ==
  /\ objects[p] # 0 /\ Cardinality(lost) < MaxLosses
  /\ objects' = [objects EXCEPT ![p] = 0]
  /\ lost' = lost \cup {p}
  /\ UNCHANGED <<catalog, meta, rows, saved, mem, jobs, flow, saver, loop, bounds>>

Crash ==
  /\ crashes < MaxCrashes /\ crashes' = crashes + 1
  /\ mem' = NoMap /\ jobs' = {}
  /\ pc' = [t \in Threads |-> IF t = Cron THEN "boot_load" ELSE "off"]
  /\ todo' = [t \in Threads |-> NoList]
  /\ work' = [t \in Threads |-> [p \in Pkgs |-> "idle"]]
  /\ body' = [t \in Threads |-> [p \in Pkgs |-> 0]]
  /\ unsaved' = [t \in Threads |-> {}] /\ frozen' = [t \in Threads |-> FALSE]
  /\ snap' = [t \in Threads |-> NoMap]
  /\ left' = [t \in Threads |-> {}] /\ listed' = [t \in Threads |-> NoSizes]
  /\ cur' = [t \in Threads |-> NoRow] /\ seen' = [t \in Threads |-> 0]
  /\ UNCHANGED <<catalog, bucket, rows, saved, faults, requests>>

-----------------------------------------------------------------------------
ThreadStep(t) ==
  \/ Tick(t)
  \/ ReadState(t) \/ ReplaceState(t)
  \/ BootGet(t) \/ BootIndex(t)
  \/ PullGet(t) \/ Plan(t)
  \/ Scan(t)
  \/ \E p \in Pkgs : Launch(t, p)
  \/ Join(t)
  \/ \E p \in Pkgs : SaveRow(t, p)
  \/ SaveDone(t)
  \/ ReconcileStep(t)

Environment ==
  \/ \E t \in Api : Trigger(t)
  \/ \E p \in Pkgs : Publish(p) \/ ObjectLost(p)
  \/ Crash

Next ==
  \/ \E t \in Threads : ThreadStep(t)
  \/ \E t \in Threads, p \in Pkgs : WorkerStep(t, p)
  \/ Environment

Spec == Init /\ [][Next]_vars

(* Calls to upstream, the bucket and the database return, the ticker ticks *)
(* and the scheduler runs every goroutine; nothing makes requests, crashes *)
(* or losses happen.  The cron clears the cached index before it pulls, and*)
(* of a catalog that has settled only the calls that were on their way     *)
(* then can write an older copy: what it reads is new again and again.     *)
Fairness ==
  /\ \A t \in Threads : WF_vars(ThreadStep(t))
  /\ \A t \in Threads, p \in Pkgs : WF_vars(WorkerStep(t, p))
  /\ SF_vars(PullGet(Cron) /\ left'[Cron] = catalog)

FairSpec == Spec /\ Fairness
=============================================================================
