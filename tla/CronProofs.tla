----------------------------- MODULE CronProofs -----------------------------
(***************************************************************************)
(* What holds of the goroutine of main as long as no API request starts    *)
(* another one: its saves are settled, and, as long as no call goes wrong, *)
(* table, bucket, map and all that the API says of them agree, and nothing *)
(* is downloaded twice.                                                    *)
(***************************************************************************)
EXTENDS SyncManagerProofs, Views, FiniteSetTheorems, WellFoundedInduction

-----------------------------------------------------------------------------
(* Without API requests: a package is "syncing" only as long as a worker   *)
(* is at it, and every worker is done when the save begins.                *)
NoneSyncing(map) == \A p \in Pkgs : map[p].status # "syncing"
Settled ==
  /\ NoneSyncing(saved) /\ NoneSyncing(snap[Cron]) /\ ~frozen[Cron]
  /\ \A p \in Pkgs :
       /\ mem[p].status = "syncing" => work[Cron][p] \in Marking
       /\ work[Cron][p] # "idle" =>
            pc[Cron] \in RunPcs /\ p \notin todo[Cron].pri \cup todo[Cron].back
  /\ todo[Cron].pri \cap todo[Cron].back = {}
  /\ pc[Cron] # "run" => todo[Cron].back = {}

LEMMA WorkerSettled ==
  ASSUME TypeOK, Settled, NEW p \in Pkgs, WorkerStep(Cron, p)
  PROVE  Settled'
<1> USE DEF At, Goto, saver, Settled
<1>0. /\ mem \in [Pkgs -> PackageState] /\ work[Cron] \in [Pkgs -> WorkPcs] /\ Cron \in Threads
      /\ work \in [Threads -> [Pkgs -> WorkPcs]]
  BY DEF TypeOK, Threads
<1>1. UNCHANGED <<saved, snap, frozen, todo, pc>>
  BY DEF WorkerStep, FetchPackageInfo, Begin, Download, DownloadFails, Upload, UploadFails,
         Verify, VerifyFails, SavePackageMetadata, Record, StoreUpsert, StoreStatus
<1>2. work[Cron][p] # "idle"
  BY DEF WorkerStep, FetchPackageInfo, Begin, Download, DownloadFails, Upload, UploadFails,
         Verify, VerifyFails, SavePackageMetadata, Record, StoreUpsert, StoreStatus
<1>3. ASSUME NEW at, work' = [work EXCEPT ![Cron][p] = at],
             \A q \in Pkgs : q # p => mem'[q].status = mem[q].status,
             mem'[p].status = "syncing" => at \in Marking
      PROVE  Settled'
  <2>1. \A q \in Pkgs : work'[Cron][q] = IF q = p THEN at ELSE work[Cron][q]
    BY <1>0, <1>3
  <2>2. UNCHANGED <<saved, snap, frozen, todo, pc>>
    BY <1>1
  <2> QED
    BY <1>2, <1>3, <2>1, <2>2 DEF NoneSyncing
<1>4. \A status \in {"syncing", "success", "failed"}, size \in Bodies :
        mem' = Marked(p, status, size) =>
          /\ mem'[p].status = status
          /\ \A q \in Pkgs : q # p => mem'[q].status = mem[q].status
  BY MarkedFacts
<1>5. 0 \in Bodies /\ body[Cron][p] \in Bodies
  BY <1>0 DEF TypeOK, Bodies
<1>6. CASE FetchPackageInfo(Cron, p)
  <2>1. PICK at : work' = [work EXCEPT ![Cron][p] = at] /\ UNCHANGED mem
    BY <1>6 DEF FetchPackageInfo
  <2>2. mem[p].status # "syncing"
    BY <1>6 DEF FetchPackageInfo, Marking
  <2> QED
    BY <1>3, <2>1, <2>2
<1>7. CASE Begin(Cron, p)
  BY <1>3, <1>4, <1>5, <1>7 DEF Begin, Marking
<1>8. CASE DownloadFails(Cron, p) \/ UploadFails(Cron, p) \/ VerifyFails(Cron, p)
  <2>1. mem' = Marked(p, "failed", 0) /\ work' = [work EXCEPT ![Cron][p] = "idle"]
    BY <1>8 DEF DownloadFails, UploadFails, VerifyFails, GiveUp
  <2> QED
    BY <1>3, <1>4, <1>5, <2>1
<1>9. CASE Download(Cron, p) \/ Upload(Cron, p) \/ Verify(Cron, p) \/ SavePackageMetadata(Cron, p)
  <2>1. \E at \in Marking : work' = [work EXCEPT ![Cron][p] = at] /\ UNCHANGED mem
    BY <1>9 DEF Download, Upload, Verify, SavePackageMetadata, Marking
  <2> QED
    BY <1>3, <2>1
<1>10. CASE Record(Cron, p)
  BY <1>3, <1>4, <1>5, <1>10 DEF Record
<1>11. CASE StoreUpsert(Cron, p) \/ StoreStatus(Cron, p)
  <2>1. \E at : work' = [work EXCEPT ![Cron][p] = at] /\ UNCHANGED mem
    BY <1>11 DEF StoreUpsert, StoreStatus
  <2>2. mem[p].status # "syncing"
    BY <1>11 DEF StoreUpsert, StoreStatus, Marking
  <2> QED
    BY <1>3, <2>1, <2>2
<1> QED
  BY <1>6, <1>7, <1>8, <1>9, <1>10, <1>11 DEF WorkerStep

(* A step after which the workers and the map are as before.               *)
LEMMA ControlSettled ==
  ASSUME TypeOK, Settled, UNCHANGED <<saved, mem, work, snap, frozen>>,
         NEW at, pc' = [pc EXCEPT ![Cron] = at],
         \/ UNCHANGED todo
         \/ /\ \A p \in Pkgs : work[Cron][p] = "idle"
            /\ todo'[Cron].pri \cap todo'[Cron].back = {}
            /\ at # "run" => todo'[Cron].back = {},
         (\A p \in Pkgs : work[Cron][p] = "idle") \/ at = pc[Cron],
         at # "run" /\ UNCHANGED todo => todo[Cron].back = {}
  PROVE  Settled'
<1>1. pc'[Cron] = at
  BY DEF TypeOK, Threads
<1> QED
  BY <1>1 DEF Settled, NoneSyncing

LEMMA ThreadSettled ==
  ASSUME TypeOK, Settled, Api = {}, ThreadStep(Cron)
  PROVE  Settled'
<1> USE DEF Step, Return, flow, saver, loop
<1>0. /\ pc \in [Threads -> Pcs] /\ Cron \in Threads
      /\ todo \in [Threads -> [pri : SUBSET Pkgs, back : SUBSET Pkgs]]
      /\ work \in [Threads -> [Pkgs -> WorkPcs]] /\ snap \in [Threads -> [Pkgs -> PackageState]]
      /\ saved \in [Pkgs -> PackageState] /\ frozen \in [Threads -> BOOLEAN]
      /\ mem \in [Pkgs -> PackageState] /\ unsaved \in [Threads -> SUBSET Pkgs]
  BY DEF TypeOK, Threads
<1>1. Threads = {Cron}
  BY DEF Threads
<1>2. pc[Cron] \notin RunPcs => \A p \in Pkgs : work[Cron][p] = "idle"
  BY DEF Settled
<1>3. pc[Cron] # "run" => todo[Cron].back = {}
  BY DEF Settled
<1>4. \A at : UNCHANGED <<saved, mem, work, snap, frozen, todo>> /\ pc' = [pc EXCEPT ![Cron] = at]
              /\ pc[Cron] \notin RunPcs => Settled'
  <2> SUFFICES ASSUME NEW at, UNCHANGED <<saved, mem, work, snap, frozen, todo>>,
                      pc' = [pc EXCEPT ![Cron] = at], pc[Cron] \notin RunPcs
               PROVE  Settled'
    OBVIOUS
  <2>1. todo[Cron].back = {}
    BY <1>3 DEF RunPcs
  <2> QED
    BY <1>2, <2>1, ControlSettled
<1>5. CASE Tick(Cron) \/ BootGet(Cron) \/ PullGet(Cron)
  BY <1>4, <1>5 DEF Tick, BootGet, PullGet, RunPcs
<1>6. CASE ReadState(Cron)
  <2>1. /\ pc[Cron] \notin RunPcs /\ UNCHANGED <<saved, mem, work, frozen, todo>>
        /\ \E at : pc' = [pc EXCEPT ![Cron] = at]
    BY <1>6 DEF ReadState, RunPcs
  <2>2. NoneSyncing(snap'[Cron])
    <3>1. CASE UNCHANGED snap
      BY <3>1 DEF Settled, NoneSyncing
    <3>2. ASSUME NEW got, snap' = [snap EXCEPT ![Cron] =
                            [p \in Pkgs |-> IF p \in got THEN saved[p] ELSE NoState]]
          PROVE  NoneSyncing(snap'[Cron])
      BY <1>0, <3>2 DEF Settled, NoneSyncing, NoState
    <3> QED
      BY <1>6, <3>1, <3>2 DEF ReadState
  <2> QED
    BY <1>0, <1>2, <1>3, <2>1, <2>2 DEF Settled, NoneSyncing, RunPcs
<1>7. CASE ReplaceState(Cron)
  <2>1. /\ pc[Cron] \notin RunPcs \cup SavePcs /\ UNCHANGED <<saved, work, todo>>
        /\ mem' = snap[Cron] /\ \E at : pc' = [pc EXCEPT ![Cron] = at]
    BY <1>7 DEF ReplaceState, RunPcs, SavePcs
  <2>2. frozen'[Cron] = frozen[Cron] /\ snap'[Cron] = NoMap
    BY <1>0, <1>7, <2>1 DEF ReplaceState
  <2> QED
    BY <1>0, <1>2, <1>3, <2>1, <2>2 DEF Settled, NoneSyncing, NoMap, NoState, RunPcs
<1>8. CASE BootIndex(Cron)
  <2>1. PICK toSync : /\ pc[Cron] = "boot_index" /\ UNCHANGED <<saved, mem, work, snap, frozen>>
                      /\ todo' = [todo EXCEPT ![Cron].pri = toSync]
                      /\ \E at \in {"get", "boot_run"} : pc' = [pc EXCEPT ![Cron] = at]
    BY <1>8 DEF BootIndex
  <2>2. todo'[Cron].back = {}
    BY <1>0, <1>3, <2>1
  <2> QED
    BY <1>0, <1>2, <2>1, <2>2 DEF Settled, NoneSyncing, RunPcs
<1>9. CASE Plan(Cron)
  <2>1. PICK pri, back : /\ pc[Cron] = "plan" /\ UNCHANGED <<saved, mem, work, snap, frozen>>
                         /\ todo' = [todo EXCEPT ![Cron] = [pri |-> pri, back |-> back]]
                         /\ pri \cap back = {} /\ pc' = [pc EXCEPT ![Cron] = "run"]
    <3> DEFINE plan == planPriorityAndBackfill(determinePackagesToSync(left[Cron]))
    <3>1. Batch(plan.back) \subseteq plan.back
      BY DEF Batch
    <3>2. plan.pri \cap plan.back = {}
      BY DEF planPriorityAndBackfill
    <3> HIDE DEF plan
    <3>3. /\ pc[Cron] = "plan" /\ UNCHANGED <<saved, mem, work, snap, frozen>>
          /\ todo' = [todo EXCEPT ![Cron] = [pri |-> plan.pri, back |-> Batch(plan.back)]]
          /\ pc' = [pc EXCEPT ![Cron] = "run"]
      BY <1>9 DEF Plan, plan
    <3> QED
      BY <3>1, <3>2, <3>3
  <2>2. todo'[Cron].pri \cap todo'[Cron].back = {} /\ pc'[Cron] = "run"
    BY <1>0, <2>1
  <2> QED
    BY <1>0, <1>2, <2>1, <2>2 DEF Settled, NoneSyncing, RunPcs
<1>10. CASE Scan(Cron)
  <2>1. PICK pri : /\ pc[Cron] = "scan" /\ UNCHANGED <<saved, mem, work, snap, frozen>>
                   /\ todo' = [todo EXCEPT ![Cron].pri = pri]
                   /\ \E at \in {"rest", "retry_run"} : pc' = [pc EXCEPT ![Cron] = at]
    BY <1>10 DEF Scan
  <2>2. todo'[Cron].back = {}
    BY <1>0, <1>3, <2>1
  <2> QED
    BY <1>0, <1>2, <2>1, <2>2 DEF Settled, NoneSyncing, RunPcs
<1>11. ASSUME NEW p \in Pkgs, Launch(Cron, p) PROVE Settled'
  <2>1. /\ pc[Cron] \in RunPcs /\ UNCHANGED <<saved, mem, pc, snap, frozen>>
        /\ \E at : work' = [work EXCEPT ![Cron][p] = at]
    BY <1>11 DEF Launch, Goto
  <2>2. \A q \in Pkgs : q # p => work'[Cron][q] = work[Cron][q]
    BY <1>0, <2>1
  <2>3. /\ p \in todo[Cron].pri \cup todo[Cron].back
        /\ todo'[Cron].pri \cup todo'[Cron].back = (todo[Cron].pri \cup todo[Cron].back) \ {p}
        /\ todo'[Cron].pri \subseteq todo[Cron].pri /\ todo'[Cron].back \subseteq todo[Cron].back
    <3>1. CASE p \in todo[Cron].pri /\ todo' = [todo EXCEPT ![Cron].pri = @ \ {p}]
      BY <1>0, <3>1 DEF Settled
    <3>2. CASE p \in todo[Cron].back /\ todo[Cron].pri = {}
                 /\ todo' = [todo EXCEPT ![Cron].back = @ \ {p}]
      BY <1>0, <3>2
    <3> QED
      BY <1>11, <3>1, <3>2 DEF Launch
  <2>4. mem[p].status # "syncing"
    BY <2>3 DEF Settled, Marking
  <2> QED
    BY <2>1, <2>2, <2>3, <2>4 DEF Settled, NoneSyncing
<1>12. CASE Join(Cron)
  <2>1. /\ \A p \in Pkgs : work[Cron][p] = "idle"
        /\ todo[Cron].back = {} /\ UNCHANGED <<saved, mem, work, snap, frozen, todo>>
        /\ \E at : pc' = [pc EXCEPT ![Cron] = at]
    <3>1. todo[Cron] = NoList /\ Busy(Cron) = {}
      BY <1>12 DEF Join
    <3>2. \A p \in Pkgs : work[Cron][p] = "idle"
      BY <3>1 DEF Busy
    <3>3. UNCHANGED <<saved, mem, work, snap, frozen, todo>>
      BY <1>12 DEF Join
    <3>4. \E at : pc' = [pc EXCEPT ![Cron] = at]
      BY <1>12 DEF Join
    <3>5. todo[Cron].back = {}
      BY <3>1 DEF NoList
    <3> QED
      BY <3>2, <3>3, <3>4, <3>5
  <2> QED
    BY <2>1, ControlSettled
<1>13. ASSUME NEW p \in Pkgs, SaveRow(Cron, p) PROVE Settled'
  <2>1. /\ pc[Cron] \in SavePcs /\ UNCHANGED <<mem, pc, todo, work, snap, frozen>>
        /\ saved' \in {saved, [saved EXCEPT ![p] = Iterated(Cron)[p]]}
    BY <1>13 DEF SaveRow
  <2>2. \A q \in Pkgs : mem[q].status # "syncing"
    BY <1>2, <2>1 DEF Settled, SavePcs, RunPcs, Marking
  <2>3. Iterated(Cron) = mem
    BY DEF Iterated, Settled
  <2> QED
    BY <1>0, <2>1, <2>2, <2>3 DEF Settled, NoneSyncing
<1>14. CASE SaveDone(Cron)
  <2>1. /\ pc[Cron] \in SavePcs /\ UNCHANGED <<saved, mem, work, todo>>
        /\ frozen' = [frozen EXCEPT ![Cron] = FALSE] /\ snap' = [snap EXCEPT ![Cron] = NoMap]
        /\ \E at \in {"get", "scan", "rest"} : pc' = [pc EXCEPT ![Cron] = at]
    BY <1>14 DEF SaveDone
  <2>2. pc[Cron] \notin RunPcs
    BY <2>1 DEF SavePcs, RunPcs
  <2>3. ~frozen'[Cron] /\ NoneSyncing(snap'[Cron])
    BY <1>0, <2>1 DEF NoneSyncing, NoMap, NoState
  <2> QED
    BY <1>0, <1>2, <1>3, <2>1, <2>2, <2>3 DEF Settled, NoneSyncing, RunPcs
<1>15. CASE ReconcileStep(Cron)
  <2>1. /\ pc[Cron] \notin RunPcs /\ UNCHANGED <<saved, mem, work, snap, frozen, todo>>
        /\ \E at : pc' = [pc EXCEPT ![Cron] = at]
    <3>1. UNCHANGED <<saved, mem, work, snap, frozen, todo>>
      BY <1>15 DEF ReconcileStep, RecRows, RecHead, RecFix, RecList, RecHas, RecInsert, RecSource,
                   RecProbe, RecMark, RecExists, RecAdd, RecFail, Ends, RecFrame
    <3>2. pc[Cron] \notin RunPcs
      BY <1>15 DEF ReconcileStep, RecRows, RecHead, RecFix, RecList, RecHas, RecInsert, RecSource,
                   RecProbe, RecMark, RecExists, RecAdd, RecFail, Ends, RunPcs
    <3>3. pc' = pc => pc' = [pc EXCEPT ![Cron] = pc[Cron]]
      BY <1>0
    <3>4. \E at : pc' = [pc EXCEPT ![Cron] = at]
      BY <1>15, <3>3 DEF ReconcileStep, RecRows, RecHead, RecFix, RecList, RecHas, RecInsert,
                   RecSource, RecProbe, RecMark, RecExists, RecAdd, RecFail, Ends, Begins, NextItem
    <3> QED
      BY <3>1, <3>2, <3>4
  <2> QED
    BY <1>4, <2>1
<1> QED
  BY <1>5, <1>6, <1>7, <1>8, <1>9, <1>10, <1>11, <1>12, <1>13, <1>14, <1>15 DEF ThreadStep

LEMMA EnvironmentSettled ==
  ASSUME TypeOK, Settled, Api = {}, Environment
  PROVE  Settled'
<1>1. CASE \E t \in Api : Trigger(t)
  BY <1>1
<1>2. CASE \E p \in Pkgs : Publish(p) \/ ObjectLost(p)
  BY <1>2 DEF Publish, ObjectLost, Settled, NoneSyncing, flow, saver
<1>3. CASE Crash
  <2>1. /\ pc'[Cron] = "boot_load" /\ todo'[Cron] = NoList /\ mem' = NoMap /\ saved' = saved
        /\ snap'[Cron] = NoMap /\ frozen'[Cron] = FALSE
        /\ work'[Cron] = [p \in Pkgs |-> "idle"]
    BY <1>3 DEF Crash, Threads
  <2> QED
    BY <2>1 DEF Settled, NoneSyncing, NoMap, NoState, NoList
<1> QED
  BY <1>1, <1>2, <1>3 DEF Environment

LEMMA SettledInvariance == Spec => [](Api = {} => Settled)
<1>1. Init => Settled
  <2> SUFFICES ASSUME Init PROVE Settled
    OBVIOUS
  <2>1. /\ pc[Cron] = "boot_load" /\ todo[Cron] = NoList /\ mem = NoMap /\ saved = NoMap
        /\ snap[Cron] = NoMap /\ frozen[Cron] = FALSE
        /\ work[Cron] = [p \in Pkgs |-> "idle"]
    BY DEF Init, Threads
  <2> QED
    BY <2>1 DEF Settled, NoneSyncing, NoMap, NoState, NoList
<1>2. TypeOK /\ (Api = {} => Settled) /\ [Next]_vars => (Api = {} => Settled)'
  <2> SUFFICES ASSUME TypeOK, Settled, [Next]_vars, Api = {} PROVE Settled'
    OBVIOUS
  <2>0. Threads = {Cron}
    BY DEF Threads
  <2>1. CASE \E t \in Threads : ThreadStep(t)
    BY <2>0, <2>1, ThreadSettled
  <2>2. CASE \E t \in Threads, p \in Pkgs : WorkerStep(t, p)
    BY <2>0, <2>2, WorkerSettled
  <2>3. CASE Environment
    BY <2>3, EnvironmentSettled
  <2>4. CASE UNCHANGED vars
    BY <2>4 DEF vars, flow, saver, Settled, NoneSyncing
  <2> QED
    BY <2>1, <2>2, <2>3, <2>4 DEF Next
<1> QED
  BY <1>1, <1>2, TypeCorrect, PTL DEF Spec

(* Without goroutines of API requests, no save persists "syncing", however *)
(* many calls fail and whenever the process dies.                          *)
THEOREM SavedStaysSettled == Spec => [](Api = {} => SavedSettled)
<1>1. Settled => SavedSettled
  BY DEF Settled, NoneSyncing, SavedSettled
<1> QED
  BY <1>1, SettledInvariance, PTL

-----------------------------------------------------------------------------
(* Agreement is preserved: one lemma for the workers, one for the loops of *)
(* Reconcile, one for the other steps of the goroutine, one for what       *)
(* happens around it.                                                      *)
Alone == Threads = {Cron} /\ faults = 0 /\ faults' = 0
Context == TypeInv /\ Backed /\ Listed /\ Settled

LEMMA NoFault ==
  ASSUME Alone
  PROVE  ~Fault
BY DEF Alone, Fault

(* What the worker of p leaves alone.                                      *)
LEMMA WorkerFrame ==
  ASSUME TypeInv, Alone, NEW p \in Pkgs, WorkerStep(Cron, p)
  PROVE  /\ UNCHANGED <<catalog, saved, snap, pc, todo, left, cur, seen, unsaved, crashes>>
         /\ \A q \in Pkgs \ {p} :
              /\ objects'[q] = objects[q] /\ rows'[q] = rows[q] /\ mem'[q] = mem[q]
              /\ work'[Cron][q] = work[Cron][q] /\ body'[Cron][q] = body[Cron][q]
<1> USE DEF At, Goto, saver, loop, bounds, bucket, flow
<1>1. UNCHANGED <<catalog, saved, snap, pc, todo, left, cur, seen, unsaved, crashes>>
  BY DEF WorkerStep, FetchPackageInfo, Begin, Download, DownloadFails, Upload, UploadFails,
         Verify, VerifyFails, SavePackageMetadata, Record, StoreUpsert, StoreStatus
<1>2. \A q \in Pkgs \ {p} : work'[Cron][q] = work[Cron][q] /\ body'[Cron][q] = body[Cron][q]
  <2>1. \E at : work' = [work EXCEPT ![Cron][p] = at]
    BY DEF WorkerStep, FetchPackageInfo, Begin, Download, DownloadFails, Upload, UploadFails, GiveUp,
           Verify, VerifyFails, SavePackageMetadata, Record, StoreUpsert, StoreStatus
  <2>2. UNCHANGED body \/ \E size : body' = [body EXCEPT ![Cron][p] = size]
    BY DEF WorkerStep, FetchPackageInfo, Begin, Download, DownloadFails, Upload, UploadFails, GiveUp,
           Verify, VerifyFails, SavePackageMetadata, Record, StoreUpsert, StoreStatus
  <2> QED
    BY <2>1, <2>2 DEF TypeInv, TypeOK, Threads
<1>3. \A q \in Pkgs \ {p} : objects'[q] = objects[q]
  <2>1. UNCHANGED objects \/ \E size : objects' = [objects EXCEPT ![p] = size]
    BY DEF WorkerStep, FetchPackageInfo, Begin, Download, DownloadFails, Upload, UploadFails,
           Verify, VerifyFails, SavePackageMetadata, Record, StoreUpsert, StoreStatus
  <2> QED
    BY <2>1 DEF TypeInv, TypeOK
<1>4. \A q \in Pkgs \ {p} : mem'[q] = mem[q]
  <2>1. UNCHANGED mem \/ \E status, size : mem' = Marked(p, status, size)
    BY DEF WorkerStep, FetchPackageInfo, Begin, Download, DownloadFails, Upload, UploadFails, GiveUp,
           Verify, VerifyFails, SavePackageMetadata, Record, StoreUpsert, StoreStatus
  <2> QED
    BY <2>1 DEF Marked, TypeInv, TypeOK
<1>5. \A q \in Pkgs \ {p} : rows'[q] = rows[q]
  <2>1. UNCHANGED rows \/ \E status, size : rows' \in {UpsertPackageVersion(p, status, size),
                                                      UpdateVersionStatus(p, status, size)}
    BY DEF WorkerStep, FetchPackageInfo, Begin, Download, DownloadFails, Upload, UploadFails,
           Verify, VerifyFails, SavePackageMetadata, Record, StoreUpsert, StoreStatus, Exec
  <2>2. Pkgs \subseteq RowKeys
    BY ConstantsAssumption DEF ConstantsAssumption
  <2> QED
    BY <2>1, <2>2 DEF UpsertPackageVersion, UpdateVersionStatus, TypeInv, TypeOK
<1> QED
  BY <1>1, <1>2, <1>3, <1>4, <1>5

(* What a worker does to its own package when no call goes wrong: the      *)
(* steps that it then takes, in their order.                               *)
Moves(p, from, to) == work[Cron][p] = from /\ work'[Cron][p] = to
Keeps(p) == objects'[p] = objects[p] /\ rows'[p] = rows[p] /\ mem'[p] = mem[p]
WorkerMoves(p) ==
  \/ Moves(p, "fetch", "idle") /\ Keeps(p)
  \/ /\ Moves(p, "mark", "download") /\ objects'[p] = objects[p] /\ rows'[p] = rows[p]
     /\ mem'[p].status = "syncing"
  \/ Moves(p, "download", "upload") /\ Keeps(p) /\ p \notin Dead
  \/ /\ Moves(p, "download", "idle") /\ objects'[p] = objects[p] /\ rows'[p] = rows[p]
     /\ p \in Dead /\ mem'[p].status = "failed"
  \/ /\ Moves(p, "upload", "verify") /\ rows'[p] = rows[p] /\ mem'[p] = mem[p]
     /\ body'[Cron][p] = body[Cron][p] /\ objects'[p] = body[Cron][p]
  \/ /\ \E to \in {"meta", "record"} :
          work[Cron][p] \in {"verify", "meta"} /\ work'[Cron][p] = to
     /\ Keeps(p) /\ body'[Cron][p] = body[Cron][p]
  \/ /\ Moves(p, "record", "upsert") /\ objects'[p] = objects[p] /\ rows'[p] = rows[p]
     /\ body'[Cron][p] = body[Cron][p]
     /\ mem'[p].status = "success" /\ mem'[p].size = body[Cron][p]
  \/ /\ Moves(p, "upsert", "status") /\ objects'[p] = objects[p] /\ mem'[p] = mem[p]
     /\ body'[Cron][p] = body[Cron][p] /\ rows'[p].status = ""
  \/ /\ Moves(p, "status", "idle") /\ objects'[p] = objects[p] /\ mem'[p] = mem[p]
     /\ rows'[p] = [status |-> "success", size |-> body[Cron][p]]

LEMMA WorkerAdvances ==
  ASSUME TypeInv, Alone, WorkersAgree, NEW p \in Pkgs, WorkerStep(Cron, p)
  PROVE  WorkerMoves(p)
<1> USE DEF At, Goto, bucket, flow
<1>0. /\ work \in [Threads -> [Pkgs -> WorkPcs]] /\ body \in [Threads -> [Pkgs -> Bodies]]
      /\ objects \in [Pkgs -> Bodies] /\ rows \in [RowKeys -> Row] /\ mem \in [Pkgs -> PackageState]
      /\ Cron \in Threads /\ p \in RowKeys
  BY ConstantsAssumption DEF ConstantsAssumption, TypeInv, TypeOK, Threads
<1>1. ~Fault
  BY NoFault
<1>2. \A status, size : mem' = Marked(p, status, size) =>
        mem'[p].status = status /\ (status = "success" => mem'[p].size = size)
  BY <1>0 DEF Marked
<1>3. \A to : work' = [work EXCEPT ![Cron][p] = to] => work'[Cron][p] = to
  BY <1>0
<1>4. CASE FetchPackageInfo(Cron, p)
  <2>1. \A q \in Pkgs : Sscanf(p) # Ident(q)
    BY ConstantsAssumption DEF ConstantsAssumption, Sscanf, Ident
  <2>2. catalog \subseteq Pkgs
    BY DEF TypeInv, TypeOK
  <2> QED
    BY <1>3, <1>4, <2>1, <2>2 DEF FetchPackageInfo, WorkerMoves, Moves, Keeps
<1>5. CASE Begin(Cron, p)
  BY <1>2, <1>3, <1>5 DEF Begin, WorkerMoves, Moves, Keeps
<1>6. CASE Download(Cron, p)
  BY <1>3, <1>6 DEF Download, WorkerMoves, Moves, Keeps
<1>7. CASE DownloadFails(Cron, p)
  BY <1>1, <1>2, <1>3, <1>7 DEF DownloadFails, GiveUp, WorkerMoves, Moves, Keeps
<1>8. CASE Upload(Cron, p)
  BY <1>0, <1>3, <1>8 DEF Upload, WorkerMoves, Moves, Keeps
<1>9. CASE UploadFails(Cron, p) \/ VerifyFails(Cron, p)
  BY <1>1, <1>9 DEF UploadFails, VerifyFails, WorkersAgree, WorkerAgrees, AfterUpload
<1>10. CASE Verify(Cron, p) \/ SavePackageMetadata(Cron, p)
  BY <1>3, <1>10 DEF Verify, SavePackageMetadata, WorkerMoves, Moves, Keeps
<1>11. CASE Record(Cron, p)
  BY <1>2, <1>3, <1>11 DEF Record, WorkerMoves, Moves, Keeps
<1>12. CASE StoreUpsert(Cron, p)
  <2>1. rows' = [rows EXCEPT ![p] = [status |-> "", size |-> body[Cron][p]]]
    BY <1>1, <1>12 DEF StoreUpsert, Exec, UpsertPackageVersion
  <2> QED
    BY <1>0, <1>3, <1>12, <2>1 DEF StoreUpsert, WorkerMoves, Moves
<1>13. CASE StoreStatus(Cron, p)
  <2>1. rows' = [rows EXCEPT ![p] = [status |-> "success", size |-> body[Cron][p]]]
    BY <1>1, <1>13 DEF StoreStatus, Exec, UpdateVersionStatus, UpsertPackageVersion, WorkersAgree,
                        WorkerAgrees
  <2> QED
    BY <1>0, <1>3, <1>13, <2>1 DEF StoreStatus, WorkerMoves, Moves
<1> QED
  BY <1>4, <1>5, <1>6, <1>7, <1>8, <1>9, <1>10, <1>11, <1>12, <1>13 DEF WorkerStep

(* The parts of Agreement, while no call has gone wrong.                   *)
Agreeing ==
  /\ WorkersAgree /\ ObjectsListed /\ OnlyDeadFail /\ RowsAgree /\ MapsAgree
  /\ crashes < 2 => SizesAgree
  /\ crashes = 0 => FirstLife
  /\ NothingWaits => AllPlanned

LEMMA WorkerKeepsAgreement ==
  ASSUME Context, Alone, Agreeing, NEW p \in Pkgs, WorkerStep(Cron, p)
  PROVE  Agreeing'
<1> USE DEF Moves, Keeps
<1>0. TypeInv /\ Backed /\ Listed /\ Settled /\ TypeOK /\ Cron \in Threads
  BY DEF Context, TypeInv, Threads
<1>1. /\ UNCHANGED <<catalog, saved, snap, pc, todo, left, cur, seen, unsaved, crashes>>
      /\ \A q \in Pkgs \ {p} :
           /\ objects'[q] = objects[q] /\ rows'[q] = rows[q] /\ mem'[q] = mem[q]
           /\ work'[Cron][q] = work[Cron][q] /\ body'[Cron][q] = body[Cron][q]
  BY <1>0, WorkerFrame
<1>2. WorkerMoves(p)
  BY <1>0, WorkerAdvances DEF Agreeing
<1>3. /\ pc[Cron] \in RunPcs /\ ~Queued(p) /\ p \in catalog
      /\ work[Cron][p] = "upload" => body[Cron][p] # 0
  BY <1>0, <1>2 DEF Settled, Queued, Listed, WorkListed, Backed, WorkersBacked, WorkerMoves
<1>4. WorkerAgrees(p, work[Cron][p])
  BY DEF Agreeing, WorkersAgree
<1>5. WorkersAgree'
  <2> SUFFICES ASSUME NEW q \in Pkgs PROVE WorkerAgrees(q, work[Cron][q])'
    BY DEF WorkersAgree
  <2>1. CASE q # p
    BY <1>1, <2>1 DEF Agreeing, WorkersAgree, WorkerAgrees
  <2>2. CASE q = p
    BY <1>1, <1>2, <1>4, <2>2 DEF WorkerAgrees, WorkerMoves, AfterUpload, Marking
  <2> QED
    BY <2>1, <2>2
<1>6. ObjectsListed'
  BY <1>1, <1>2, <1>3, <1>4 DEF Agreeing, ObjectsListed, WorkerAgrees, WorkerMoves, AfterUpload
<1>7. OnlyDeadFail'
  BY <1>1, <1>2 DEF Agreeing, OnlyDeadFail, WorkerMoves
<1>8. RowsAgree'
  <2>1. pc[Cron] \notin ProbePcs \cup Booting
    BY <1>3 DEF RunPcs, ProbePcs, Booting, RecPcs
  <2>2. \A q \in Pkgs : work[Cron][q] \notin AfterUpload => InRow(q)
    BY <2>1 DEF Agreeing, RowsAgree
  <2>3. ASSUME NEW q \in Pkgs, work'[Cron][q] \notin AfterUpload PROVE InRow(q)'
    <3>1. CASE q # p
      BY <1>1, <2>2, <2>3, <3>1 DEF InRow
    <3>2. CASE q = p
      <4>1. work[Cron][p] \notin AfterUpload => InRow(p)
        BY <2>2
      <4> QED
        BY <1>2, <1>4, <2>3, <3>2, <4>1 DEF InRow, WorkerMoves, WorkerAgrees, AfterUpload
    <3> QED
      BY <3>1, <3>2
  <2>4. pc'[Cron] = pc[Cron]
    BY <1>1
  <2> QED
    BY <2>1, <2>3, <2>4 DEF RowsAgree, ProbePcs, Booting, RecPcs
<1>9. MapsAgree'
  <2>1. pc[Cron] \in {"boot_run", "run", "retry_run"} /\ pc'[Cron] = pc[Cron]
    BY <1>1, <1>3 DEF RunPcs
  <2>2. ASSUME pc[Cron] = "boot_run", NEW q \in Pkgs, mem'[q].status = "none"
        PROVE  saved'[q].status = "none"
    <3>1. mem[q].status = "none"
      BY <1>1, <1>2, <2>2 DEF WorkerMoves
    <3> QED
      BY <1>1, <2>2, <3>1 DEF Agreeing, MapsAgree
  <2>3. ASSUME pc[Cron] = "run", NEW q \in Pkgs,
               Queued(q)' \/ work'[Cron][q] \in {"mark", "download", "upload"}
        PROVE  saved'[q].status # "success"
    <3>1. Queued(q) \/ work[Cron][q] \in {"mark", "download", "upload"}
      BY <1>1, <1>2, <2>3 DEF WorkerMoves, Queued
    <3> QED
      BY <1>1, <2>3, <3>1 DEF Agreeing, MapsAgree
  <2> QED
    BY <1>1, <2>1, <2>2, <2>3 DEF Agreeing, MapsAgree, RecPcs
<1>10. ASSUME crashes < 2 PROVE SizesAgree'
  <2> SUFFICES ASSUME NEW q \in Pkgs
               PROVE  /\ Sized(mem, q)' /\ Sized(snap[Cron], q)'
                      /\ \/ Sized(saved, q)'
                         \/ crashes' = 1 /\ pc'[Cron] = "boot_run" /\ mem'[q].status # "none"
                         \/ crashes' = 1 /\ pc'[Cron] = "boot_save" /\ q \in unsaved'[Cron]
    BY DEF SizesAgree
  <2>1. /\ Sized(mem, q) /\ Sized(snap[Cron], q)
        /\ \/ Sized(saved, q)
           \/ crashes = 1 /\ pc[Cron] = "boot_run" /\ mem[q].status # "none"
           \/ crashes = 1 /\ pc[Cron] = "boot_save" /\ q \in unsaved[Cron]
    BY <1>10 DEF Agreeing, SizesAgree
  <2>2. CASE q # p
    BY <1>1, <2>1, <2>2 DEF Sized
  <2>3. CASE q = p
    <3>1. Sized(mem, p)'
      BY <1>1, <1>2, <1>4, <2>1, <2>3 DEF Sized, WorkerMoves, WorkerAgrees, Marking, AfterUpload
    <3>2. Sized(snap[Cron], p)'
      BY <1>1, <1>3, <2>3 DEF Agreeing, MapsAgree, RunPcs, Sized, NoMap, NoState
    <3>3. CASE work[Cron][p] # "upload"
      BY <1>1, <1>2, <2>1, <2>3, <3>1, <3>2, <3>3 DEF Sized, WorkerMoves
    <3>4. CASE work[Cron][p] = "upload" /\ pc[Cron] = "boot_run"
      <4>1. mem'[p].status # "none"
        BY <1>2, <1>4, <3>4 DEF WorkerMoves, WorkerAgrees, Marking
      <4>2. crashes = 0 => saved'[p].status # "success"
        BY <1>1, <3>4 DEF Agreeing, FirstLife
      <4>3. crashes \in Nat
        BY <1>0 DEF TypeOK
      <4> QED
        BY <1>1, <1>10, <2>3, <3>1, <3>2, <3>4, <4>1, <4>2, <4>3 DEF Sized
    <3>5. CASE work[Cron][p] = "upload" /\ pc[Cron] = "run"
      <4>1. saved'[p].status # "success"
        BY <1>1, <3>5 DEF Agreeing, MapsAgree
      <4> QED
        BY <2>3, <3>1, <3>2, <4>1 DEF Sized
    <3> QED
      BY <1>3, <1>4, <3>3, <3>4, <3>5 DEF RunPcs, WorkerAgrees
  <2> QED
    BY <2>2, <2>3
<1>11. ASSUME crashes = 0 PROVE FirstLife'
  <2> DEFINE Part(q) ==
        /\ pc[Cron] \in Booting => objects[q] = 0
        /\ pc[Cron] \in Booting \cup {"boot_run"} => saved[q].status = "none"
        /\ Queued(q) \/ work[Cron][q] \in {"fetch", "mark", "download", "upload"} => objects[q] = 0
        /\ objects[q] # 0 =>
             /\ work[Cron][q] \in {"verify", "meta", "record"} \/ mem[q].status = "success"
             /\ \/ pc[Cron] \in {"boot_run", "run"} \/ saved[q].status = "success"
                \/ pc[Cron] \in SavePcs /\ q \in unsaved[Cron]
  <2>1. \A q \in Pkgs : Part(q)
    BY <1>11 DEF Agreeing, FirstLife
  <2>2. ASSUME NEW q \in Pkgs PROVE Part(q)'
    <3>1. CASE q # p
      BY <1>1, <2>1, <3>1 DEF Queued
    <3>2. CASE q = p
      <4>1. Part(p) /\ pc[Cron] \notin Booting
        BY <1>3, <2>1 DEF RunPcs, Booting, RecPcs
      <4>2. work[Cron][p] # "fetch" => pc[Cron] \in {"boot_run", "run"}
        BY <1>2, <1>3, <1>4 DEF RunPcs, WorkerAgrees, WorkerMoves
      <4> QED
        BY <1>1, <1>2, <1>3, <1>4, <3>2, <4>1, <4>2 DEF WorkerMoves, Queued
    <3> QED
      BY <3>1, <3>2
  <2> QED
    BY <2>2 DEF FirstLife
<1>12. ASSUME NothingWaits PROVE AllPlanned'
  <2> SUFFICES ASSUME NEW q \in Pkgs, objects'[q] # 0, pc'[Cron] \in RunPcs
               PROVE  /\ pc[Cron] = "run" =>
                           mem'[q].status = "success" \/ Queued(q)' \/ work'[Cron][q] # "idle"
                      /\ pc[Cron] = "retry_run" => mem'[q].status = "success"
    BY <1>1, <1>3 DEF AllPlanned, RunPcs
  <2>1. objects[q] # 0 =>
          /\ pc[Cron] = "run" => mem[q].status = "success" \/ Queued(q) \/ work[Cron][q] # "idle"
          /\ pc[Cron] = "retry_run" => mem[q].status = "success"
    BY <1>12 DEF Agreeing, AllPlanned
  <2>2. CASE q # p
    BY <1>1, <2>1, <2>2 DEF Queued
  <2>3. CASE q = p
    <3>1. objects[p] # 0 => p \notin Dead
      BY DEF Agreeing, ObjectsListed
    <3> QED
      BY <1>1, <1>2, <1>3, <1>4, <2>1, <2>3, <3>1 DEF WorkerMoves, WorkerAgrees, AfterUpload
  <2> QED
    BY <2>2, <2>3
<1> QED
  BY <1>1, <1>5, <1>6, <1>7, <1>8, <1>9, <1>10, <1>11, <1>12 DEF Agreeing, NothingWaits

(* The loops of Reconcile change the rows only, and the last one puts each *)
(* of them right: what it has not yet visited is still on its list, and    *)
(* what it writes is the size that the bucket answers.                     *)
LEMMA ReconcileKeepsAgreement ==
  ASSUME Context, Alone, Agreeing, Api = {}, ReconcileStep(Cron)
  PROVE  Agreeing'
<1> USE DEF Step
<1>0. /\ TypeInv /\ Settled /\ Cron \in Threads
      /\ pc \in [Threads -> Pcs] /\ left \in [Threads -> SUBSET RowKeys]
      /\ cur \in [Threads -> RowKeys \cup {NoRow}] /\ seen \in [Threads -> Heads]
      /\ objects \in [Pkgs -> Bodies] /\ rows \in [RowKeys -> Row]
      /\ Pkgs \subseteq RowKeys /\ catalog \subseteq Pkgs
  BY ConstantsAssumption DEF ConstantsAssumption, Context, TypeInv, TypeOK, Threads
<1>1. ~Fault
  BY NoFault
<1>2. UNCHANGED <<catalog, objects, saved, mem, todo, work, body, unsaved, snap, crashes>>
  BY DEF ReconcileStep, RecRows, RecHead, RecFix, RecList, RecHas, RecInsert, RecSource,
         RecProbe, RecMark, RecExists, RecAdd, RecFail, Ends, RecFrame, bucket, saver
<1>3. pc[Cron] \in RecPcs
  BY DEF ReconcileStep, RecRows, RecHead, RecFix, RecList, RecHas, RecInsert, RecSource,
         RecProbe, RecMark, RecExists, RecAdd, RecFail, Ends, RecPcs
<1>4. \A at : pc' = [pc EXCEPT ![Cron] = at] => pc'[Cron] = at
  BY <1>0
<1>5. /\ pc'[Cron] \in RecPcs \cup {"boot_get"}
      /\ RowsAgree'
  <2>1. CASE RecRows(Cron) \/ RecHead(Cron) \/ RecFix(Cron) \/ Ends(Cron, "rec_head", "rec_list")
    <3>1. pc'[Cron] \in {"rec_head", "rec_fix", "rec_list"}
      BY <1>1, <1>4, <2>1 DEF RecRows, RecHead, RecFix, Ends, Begins, NextItem
    <3> QED
      BY <3>1 DEF RowsAgree, Booting, RecPcs, ProbePcs
  <2>2. CASE RecList(Cron) \/ RecHas(Cron) \/ RecInsert(Cron) \/ Ends(Cron, "rec_has", "rec_source")
    <3>1. pc'[Cron] \in {"rec_has", "rec_insert", "rec_source"}
      BY <1>1, <1>4, <2>2 DEF RecList, RecHas, RecInsert, Ends, Begins, NextItem
    <3> QED
      BY <3>1 DEF RowsAgree, Booting, RecPcs, ProbePcs
  <2>3. CASE RecSource(Cron)
    <3>1. pc'[Cron] = "rec_probe" /\ Known \subseteq left'[Cron]
      BY <1>0, <1>1, <1>4, <2>3 DEF RecSource, Get, Begins
    <3>2. \A q \in Pkgs \ left'[Cron] : objects[q] = 0
      BY <3>1 DEF Agreeing, ObjectsListed, Known
    <3> QED
      BY <1>2, <3>1, <3>2 DEF RowsAgree, InRow, Booting, RecPcs, ProbePcs
  <2>4. CASE RecProbe(Cron)
    <3>1. PICK p \in Pkgs : Takes(Cron, p) /\ GetFileInfo(Cron, p)
      BY <2>4 DEF RecProbe
    <3>2. /\ left'[Cron] = left[Cron] \ {p} /\ cur'[Cron] = p /\ seen'[Cron] = objects[p]
          /\ UNCHANGED rows /\ pc[Cron] = "rec_probe"
          /\ pc'[Cron] = IF seen'[Cron] # 0 THEN "rec_mark" ELSE "rec_exists"
      BY <1>0, <1>1, <1>4, <2>4, <3>1 DEF RecProbe, Takes, GetFileInfo
    <3>3. \A q \in Pkgs \ left[Cron] : InRow(q)
      BY <3>2 DEF Agreeing, RowsAgree, ProbePcs
    <3>4. \A q \in Pkgs \ left'[Cron] : q # cur'[Cron] => InRow(q)'
      BY <1>2, <3>2, <3>3 DEF InRow
    <3> QED
      BY <1>2, <3>2, <3>4 DEF RowsAgree, Booting, RecPcs, ProbePcs
  <2>5. CASE RecMark(Cron) \/ RecAdd(Cron) \/ RecFail(Cron)
    <3>1. /\ pc[Cron] \in {"rec_mark", "rec_add", "rec_fail"} /\ cur[Cron] \in Pkgs
          /\ pc'[Cron] = "rec_probe" /\ left'[Cron] = left[Cron]
      BY <1>0, <1>4, <2>5 DEF RecMark, RecAdd, RecFail, NextItem, TypeInv, LoopTyped
    <3>2. PICK c \in Pkgs : c = cur[Cron]
      BY <3>1
    <3>3. \A q \in RowKeys : q # c => rows'[q] = rows[q]
      BY <1>0, <1>1, <2>5, <3>2
         DEF RecMark, RecAdd, RecFail, Exec, UpsertPackageVersion, UpdateVersionStatus
    <3>4. pc[Cron] = "rec_mark" => rows'[c] = [status |-> "success", size |-> Actual(seen[Cron])]
      BY <1>0, <1>1, <2>5, <3>2 DEF RecMark, RecAdd, RecFail, Exec, UpsertPackageVersion
    <3>5. InRow(c)'
      <4>1. objects[c] # NoLength
        <5>1. Bodies \subseteq Nat
          BY ConstantsAssumption DEF ConstantsAssumption, Bodies
        <5> QED
          BY <1>0, <5>1 DEF NoLength
      <4>2. objects[c] # 0 => pc[Cron] = "rec_mark" /\ Actual(seen[Cron]) = objects[c]
        BY <3>1, <3>2, <4>1 DEF Agreeing, RowsAgree, Actual
      <4> QED
        BY <1>2, <3>4, <4>2 DEF InRow
    <3>6. \A q \in Pkgs \ left[Cron] : q # c => InRow(q)
      BY <3>1, <3>2 DEF Agreeing, RowsAgree, ProbePcs
    <3>7. ASSUME NEW q \in Pkgs \ left'[Cron] PROVE InRow(q)'
      <4>1. CASE q = c
        BY <3>5, <4>1
      <4>2. CASE q # c
        BY <1>0, <1>2, <3>1, <3>3, <3>6, <4>2 DEF InRow
      <4> QED
        BY <4>1, <4>2
    <3> QED
      BY <3>1, <3>7 DEF RowsAgree, Booting, RecPcs, ProbePcs
  <2>6. CASE RecExists(Cron)
    <3>1. /\ pc[Cron] = "rec_exists" /\ pc'[Cron] \in {"rec_add", "rec_fail"}
          /\ UNCHANGED <<rows, left, cur, seen>>
      BY <1>4, <2>6 DEF RecExists, loop
    <3>2. /\ objects[cur[Cron]] = 0
          /\ \A q \in Pkgs \ left[Cron] : q # cur[Cron] => InRow(q)
      BY <3>1 DEF Agreeing, RowsAgree, ProbePcs
    <3> QED
      BY <1>2, <3>1, <3>2 DEF RowsAgree, InRow, Booting, RecPcs, ProbePcs
  <2>7. CASE Ends(Cron, "rec_probe", AfterReconcile(Cron))
    <3>1. /\ pc[Cron] = "rec_probe" /\ left[Cron] = {} /\ pc'[Cron] = "boot_get" /\ UNCHANGED rows
      BY <1>4, <2>7, ConstantsAssumption DEF ConstantsAssumption, Ends, Begins, AfterReconcile
    <3>2. \A q \in Pkgs : InRow(q)
      BY <3>1 DEF Agreeing, RowsAgree, ProbePcs
    <3> QED
      BY <1>2, <3>1, <3>2 DEF RowsAgree, InRow, Booting, RecPcs, ProbePcs
  <2>8. pc'[Cron] \in RecPcs \cup {"boot_get"}
    BY <1>1, <1>4, ConstantsAssumption
       DEF ConstantsAssumption, ReconcileStep, RecRows, RecHead, RecFix, RecList, RecHas, RecInsert,
           RecSource, RecProbe, RecMark, RecExists, RecAdd, RecFail, Ends, Begins, NextItem, RecPcs,
           AfterReconcile
  <2> QED
    BY <2>1, <2>2, <2>3, <2>4, <2>5, <2>6, <2>7, <2>8 DEF ReconcileStep
<1>6. \A p \in Pkgs : work[Cron][p] = "idle"
  BY <1>0, <1>3 DEF Settled, RecPcs, RunPcs
<1>7. WorkersAgree' /\ ObjectsListed' /\ OnlyDeadFail' /\ MapsAgree'
  BY <1>2, <1>3, <1>5, <1>6
     DEF Agreeing, WorkersAgree, WorkerAgrees, Marking, AfterUpload, ObjectsListed, OnlyDeadFail,
         MapsAgree, SameStatus, RecPcs
<1>8. ASSUME crashes < 2 PROVE SizesAgree'
  BY <1>2, <1>3, <1>8 DEF Agreeing, SizesAgree, Sized, RecPcs
<1>9. ASSUME crashes = 0 PROVE FirstLife'
  BY <1>2, <1>3, <1>5, <1>9 DEF Agreeing, FirstLife, Queued, Booting, RecPcs, SavePcs
<1>10. AllPlanned'
  BY <1>5 DEF AllPlanned, RecPcs
<1> QED
  BY <1>2, <1>5, <1>7, <1>8, <1>9, <1>10 DEF Agreeing

(* Between two runs of the workers: no worker is at anything, and no map   *)
(* is held but by a load.                                                  *)
LEMMA Calm ==
  ASSUME Context, Alone, Agreeing, pc[Cron] \notin RunPcs
  PROVE  /\ \A p \in Pkgs : work[Cron][p] = "idle"
         /\ UNCHANGED work => WorkersAgree'
         /\ todo[Cron].back = {}
         /\ pc[Cron] \notin Booting \ {"boot_get", "boot_index"} => \A p \in Pkgs : InRow(p)
<1>1. \A p \in Pkgs : work[Cron][p] = "idle"
  BY DEF Context, Settled
<1>2. UNCHANGED work => WorkersAgree'
  BY <1>1 DEF WorkersAgree, WorkerAgrees, Marking, AfterUpload
<1>3. todo[Cron].back = {}
  BY DEF Context, Settled, RunPcs
<1> QED
  BY <1>1, <1>2, <1>3 DEF Agreeing, RowsAgree, AfterUpload

(* The ticker and the two requests for the index.                          *)
LEMMA GetKeepsAgreement ==
  ASSUME Context, Alone, Agreeing, Api = {}, Tick(Cron) \/ BootGet(Cron) \/ PullGet(Cron)
  PROVE  Agreeing'
<1> USE DEF Step
<1>0. pc \in [Threads -> Pcs] /\ left \in [Threads -> SUBSET RowKeys] /\ Cron \in Threads
  BY DEF Context, TypeInv, TypeOK, Threads
<1>1. ~Fault
  BY NoFault
<1>2. /\ UNCHANGED <<catalog, objects, rows, saved, mem, todo, work, body, unsaved, snap, crashes>>
      /\ \/ pc[Cron] = "rest" /\ pc'[Cron] = "get"
         \/ pc[Cron] = "boot_get" /\ pc'[Cron] = "boot_index"
         \/ pc[Cron] = "get" /\ pc'[Cron] = "load" /\ Known \subseteq left'[Cron]
  BY <1>0, <1>1 DEF Tick, BootGet, PullGet, Get, bucket, saver, bounds
<1>3. /\ UNCHANGED work => WorkersAgree'
      /\ \A p \in Pkgs : work[Cron][p] = "idle"
      /\ \A p \in Pkgs : InRow(p)
  BY <1>2, Calm DEF RunPcs, Booting, RecPcs
<1>4. WorkersAgree' /\ ObjectsListed' /\ OnlyDeadFail'
  BY <1>2, <1>3 DEF Agreeing, ObjectsListed, OnlyDeadFail
<1>5. RowsAgree'
  BY <1>2, <1>3 DEF RowsAgree, InRow, ProbePcs
<1>6. MapsAgree'
  BY <1>2 DEF Agreeing, MapsAgree, SameStatus, RecPcs
<1>7. crashes < 2 => SizesAgree'
  BY <1>2 DEF Agreeing, SizesAgree, Sized
<1>8. crashes = 0 => FirstLife'
  BY <1>2, <1>3 DEF Agreeing, FirstLife, Queued, Booting, RecPcs, SavePcs
<1>9. AllPlanned'
  BY <1>2 DEF Agreeing, AllPlanned, ObjectsListed, Known
<1> QED
  BY <1>2, <1>4, <1>5, <1>6, <1>7, <1>8, <1>9 DEF Agreeing

(* The two steps of a load.                                                *)
LEMMA LoadKeepsAgreement ==
  ASSUME Context, Alone, Agreeing, Api = {}, ReadState(Cron) \/ ReplaceState(Cron)
  PROVE  Agreeing'
<1> USE DEF Step
<1>0. /\ pc \in [Threads -> Pcs] /\ snap \in [Threads -> [Pkgs -> PackageState]]
      /\ mem \in [Pkgs -> PackageState] /\ saved \in [Pkgs -> PackageState]
      /\ Cron \in Threads /\ Threads = {Cron}
  BY DEF Context, TypeInv, TypeOK, Threads
<1>1. ~Fault
  BY NoFault
<1>2. UNCHANGED <<catalog, objects, rows, saved, todo, work, body, unsaved, left, crashes>>
  BY DEF ReadState, ReplaceState, bucket, loop, bounds
<1>3. /\ UNCHANGED work => WorkersAgree'
      /\ \A p \in Pkgs : work[Cron][p] = "idle"
      /\ pc[Cron] \in {"load", "swap"} => \A p \in Pkgs : InRow(p)
  BY Calm DEF ReadState, ReplaceState, RunPcs, Booting, RecPcs
<1>4. CASE ReadState(Cron)
  <2>1. /\ UNCHANGED mem
        /\ \/ pc[Cron] = "boot_load" /\ pc'[Cron] = "boot_swap"
           \/ pc[Cron] = "load" /\ pc'[Cron] = "swap"
    BY <1>0, <1>1, <1>4 DEF ReadState
  <2>2. \A p \in Pkgs : /\ snap'[Cron][p].status = saved[p].status
                        /\ snap'[Cron][p].status # "none" => snap'[Cron][p] = saved[p]
    <3> DEFINE present == {p \in Pkgs : saved[p].status # "none"}
    <3>1. snap' = [snap EXCEPT ![Cron] = [p \in Pkgs |-> IF p \in present THEN saved[p] ELSE NoState]]
      BY <1>1, <1>4 DEF ReadState
    <3>2. \A p \in Pkgs : snap'[Cron][p] = IF p \in present THEN saved[p] ELSE NoState
      BY <1>0, <3>1
    <3> QED
      BY <3>2 DEF NoState
  <2>3. WorkersAgree' /\ ObjectsListed' /\ OnlyDeadFail'
    BY <1>2, <1>3, <2>1, <2>2 DEF Agreeing, ObjectsListed, OnlyDeadFail
  <2>4. RowsAgree'
    BY <1>2, <1>3, <2>1 DEF RowsAgree, InRow, ProbePcs, Booting, RecPcs
  <2>5. MapsAgree'
    BY <1>2, <2>1, <2>2 DEF MapsAgree, SameStatus, RecPcs
  <2>6. crashes < 2 => SizesAgree'
    BY <1>2, <2>1, <2>2 DEF Agreeing, SizesAgree, Sized
  <2>7. crashes = 0 => FirstLife'
    BY <1>2, <2>1 DEF Agreeing, FirstLife, Queued, Booting, RecPcs, SavePcs
  <2>8. NothingWaits => AllPlanned'
    BY <1>2, <2>1 DEF Agreeing, AllPlanned
  <2> QED
    BY <1>2, <2>3, <2>4, <2>5, <2>6, <2>7, <2>8 DEF Agreeing
<1>5. CASE ReplaceState(Cron)
  <2>1. /\ mem' = snap[Cron] /\ snap'[Cron] = NoMap
        /\ \/ pc[Cron] = "boot_swap" /\ pc'[Cron] = "rec_rows"
           \/ pc[Cron] = "swap" /\ pc'[Cron] = "plan"
    BY <1>0, <1>5 DEF ReplaceState
  <2>2. \A p \in Pkgs : mem'[p].status = saved[p].status /\ NoMap[p].status = "none"
    BY <2>1 DEF Agreeing, MapsAgree, SameStatus, NoMap, NoState
  <2>3. WorkersAgree' /\ ObjectsListed' /\ OnlyDeadFail'
    BY <1>2, <1>3, <2>1, <2>2 DEF Agreeing, ObjectsListed, OnlyDeadFail
  <2>4. RowsAgree'
    BY <1>2, <1>3, <2>1 DEF RowsAgree, InRow, ProbePcs, Booting, RecPcs
  <2>5. MapsAgree'
    BY <1>2, <2>1, <2>2 DEF MapsAgree, SameStatus, RecPcs
  <2>6. crashes < 2 => SizesAgree'
    BY <1>2, <2>1, <2>2 DEF Agreeing, SizesAgree, Sized
  <2>7. crashes = 0 => FirstLife'
    BY <1>2, <1>3, <2>1, <2>2 DEF Agreeing, FirstLife, Queued, Booting, RecPcs, SavePcs
  <2>8. NothingWaits => AllPlanned'
    BY <1>2, <2>1 DEF Agreeing, AllPlanned
  <2> QED
    BY <1>2, <2>3, <2>4, <2>5, <2>6, <2>7, <2>8 DEF Agreeing
<1> QED
  BY <1>4, <1>5

(* The three plans: what is missing, what the state does not know, what    *)
(* has failed.                                                             *)
LEMMA PlanKeepsAgreement ==
  ASSUME Context, Alone, Agreeing, Api = {}, BootIndex(Cron) \/ Plan(Cron) \/ Scan(Cron)
  PROVE  Agreeing'
<1> USE DEF Step, Return
<1>0. /\ pc \in [Threads -> Pcs] /\ mem \in [Pkgs -> PackageState]
      /\ todo \in [Threads -> [pri : SUBSET Pkgs, back : SUBSET Pkgs]] /\ Cron \in Threads
  BY DEF Context, TypeInv, TypeOK, Threads
<1>1. UNCHANGED <<catalog, objects, rows, saved, mem, work, body, unsaved, snap, crashes>>
  BY DEF BootIndex, Plan, Scan, bucket, saver, bounds
<1>2. /\ WorkersAgree' /\ todo[Cron].back = {}
      /\ \A p \in Pkgs : work[Cron][p] = "idle"
      /\ \A p \in Pkgs : InRow(p)
  BY <1>1, Calm DEF BootIndex, Plan, Scan, RunPcs, Booting, RecPcs
<1>3. ObjectsListed' /\ OnlyDeadFail'
  BY <1>1 DEF Agreeing, ObjectsListed, OnlyDeadFail
<1>4. CASE BootIndex(Cron)
  <2>1. /\ pc[Cron] = "boot_index" /\ pc'[Cron] \in {"get", "boot_run"}
    BY <1>0, <1>4 DEF BootIndex
  <2>2. RowsAgree'
    BY <1>1, <1>2, <2>1 DEF RowsAgree, InRow, ProbePcs
  <2>3. MapsAgree'
    BY <1>1, <2>1 DEF Agreeing, MapsAgree, SameStatus, RecPcs
  <2>4. crashes < 2 => SizesAgree'
    BY <1>1, <2>1 DEF Agreeing, SizesAgree, Sized
  <2>5. crashes = 0 => FirstLife'
    BY <1>1, <1>2, <2>1 DEF Agreeing, FirstLife, Booting, RecPcs, SavePcs
  <2>6. AllPlanned'
    BY <2>1 DEF AllPlanned
  <2> QED
    BY <1>1, <1>2, <1>3, <2>2, <2>3, <2>4, <2>5, <2>6 DEF Agreeing
<1>5. CASE Plan(Cron)
  <2> DEFINE missing == determinePackagesToSync(left[Cron])
             plan == planPriorityAndBackfill(missing)
  <2>1. /\ pc[Cron] = "plan" /\ pc'[Cron] = "run"
        /\ todo'[Cron].pri = plan.pri /\ todo'[Cron].back = Batch(plan.back)
    BY <1>0, <1>5 DEF Plan
  <2>2. plan.pri \cup plan.back = missing /\ Batch(plan.back) \subseteq plan.back
    <3>1. plan.pri \cup plan.back = missing
      BY DEF planPriorityAndBackfill
    <3>2. \A back : Batch(back) \subseteq back
      BY DEF Batch
    <3> QED
      BY <3>1, <3>2
  <2>3. \A p \in Pkgs : Queued(p)' => p \in missing
    BY <2>1, <2>2 DEF Queued
  <2>4. \A p \in Pkgs : p \in missing <=> p \in left[Cron] /\ mem[p].status \in {"none", "failed"}
    <3>1. \A p \in Pkgs : mem[p].status # "pending"
      BY <1>0 DEF PackageState
    <3> QED
      BY <3>1 DEF determinePackagesToSync
  <2>5. NothingWaits => \A p \in missing : Queued(p)'
    <3>1. missing \in SUBSET Pkgs
      BY <1>0, <2>1 DEF determinePackagesToSync, LoopTyped, Context, TypeInv
    <3>2. NothingWaits => Batch(plan.back) = plan.back
      BY <3>1 DEF NothingWaits
    <3> QED
      BY <2>1, <2>2, <3>2 DEF Queued
  <2> HIDE DEF missing, plan
  <2>6. RowsAgree'
    BY <1>1, <1>2, <2>1 DEF RowsAgree, InRow, ProbePcs, Booting, RecPcs
  <2>7. MapsAgree'
    BY <1>1, <1>2, <2>1, <2>3, <2>4 DEF Agreeing, MapsAgree, SameStatus, RecPcs
  <2>8. crashes < 2 => SizesAgree'
    BY <1>1, <2>1 DEF Agreeing, SizesAgree, Sized
  <2>9. crashes = 0 => FirstLife'
    BY <1>1, <1>2, <2>1, <2>3, <2>4 DEF Agreeing, FirstLife, Booting, RecPcs, SavePcs
  <2>10. NothingWaits => AllPlanned'
    <3>1. \A p \in Pkgs : mem[p].status \in {"none", "success", "failed"}
      BY <1>0, <1>2 DEF PackageState, Context, Settled, Marking
    <3> QED
      BY <1>1, <2>1, <2>4, <2>5, <3>1 DEF Agreeing, AllPlanned
  <2> QED
    BY <1>1, <1>2, <1>3, <2>6, <2>7, <2>8, <2>9, <2>10 DEF Agreeing
<1>6. CASE Scan(Cron)
  <2>1. /\ pc[Cron] = "scan" /\ pc'[Cron] \in {"rest", "retry_run"}
        /\ todo'[Cron].pri = Failed /\ todo'[Cron].back = {}
    BY <1>0, <1>2, <1>6 DEF Scan
  <2>2. \A p \in Pkgs : Queued(p)' => objects[p] = 0
    BY <2>1 DEF Queued, Failed, Agreeing, OnlyDeadFail, ObjectsListed
  <2>3. RowsAgree'
    BY <1>1, <1>2, <2>1 DEF RowsAgree, InRow, ProbePcs
  <2>4. MapsAgree'
    BY <1>1, <2>1 DEF Agreeing, MapsAgree, SameStatus, RecPcs
  <2>5. crashes < 2 => SizesAgree'
    BY <1>1, <2>1 DEF Agreeing, SizesAgree, Sized
  <2>6. crashes = 0 => FirstLife'
    BY <1>1, <1>2, <2>1, <2>2 DEF Agreeing, FirstLife, Booting, RecPcs, SavePcs
  <2>7. NothingWaits => AllPlanned'
    BY <1>1, <2>1 DEF Agreeing, AllPlanned
  <2> QED
    BY <1>1, <1>2, <1>3, <2>3, <2>4, <2>5, <2>6, <2>7 DEF Agreeing
<1> QED
  BY <1>4, <1>5, <1>6

(* A package goes from the list to a worker.                               *)
LEMMA LaunchKeepsAgreement ==
  ASSUME Context, Alone, Agreeing, NEW p \in Pkgs, Launch(Cron, p)
  PROVE  Agreeing'
<1> DEFINE at == IF pc[Cron] = "retry_run" THEN "fetch" ELSE "mark"
<1>0. /\ todo \in [Threads -> [pri : SUBSET Pkgs, back : SUBSET Pkgs]] /\ Cron \in Threads
      /\ work \in [Threads -> [Pkgs -> WorkPcs]]
  BY DEF Context, TypeInv, TypeOK, Threads
<1>1. /\ UNCHANGED <<catalog, objects, rows, saved, mem, pc, body, unsaved, snap, left, cur, seen, crashes>>
      /\ pc[Cron] \in RunPcs
  BY DEF Launch, bucket, saver, loop, bounds
<1>2. \A q \in Pkgs : work'[Cron][q] = IF q = p THEN at ELSE work[Cron][q]
  BY <1>0 DEF Launch, Goto
<1>3. Queued(p) /\ \A q \in Pkgs : Queued(q)' => Queued(q)
  BY <1>0 DEF Launch, Queued
<1>4. \A q \in Pkgs : q # p => (Queued(q)' <=> Queued(q))
  <2>1. CASE todo' = [todo EXCEPT ![Cron].pri = @ \ {p}]
    BY <1>0, <2>1 DEF Queued
  <2>2. CASE todo' = [todo EXCEPT ![Cron].back = @ \ {p}]
    BY <1>0, <2>2 DEF Queued
  <2> QED
    BY <2>1, <2>2 DEF Launch
<1>5. work[Cron][p] = "idle"
  BY <1>3 DEF Queued, Context, Settled
<1>6. pc[Cron] \notin Booting /\ pc[Cron] \notin ProbePcs /\ pc[Cron] \notin SavePcs
  BY <1>1 DEF RunPcs, Booting, ProbePcs, RecPcs, SavePcs
<1>7. WorkersAgree'
  BY <1>1, <1>2 DEF Agreeing, WorkersAgree, WorkerAgrees, Marking, AfterUpload
<1>8. ObjectsListed' /\ OnlyDeadFail'
  BY <1>1 DEF Agreeing, ObjectsListed, OnlyDeadFail
<1>9. RowsAgree'
  <2>1. \A q \in Pkgs : work'[Cron][q] \notin AfterUpload => InRow(q)
    BY <1>2, <1>5, <1>6 DEF Agreeing, RowsAgree, AfterUpload
  <2> QED
    BY <1>1, <1>6, <2>1 DEF RowsAgree, InRow, ProbePcs, Booting, RecPcs
<1>10. MapsAgree'
  BY <1>1, <1>2, <1>3 DEF Agreeing, MapsAgree, RunPcs, RecPcs, SameStatus
<1>11. crashes < 2 => SizesAgree'
  BY <1>1 DEF Agreeing, SizesAgree, Sized
<1>12. ASSUME crashes = 0 PROVE FirstLife'
  BY <1>1, <1>2, <1>3, <1>6, <1>12 DEF Agreeing, FirstLife
<1>13. NothingWaits => AllPlanned'
  BY <1>1, <1>2, <1>3, <1>4 DEF Agreeing, AllPlanned, RunPcs
<1> QED
  BY <1>1, <1>7, <1>8, <1>9, <1>10, <1>11, <1>12, <1>13 DEF Agreeing

(* The save: every success of the map is on its list, and written.         *)
LEMMA SaveKeepsAgreement ==
  ASSUME Context, Alone, Agreeing, Api = {},
         Join(Cron) \/ (\E p \in Pkgs : SaveRow(Cron, p)) \/ SaveDone(Cron)
  PROVE  Agreeing'
<1> USE DEF Step, Return
<1>0. /\ pc \in [Threads -> Pcs] /\ mem \in [Pkgs -> PackageState] /\ Cron \in Threads
      /\ saved \in [Pkgs -> PackageState] /\ unsaved \in [Threads -> SUBSET Pkgs]
      /\ snap \in [Threads -> [Pkgs -> PackageState]]
  BY DEF Context, TypeInv, TypeOK, Threads
<1>1. UNCHANGED <<catalog, objects, rows, mem, work, body, todo, crashes>>
  BY DEF Join, SaveRow, SaveDone, bucket, bounds, flow
<1>2. \A p \in Pkgs : work[Cron][p] = "idle"
  BY DEF Join, Busy, SaveRow, SaveDone, Context, Settled, SavePcs, RunPcs
<1>3. pc[Cron] \in RunPcs \cup SavePcs /\ snap[Cron] = NoMap
  BY DEF Join, SaveRow, SaveDone, Agreeing, MapsAgree, SavePcs, RunPcs
<1>4. /\ \A p \in Pkgs : InRow(p)
      /\ crashes = 0 => \A p \in Pkgs : objects[p] # 0 => mem[p].status = "success"
  BY <1>2, <1>3 DEF Agreeing, RowsAgree, FirstLife, SavePcs, RunPcs, Booting, RecPcs, AfterUpload
<1>5. pc[Cron] \in SavePcs => Iterated(Cron) = mem
  BY DEF Iterated, Context, Settled
<1>6. pc'[Cron] \notin RunPcs => WorkersAgree'
  BY <1>1, <1>2 DEF WorkersAgree, WorkerAgrees, Marking, AfterUpload
<1>7. ObjectsListed'
  BY <1>1 DEF Agreeing, ObjectsListed
<1>8. CASE Join(Cron)
  <2>1. /\ UNCHANGED <<saved, snap>>
        /\ \/ pc[Cron] = "boot_run" /\ pc'[Cron] = "boot_save"
           \/ pc[Cron] = "run" /\ pc'[Cron] = "save"
           \/ pc[Cron] = "retry_run" /\ pc'[Cron] = "retry_save"
        /\ \A p \in Pkgs : ~Queued(p)
        /\ \A p \in Pkgs : mem[p].status # "none" => p \in unsaved'[Cron]
    BY <1>0, <1>8 DEF Join, RunPcs, Queued, NoList
  <2>2. WorkersAgree' /\ OnlyDeadFail'
    BY <1>1, <1>6, <2>1 DEF RunPcs, Agreeing, OnlyDeadFail
  <2>3. RowsAgree'
    BY <1>1, <1>4, <2>1 DEF RowsAgree, InRow, ProbePcs
  <2>4. MapsAgree'
    BY <1>1, <2>1 DEF Agreeing, MapsAgree, RecPcs
  <2>5. crashes < 2 => SizesAgree'
    BY <1>1, <2>1 DEF Agreeing, SizesAgree, Sized
  <2>6. crashes = 0 => FirstLife'
    BY <1>1, <1>2, <1>4, <2>1 DEF Agreeing, FirstLife, Queued, Booting, RecPcs, SavePcs
  <2>7. NothingWaits => AllPlanned'
    BY <1>1, <1>2, <2>1 DEF Agreeing, AllPlanned
  <2> QED
    BY <1>1, <1>7, <2>2, <2>3, <2>4, <2>5, <2>6, <2>7 DEF Agreeing
<1>9. ASSUME NEW p \in Pkgs, SaveRow(Cron, p) PROVE Agreeing'
  <2>1. /\ UNCHANGED <<pc, snap>> /\ pc[Cron] \in SavePcs /\ mem[p].status # "none"
        /\ saved' = [saved EXCEPT ![p] = mem[p]] /\ unsaved' = [unsaved EXCEPT ![Cron] = @ \ {p}]
    BY <1>5, <1>9, NoFault DEF SaveRow, flow
  <2>2. /\ \A q \in Pkgs : saved'[q] = IF q = p THEN mem[p] ELSE saved[q]
        /\ unsaved'[Cron] = unsaved[Cron] \ {p}
    BY <1>0, <2>1
  <2>3. WorkersAgree' /\ OnlyDeadFail'
    BY <1>1, <1>6, <2>1, <2>2 DEF SavePcs, RunPcs, Agreeing, OnlyDeadFail
  <2>4. RowsAgree'
    BY <1>1, <1>4, <2>1 DEF RowsAgree, InRow, ProbePcs, SavePcs
  <2>5. MapsAgree'
    BY <1>1, <2>1, <2>2 DEF Agreeing, MapsAgree, RecPcs, SavePcs
  <2>6. crashes < 2 => SizesAgree'
    BY <1>1, <2>1, <2>2 DEF Agreeing, SizesAgree, Sized
  <2>7. crashes = 0 => FirstLife'
    BY <1>1, <1>4, <2>1, <2>2 DEF Agreeing, FirstLife, Queued, Booting, RecPcs, SavePcs
  <2>8. NothingWaits => AllPlanned'
    BY <1>1, <2>1 DEF Agreeing, AllPlanned, SavePcs
  <2> QED
    BY <1>1, <1>7, <2>3, <2>4, <2>5, <2>6, <2>7, <2>8 DEF Agreeing
<1>10. CASE SaveDone(Cron)
  <2>1. /\ UNCHANGED saved /\ pc[Cron] \in SavePcs /\ snap'[Cron] = NoMap
        /\ \/ pc[Cron] = "boot_save" /\ pc'[Cron] = "get"
           \/ pc[Cron] = "save" /\ pc'[Cron] = "scan"
           \/ pc[Cron] = "retry_save" /\ pc'[Cron] = "rest"
        /\ \A p \in unsaved[Cron] : mem[p].status = "none"
    BY <1>0, <1>5, <1>10 DEF SaveDone
  <2>2. WorkersAgree' /\ OnlyDeadFail'
    BY <1>1, <1>3, <1>6, <2>1 DEF RunPcs, Agreeing, OnlyDeadFail
  <2>3. RowsAgree'
    BY <1>1, <1>4, <2>1 DEF RowsAgree, InRow, ProbePcs
  <2>4. MapsAgree'
    BY <1>1, <2>1 DEF Agreeing, MapsAgree, RecPcs
  <2>5. crashes < 2 => SizesAgree'
    <3>1. \A p \in Pkgs : pc[Cron] = "boot_save" /\ p \in unsaved[Cron] => Sized(saved, p)
      BY <2>1 DEF Agreeing, MapsAgree, Sized
    <3> QED
      BY <1>1, <1>3, <2>1, <3>1 DEF Agreeing, SizesAgree, Sized
  <2>6. crashes = 0 => FirstLife'
    BY <1>1, <1>4, <2>1 DEF Agreeing, FirstLife, Queued, Booting, RecPcs, SavePcs
  <2>7. NothingWaits => AllPlanned'
    BY <1>1, <2>1 DEF Agreeing, AllPlanned
  <2> QED
    BY <1>1, <1>7, <2>2, <2>3, <2>4, <2>5, <2>6, <2>7 DEF Agreeing
<1> QED
  BY <1>8, <1>9, <1>10

(* Upstream, the losses of the bucket, and a restart with an empty map.    *)
LEMMA EnvironmentKeepsAgreement ==
  ASSUME Context, Alone, Agreeing, Api = {}, Environment
  PROVE  Agreeing'
<1>0. /\ objects \in [Pkgs -> Bodies] /\ Cron \in Threads /\ crashes \in Nat
  BY DEF Context, TypeInv, TypeOK, Threads
<1>1. ASSUME NEW p \in Pkgs, Publish(p) \/ ObjectLost(p)
      PROVE  Agreeing'
  <2>1. /\ UNCHANGED <<rows, saved, mem, flow, saver, loop, crashes>> /\ catalog \subseteq catalog'
        /\ \A q \in Pkgs : objects'[q] \in {0, objects[q]}
    BY <1>0, <1>1 DEF Publish, ObjectLost, bucket, bounds
  <2>2. WorkersAgree' /\ ObjectsListed' /\ OnlyDeadFail'
    BY <2>1 DEF Agreeing, WorkersAgree, WorkerAgrees, ObjectsListed, OnlyDeadFail, flow, saver
  <2>3. /\ \A q \in Pkgs : InRow(q) => InRow(q)'
        /\ \A q \in Pkgs : (objects[q] = 0 => objects'[q] = 0)
        /\ UNCHANGED <<pc, left, cur, seen, work>>
    BY <2>1 DEF InRow, flow, loop
  <2>4. RowsAgree'
    <3>1. pc[Cron] \in {"rec_mark", "rec_exists", "rec_add", "rec_fail"} => cur[Cron] \in Pkgs
      BY <1>0 DEF Context, TypeInv, LoopTyped
    <3>2. pc[Cron] = "rec_mark" => objects'[cur[Cron]] \in {0, seen[Cron]}
      BY <2>1, <3>1 DEF Agreeing, RowsAgree
    <3>3. pc[Cron] \in {"rec_exists", "rec_add", "rec_fail"} => objects'[cur[Cron]] = 0
      BY <2>3, <3>1 DEF Agreeing, RowsAgree
    <3>4. pc[Cron] \in ProbePcs =>
            \A q \in Pkgs \ left[Cron] : pc[Cron] = "rec_probe" \/ q # cur[Cron] => InRow(q)'
      BY <2>3 DEF Agreeing, RowsAgree
    <3>5. pc[Cron] \notin Booting \ {"boot_get", "boot_index"} =>
            \A q \in Pkgs : work[Cron][q] \notin AfterUpload => InRow(q)'
      BY <2>3 DEF Agreeing, RowsAgree
    <3> QED
      BY <2>3, <3>2, <3>3, <3>4, <3>5 DEF RowsAgree
  <2>5. MapsAgree'
    BY <2>1 DEF Agreeing, MapsAgree, SameStatus, Queued, flow, saver
  <2>6. crashes < 2 => SizesAgree'
    BY <2>1 DEF Agreeing, SizesAgree, Sized, flow, saver
  <2>7. crashes = 0 => FirstLife'
    BY <2>1 DEF Agreeing, FirstLife, Queued, flow, saver
  <2>8. NothingWaits => AllPlanned'
    BY <2>1 DEF Agreeing, AllPlanned, Queued, flow, saver, loop
  <2> QED
    BY <2>1, <2>2, <2>4, <2>5, <2>6, <2>7, <2>8 DEF Agreeing
<1>2. CASE Crash
  <2>1. /\ UNCHANGED <<catalog, objects, saved>> /\ crashes' = crashes + 1
        /\ mem' = NoMap /\ snap'[Cron] = NoMap /\ pc'[Cron] = "boot_load"
        /\ \A p \in Pkgs : work'[Cron][p] = "idle" /\ NoMap[p] = NoState
    BY <1>2 DEF Crash, Threads, NoMap, bucket
  <2>2. WorkersAgree' /\ ObjectsListed' /\ OnlyDeadFail'
    BY <2>1 DEF Agreeing, WorkersAgree, WorkerAgrees, Marking, AfterUpload, ObjectsListed,
                OnlyDeadFail, NoState
  <2>3. RowsAgree' /\ MapsAgree' /\ AllPlanned'
    BY <2>1 DEF RowsAgree, MapsAgree, AllPlanned, Booting, ProbePcs, RecPcs
  <2>4. crashes' < 2 => SizesAgree'
    BY <1>0, <2>1 DEF Agreeing, SizesAgree, Sized, NoState
  <2>5. crashes' # 0
    BY <1>0, <2>1
  <2> QED
    BY <2>2, <2>3, <2>4, <2>5 DEF Agreeing
<1> QED
  BY <1>1, <1>2 DEF Environment

(* Failed calls are only ever counted up.                                  *)
LEMMA FaultsCount ==
  ASSUME TypeOK, [Next]_vars, faults' = 0
  PROVE  faults = 0
<1>0. faults \in Nat /\ (Fault => faults' # 0)
  BY DEF TypeOK, Fault
<1>1. ASSUME NEW t \in Threads, ThreadStep(t) PROVE faults = 0
  <2>1. CASE ReconcileStep(t)
    BY <1>0, <2>1 DEF ReconcileStep, RecRows, RecHead, RecFix, RecList, RecHas, RecInsert, RecSource,
         RecProbe, RecMark, RecExists, RecAdd, RecFail, Ends, Exec, GetFileInfo, Get
  <2>2. CASE ~ReconcileStep(t)
    BY <1>0, <1>1, <2>2 DEF ThreadStep, Tick, ReadState, ReplaceState, BootGet, BootIndex, PullGet, Plan,
         Scan, Launch, Join, SaveRow, SaveDone, Get, bounds
  <2> QED
    BY <2>1, <2>2
<1>2. ASSUME NEW t \in Threads, NEW p \in Pkgs, WorkerStep(t, p) PROVE faults = 0
  BY <1>0, <1>2 DEF WorkerStep, FetchPackageInfo, Begin, Download, DownloadFails, Upload, UploadFails,
         Verify, VerifyFails, SavePackageMetadata, Record, StoreUpsert, StoreStatus, Exec, Get, bounds
<1>3. CASE Environment
  BY <1>0, <1>3 DEF Environment, Trigger, Publish, ObjectLost, Crash, bounds
<1> QED
  BY <1>1, <1>2, <1>3 DEF Next, vars, bounds

LEMMA StartsAgreeing == Init => Agreeing
<1> SUFFICES ASSUME Init PROVE Agreeing
  OBVIOUS
<1>1. /\ mem = NoMap /\ saved = NoMap /\ snap[Cron] = NoMap /\ pc[Cron] = "boot_load"
      /\ todo[Cron] = NoList /\ \A p \in Pkgs : ~Queued(p)
      /\ \A p \in Pkgs : work[Cron][p] = "idle" /\ objects[p] = 0 /\ NoMap[p] = NoState
  BY DEF Init, Threads, NoMap, Queued, NoList
<1>2. WorkersAgree /\ ObjectsListed /\ OnlyDeadFail
  BY <1>1 DEF WorkersAgree, WorkerAgrees, Marking, AfterUpload, ObjectsListed, OnlyDeadFail, NoState
<1>3. RowsAgree /\ MapsAgree /\ AllPlanned
  BY <1>1 DEF RowsAgree, MapsAgree, AllPlanned, Booting, ProbePcs, RecPcs
<1>4. SizesAgree /\ FirstLife
  BY <1>1 DEF SizesAgree, Sized, FirstLife, NoState
<1> QED
  BY <1>2, <1>3, <1>4 DEF Agreeing

LEMMA NextKeepsAgreement ==
  ASSUME Context, Agreement, Api = {}, [Next]_vars
  PROVE  Agreement'
<1> SUFFICES ASSUME faults' = 0 PROVE Agreeing'
  BY DEF Agreement, Agreeing
<1>1. Alone /\ Agreeing
  BY FaultsCount DEF Alone, Threads, Agreement, Agreeing, Context, TypeInv
<1>2. CASE \E t \in Threads : ThreadStep(t)
  <2>1. ThreadStep(Cron)
    BY <1>1, <1>2 DEF Alone
  <2> QED
    BY <1>1, <2>1, GetKeepsAgreement, LoadKeepsAgreement, PlanKeepsAgreement, LaunchKeepsAgreement,
       SaveKeepsAgreement, ReconcileKeepsAgreement DEF ThreadStep
<1>3. CASE \E t \in Threads, p \in Pkgs : WorkerStep(t, p)
  BY <1>1, <1>3, WorkerKeepsAgreement DEF Alone
<1>4. CASE Environment
  BY <1>1, <1>4, EnvironmentKeepsAgreement
<1>5. CASE UNCHANGED vars
  <2>1. UNCHANGED <<catalog, objects, rows, saved, mem, pc, todo, work, body, unsaved, snap, left,
                    cur, seen, crashes>>
    BY <1>5 DEF vars, bucket, flow, saver, loop, bounds
  <2>2. /\ UNCHANGED WorkersAgree /\ UNCHANGED ObjectsListed /\ UNCHANGED OnlyDeadFail
        /\ UNCHANGED RowsAgree /\ UNCHANGED MapsAgree /\ UNCHANGED SizesAgree
        /\ UNCHANGED FirstLife /\ UNCHANGED AllPlanned /\ UNCHANGED crashes
    BY <2>1 DEF WorkersAgree, WorkerAgrees, ObjectsListed, OnlyDeadFail, RowsAgree, InRow, MapsAgree,
                SameStatus, SizesAgree, Sized, FirstLife, AllPlanned, Queued
  <2> QED
    BY <1>1, <2>2 DEF Agreeing
<1> QED
  BY <1>2, <1>3, <1>4, <1>5 DEF Next

(* Without API requests, and until a call goes wrong: workers, map, table, *)
(* saved state and bucket stay in step, through publications, losses and   *)
(* crashes.                                                                *)
THEOREM StaysAgreed == Spec => [](Api = {} => Agreement)
<1>1. Init => Agreement
  BY StartsAgreeing DEF Agreement, Agreeing
<1> DEFINE Shown == TypeInv /\ Backed /\ Listed /\ (Api = {} => Settled)
<1>2. Shown /\ (Api = {} => Agreement) /\ [Next]_vars => (Api = {} => Agreement)'
  BY NextKeepsAgreement DEF Context
<1> QED
  BY <1>1, <1>2, TypeInvariance, BackedInvariance, ListedInvariance, SettledInvariance, PTL DEF Spec

(* Between two pulls, the row of every object advertises it, and so does   *)
(* the sync state, except after a crash as IndexAgrees says.               *)
THEOREM IndexStaysInStep == Spec => [](Api = {} => IndexAgrees)
<1>1. Agreement /\ Settled => IndexAgrees
  <2> SUFFICES ASSUME Agreeing, Settled, pc[Cron] = "rest", NEW p \in Pkgs, objects[p] # 0
               PROVE  /\ rows[p] = [status |-> "success", size |-> objects[p]]
                      /\ crashes = 0 \/ NothingWaits => mem[p].status = "success"
                      /\ crashes < 2 /\ mem[p].status = "success" => mem[p].size = objects[p]
    BY DEF IndexAgrees, Agreement, Agreeing
  <2>1. work[Cron][p] = "idle"
    BY DEF Settled, RunPcs
  <2>2. rows[p] = [status |-> "success", size |-> objects[p]]
    BY <2>1 DEF Agreeing, RowsAgree, InRow, Booting, RecPcs, AfterUpload
  <2>3. crashes = 0 \/ NothingWaits => mem[p].status = "success"
    BY <2>1 DEF Agreeing, FirstLife, AllPlanned
  <2>4. crashes < 2 /\ mem[p].status = "success" => mem[p].size = objects[p]
    BY DEF Agreeing, SizesAgree, Sized
  <2> QED
    BY <2>2, <2>3, <2>4
<1> QED
  BY <1>1, StaysAgreed, SettledInvariance, PTL

(* README.md:10: until a call goes wrong or the process dies, nothing is   *)
(* downloaded whose object is already there.                               *)
THEOREM NothingDownloadedTwice ==
  ASSUME Api = {}
  PROVE  Spec => DownloadedOnce
<1>1. Agreement =>
        [\A t \in Threads, p \in Pkgs :
           Download(t, p) /\ faults = 0 /\ crashes = 0 => objects[p] = 0]_vars
  <2> SUFFICES ASSUME Agreement, NEW t \in Threads, NEW p \in Pkgs,
                      Download(t, p), faults = 0, crashes = 0
               PROVE  objects[p] = 0
    OBVIOUS
  <2>1. t = Cron
    BY DEF Threads
  <2> QED
    BY <2>1 DEF Agreement, FirstLife, Download, At
<1>2. (Api = {} => Agreement) => Agreement
  OBVIOUS
<1> QED
  BY <1>1, <1>2, StaysAgreed, PTL DEF DownloadedOnce

-----------------------------------------------------------------------------
(* What was never stored has size 0 in its row, and in what a Reconcile    *)
(* has read, whatever the faults.                                          *)
NoSize(r) == rows[r].size = 0 /\ \A t \in Threads : listed[t][r] = 0
OnlyStoredSized == \A r \in RowKeys : Stored(ObjectOf[r]) \/ NoSize(r)

LEMMA StoredKept ==
  ASSUME IInv, [Next]_vars
  PROVE  \A p \in Pkgs : Stored(p) => Stored(p)'
<1> USE DEF bucket, flow, saver, loop, bounds
<1>a. TypeOK /\ WorkersBacked
  BY DEF IInv, Backed, TypeInv
<1>1. CASE UNCHANGED <<objects, lost>>
  BY <1>1 DEF Stored
<1>2. ASSUME NEW p \in Pkgs, objects' = [objects EXCEPT ![p] = 0], lost' = lost \cup {p}
      PROVE  \A q \in Pkgs : Stored(q) => Stored(q)'
  BY <1>a, <1>2 DEF Stored, TypeOK
<1>3. ASSUME NEW t \in Threads, NEW p \in Pkgs, At(t, p, "upload"),
             objects' = [objects EXCEPT ![p] = body[t][p]], lost' = lost \ {p}
      PROVE  \A q \in Pkgs : Stored(q) => Stored(q)'
  <2>1. body[t][p] # 0
    BY <1>a, <1>3 DEF WorkersBacked, At
  <2> QED
    BY <1>a, <1>3, <2>1 DEF Stored, TypeOK
<1>4. CASE \E t \in Threads, p \in Pkgs : WorkerStep(t, p)
  <2>1. PICK t \in Threads, p \in Pkgs : WorkerStep(t, p)
    BY <1>4
  <2>2. \/ UNCHANGED <<objects, lost>>
        \/ At(t, p, "upload") /\ objects' = [objects EXCEPT ![p] = body[t][p]] /\ lost' = lost \ {p}
    BY <2>1 DEF WorkerStep, FetchPackageInfo, Begin, Download, DownloadFails, Upload, UploadFails,
                Verify, VerifyFails, SavePackageMetadata, Record, StoreUpsert, StoreStatus
  <2> QED
    BY <1>1, <1>3, <2>2
<1>5. CASE \E t \in Threads : ThreadStep(t)
  <2>1. PICK t \in Threads : ThreadStep(t)
    BY <1>5
  <2>2. ReconcileStep(t) => UNCHANGED <<objects, lost>>
    BY DEF ReconcileStep, RecFrame, RecRows, RecHead, RecFix, Ends, RecList, RecHas, RecInsert,
           RecSource, RecProbe, RecMark, RecExists, RecAdd, RecFail
  <2>3. UNCHANGED <<objects, lost>>
    BY <2>1, <2>2 DEF ThreadStep, Tick, ReadState, ReplaceState, BootGet, BootIndex, PullGet, Plan, Scan,
                      Launch, Join, SaveRow, SaveDone
  <2> QED
    BY <1>1, <2>3
<1>6. CASE Environment
  BY <1>1, <1>2, <1>6 DEF Environment, Trigger, Publish, ObjectLost, Crash
<1>7. CASE UNCHANGED vars
  BY <1>1, <1>7 DEF vars
<1> QED
  BY <1>4, <1>5, <1>6, <1>7 DEF Next

(* One row is written at a time, with the size of a stored object or 0.    *)
LEMMA WriteKeepsSizes ==
  ASSUME TypeOK, OnlyStoredSized, UNCHANGED listed,
         \A p \in Pkgs : Stored(p) => Stored(p)',
         NEW r \in RowKeys, NEW status, NEW size,
         \/ UNCHANGED rows
         \/ rows' = UpsertPackageVersion(r, status, size)
         \/ rows' = UpdateVersionStatus(r, status, size),
         size = 0 \/ Stored(ObjectOf[r])
  PROVE  OnlyStoredSized'
<1>1. \A q \in RowKeys : rows'[q] = rows[q] \/ (q = r /\ rows'[q].size = size)
  BY DEF UpsertPackageVersion, UpdateVersionStatus, TypeOK
<1>2. ObjectOf \in [RowKeys -> Pkgs]
  BY ConstantsAssumption DEF ConstantsAssumption
<1> QED
  BY <1>1, <1>2 DEF OnlyStoredSized, NoSize

LEMMA ReconcileKeepsSizes ==
  ASSUME IInv, OnlyStoredSized, \A p \in Pkgs : Stored(p) => Stored(p)',
         NEW t \in Threads, ReconcileStep(t)
  PROVE  OnlyStoredSized'
<1>a. TypeOK /\ LoopTyped /\ LoopBacked
  BY DEF IInv, Backed, TypeInv
<1>b. /\ Pkgs \subseteq RowKeys /\ ObjectOf \in [RowKeys -> Pkgs] /\ Alias \in [Pkgs -> RowKeys]
      /\ \A p \in Pkgs : ObjectOf[p] = p /\ ObjectOf[Alias[p]] = p
  BY ConstantsAssumption DEF ConstantsAssumption
(* A loop begins with sizes of rows, or of objects.                        *)
<1>1. ASSUME NEW at, NEW items, NEW sizes, Begins(t, at, items, sizes), UNCHANGED rows,
             \A r \in items \cap RowKeys : Stored(ObjectOf[r]) \/ sizes[r] = 0
      PROVE  OnlyStoredSized'
  <2>1. \A u \in Threads, r \in RowKeys : Stored(ObjectOf[r]) \/ listed'[u][r] = 0
    BY <1>a, <1>1 DEF Begins, OnlyStoredSized, NoSize, TypeOK
  <2> QED
    BY <1>b, <1>1, <2>1 DEF OnlyStoredSized, NoSize
<1>2. CASE UNCHANGED <<rows, listed>>
  BY <1>b, <1>2 DEF OnlyStoredSized, NoSize
<1>3. CASE RecRows(t)
  <2> DEFINE sizes == [r \in RowKeys |-> rows[r].size]
  <2>1. \A r \in RowKeys : Stored(ObjectOf[r]) \/ sizes[r] = 0
    BY DEF OnlyStoredSized, NoSize
  <2>2. UNCHANGED rows /\ \E at, items : Begins(t, at, items, sizes) \/ Begins(t, at, items, NoSizes)
    BY <1>3 DEF RecRows
  <2> HIDE DEF sizes
  <2> QED
    BY <1>1, <2>1, <2>2 DEF NoSizes
<1>4. CASE RecList(t)
  <2>1. \A page \in SUBSET Pkgs : ListObjects(page) =>
          \A r \in page \cap RowKeys : Stored(ObjectOf[r]) \/ objects[r] = 0
    BY <1>b DEF ListObjects, Stored
  <2> QED
    BY <1>1, <1>4, <2>1 DEF RecList
<1>5. CASE \/ RecSource(t) \/ Ends(t, "rec_head", "rec_list") \/ Ends(t, "rec_has", "rec_source")
           \/ Ends(t, "rec_probe", AfterReconcile(t))
  <2>1. UNCHANGED rows /\ \E at, items : Begins(t, at, items, NoSizes)
    BY <1>5 DEF RecSource, Ends
  <2> QED
    BY <1>1, <2>1 DEF NoSizes
<1>6. CASE RecHead(t) \/ RecHas(t) \/ RecProbe(t) \/ RecExists(t)
  BY <1>2, <1>6 DEF RecHead, RecHas, RecProbe, RecExists, loop
<1>7. CASE RecFix(t)
  <2>1. cur[t] \in RowKeys /\ (seen[t] # 0 => Stored(ObjectOf[cur[t]]))
    BY <1>a, <1>7 DEF RecFix, LoopTyped, LoopBacked, LoopBackedAt
  <2>2. listed[t][cur[t]] = 0 \/ Stored(ObjectOf[cur[t]])
    BY <2>1 DEF OnlyStoredSized, NoSize
  <2>3. UNCHANGED listed
    BY <1>7 DEF RecFix, NextItem
  <2>4. \/ UNCHANGED rows
        \/ rows' = UpdateVersionStatus(cur[t], "failed", listed[t][cur[t]])
        \/ rows' = UpdateVersionStatus(cur[t], "success", Actual(seen[t]))
    BY <1>7 DEF RecFix, Exec
  <2>5. Actual(seen[t]) = 0 \/ Stored(ObjectOf[cur[t]])
    BY <2>1 DEF Actual
  <2>6. CASE UNCHANGED rows \/ rows' = UpdateVersionStatus(cur[t], "failed", listed[t][cur[t]])
    BY <1>a, <2>1, <2>2, <2>3, <2>6, WriteKeepsSizes
  <2>7. CASE rows' = UpdateVersionStatus(cur[t], "success", Actual(seen[t]))
    BY <1>a, <2>1, <2>5, <2>3, <2>7, WriteKeepsSizes
  <2> QED
    BY <2>4, <2>6, <2>7
<1>8. CASE RecInsert(t)
  <2>1. cur[t] \in Pkgs /\ Stored(cur[t]) /\ Alias[cur[t]] \in RowKeys
        /\ Stored(ObjectOf[Alias[cur[t]]])
    BY <1>a, <1>b, <1>8 DEF RecInsert, LoopTyped, LoopBacked, LoopBackedAt
  <2>2. UNCHANGED listed
    BY <1>8 DEF RecInsert, NextItem
  <2>3. UNCHANGED rows
        \/ rows' = UpsertPackageVersion(Alias[cur[t]], "success", listed[t][cur[t]])
    BY <1>8 DEF RecInsert, Exec
  <2> QED
    BY <1>a, <2>1, <2>2, <2>3, WriteKeepsSizes
<1>9. CASE RecMark(t) \/ RecAdd(t) \/ RecFail(t)
  <2>1. cur[t] \in RowKeys /\ (RecMark(t) => Stored(ObjectOf[cur[t]]))
    BY <1>a, <1>b, <1>9 DEF RecMark, RecAdd, RecFail, LoopTyped, LoopBacked, LoopBackedAt
  <2>2. UNCHANGED listed
    BY <1>9 DEF RecMark, RecAdd, RecFail, NextItem
  <2>3. \/ UNCHANGED rows
        \/ rows' = UpsertPackageVersion(cur[t], "success", Actual(seen[t])) /\ RecMark(t)
        \/ rows' = UpsertPackageVersion(cur[t], "pending", 0)
        \/ rows' = UpdateVersionStatus(cur[t], "failed", 0)
    BY <1>9 DEF RecMark, RecAdd, RecFail, Exec
  <2> QED
    BY <1>a, <2>1, <2>2, <2>3, WriteKeepsSizes
<1> QED
  BY <1>3, <1>4, <1>5, <1>6, <1>7, <1>8, <1>9 DEF ReconcileStep

LEMMA SizedInvariance == Spec => []OnlyStoredSized
<1>1. Init => OnlyStoredSized
  BY DEF Init, OnlyStoredSized, NoSize, NoEntry, NoSizes
<1>2. IInv /\ OnlyStoredSized /\ [Next]_vars => OnlyStoredSized'
  <2> SUFFICES ASSUME IInv, OnlyStoredSized, [Next]_vars PROVE OnlyStoredSized'
    OBVIOUS
  <2> USE DEF bucket, flow, saver, loop, bounds
  <2>a. TypeOK /\ WorkersBacked /\ \A p \in Pkgs : Stored(p) => Stored(p)'
    BY StoredKept DEF IInv, Backed, TypeInv
  <2>b. ObjectOf \in [RowKeys -> Pkgs] /\ \A p \in Pkgs : p \in RowKeys /\ ObjectOf[p] = p
    BY ConstantsAssumption DEF ConstantsAssumption
  <2>1. CASE UNCHANGED <<rows, listed>>
    BY <2>a, <2>b, <2>1 DEF OnlyStoredSized, NoSize
  <2>2. CASE \E t \in Threads, p \in Pkgs : WorkerStep(t, p)
    <3>1. PICK t \in Threads, p \in Pkgs : WorkerStep(t, p)
      BY <2>2
    <3>2. CASE At(t, p, "upsert") \/ At(t, p, "status")
      <4>1. Stored(ObjectOf[p])
        BY <2>a, <2>b, <3>2 DEF WorkersBacked, AfterUpload, At
      <4>2. /\ UNCHANGED listed
            /\ \/ UNCHANGED rows
               \/ rows' = UpsertPackageVersion(p, "", body[t][p])
               \/ rows' = UpdateVersionStatus(p, "success", body[t][p])
        BY <3>1, <3>2 DEF WorkerStep, FetchPackageInfo, Begin, Download, DownloadFails, Upload,
             UploadFails, Verify, VerifyFails, SavePackageMetadata, Record, StoreUpsert, StoreStatus,
             Exec, At
      <4> QED
        BY <2>a, <2>b, <4>1, <4>2, WriteKeepsSizes
    <3>3. CASE ~At(t, p, "upsert") /\ ~At(t, p, "status")
      BY <2>1, <3>1, <3>3 DEF WorkerStep, FetchPackageInfo, Begin, Download, DownloadFails, Upload,
           UploadFails, Verify, VerifyFails, SavePackageMetadata, Record, StoreUpsert, StoreStatus
    <3> QED
      BY <3>2, <3>3
  <2>3. CASE \E t \in Threads : ThreadStep(t)
    <3>1. PICK t \in Threads : ThreadStep(t)
      BY <2>3
    <3>2. ReconcileStep(t) => OnlyStoredSized'
      BY <2>a, ReconcileKeepsSizes
    <3> QED
      BY <2>1, <3>1, <3>2 DEF ThreadStep, Tick, ReadState, ReplaceState, BootGet, BootIndex, PullGet,
                              Plan, Scan, Launch, Join, SaveRow, SaveDone
  <2>4. CASE Crash
    <3>1. UNCHANGED rows /\ listed' = [t \in Threads |-> NoSizes]
      BY <2>4 DEF Crash
    <3> QED
      BY <2>a, <2>b, <3>1 DEF OnlyStoredSized, NoSize, NoSizes
  <2>5. CASE Environment /\ ~Crash
    BY <2>1, <2>5 DEF Environment, Trigger, Publish, ObjectLost
  <2>6. CASE UNCHANGED vars
    BY <2>1, <2>6 DEF vars
  <2> QED
    BY <2>2, <2>3, <2>4, <2>5, <2>6 DEF Next
<1> QED
  BY <1>1, <1>2, ClaimsStayBacked, PTL DEF Spec

-----------------------------------------------------------------------------
(* Sums over finite sets: a sum exists, any element may be added first, and*)
(* terms that are 0 do not count.                                          *)
IsSum(it, f, S) ==
  it = [s \in SUBSET S |-> IF s = {} THEN 0
                           ELSE f[CHOOSE x \in s : TRUE] + it[s \ {CHOOSE x \in s : TRUE}]]

AnyFirst(it, f, S) ==
  \A s \in SUBSET S : \A x \in s : it[s] = f[x] + it[s \ {x}]

LEMMA SmallestOf ==
  ASSUME NEW T \in SUBSET Nat, T # {}
  PROVE  \E n \in T : \A m \in Nat : m < n => m \notin T
<1> DEFINE less == OpToRel(<, Nat)
<1>1. PICK n \in T : \A m \in T : ~(<<m, n>> \in less)
  <2>1. IsWellFoundedOn(less, Nat)
    BY NatLessThanWellFounded
  <2> HIDE DEF less
  <2> QED
    BY <2>1, WFMin
<1> QED
  BY <1>1 DEF OpToRel

LEMMA SubsetsOfFinite ==
  ASSUME NEW S, IsFiniteSet(S)
  PROVE  /\ Cardinality(S) \in Nat
         /\ \A s \in SUBSET S : /\ IsFiniteSet(s) /\ Cardinality(s) \in Nat
                                /\ Cardinality(s) <= Cardinality(S)
                                /\ Cardinality(s) = 0 <=> s = {}
                                /\ \A x \in s : Cardinality(s \ {x}) = Cardinality(s) - 1
<1>1. Cardinality(S) \in Nat
  BY FS_CardinalityType
<1>2. ASSUME NEW s \in SUBSET S
      PROVE  /\ IsFiniteSet(s) /\ Cardinality(s) \in Nat
             /\ Cardinality(s) <= Cardinality(S)
             /\ Cardinality(s) = 0 <=> s = {}
             /\ \A x \in s : Cardinality(s \ {x}) = Cardinality(s) - 1
  <2>1. IsFiniteSet(s) /\ Cardinality(s) <= Cardinality(S)
    BY FS_Subset
  <2> QED
    BY <2>1, FS_CardinalityType, FS_EmptySet, FS_RemoveElement
<1> QED
  BY <1>1, <1>2

LEMMA SumExists ==
  ASSUME NEW S, IsFiniteSet(S), NEW f, \A x \in S : f[x] \in Nat
  PROVE  \E it \in [SUBSET S -> Nat] : IsSum(it, f, S)
<1> DEFINE c(s) == CHOOSE x \in s : TRUE
           Small(n) == {s \in SUBSET S : Cardinality(s) <= n}
           Fits(it, n) == \A s \in Small(n) : it[s] = IF s = {} THEN 0 ELSE f[c(s)] + it[s \ {c(s)}]
           Good(n) == \E it \in [Small(n) -> Nat] : Fits(it, n)
           Bad == {n \in Nat : ~Good(n)}
<1>0. /\ Cardinality(S) \in Nat
      /\ \A s \in SUBSET S : /\ Cardinality(s) \in Nat /\ Cardinality(s) <= Cardinality(S)
                             /\ Cardinality(s) = 0 <=> s = {}
                             /\ \A x \in s : Cardinality(s \ {x}) = Cardinality(s) - 1
  BY SubsetsOfFinite
<1>1. \A s \in SUBSET S : s # {} => c(s) \in s
  OBVIOUS
<1> HIDE DEF c
<1>2. Good(0)
  <2>1. Small(0) = {{}}
    BY <1>0
  <2> DEFINE it == [s \in Small(0) |-> 0]
  <2>2. it \in [Small(0) -> Nat] /\ Fits(it, 0)
    BY <2>1
  <2> QED
    BY <2>2
<1>3. ASSUME NEW n \in Nat, Good(n) PROVE Good(n + 1)
  <2>1. PICK it \in [Small(n) -> Nat] : Fits(it, n)
    BY <1>3
  <2> DEFINE longer == [s \in Small(n + 1) |-> IF s \in Small(n) THEN it[s]
                                               ELSE f[c(s)] + it[s \ {c(s)}]]
  <2>2. \A s \in Small(n + 1) : s # {} => s \ {c(s)} \in Small(n) /\ c(s) \in S
    BY <1>0, <1>1
  <2>3. \A s \in Small(n + 1) : s \notin Small(n) => s # {}
    BY <1>0
  <2>4. Small(n) \subseteq Small(n + 1)
    BY <1>0
  <2>5. longer \in [Small(n + 1) -> Nat]
    BY <2>1, <2>2, <2>3
  <2>6. \A s \in Small(n) : longer[s] = it[s]
    BY <2>4
  <2> HIDE DEF Small
  <2>7. ASSUME NEW s \in Small(n + 1)
        PROVE  longer[s] = IF s = {} THEN 0 ELSE f[c(s)] + longer[s \ {c(s)}]
    <3>1. s # {} => longer[s \ {c(s)}] = it[s \ {c(s)}]
      BY <2>2, <2>6
    <3>2. CASE s \in Small(n)
      BY <2>1, <2>6, <3>1, <3>2
    <3>3. CASE s \notin Small(n)
      BY <2>3, <3>1, <3>3
    <3> QED
      BY <3>2, <3>3
  <2> QED
    BY <2>5, <2>7
<1>4. \A n \in Nat : Good(n)
  <2> HIDE DEF Good
  <2>1. CASE Bad = {}
    BY <2>1
  <2>2. CASE Bad # {}
    <3>1. PICK n \in Bad : \A m \in Nat : m < n => m \notin Bad
      BY <2>2, SmallestOf
    <3>2. n # 0 /\ n - 1 \in Nat
      BY <1>2, <3>1
    <3>3. Good(n - 1)
      BY <3>1, <3>2
    <3>4. Good((n - 1) + 1)
      BY <1>3, <3>2, <3>3
    <3> QED
      BY <3>1, <3>4
  <2> QED
    BY <2>1, <2>2
<1>5. PICK it \in [Small(Cardinality(S)) -> Nat] : Fits(it, Cardinality(S))
  BY <1>0, <1>4
<1>6. Small(Cardinality(S)) = SUBSET S
  BY <1>0
<1>7. \A s \in SUBSET S : it[s] = IF s = {} THEN 0 ELSE f[c(s)] + it[s \ {c(s)}]
  BY <1>5, <1>6
<1>8. it \in [SUBSET S -> Nat]
  BY <1>5, <1>6
<1> HIDE DEF Small, Fits
<1>9. it = [s \in SUBSET S |-> IF s = {} THEN 0 ELSE f[c(s)] + it[s \ {c(s)}]]
  BY <1>7, <1>8
<1> QED
  BY <1>8, <1>9 DEF IsSum, c

LEMMA SumIsNat ==
  ASSUME NEW S, IsFiniteSet(S), NEW f, \A x \in S : f[x] \in Nat,
         NEW it, IsSum(it, f, S)
  PROVE  it \in [SUBSET S -> Nat]
<1> DEFINE c(s) == CHOOSE x \in s : TRUE
           Bad == {n \in Nat : \E s \in SUBSET S : Cardinality(s) = n /\ it[s] \notin Nat}
<1>1. \A s \in SUBSET S : IF s = {} THEN it[s] = 0 ELSE c(s) \in s /\ it[s] = f[c(s)] + it[s \ {c(s)}]
  BY DEF IsSum
<1> HIDE DEF c
<1>2. it = [s \in SUBSET S |-> it[s]]
  BY DEF IsSum
<1>3. CASE Bad = {}
  BY <1>2, <1>3, SubsetsOfFinite
<1>4. CASE Bad # {}
  <2>1. PICK n \in Bad : \A m \in Nat : m < n => m \notin Bad
    BY <1>4, SmallestOf
  <2>2. PICK s \in SUBSET S : Cardinality(s) = n /\ it[s] \notin Nat
    BY <2>1
  <2>3. s # {} /\ c(s) \in s /\ it[s] = f[c(s)] + it[s \ {c(s)}]
    BY <1>1, <2>2
  <2>4. Cardinality(s \ {c(s)}) = n - 1 /\ n - 1 \in Nat
    BY <2>2, <2>3, SubsetsOfFinite
  <2>5. s \ {c(s)} \in SUBSET S /\ n - 1 \notin Bad
    BY <2>1, <2>4
  <2>6. it[s \ {c(s)}] \in Nat
    BY <2>4, <2>5
  <2> QED
    BY <2>2, <2>3, <2>6
<1> QED
  BY <1>3, <1>4

LEMMA AnyTermFirst ==
  ASSUME NEW S, IsFiniteSet(S), NEW f, \A x \in S : f[x] \in Nat,
         NEW it \in [SUBSET S -> Nat], IsSum(it, f, S)
  PROVE  AnyFirst(it, f, S)
<1> DEFINE c(s) == CHOOSE x \in s : TRUE
           Holds(s) == \A x \in s : it[s] = f[x] + it[s \ {x}]
           Bad == {n \in Nat : \E s \in SUBSET S : Cardinality(s) = n /\ ~Holds(s)}
<1>1. \A s \in SUBSET S : s # {} => c(s) \in s /\ it[s] = f[c(s)] + it[s \ {c(s)}]
  BY DEF IsSum
<1> HIDE DEF c
<1>2. CASE Bad = {}
  BY <1>2, SubsetsOfFinite DEF AnyFirst
<1>3. CASE Bad # {}
  <2>1. PICK n \in Bad : \A m \in Nat : m < n => m \notin Bad
    BY <1>3, SmallestOf
  <2>2. PICK s \in SUBSET S : Cardinality(s) = n /\ ~Holds(s)
    BY <2>1
  <2>3. PICK x \in s : it[s] # f[x] + it[s \ {x}]
    BY <2>2
  <2>4. c(s) \in s /\ c(s) # x /\ it[s] = f[c(s)] + it[s \ {c(s)}]
    BY <1>1, <2>3
  <2>5. ASSUME NEW y \in s PROVE Holds(s \ {y})
    <3>1. Cardinality(s \ {y}) = n - 1 /\ n - 1 \in Nat
      BY <2>2, SubsetsOfFinite
    <3>2. n - 1 \notin Bad /\ s \ {y} \in SUBSET S
      BY <2>1, <3>1
    <3> HIDE DEF Holds
    <3> QED
      BY <3>1, <3>2
  <2> DEFINE rest == s \ {x, c(s)}
  <2>6. it[s \ {x}] = f[c(s)] + it[rest]
    <3>1. (s \ {x}) \ {c(s)} = rest /\ c(s) \in s \ {x}
      BY <2>4
    <3> QED
      BY <2>5, <3>1
  <2>7. it[s \ {c(s)}] = f[x] + it[rest]
    <3>1. (s \ {c(s)}) \ {x} = rest /\ x \in s \ {c(s)}
      BY <2>4
    <3> QED
      BY <2>4, <2>5, <3>1
  <2>8. f[x] \in Nat /\ f[c(s)] \in Nat /\ it[rest] \in Nat
    BY <2>4
  <2>9. f[c(s)] + (f[x] + it[rest]) = f[x] + (f[c(s)] + it[rest])
    <3> HIDE DEF rest
    <3> QED
      BY <2>8
  <2>10. it[s] = f[x] + it[s \ {x}]
    BY <2>4, <2>6, <2>7, <2>9, Zenon
  <2> QED
    BY <2>3, <2>10
<1> QED
  BY <1>2, <1>3

LEMMA SumDef ==
  ASSUME NEW S, IsFiniteSet(S), NEW f, \A x \in S : f[x] \in Nat
  PROVE  \E it \in [SUBSET S -> Nat] : IsSum(it, f, S) /\ SumFunctionOnSet(f, S) = it[S]
<1> DEFINE it == CHOOSE j : IsSum(j, f, S)
<1>1. SumFunctionOnSet(f, S) = it[S]
  BY DEF SumFunctionOnSet, FoldFunctionOnSet, MapThenFoldSet, IsSum
<1>2. IsSum(it, f, S)
  BY SumExists
<1> HIDE DEF it
<1> QED
  BY <1>1, <1>2, SumIsNat

LEMMA SumsAgree ==
  ASSUME NEW S, IsFiniteSet(S), NEW f, \A x \in S : f[x] \in Nat,
         NEW T \in SUBSET S, NEW g, \A x \in T : g[x] = f[x],
         \A x \in S \ T : f[x] = 0
  PROVE  SumFunctionOnSet(f, S) = SumFunctionOnSet(g, T)
<1>1. IsFiniteSet(T) /\ \A x \in T : g[x] \in Nat
  BY FS_Subset
<1>2. PICK i \in [SUBSET S -> Nat] : IsSum(i, f, S) /\ SumFunctionOnSet(f, S) = i[S]
  BY SumDef
<1>3. PICK j \in [SUBSET T -> Nat] : IsSum(j, g, T) /\ SumFunctionOnSet(g, T) = j[T]
  BY <1>1, SumDef
<1> DEFINE Same(s) == i[s] = j[s \cap T]
           Bad == {n \in Nat : \E s \in SUBSET S : Cardinality(s) = n /\ ~Same(s)}
<1>4. \A s \in SUBSET S : \A x \in s : i[s] = f[x] + i[s \ {x}]
  <2>1. AnyFirst(i, f, S)
    BY <1>2, AnyTermFirst
  <2> QED
    BY <2>1 DEF AnyFirst
<1>5. \A s \in SUBSET T : \A x \in s : j[s] = g[x] + j[s \ {x}]
  <2>1. AnyFirst(j, g, T)
    BY <1>1, <1>3, AnyTermFirst
  <2> QED
    BY <2>1 DEF AnyFirst
<1>6. i[{}] = 0 /\ j[{}] = 0
  BY <1>2, <1>3 DEF IsSum
<1>7. CASE Bad = {}
  <2>1. Same(S)
    BY <1>7, SubsetsOfFinite
  <2>2. S \cap T = T
    OBVIOUS
  <2> QED
    BY <1>2, <1>3, <2>1, <2>2
<1>8. CASE Bad # {}
  <2>1. PICK n \in Bad : \A m \in Nat : m < n => m \notin Bad
    BY <1>8, SmallestOf
  <2>2. PICK s \in SUBSET S : Cardinality(s) = n /\ ~Same(s)
    BY <2>1
  <2>3. s # {}
    <3>1. {} \cap T = {}
      OBVIOUS
    <3> QED
      BY <1>6, <2>2, <3>1
  <2>4. PICK x \in s : TRUE
    BY <2>3
  <2>5. Same(s \ {x})
    <3>1. Cardinality(s \ {x}) = n - 1 /\ n - 1 \in Nat
      BY <2>2, SubsetsOfFinite
    <3>2. n - 1 \notin Bad /\ s \ {x} \in SUBSET S
      BY <2>1, <3>1
    <3> HIDE DEF Same
    <3> QED
      BY <3>1, <3>2
  <2>6. CASE x \in T
    <3>1. (s \ {x}) \cap T = (s \cap T) \ {x} /\ x \in s \cap T
      BY <2>6
    <3>2. j[s \cap T] = g[x] + j[(s \cap T) \ {x}]
      BY <1>5, <3>1
    <3>3. i[s] = f[x] + i[s \ {x}]
      BY <1>4
    <3>4. g[x] = f[x]
      BY <2>6
    <3>5. i[s] = j[s \cap T]
      BY <2>5, <3>1, <3>2, <3>3, <3>4, Zenon
    <3> QED
      BY <2>2, <3>5
  <2>7. CASE x \notin T
    <3>1. (s \ {x}) \cap T = s \cap T
      BY <2>7
    <3>2. i[s] = 0 + i[s \ {x}] /\ i[s \ {x}] \in Nat
      BY <1>4, <2>7
    <3>3. i[s] = i[s \ {x}]
      BY <3>2
    <3>4. i[s] = j[s \cap T]
      BY <2>5, <3>1, <3>3, Zenon
    <3> QED
      BY <2>2, <3>4
  <2> QED
    BY <2>6, <2>7
<1> QED
  BY <1>7, <1>8

(* Between two pulls, as long as no call goes wrong and the bucket lost    *)
(* nothing, every interface calls exactly those versions mirrored that are *)
(* in the bucket, of the page or copy that it goes through, and metadata   *)
(* built anew lists them all; the totals agree with the bucket if no       *)
(* scoped package has a second row.                                        *)
THEOREM AllViewsAgree == Spec => [](Api = {} => ViewsAgree)
<1> DEFINE Facts == IndexAgrees /\ Backed /\ OnlyStoredSized /\ TypeOK /\ Agreement
<1>1. Facts => ViewsAgree
  <2> SUFFICES ASSUME Facts, pc[Cron] = "rest", faults = 0, lost = {} PROVE ViewsAgree
    BY DEF ViewsAgree
  <2> DEFINE stored == {p \in Pkgs : objects[p] # 0}
             total == SumFunctionOnSet(objects, stored)
             success == {r \in AllVersions : rows[r].status = "success"}
  <2>a. Pkgs \subseteq RowKeys /\ \A p \in Pkgs : ObjectOf[p] = p
    BY ConstantsAssumption DEF ConstantsAssumption
  <2>b. /\ objects \in [Pkgs -> Nat] /\ rows \in [RowKeys -> Row] /\ mem \in [Pkgs -> PackageState]
        /\ Bodies \subseteq Nat
    <3>1. objects \in [Pkgs -> Bodies] /\ rows \in [RowKeys -> Row] /\ mem \in [Pkgs -> PackageState]
      BY DEF TypeOK
    <3>2. Bodies \subseteq Nat
      BY ConstantsAssumption DEF ConstantsAssumption, Bodies
    <3> QED
      BY <3>1, <3>2
  <2>c. \A p \in Pkgs : Stored(p) <=> p \in stored
    BY DEF Stored
  <2>d. \A p \in Pkgs : p \in stored => rows[p].status = "success" /\ rows[p].size = objects[p]
    <3>1. ASSUME NEW p \in Pkgs, p \in stored
          PROVE  rows[p].status = "success" /\ rows[p].size = objects[p]
      <4>1. rows[p] = [status |-> "success", size |-> objects[p]]
        BY <3>1 DEF IndexAgrees
      <4> QED
        BY <4>1
    <3> QED
      BY <3>1
  <2>e. \A p \in Pkgs : p \notin stored => /\ rows[p].status # "success" /\ rows[p].size = 0
                                           /\ mem[p].status # "success"
    BY <2>a, <2>c DEF Backed, MapBacked, RowsBacked, OnlyStoredSized, NoSize
  <2>f. crashes = 0 \/ NothingWaits => \A p \in stored : mem[p].status = "success"
    BY DEF IndexAgrees
  <2>i. stored \subseteq Pkgs
    OBVIOUS
  <2> HIDE DEF Facts, stored
  <2>1. \A p \in Pkgs : /\ ListedStatus(p) = "success" <=> p \in stored
                        /\ DetailStatus(p) = "success" <=> p \in stored
                        /\ p \in stored => DetailSize(p) = objects[p]
    <3> SUFFICES ASSUME NEW p \in Pkgs
                 PROVE  /\ ListedStatus(p) = "success" <=> p \in stored
                        /\ DetailStatus(p) = "success" <=> p \in stored
                        /\ p \in stored => DetailSize(p) = objects[p]
      OBVIOUS
    <3>1. CASE p \in stored
      <4>1. rows[p].status = "success" /\ rows[p].size = objects[p]
        BY <2>d, <3>1
      <4> QED
        BY <3>1, <4>1 DEF ListedStatus, DetailStatus, DetailSize, OrPending
    <3>2. CASE p \notin stored
      <4>1. rows[p].status # "success" /\ mem[p].status # "success"
        BY <2>e, <3>2
      <4> QED
        BY <3>2, <4>1 DEF ListedStatus, DetailStatus, OrPending
    <3> QED
      BY <3>1, <3>2
  <2>2. ASSUME NEW list \in SUBSET catalog
        PROVE  /\ MetadataLinks(list) = list \cap stored
               /\ \A name \in Names :
                    InCOS(name, list) <=> \E p \in list \cap stored : NameOf[p] = name
               /\ MirroredVersions(list) \cup IndexLinks(list) \subseteq stored
               /\ crashes = 0 \/ NothingWaits =>
                    list \cap stored \subseteq MirroredVersions(list) \cap IndexLinks(list)
    <3>1. list \subseteq Pkgs
      BY DEF Facts, TypeOK
    <3>2. \A p \in list : Redirects(p) <=> p \in stored
      BY <2>d, <2>e, <3>1 DEF Redirects
    <3>3. MetadataLinks(list) = list \cap stored
      BY <3>2, Zenon DEF MetadataLinks
    <3>4. \A name \in Names :
            InCOS(name, list) <=> \E p \in list \cap stored : NameOf[p] = name
      <4>1. \A p \in list : ListedStatus(p) = "success" <=> p \in stored
        BY <2>1, <3>1
      <4> QED
        BY <4>1, Zenon DEF InCOS
    <3>5. MirroredVersions(list) \cup IndexLinks(list) \subseteq stored
      BY <2>e, <3>1 DEF MirroredVersions, IndexLinks, VersionStatus, OrPending
    <3>6. crashes = 0 \/ NothingWaits =>
            list \cap stored \subseteq MirroredVersions(list) \cap IndexLinks(list)
      BY <2>f DEF MirroredVersions, IndexLinks, VersionStatus, OrPending
    <3> QED
      BY <3>3, <3>4, <3>5, <3>6
  <2>3. \A p \in stored : p \in Rebuilt(NameOf[p])
    BY <2>d, <2>i DEF Rebuilt, RowsOf
  <2>4. ASSUME RowKeys = Pkgs
        PROVE  /\ MirrorStatus.synced = Cardinality(stored)
               /\ MirrorStatus.storageSize = total /\ StorageSize = total
    <3>h. success = stored /\ stored \subseteq AllVersions /\ AllVersions \subseteq Pkgs
      <4> HIDE DEF stored
      <4> QED
        BY <2>4, <2>d, <2>e, <2>i DEF AllVersions
    <3>4. MirrorStatus.synced = Cardinality(stored)
      BY <3>h DEF MirrorStatus, StatusCounts
    <3>5. IsFiniteSet(Pkgs) /\ IsFiniteSet(AllVersions) /\ IsFiniteSet(stored)
      BY <2>4, <3>h, ViewsAssumption, FS_Subset
    <3>6. \A p \in Pkgs : /\ RowSizes[p] = rows[p].size /\ RowSizes[p] \in Nat
                          /\ p \in stored => objects[p] = RowSizes[p]
                          /\ p \notin stored => RowSizes[p] = 0
      BY <2>4, <2>b, <2>d, <2>e DEF RowSizes, Row
    <3> HIDE DEF success
    <3>7. MirrorStatus.storageSize = total
      <4>1. SumFunctionOnSet(RowSizes, stored) = total
        <5>1. /\ IsFiniteSet(stored) /\ stored \in SUBSET stored
              /\ \A p \in stored : RowSizes[p] \in Nat /\ objects[p] = RowSizes[p]
              /\ \A p \in stored \ stored : RowSizes[p] = 0
          BY <3>5, <3>6, <2>i, Zenon
        <5> QED
          BY <5>1, SumsAgree
      <4> QED
        BY <3>h, <4>1 DEF MirrorStatus, TotalSuccessSize, success
    <3>8. StorageSize = total
      <4>1. CASE AllVersions # {}
        <5>1. SumFunctionOnSet(RowSizes, AllVersions) = total
          <6>1. /\ IsFiniteSet(AllVersions) /\ stored \in SUBSET AllVersions
                /\ \A p \in AllVersions : RowSizes[p] \in Nat
                /\ \A p \in stored : objects[p] = RowSizes[p]
                /\ \A p \in AllVersions \ stored : RowSizes[p] = 0
            BY <3>5, <3>6, <3>h, Zenon
          <6> QED
            BY <6>1, SumsAgree
        <5> QED
          BY <4>1, <5>1 DEF StorageSize, SizeOfRows
      <4>2. CASE AllVersions = {}
        <5> DEFINE held == {p \in Pkgs : mem[p].status = "success"}
                   sizes == [p \in Pkgs |-> mem[p].size]
        <5>1. stored = {} /\ held = {}
          BY <2>e, <3>h, <4>2
        <5>2. SumFunctionOnSet(sizes, held) = total
          <6> HIDE DEF sizes, held
          <6> QED
            BY <3>5, <5>1, SumsAgree
        <5> QED
          BY <4>2, <5>2 DEF StorageSize, SizeOfMap
      <4> QED
        BY <4>1, <4>2
    <3> QED
      BY <3>4, <3>7, <3>8
  <2> HIDE DEF total
  <2> QED
    BY <2>1, <2>2, <2>3, <2>4 DEF ViewsAgree, stored, total
<1>2. (Api = {} => IndexAgrees) /\ (Api = {} => Agreement) /\ Backed /\ OnlyStoredSized /\ TypeOK
        => (Api = {} => ViewsAgree)
  BY <1>1
<1> QED
  BY <1>2, IndexStaysInStep, StaysAgreed, BackedInvariance, SizedInvariance, TypeCorrect, PTL
=============================================================================
