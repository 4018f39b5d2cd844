-------------------------- MODULE SyncManagerProps --------------------------
(***************************************************************************)
(* What the core of the mirror guarantees.                                 *)
(***************************************************************************)
EXTENDS SyncManager

(* A download of p that DownloadPackage redirects to the bucket finds an   *)
(* object there, unless the bucket itself lost it: success is recorded, in *)
(* memory or in the table, only after an upload that succeeded.            *)
Stored(p) == objects[p] # 0 \/ p \in lost
RedirectBacked == \A p \in Pkgs : Redirects(p) => Stored(p)

(* The strengthening of RedirectBacked that every step preserves: whatever *)
(* may still be turned into a recorded success, be it a map that a load or *)
(* a save holds, a worker past its upload or a size that Reconcile has     *)
(* read, is about a stored object.                                         *)
AfterUpload == {"verify", "meta", "record", "upsert", "status"}
MapBacked(map) == \A p \in Pkgs : map[p].status = "success" => Stored(p)
RowsBacked == \A r \in RowKeys : rows[r].status = "success" => Stored(ObjectOf[r])
WorkersBacked ==
  \A t \in Threads, p \in Pkgs :
    /\ work[t][p] = "upload" => body[t][p] # 0
    /\ work[t][p] \in AfterUpload => Stored(p)
LoopTyped ==
  \A t \in Threads :
    /\ pc[t] \notin {"rec_head", "rec_fix"} => left[t] \subseteq Pkgs
    /\ pc[t] = "rec_fix" => cur[t] \in RowKeys
    /\ pc[t] \in {"rec_insert", "rec_mark", "rec_exists", "rec_add", "rec_fail"} => cur[t] \in Pkgs
LoopBackedAt(t) ==
  /\ pc[t] \in {"rec_fix", "rec_mark"} /\ seen[t] # 0 => Stored(ObjectOf[cur[t]])
  /\ pc[t] = "rec_mark" => seen[t] # 0
  /\ pc[t] \in {"rec_has", "rec_insert"} => \A p \in left[t] : Stored(p)
  /\ pc[t] = "rec_insert" => Stored(cur[t])
LoopBacked == \A t \in Threads : LoopBackedAt(t)
TypeInv == TypeOK /\ LoopTyped
Backed == /\ MapBacked(mem) /\ MapBacked(saved)
          /\ \A t \in Threads : MapBacked(snap[t])
          /\ RowsBacked /\ WorkersBacked /\ LoopBacked
IInv == TypeInv /\ Backed

(* Whatever a goroutine may still mirror was once listed by upstream.      *)
MapListed(map) == \A p \in Pkgs : map[p].status # "none" => p \in catalog
WorkListed ==
  \A t \in Threads :
    /\ todo[t].pri \cup todo[t].back \subseteq catalog
    /\ \A p \in Pkgs : work[t][p] # "idle" => p \in catalog
    /\ pc[t] \in {"boot_index", "load", "swap", "plan"} => left[t] \subseteq catalog
Listed == /\ MapListed(mem) /\ MapListed(saved)
          /\ \A t \in Threads : MapListed(snap[t])
          /\ WorkListed

(* The job registry is exact: at most one goroutine of each guarded kind   *)
(* runs, and a kind is registered as long as its goroutine runs.           *)
Running(k) == {t \in Api : Kind[t] = k /\ pc[t] # "off"}
JobsExclusive ==
  \A k \in Guarded : /\ Cardinality(Running(k)) <= 1
                     /\ k \in jobs <=> Running(k) # {}

(* Without API requests, the table sync_state never holds "syncing": a     *)
(* save only starts when the workers of its pull are done.                 *)
SavedSettled == \A p \in Pkgs : saved[p].status # "syncing"

(* BackfillBatch is enough for the history of any selection of packages.   *)
NothingWaits ==
  \A ps \in SUBSET Pkgs : LET back == planPriorityAndBackfill(ps).back IN Batch(back) = back

(* Without API requests and as long as no call goes wrong, every object has*)
(* a row between two pulls that advertises it with its true size, and the  *)
(* sync state of its package is success too.  After a crash that takes     *)
(* hold only once the next pull has planned the package, which a small     *)
(* batch may put off; and its size may be an older one after two crashes:  *)
(* BootSync of the first restart mirrors again what is missing in the      *)
(* listing, and the second comes before a save; Reconcile then repairs the *)
(* row, and nothing repairs the map.                                       *)
IndexAgrees ==
  pc[Cron] = "rest" /\ faults = 0 =>
    \A p \in Pkgs : objects[p] # 0 =>
      /\ rows[p] = [status |-> "success", size |-> objects[p]]
      /\ crashes = 0 \/ NothingWaits => mem[p].status = "success"
      /\ crashes < 2 /\ mem[p].status = "success" => mem[p].size = objects[p]

(* README.md:10, "avoid repeated downloads": a package whose object is in  *)
(* the bucket is not downloaded again, unless a call went wrong or the     *)
(* process died in between.                                                *)
DownloadedOnce ==
  [][\A t \in Threads, p \in Pkgs :
       Download(t, p) /\ faults = 0 /\ crashes = 0 => objects[p] = 0]_vars

-----------------------------------------------------------------------------
(* Why both hold without API requests, as long as no call goes wrong.      *)
Marking == {"download", "upload", "verify", "meta", "record"}
ProbePcs == {"rec_probe", "rec_mark", "rec_exists", "rec_add", "rec_fail"}
Booting == {"boot_load", "boot_swap", "boot_get", "boot_index"} \cup RecPcs
Queued(p) == p \in todo[Cron].pri \cup todo[Cron].back

(* A worker has the package marked as in progress, and the object is what  *)
(* it uploaded, or lost.                                                   *)
WorkerAgrees(p, at) ==
  /\ at \in Marking => mem[p].status = "syncing"
  /\ at \in {"upload"} \cup AfterUpload => p \notin Dead
  /\ at \in AfterUpload => objects[p] \in {0, body[Cron][p]}
  /\ at \in {"upsert", "status"} => mem[p].status = "success" /\ mem[p].size = body[Cron][p]
  /\ at = "status" => rows[p].status # "none"
  /\ at # "idle" => (at = "fetch" <=> pc[Cron] = "retry_run")
WorkersAgree == \A p \in Pkgs : WorkerAgrees(p, work[Cron][p])

ObjectsListed == \A p \in Pkgs : objects[p] # 0 => p \in catalog \ Dead
OnlyDeadFail ==
  \A p \in Pkgs :
    "failed" \in {mem[p].status, saved[p].status, snap[Cron][p].status} => p \in Dead

(* The last loop of Reconcile puts the row of each object right, and the   *)
(* workers keep it right.                                                  *)
InRow(p) == objects[p] # 0 => rows[p] = [status |-> "success", size |-> objects[p]]
RowsAgree ==
  /\ pc[Cron] \notin Booting \ {"boot_get", "boot_index"} =>
       \A p \in Pkgs : work[Cron][p] \notin AfterUpload => InRow(p)
  /\ pc[Cron] \in ProbePcs =>
       \A p \in Pkgs \ left[Cron] : pc[Cron] = "rec_probe" \/ p # cur[Cron] => InRow(p)
  /\ pc[Cron] = "rec_mark" => objects[cur[Cron]] \in {0, seen[Cron]}
  /\ pc[Cron] \in {"rec_exists", "rec_add", "rec_fail"} => objects[cur[Cron]] = 0

(* Loads and saves carry each status over; what is saved as a success is   *)
(* not mirrored again, except by BootSync.                                 *)
SameStatus(map) == \A p \in Pkgs : map[p].status = saved[p].status
MapsAgree ==
  /\ IF pc[Cron] \in {"boot_swap", "swap"} THEN SameStatus(snap[Cron]) ELSE snap[Cron] = NoMap
  /\ pc[Cron] \in {"boot_get", "boot_index", "plan"} \cup RecPcs => SameStatus(mem)
  /\ pc[Cron] \in {"boot_run", "boot_save"} =>
       \A p \in Pkgs : mem[p].status = "none" => saved[p].status = "none"
  /\ pc[Cron] = "run" =>
       \A p \in Pkgs : Queued(p) \/ work[Cron][p] \in {"mark", "download", "upload"}
                         => saved[p].status # "success"

(* Until the second crash only the BootSync of the restart puts another    *)
(* object in the place of one whose size is saved, and then saves again.   *)
Sized(map, p) == map[p].status = "success" /\ objects[p] # 0 => map[p].size = objects[p]
SizesAgree ==
  \A p \in Pkgs :
    /\ Sized(mem, p) /\ Sized(snap[Cron], p)
    /\ \/ Sized(saved, p)
       \/ crashes = 1 /\ pc[Cron] = "boot_run" /\ mem[p].status # "none"
       \/ crashes = 1 /\ pc[Cron] = "boot_save" /\ p \in unsaved[Cron]

(* Until the first crash the bucket begins empty, a package that waits for *)
(* its download has no object, and an object is known and saved in time.   *)
FirstLife ==
  \A p \in Pkgs :
    /\ pc[Cron] \in Booting => objects[p] = 0
    /\ pc[Cron] \in Booting \cup {"boot_run"} => saved[p].status = "none"
    /\ Queued(p) \/ work[Cron][p] \in {"fetch", "mark", "download", "upload"} => objects[p] = 0
    /\ objects[p] # 0 =>
         /\ work[Cron][p] \in {"verify", "meta", "record"} \/ mem[p].status = "success"
         /\ \/ pc[Cron] \in {"boot_run", "run"} \/ saved[p].status = "success"
            \/ pc[Cron] \in SavePcs /\ p \in unsaved[Cron]

(* Later, a Pull plans whatever the saved state does not know, unless the  *)
(* batch is too small.                                                     *)
AllPlanned ==
  \A p \in Pkgs : objects[p] # 0 =>
    /\ pc[Cron] \in {"load", "swap", "plan"} => p \in left[Cron]
    /\ pc[Cron] = "run" => mem[p].status = "success" \/ Queued(p) \/ work[Cron][p] # "idle"
    /\ pc[Cron] \in {"save", "scan", "retry_run", "retry_save", "rest"} => mem[p].status = "success"

Agreement ==
  faults = 0 =>
    /\ WorkersAgree /\ ObjectsListed /\ OnlyDeadFail /\ RowsAgree /\ MapsAgree
    /\ crashes < 2 => SizesAgree
    /\ crashes = 0 => FirstLife
    /\ NothingWaits => AllPlanned

-----------------------------------------------------------------------------
(* manager.go:287, "keep converging to the data source": every package     *)
(* that can be downloaded is eventually in the bucket and known to be,     *)
(* unless the bucket itself lost it.                                       *)
Settles(p) == p \in lost \/ (objects[p] # 0 /\ mem[p].status = "success")
ConvergesToAll == <>[](\A p \in catalog \ Dead : Settles(p))

(* What the code keeps of it: all do except those that starve, the history *)
(* behind as many packages that always fail as one Pull takes.             *)
Starves(p) == LET back == planPriorityAndBackfill((Dead \cap catalog) \cup {p}).back
              IN  p \in back \ Batch(back)
Converges == <>[](\A p \in catalog \ Dead : Settles(p) \/ Starves(p))

(* After a restart in which no call goes wrong there comes a moment when   *)
(* the bucket has again all that it lost (one object at a time, as in the  *)
(* bound of the run).                                                      *)
RebootHeals == (pc[Cron] = "boot_load" /\ faults = MaxFaults) ~> lost = {}

(* The core implements the promise of Mirror: nothing that upstream never  *)
(* listed is stored, nothing stored is given up, and only what is stored   *)
(* is redirected, through every overlap of pulls, loads, saves and crashes.*)
M == INSTANCE Mirror WITH published <- catalog,
                          stored <- {p \in Pkgs : Stored(p)},
                          redirected <- {p \in Pkgs : Redirects(p)}
ImplementsMirror == M!Spec

-----------------------------------------------------------------------------
(* What comments and documents say, and the code does not do.              *)

(* state.go:101, "complete the package from the data source": a retry of a *)
(* package that the index lists reaches syncPackage.                       *)
RetryReachesSync ==
  [][\A t \in Threads, p \in Pkgs :
       FetchPackageInfo(t, p) /\ p \in catalog /\ faults' = faults => work'[t][p] = "mark"]_vars

(* reconcile.go:56, "insert the missing row to keep the view complete":    *)
(* the table lists each object under one name only.                        *)
OneRowPerObject ==
  \A r1, r2 \in RowKeys :
    /\ ObjectOf[r1] = ObjectOf[r2]
    /\ rows[r1].status # "none" /\ rows[r2].status # "none"
    => r1 = r2
=============================================================================
