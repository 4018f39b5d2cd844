---------------------------- MODULE MirrorState ----------------------------
(***************************************************************************)
(* The state that the parts of the mirror share, and the primitive         *)
(* operations on it: the in-memory sync state of SyncManager, the two      *)
(* PostgreSQL tables that persist something about a package, the objects   *)
(* in the bucket, and the control state of the goroutines that run         *)
(* BootSync, Pull, RetryFailedNow and Reconcile.                           *)
(*                                                                         *)
(* A member of Pkgs is one version of one package ("name@version").  The   *)
(* contents of a tarball are abstracted to its size after cleaning: 0 is   *)
(* "no object", and two downloads differ iff their sizes differ, which is  *)
(* all that the code ever compares.                                        *)
(***************************************************************************)
EXTENDS Integers, FiniteSets

CONSTANTS
  Pkgs,            \* the package versions that upstream may ever publish
  NameOf,          \* NameOf[p]: the package name of p
  VerOf,           \* VerOf[p]: rank of the version of p under compareVer, from 1
  Rank,            \* Rank[p]: position of p in the sorted list of packages to sync
  RowKeys,         \* the (name, version) pairs that package_versions may hold
  Alias,           \* Alias[p]: the pair Reconcile reads back from p's object key
  ObjectOf,        \* ObjectOf[r]: the package whose object GetPackageKey gives for r
  NoRow,           \* "no row key"
  Sizes,           \* the sizes that a cleaned download may have
  Dead,            \* packages whose download always fails
  Api,             \* goroutines that API requests may start
  Kind,            \* Kind[t]: "pull", "boot", "retry" or "reconcile"
  Concurrency,     \* SYNC_CONCURRENCY
  MaxRetries,      \* SYNC_MAX_RETRIES
  BackfillEnabled, \* BACKFILL_ENABLED
  BackfillBatch,   \* BACKFILL_BATCH
  PageSize,        \* most objects that one bucket listing returns
  MaxFaults,       \* bound: failed calls to upstream, bucket or database
  MaxCrashes,      \* bound: crashes of the process
  MaxRequests,     \* bound: API requests that start a goroutine
  MaxLosses        \* bound: objects missing at a time through no act of the mirror

Cron == "cron"     \* the goroutine main starts: BootSync, then StartCron
Threads == {Cron} \cup Api
Kinds == {"pull", "boot", "retry", "reconcile"}
Names == {NameOf[p] : p \in Pkgs}
Bodies == Sizes \cup {0}
NoLength == -1     \* the answer to HEAD does not state the size
Heads == Bodies \cup {NoLength}

ASSUME ConstantsAssumption ==
  /\ NameOf \in [Pkgs -> Names] /\ VerOf \in [Pkgs -> Nat \ {0}]
  /\ Rank \in [Pkgs -> Nat]
  /\ Pkgs \subseteq RowKeys /\ NoRow \notin RowKeys
  /\ Alias \in [Pkgs -> RowKeys] /\ ObjectOf \in [RowKeys -> Pkgs]
  /\ \A p \in Pkgs : ObjectOf[p] = p /\ ObjectOf[Alias[p]] = p
  /\ Sizes \subseteq Nat \ {0}
  /\ Dead \subseteq Pkgs
  /\ Cron \notin Api /\ Kind \in [Api -> Kinds]
  /\ MaxRetries \in Nat
  /\ BackfillEnabled \in BOOLEAN
  /\ {Concurrency, BackfillBatch, PageSize} \subseteq Nat
  /\ {MaxFaults, MaxCrashes, MaxRequests, MaxLosses} \subseteq Nat

VARIABLES
  catalog,   \* what the data source lists now
  objects,   \* the bucket: size of p's tarball, 0 if there is none
  meta,      \* the bucket: which version metadata.json of a name describes
  lost,      \* packages whose object vanished since its last upload
  rows,      \* table package_versions
  saved,     \* table sync_state
  mem,       \* SyncManager.syncState.PackageStates
  jobs,      \* SyncManager.jobs
  pc,        \* where each goroutine is
  todo,      \* packages a goroutine has still to hand to a worker
  work,      \* where the worker of goroutine t for package p is
  body,      \* what that worker holds in its temporary file
  unsaved,   \* rows a running saveSyncState has still to write
  frozen,    \* whether it iterates a map that a load has since replaced
  snap,      \* that map; or, between the two steps of a load, the rows it read
  left,      \* items of the loop that goroutine t is in
  listed,    \* sizes that loop read before it started
  cur,       \* row key the loop is at
  seen,      \* what the HEAD request of this iteration returned, 0 if it failed
  faults, crashes, requests

bucket == <<objects, meta, lost>>
flow == <<pc, todo, work, body>>
saver == <<unsaved, frozen, snap>>
loop == <<left, listed, cur, seen>>
bounds == <<faults, crashes, requests>>
vars == <<catalog, bucket, rows, saved, mem, jobs, flow, saver, loop, bounds>>

-----------------------------------------------------------------------------
(* models.PackageState.  A package without an entry has status "none"; the *)
(* retry count is only ever compared with MaxRetries, so it saturates there.*)
PackageState == [status : {"none", "syncing", "success", "failed"},
                 retry : 0..MaxRetries, size : Bodies]
NoState == [status |-> "none", retry |-> 0, size |-> 0]

Row == [status : {"none", "", "pending", "success", "failed"}, size : Bodies]
NoEntry == [status |-> "none", size |-> 0]

RunPcs == {"boot_run", "run", "retry_run"}
SavePcs == {"boot_save", "save", "retry_save"}
LoadPcs == {"boot_load", "boot_swap", "load", "swap"}
RecPcs == {"rec_rows", "rec_head", "rec_fix", "rec_list", "rec_has", "rec_insert",
           "rec_source", "rec_probe", "rec_mark", "rec_exists", "rec_add", "rec_fail"}
Pcs == {"off", "rest", "boot_get", "boot_index", "get", "plan", "scan"}
         \cup RunPcs \cup SavePcs \cup LoadPcs \cup RecPcs
WorkPcs == {"idle", "fetch", "mark", "download", "upload", "verify", "meta",
            "record", "upsert", "status"}

NoList == [pri |-> {}, back |-> {}]
NoMap == [p \in Pkgs |-> NoState]
NoSizes == [r \in RowKeys |-> 0]

-----------------------------------------------------------------------------
(* MUTANT of Marked: a package in progress is recorded as the table would. *)
MarkedPending(p, status, size) ==
  [mem EXCEPT ![p].status = IF status = "syncing" THEN "pending" ELSE status]

(* updatePackageState: the new value of the map, under stateMutex.          *)
Marked(p, status, size) ==
  [mem EXCEPT ![p] =
     [status |-> status,
      retry  |-> IF status = "failed" /\ @.retry < MaxRetries THEN @.retry + 1 ELSE @.retry,
      size   |-> IF status = "success" THEN size ELSE @.size]]

Step(t, at) == pc' = [pc EXCEPT ![t] = at]

(* A call to upstream, the bucket or the database goes wrong.               *)
Fault == faults < MaxFaults /\ faults' = faults + 1

(* A statement on package_versions whose error the caller drops.            *)
Exec(newRows) ==
  \/ rows' = newRows /\ UNCHANGED faults
  \/ Fault /\ UNCHANGED rows

(* UpsertPackageVersion and UpdateVersionStatus (which needs a row).        *)
UpsertPackageVersion(r, status, size) ==
  [rows EXCEPT ![r] = [status |-> status, size |-> size]]
UpdateVersionStatus(r, status, size) ==
  IF rows[r].status = "none" THEN rows ELSE UpsertPackageVersion(r, status, size)

(* GetFileInfo on p's object, its size going to seen[t].  An answer without *)
(* Content-Length has a nil size, which every caller takes for 0.           *)
GetFileInfo(t, p) ==
  \/ seen' = [seen EXCEPT ![t] = objects[p]] /\ UNCHANGED faults
  \/ Fault /\ seen' = [seen EXCEPT ![t] = 0]
  \/ Fault /\ objects[p] # 0 /\ seen' = [seen EXCEPT ![t] = NoLength]
Actual(size) == IF size = NoLength THEN 0 ELSE size

(* Source.Get: the index as it is now, or a copy in Redis that is older but *)
(* shows all that the mirror knows of already.  One that does not, because  *)
(* an earlier call wrote it late, or because an answer could not be parsed  *)
(* (an empty list, with a nil error), counts as a fault.                    *)
Known == {p \in catalog : \/ objects[p] # 0 \/ p \in lost
                         \/ {rows[p].status, mem[p].status, saved[p].status} # {"none"}}
Get(got) ==
  /\ got \subseteq catalog
  /\ IF Known \subseteq got THEN UNCHANGED faults ELSE Fault

(* ListObjects asks for one page and takes it for everything.               *)
ListObjects(page) ==
  LET present == {p \in Pkgs : objects[p] # 0}
  IN  /\ page \subseteq present
      /\ IF Cardinality(present) <= PageSize THEN page = present
                                             ELSE Cardinality(page) = PageSize

(* DownloadPackage: redirect to the bucket, or stream from upstream.        *)
Redirects(p) == rows[p].status = "success" \/ mem[p].status = "success"

-----------------------------------------------------------------------------
TypeOK ==
  /\ catalog \subseteq Pkgs
  /\ objects \in [Pkgs -> Bodies] /\ lost \subseteq Pkgs
  /\ meta \in [Names -> Pkgs \cup {NoRow}]
  /\ rows \in [RowKeys -> Row]
  /\ saved \in [Pkgs -> PackageState] /\ mem \in [Pkgs -> PackageState]
  /\ jobs \subseteq Kinds
  /\ pc \in [Threads -> Pcs]
  /\ todo \in [Threads -> [pri : SUBSET Pkgs, back : SUBSET Pkgs]]
  /\ work \in [Threads -> [Pkgs -> WorkPcs]]
  /\ body \in [Threads -> [Pkgs -> Bodies]]
  /\ unsaved \in [Threads -> SUBSET Pkgs]
  /\ frozen \in [Threads -> BOOLEAN]
  /\ snap \in [Threads -> [Pkgs -> PackageState]]
  /\ left \in [Threads -> SUBSET RowKeys]
  /\ listed \in [Threads -> [RowKeys -> Bodies]]
  /\ cur \in [Threads -> RowKeys \cup {NoRow}]
  /\ seen \in [Threads -> Heads]
  /\ {faults, crashes, requests} \subseteq Nat
=============================================================================
