----------------------------- MODULE SyncWorker -----------------------------
(***************************************************************************)
(* SyncManager.syncPackage: one goroutine t mirrors one package version p. *)
(* Every step that another goroutine can observe, or that reads what       *)
(* another may have changed, is an action of its own.                      *)
(***************************************************************************)
EXTENDS MirrorState

At(t, p, at) == work[t][p] = at
Goto(t, p, at) == work' = [work EXCEPT ![t][p] = at]

(* A goroutine of the retry loop first completes the package from the      *)
(* index.  fmt.Sscanf with "%s@%s" reads up to a blank, so the whole key   *)
(* goes into the name, and the version stays empty (here 0).               *)
Ident(p) == [name |-> NameOf[p], version |-> VerOf[p]]
Sscanf(p) == [name |-> p, version |-> 0]

FetchPackageInfo(t, p) ==
  /\ At(t, p, "fetch")
  /\ \E got \in SUBSET catalog :
       /\ Get(got)
       /\ Goto(t, p, IF Sscanf(p) \in {Ident(q) : q \in got} THEN "mark" ELSE "idle")
  /\ UNCHANGED <<catalog, bucket, rows, saved, mem, jobs, pc, todo, body, saver, loop,
                 crashes, requests>>

(* MUTANT of Begin: success is recorded before there is an object.         *)
BeginOptimistic(t, p) ==
  /\ At(t, p, "mark")
  /\ mem' = Marked(p, "success", 0)
  /\ Goto(t, p, "download")
  /\ UNCHANGED <<catalog, bucket, rows, saved, jobs, pc, todo, body, saver, loop, bounds>>

(* updatePackageState(pkgKey, "syncing", 0).                               *)
Begin(t, p) ==
  /\ At(t, p, "mark")
  /\ mem' = Marked(p, "syncing", 0)
  /\ Goto(t, p, "download")
  /\ UNCHANGED <<catalog, bucket, rows, saved, jobs, pc, todo, body, saver, loop, bounds>>

(* The goroutine gives up: state "failed", deferred clean-up, slot freed.  *)
GiveUp(t, p) ==
  /\ mem' = Marked(p, "failed", 0)
  /\ Goto(t, p, "idle")
  /\ body' = [body EXCEPT ![t][p] = 0]

(* http.Get, copy to a temporary file, cut the clean part out of it.       *)
Download(t, p) ==
  /\ At(t, p, "download") /\ p \notin Dead
  /\ \E size \in Sizes : body' = [body EXCEPT ![t][p] = size]
  /\ Goto(t, p, "upload")
  /\ UNCHANGED <<catalog, bucket, rows, saved, mem, jobs, pc, todo, saver, loop, bounds>>

DownloadFails(t, p) ==
  /\ At(t, p, "download")
  /\ IF p \in Dead THEN UNCHANGED faults ELSE Fault
  /\ GiveUp(t, p)
  /\ UNCHANGED <<catalog, bucket, rows, saved, jobs, pc, todo, saver, loop, crashes, requests>>

Upload(t, p) ==
  /\ At(t, p, "upload")
  /\ objects' = [objects EXCEPT ![p] = body[t][p]]
  /\ lost' = lost \ {p}
  /\ Goto(t, p, "verify")
  /\ UNCHANGED <<catalog, meta, rows, saved, mem, jobs, pc, todo, body, saver, loop, bounds>>

(* The PUT returns an error; the object may have been stored all the same. *)
UploadFails(t, p) ==
  /\ At(t, p, "upload")
  /\ Fault
  /\ \/ UNCHANGED <<objects, lost>>
     \/ objects' = [objects EXCEPT ![p] = body[t][p]] /\ lost' = lost \ {p}
  /\ GiveUp(t, p)
  /\ UNCHANGED <<catalog, meta, rows, saved, jobs, pc, todo, saver, loop, crashes, requests>>

(* HEAD after the upload: a failed HEAD is ignored, another size is not,   *)
(* nor is none.                                                            *)
Verify(t, p) ==
  /\ At(t, p, "verify")
  /\ IF objects[p] \in {0, body[t][p]} THEN UNCHANGED faults ELSE Fault
  /\ Goto(t, p, "meta")
  /\ UNCHANGED <<catalog, bucket, rows, saved, mem, jobs, pc, todo, body, saver, loop,
                 crashes, requests>>

VerifyFails(t, p) ==
  /\ At(t, p, "verify")
  /\ objects[p] # 0
  /\ IF objects[p] # body[t][p] THEN UNCHANGED faults ELSE Fault
  /\ GiveUp(t, p)
  /\ UNCHANGED <<catalog, bucket, rows, saved, jobs, pc, todo, saver, loop, crashes, requests>>

(* metadata.json is one object per name: the last writer's version wins.   *)
SavePackageMetadata(t, p) ==
  /\ At(t, p, "meta")
  /\ \/ meta' = [meta EXCEPT ![NameOf[p]] = p] /\ UNCHANGED faults
     \/ Fault /\ UNCHANGED meta
  /\ Goto(t, p, "record")
  /\ UNCHANGED <<catalog, objects, lost, rows, saved, mem, jobs, pc, todo, body, saver, loop,
                 crashes, requests>>

(* updatePackageState(pkgKey, "success", fileSize).                        *)
Record(t, p) ==
  /\ At(t, p, "record")
  /\ mem' = Marked(p, "success", body[t][p])
  /\ Goto(t, p, "upsert")
  /\ UNCHANGED <<catalog, bucket, rows, saved, jobs, pc, todo, body, saver, loop, bounds>>

(* MUTANT of StoreUpsert: the second statement is missing.                 *)
StoreUpsertOnly(t, p) ==
  /\ At(t, p, "upsert")
  /\ Exec(UpsertPackageVersion(p, "", body[t][p]))
  /\ Goto(t, p, "idle")
  /\ UNCHANGED <<catalog, bucket, saved, mem, jobs, pc, todo, body, saver, loop,
                 crashes, requests>>

(* The row is first written with the empty status of the index entry ...   *)
StoreUpsert(t, p) ==
  /\ At(t, p, "upsert")
  /\ Exec(UpsertPackageVersion(p, "", body[t][p]))
  /\ Goto(t, p, "status")
  /\ UNCHANGED <<catalog, bucket, saved, mem, jobs, pc, todo, body, saver, loop,
                 crashes, requests>>

(* MUTANT of StoreStatus: the size in the index goes into the row.         *)
StoreStatusNoSize(t, p) ==
  /\ At(t, p, "status")
  /\ Exec(UpdateVersionStatus(p, "success", 0))
  /\ Goto(t, p, "idle")
  /\ body' = [body EXCEPT ![t][p] = 0]
  /\ UNCHANGED <<catalog, bucket, saved, mem, jobs, pc, todo, saver, loop, crashes, requests>>

(* ... and then set to "success"; errors of both statements are dropped.   *)
StoreStatus(t, p) ==
  /\ At(t, p, "status")
  /\ Exec(UpdateVersionStatus(p, "success", body[t][p]))
  /\ Goto(t, p, "idle")
  /\ body' = [body EXCEPT ![t][p] = 0]
  /\ UNCHANGED <<catalog, bucket, saved, mem, jobs, pc, todo, saver, loop, crashes, requests>>

WorkerStep(t, p) ==
  \/ FetchPackageInfo(t, p)
  \/ Begin(t, p)
  \/ Download(t, p) \/ DownloadFails(t, p)
  \/ Upload(t, p) \/ UploadFails(t, p)
  \/ Verify(t, p) \/ VerifyFails(t, p)
  \/ SavePackageMetadata(t, p)
  \/ Record(t, p)
  \/ StoreUpsert(t, p) \/ StoreStatus(t, p)
=============================================================================
