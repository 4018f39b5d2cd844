----------------------------- MODULE Reconcile -----------------------------
(***************************************************************************)
(* SyncManager.Reconcile: goroutine t compares table package_versions with *)
(* the bucket in three loops.  Workers of other goroutines may run between *)
(* any two requests, so each request is an action.  Nothing here touches   *)
(* the in-memory sync state: ScheduledResync is only reported.             *)
(***************************************************************************)
EXTENDS MirrorState

AfterReconcile(t) == IF t \in Api /\ Kind[t] = "reconcile" THEN "off" ELSE "boot_get"

RecFrame == UNCHANGED <<catalog, bucket, saved, mem, jobs, todo, work, body, saver,
                        crashes, requests>>

(* The loop of t has its items, with the sizes read together with them.    *)
Begins(t, at, items, sizes) ==
  /\ left' = [left EXCEPT ![t] = items]
  /\ listed' = [listed EXCEPT ![t] = [r \in RowKeys |-> IF r \in items THEN sizes[r] ELSE 0]]
  /\ Step(t, at)

(* One iteration takes item r; the loop ends when there is none.           *)
Takes(t, r) ==
  /\ r \in left[t]
  /\ left' = [left EXCEPT ![t] = @ \ {r}]
  /\ cur' = [cur EXCEPT ![t] = r]
Ends(t, from, to) ==
  /\ pc[t] = from /\ left[t] = {}
  /\ Begins(t, to, {}, NoSizes)
  /\ RecFrame /\ UNCHANGED <<cur, seen, rows, faults>>

(* An iteration is over: back to the head of the loop.                     *)
NextItem(t, at) ==
  /\ cur' = [cur EXCEPT ![t] = NoRow]
  /\ seen' = [seen EXCEPT ![t] = 0]
  /\ UNCHANGED <<left, listed>>
  /\ Step(t, at)

-----------------------------------------------------------------------------
(* ListAllVersions.  A stream of rows that breaks off is not noticed.      *)
RecRows(t) ==
  /\ pc[t] = "rec_rows"
  /\ LET all == {r \in RowKeys : rows[r].status # "none"} IN
       \/ \E got \in SUBSET all :
            /\ IF got = all THEN UNCHANGED faults ELSE Fault
            /\ Begins(t, "rec_head", got, [r \in RowKeys |-> rows[r].size])
       \/ Fault /\ Begins(t, AfterReconcile(t), {}, NoSizes)
  /\ RecFrame /\ UNCHANGED <<rows, cur, seen>>

(* First loop: every row against its object.                               *)
RecHead(t) ==
  /\ pc[t] = "rec_head"
  /\ \E r \in RowKeys : Takes(t, r) /\ GetFileInfo(t, ObjectOf[r])
  /\ Step(t, "rec_fix")
  /\ RecFrame /\ UNCHANGED <<rows, listed>>

(* A HEAD that failed counts as a missing object.                          *)
RecFix(t) ==
  /\ pc[t] = "rec_fix"
  /\ LET r == cur[t] IN
       \/ /\ seen[t] = 0
          /\ Exec(UpdateVersionStatus(r, "failed", listed[t][r]))
       \/ /\ seen[t] # 0 /\ Actual(seen[t]) # listed[t][r]
          /\ Exec(UpdateVersionStatus(r, "success", Actual(seen[t])))
       \/ /\ seen[t] # 0 /\ Actual(seen[t]) = listed[t][r]
          /\ UNCHANGED <<rows, faults>>
  /\ NextItem(t, "rec_head")
  /\ RecFrame

(* Second loop: every object on the page, under the name in its key.       *)
RecList(t) ==
  /\ pc[t] = "rec_list"
  /\ \/ \E page \in SUBSET Pkgs :
          ListObjects(page) /\ Begins(t, "rec_has", page, objects) /\ UNCHANGED faults
     \/ Fault /\ Begins(t, "rec_source", {}, NoSizes)
  /\ RecFrame /\ UNCHANGED <<rows, cur, seen>>

RecHas(t) ==
  /\ pc[t] = "rec_has"
  /\ \E p \in Pkgs :
       \/ /\ rows[Alias[p]].status = "none"
          /\ Takes(t, p) /\ Step(t, "rec_insert")
          /\ UNCHANGED faults
       \/ /\ p \in left[t] /\ left' = [left EXCEPT ![t] = @ \ {p}]
          /\ IF rows[Alias[p]].status # "none" THEN UNCHANGED faults ELSE Fault
          /\ UNCHANGED <<cur, pc>>
  /\ RecFrame /\ UNCHANGED <<rows, listed, seen>>

(* Upsert, then UpdateVersionStatus to the same values: one write.         *)
RecInsert(t) ==
  /\ pc[t] = "rec_insert"
  /\ Exec(UpsertPackageVersion(Alias[cur[t]], "success", listed[t][cur[t]]))
  /\ NextItem(t, "rec_has")
  /\ RecFrame

(* Third loop: every package of the index.                                 *)
RecSource(t) ==
  /\ pc[t] = "rec_source"
  /\ \/ \E got \in SUBSET catalog : Get(got) /\ Begins(t, "rec_probe", got, NoSizes)
     \/ Fault /\ Begins(t, AfterReconcile(t), {}, NoSizes)
  /\ RecFrame /\ UNCHANGED <<rows, cur, seen>>

RecProbe(t) ==
  /\ pc[t] = "rec_probe"
  /\ \E p \in Pkgs : Takes(t, p) /\ GetFileInfo(t, p)
  /\ Step(t, IF seen'[t] # 0 THEN "rec_mark" ELSE "rec_exists")
  /\ RecFrame /\ UNCHANGED <<rows, listed>>

RecMark(t) ==
  /\ pc[t] = "rec_mark"
  /\ Exec(UpsertPackageVersion(cur[t], "success", Actual(seen[t])))
  /\ NextItem(t, "rec_probe")
  /\ RecFrame

(* HasVersion; an error reads as "no such row".                            *)
RecExists(t) ==
  /\ pc[t] = "rec_exists"
  /\ \/ rows[cur[t]].status # "none" /\ Step(t, "rec_fail") /\ UNCHANGED faults
     \/ rows[cur[t]].status = "none" /\ Step(t, "rec_add") /\ UNCHANGED faults
     \/ rows[cur[t]].status # "none" /\ Step(t, "rec_add") /\ Fault
  /\ RecFrame /\ UNCHANGED <<rows, loop>>

(* MUTANT of RecAdd: a package without an object is entered as a success.  *)
RecAddSuccess(t) ==
  /\ pc[t] = "rec_add"
  /\ Exec(UpsertPackageVersion(cur[t], "success", 0))
  /\ NextItem(t, "rec_probe")
  /\ RecFrame

RecAdd(t) ==
  /\ pc[t] = "rec_add"
  /\ Exec(UpsertPackageVersion(cur[t], "pending", 0))
  /\ NextItem(t, "rec_probe")
  /\ RecFrame

RecFail(t) ==
  /\ pc[t] = "rec_fail"
  /\ Exec(UpdateVersionStatus(cur[t], "failed", 0))
  /\ NextItem(t, "rec_probe")
  /\ RecFrame

ReconcileStep(t) ==
  \/ RecRows(t)
  \/ RecHead(t) \/ RecFix(t) \/ Ends(t, "rec_head", "rec_list")
  \/ RecList(t)
  \/ RecHas(t) \/ RecInsert(t) \/ Ends(t, "rec_has", "rec_source")
  \/ RecSource(t)
  \/ RecProbe(t) \/ RecMark(t) \/ RecExists(t) \/ RecAdd(t) \/ RecFail(t)
  \/ Ends(t, "rec_probe", AfterReconcile(t))
=============================================================================
