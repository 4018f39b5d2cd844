------------------------- MODULE SyncManagerProofs -------------------------
(***************************************************************************)
(* Proofs, for every value of the constants, that SyncManager is type      *)
(* correct, that every redirect to the bucket is backed by an object, that *)
(* jobs exclude each other and that it implements Mirror.                  *)
(***************************************************************************)
EXTENDS SyncManagerProps, FiniteSetTheorems, TLAPS

-----------------------------------------------------------------------------
(* updatePackageState keeps the map well-typed, and changes the entry of   *)
(* one package only.                                                       *)
LEMMA MarkedFacts ==
  ASSUME TypeOK, NEW p \in Pkgs, NEW status \in {"syncing", "success", "failed"},
         NEW size \in Bodies
  PROVE  /\ Marked(p, status, size) \in [Pkgs -> PackageState]
         /\ \A q \in Pkgs : Marked(p, status, size)[q].status =
                              IF q = p THEN status ELSE mem[q].status
<1>1. MaxRetries \in Nat
  BY ConstantsAssumption DEF ConstantsAssumption
<1>2. mem \in [Pkgs -> PackageState]
  BY DEF TypeOK
<1> QED
  BY <1>1, <1>2 DEF Marked, PackageState

(* A statement on package_versions keeps the table well-typed, and changes *)
(* at most the row that it names, to the status and size that it is given. *)
LEMMA RowFacts ==
  ASSUME TypeOK, NEW r \in RowKeys, NEW status \in {"", "pending", "success", "failed"},
         NEW size \in Bodies
  PROVE  /\ UpsertPackageVersion(r, status, size) \in [RowKeys -> Row]
         /\ UpdateVersionStatus(r, status, size) \in [RowKeys -> Row]
         /\ \A q \in RowKeys : /\ UpsertPackageVersion(r, status, size)[q].status \in
                                    {rows[q].status, IF q = r THEN status ELSE rows[q].status}
                               /\ UpdateVersionStatus(r, status, size)[q].status \in
                                    {rows[q].status, IF q = r THEN status ELSE rows[q].status}
<1>1. rows \in [RowKeys -> Row]
  BY DEF TypeOK
<1> QED
  BY <1>1 DEF UpsertPackageVersion, UpdateVersionStatus, Row

(* Exec does one of the statements above, or nothing.                      *)
LEMMA ExecTyped ==
  ASSUME TypeOK, NEW newRows \in [RowKeys -> Row], Exec(newRows)
  PROVE  rows' \in [RowKeys -> Row] /\ faults' \in Nat
BY DEF TypeOK, Exec, Fault

-----------------------------------------------------------------------------
(* Type correctness.  A step says first what it does to the one or two     *)
(* conjuncts of TypeOK that it disturbs.                                   *)
LEMMA WorkerTyped ==
  ASSUME TypeInv, NEW t \in Threads, NEW p \in Pkgs, WorkerStep(t, p)
  PROVE  TypeInv'
<1> USE DEF TypeInv, LoopTyped, At, Goto, bucket, flow, saver, loop, bounds
<1>a. TypeOK
  OBVIOUS
<1>b. /\ Marked(p, "syncing", 0) \in [Pkgs -> PackageState]
      /\ Marked(p, "failed", 0) \in [Pkgs -> PackageState]
      /\ Marked(p, "success", body[t][p]) \in [Pkgs -> PackageState]
  <2>1. 0 \in Bodies /\ body[t][p] \in Bodies
    BY <1>a DEF TypeOK, Bodies
  <2> QED
    BY <1>a, <2>1, MarkedFacts
<1>c. /\ UpsertPackageVersion(p, "", body[t][p]) \in [RowKeys -> Row]
      /\ UpdateVersionStatus(p, "success", body[t][p]) \in [RowKeys -> Row]
  <2>1. p \in RowKeys /\ body[t][p] \in Bodies
    BY <1>a, ConstantsAssumption DEF TypeOK, ConstantsAssumption
  <2> QED
    BY <1>a, <2>1, RowFacts
<1>d. NameOf[p] \in Names
  BY DEF Names
<1>1. CASE FetchPackageInfo(t, p)
  BY <1>1, <1>a DEF TypeOK, FetchPackageInfo, Get, Fault, WorkPcs
<1>2. CASE Begin(t, p)
  BY <1>2, <1>a, <1>b DEF TypeOK, Begin, WorkPcs
<1>3. CASE Download(t, p)
  BY <1>3, <1>a DEF TypeOK, Download, WorkPcs, Bodies
<1>4. CASE DownloadFails(t, p)
  BY <1>4, <1>a, <1>b DEF TypeOK, DownloadFails, GiveUp, Fault, WorkPcs, Bodies
<1>5. CASE Upload(t, p)
  BY <1>5, <1>a DEF TypeOK, Upload, WorkPcs
<1>6. CASE UploadFails(t, p)
  <2>0. body[t][p] \in Bodies /\ faults' \in Nat
    BY <1>6, <1>a DEF TypeOK, UploadFails, Fault
  <2>1. objects' \in [Pkgs -> Bodies] /\ lost' \subseteq Pkgs /\ faults' \in Nat
    BY <1>6, <1>a, <2>0 DEF TypeOK, UploadFails
  <2> QED
    BY <1>6, <1>a, <1>b, <2>1 DEF TypeOK, UploadFails, GiveUp, WorkPcs, Bodies
<1>7. CASE Verify(t, p)
  BY <1>7, <1>a DEF TypeOK, Verify, Fault, WorkPcs
<1>8. CASE VerifyFails(t, p)
  BY <1>8, <1>a, <1>b DEF TypeOK, VerifyFails, GiveUp, Fault, WorkPcs, Bodies
<1>9. CASE SavePackageMetadata(t, p)
  <2>1. meta' \in [Names -> Pkgs \cup {NoRow}] /\ faults' \in Nat
    BY <1>9, <1>a, <1>d DEF TypeOK, SavePackageMetadata, Fault
  <2> QED
    BY <1>9, <1>a, <2>1 DEF TypeOK, SavePackageMetadata, WorkPcs
<1>10. CASE Record(t, p)
  BY <1>10, <1>a, <1>b DEF TypeOK, Record, WorkPcs
<1>11. CASE StoreUpsert(t, p)
  <2>1. rows' \in [RowKeys -> Row] /\ faults' \in Nat
    BY <1>11, <1>a, <1>c, ExecTyped DEF StoreUpsert
  <2> QED
    BY <1>11, <1>a, <2>1 DEF TypeOK, StoreUpsert, WorkPcs
<1>12. CASE StoreStatus(t, p)
  <2>1. rows' \in [RowKeys -> Row] /\ faults' \in Nat
    BY <1>12, <1>a, <1>c, ExecTyped DEF StoreStatus
  <2> QED
    BY <1>12, <1>a, <2>1 DEF TypeOK, StoreStatus, WorkPcs, Bodies
<1> QED
  BY <1>1, <1>2, <1>3, <1>4, <1>5, <1>6, <1>7, <1>8, <1>9, <1>10, <1>11, <1>12 DEF WorkerStep

(* A step of Reconcile touches, besides the table, only the loop of its    *)
(* own goroutine: it is enough to look at that.                            *)
LEMMA LoopStepTyped ==
  ASSUME TypeInv, NEW t \in Threads, RecFrame,
         rows' \in [RowKeys -> Row], faults' \in Nat,
         pc' \in [Threads -> Pcs], left' \in [Threads -> SUBSET RowKeys],
         listed' \in [Threads -> [RowKeys -> Bodies]],
         cur' \in [Threads -> RowKeys \cup {NoRow}], seen' \in [Threads -> Heads],
         \A u \in Threads \ {t} : pc'[u] = pc[u] /\ left'[u] = left[u] /\ cur'[u] = cur[u],
         pc'[t] \notin {"rec_head", "rec_fix"} => left'[t] \subseteq Pkgs,
         pc'[t] = "rec_fix" => cur'[t] \in RowKeys,
         pc'[t] \in {"rec_insert", "rec_mark", "rec_exists", "rec_add", "rec_fail"}
           => cur'[t] \in Pkgs
  PROVE  TypeInv'
<1>1. TypeOK'
  BY DEF TypeInv, TypeOK, RecFrame, bucket, saver
<1>2. LoopTyped'
  BY DEF TypeInv, LoopTyped
<1> QED
  BY <1>1, <1>2 DEF TypeInv

(* What Begins, Takes and NextItem do to the loop of t.                    *)
LEMMA BeginsFacts ==
  ASSUME TypeOK, NEW t \in Threads, NEW at \in Pcs, NEW items \in SUBSET RowKeys,
         NEW sizes, \A r \in items : sizes[r] \in Bodies,
         Begins(t, at, items, sizes)
  PROVE  /\ pc' \in [Threads -> Pcs] /\ pc'[t] = at
         /\ left' \in [Threads -> SUBSET RowKeys] /\ left'[t] = items
         /\ listed' \in [Threads -> [RowKeys -> Bodies]]
         /\ \A r \in items : listed'[t][r] = sizes[r]
         /\ \A u \in Threads \ {t} : pc'[u] = pc[u] /\ left'[u] = left[u]
                                       /\ listed'[u] = listed[u]
<1>1. 0 \in Bodies
  BY DEF Bodies
<1> QED
  BY <1>1 DEF TypeOK, Begins, Step

LEMMA NextItemFacts ==
  ASSUME TypeOK, NEW t \in Threads, NEW at \in Pcs, NextItem(t, at)
  PROVE  /\ pc' \in [Threads -> Pcs] /\ pc'[t] = at
         /\ UNCHANGED <<left, listed>>
         /\ cur' \in [Threads -> RowKeys \cup {NoRow}] /\ cur'[t] = NoRow
         /\ seen' \in [Threads -> Heads] /\ seen'[t] = 0
         /\ \A u \in Threads \ {t} : pc'[u] = pc[u] /\ cur'[u] = cur[u] /\ seen'[u] = seen[u]
<1>1. 0 \in Heads
  BY DEF Heads, Bodies
<1> QED
  BY <1>1 DEF TypeOK, NextItem, Step

LEMMA TakesFacts ==
  ASSUME TypeOK, NEW t \in Threads, NEW r \in RowKeys, Takes(t, r)
  PROVE  /\ left' \in [Threads -> SUBSET RowKeys] /\ left'[t] = left[t] \ {r}
         /\ cur' \in [Threads -> RowKeys \cup {NoRow}] /\ cur'[t] = r /\ r \in left[t]
         /\ \A u \in Threads \ {t} : left'[u] = left[u] /\ cur'[u] = cur[u]
BY DEF TypeOK, Takes

LEMMA GetFileInfoFacts ==
  ASSUME TypeOK, NEW t \in Threads, NEW p \in Pkgs, GetFileInfo(t, p)
  PROVE  /\ seen' \in [Threads -> Heads]
         /\ seen'[t] # 0 => objects[p] # 0
         /\ UNCHANGED faults => seen'[t] = objects[p]
         /\ \A u \in Threads \ {t} : seen'[u] = seen[u]
         /\ faults' \in Nat
<1>1. {0, objects[p], NoLength} \subseteq Heads
  BY DEF TypeOK, Bodies, Heads
<1>2. faults' \in Nat /\ (Fault => faults' # faults)
  BY DEF TypeOK, GetFileInfo, Fault
<1>3. PICK size \in {0, objects[p], NoLength} :
        /\ seen' = [seen EXCEPT ![t] = size]
        /\ size # 0 => objects[p] # 0
        /\ size = objects[p] \/ Fault
  BY DEF GetFileInfo
<1>4. seen \in [Threads -> Heads]
  BY DEF TypeOK
<1> QED
  BY <1>1, <1>2, <1>3, <1>4

(* The size that is recorded of an answer to HEAD.                         *)
LEMMA ActualIsSize == ASSUME NEW size \in Heads PROVE Actual(size) \in Bodies
BY DEF Actual, Heads, Bodies

LEMMA ReconcileTyped ==
  ASSUME TypeInv, NEW t \in Threads, ReconcileStep(t)
  PROVE  TypeInv'
<1>a. TypeOK /\ LoopTyped /\ Pkgs \subseteq RowKeys /\ 0 \in Bodies
  BY ConstantsAssumption DEF TypeInv, ConstantsAssumption, Bodies
<1>b. AfterReconcile(t) \in Pcs \ ({"rec_head", "rec_fix"} \cup
        {"rec_insert", "rec_mark", "rec_exists", "rec_add", "rec_fail"})
  BY DEF AfterReconcile, Pcs
<1>c. RecPcs \subseteq Pcs
  BY DEF Pcs
<1>d. UNCHANGED rows => rows' \in [RowKeys -> Row]
  BY <1>a DEF TypeOK
<1>e. UNCHANGED <<cur, seen>> => /\ cur' \in [Threads -> RowKeys \cup {NoRow}]
                                /\ seen' \in [Threads -> Heads]
  BY <1>a DEF TypeOK
<1>f. UNCHANGED faults \/ Fault => faults' \in Nat
  BY <1>a DEF TypeOK, Fault
<1>g. RecFrame
  BY DEF ReconcileStep, RecRows, RecHead, RecFix, Ends, RecList, RecHas, RecInsert, RecSource,
         RecProbe, RecMark, RecExists, RecAdd, RecFail
(* A loop starts or ends ...                                               *)
<1>A. ASSUME NEW at \in Pcs \ {"rec_fix", "rec_insert", "rec_mark", "rec_exists", "rec_add",
                               "rec_fail"},
             NEW items \in SUBSET RowKeys, NEW sizes, \A r \in items : sizes[r] \in Bodies,
             at # "rec_head" => items \subseteq Pkgs,
             Begins(t, at, items, sizes), UNCHANGED <<rows, cur, seen>>,
             UNCHANGED faults \/ Fault
      PROVE  TypeInv'
  <2>1. at \in Pcs
    OBVIOUS
  <2>2. rows' \in [RowKeys -> Row] /\ faults' \in Nat
    BY <1>A, <1>d, <1>f
  <2>3. /\ cur' \in [Threads -> RowKeys \cup {NoRow}] /\ seen' \in [Threads -> Heads]
        /\ \A u \in Threads \ {t} : cur'[u] = cur[u]
    BY <1>A, <1>e
  <2>4. /\ pc' \in [Threads -> Pcs] /\ pc'[t] = at
        /\ left' \in [Threads -> SUBSET RowKeys] /\ left'[t] = items
        /\ listed' \in [Threads -> [RowKeys -> Bodies]]
        /\ \A u \in Threads \ {t} : pc'[u] = pc[u] /\ left'[u] = left[u]
    <3>1. /\ TypeOK /\ Begins(t, at, items, sizes)
          /\ \A r \in items : sizes[r] \in Bodies
      BY <1>a, <1>A
    <3> QED
      BY <2>1, <3>1, BeginsFacts, ZenonT(60)
  <2> QED
    BY <1>a, <1>g, <1>A, <2>2, <2>3, <2>4, LoopStepTyped DEF TypeInv
(* ... and an iteration comes to its end.                                  *)
<1>B. ASSUME NEW newRows \in [RowKeys -> Row], NEW at \in {"rec_head", "rec_has", "rec_probe"},
             Exec(newRows), NextItem(t, at), at # "rec_head" => left[t] \subseteq Pkgs
      PROVE  TypeInv'
  <2>1. at \in Pcs
    BY <1>c DEF RecPcs
  <2> QED
    BY <1>a, <1>g, <1>B, <2>1, NextItemFacts, ExecTyped, LoopStepTyped, ZenonT(60) DEF TypeOK
<1>1. CASE RecRows(t)
  <2>1. CASE \E got \in SUBSET {r \in RowKeys : rows[r].status # "none"} :
                /\ IF got = {r \in RowKeys : rows[r].status # "none"}
                     THEN UNCHANGED faults ELSE Fault
                /\ Begins(t, "rec_head", got, [r \in RowKeys |-> rows[r].size])
    <3>1. "rec_head" \in Pcs
      BY <1>c DEF RecPcs
    <3>2. \A r \in RowKeys : [q \in RowKeys |-> rows[q].size][r] \in Bodies
      BY <1>a DEF TypeOK, Row
    <3> QED
      BY <1>1, <1>A, <2>1, <3>1, <3>2 DEF RecRows
  <2>2. CASE Fault /\ Begins(t, AfterReconcile(t), {}, NoSizes)
    BY <1>1, <1>A, <1>b, <2>2 DEF RecRows
  <2> QED
    BY <1>1, <2>1, <2>2 DEF RecRows
<1>2. CASE RecHead(t)
  <2>1. PICK r \in RowKeys : Takes(t, r) /\ GetFileInfo(t, ObjectOf[r])
    BY <1>2 DEF RecHead
  <2>2. ObjectOf[r] \in Pkgs
    BY ConstantsAssumption DEF ConstantsAssumption
  <2>3. pc' \in [Threads -> Pcs] /\ pc'[t] = "rec_fix"
        /\ \A u \in Threads \ {t} : pc'[u] = pc[u]
    BY <1>2, <1>a, <1>c DEF RecHead, Step, TypeOK, RecPcs
  <2>4. listed' \in [Threads -> [RowKeys -> Bodies]] /\ rows' \in [RowKeys -> Row]
    BY <1>2, <1>a DEF RecHead, TypeOK
  <2> QED
    BY <1>a, <1>g, <2>1, <2>2, <2>3, <2>4, TakesFacts, GetFileInfoFacts, LoopStepTyped
<1>3. CASE RecFix(t)
  <2> DEFINE r == cur[t]
  <2>1. r \in RowKeys /\ Actual(seen[t]) \in Bodies /\ listed[t][r] \in Bodies
    BY <1>3, <1>a, ActualIsSize DEF RecFix, LoopTyped, TypeOK
  <2>2. \E newRows \in [RowKeys -> Row] : Exec(newRows)
    BY <1>3, <1>a, <2>1, RowFacts DEF RecFix, Exec, TypeOK
  <2> QED
    BY <1>3, <1>B, <2>2 DEF RecFix
<1>4. CASE Ends(t, "rec_head", "rec_list")
  <2>1. "rec_list" \in Pcs
    BY <1>c DEF RecPcs
  <2> QED
    BY <1>4, <1>A, <1>b, <2>1 DEF Ends
<1>5. CASE RecList(t)
  <2>1. "rec_has" \in Pcs /\ "rec_source" \in Pcs
    BY <1>c DEF RecPcs
  <2>2. \A p \in Pkgs : objects[p] \in Bodies
    BY <1>a DEF TypeOK
  <2>3. CASE \E page \in SUBSET Pkgs :
               ListObjects(page) /\ Begins(t, "rec_has", page, objects) /\ UNCHANGED faults
    BY <1>5, <1>a, <1>A, <2>1, <2>2, <2>3 DEF RecList
  <2>4. CASE Fault /\ Begins(t, "rec_source", {}, NoSizes)
    BY <1>5, <1>A, <2>1, <2>4 DEF RecList
  <2> QED
    BY <1>5, <2>3, <2>4 DEF RecList
<1>6. CASE RecHas(t)
  <2>1. PICK p \in Pkgs :
          \/ Takes(t, p) /\ Step(t, "rec_insert") /\ UNCHANGED faults
          \/ /\ left' = [left EXCEPT ![t] = @ \ {p}]
             /\ UNCHANGED faults \/ Fault
             /\ UNCHANGED <<cur, pc>>
    BY <1>6 DEF RecHas
  <2>2. listed' \in [Threads -> [RowKeys -> Bodies]] /\ rows' \in [RowKeys -> Row]
        /\ seen' \in [Threads -> Heads] /\ faults' \in Nat
    BY <1>6, <1>a, <1>f, <2>1 DEF RecHas, TypeOK
  <2>3. left[t] \subseteq Pkgs
    BY <1>6, <1>a DEF RecHas, LoopTyped
  <2>4. CASE Takes(t, p) /\ Step(t, "rec_insert")
    <3>1. pc' \in [Threads -> Pcs] /\ pc'[t] = "rec_insert"
          /\ \A u \in Threads \ {t} : pc'[u] = pc[u]
      BY <1>a, <1>c, <2>4 DEF Step, TypeOK, RecPcs
    <3> QED
      BY <1>a, <1>g, <2>2, <2>3, <2>4, <3>1, TakesFacts, LoopStepTyped, SMTT(30)
  <2>5. CASE left' = [left EXCEPT ![t] = @ \ {p}] /\ UNCHANGED <<cur, pc>>
    BY <1>6, <1>a, <1>g, <2>2, <2>3, <2>5, LoopStepTyped DEF RecHas, TypeOK
  <2> QED
    BY <2>1, <2>4, <2>5
<1>7. CASE RecInsert(t)
  <2>1. cur[t] \in Pkgs /\ left[t] \subseteq Pkgs
    BY <1>7, <1>a DEF RecInsert, LoopTyped
  <2>2. UpsertPackageVersion(Alias[cur[t]], "success", listed[t][cur[t]]) \in [RowKeys -> Row]
    <3>1. Alias[cur[t]] \in RowKeys
      BY <2>1, ConstantsAssumption DEF ConstantsAssumption
    <3>2. listed[t][cur[t]] \in Bodies
      BY <1>a, <2>1 DEF TypeOK
    <3> QED
      BY <1>a, <3>1, <3>2 DEF UpsertPackageVersion, Row, TypeOK
  <2> QED
    BY <1>7, <1>B, <2>1, <2>2 DEF RecInsert
<1>8. CASE Ends(t, "rec_has", "rec_source")
  <2>1. "rec_source" \in Pcs
    BY <1>c DEF RecPcs
  <2> QED
    BY <1>8, <1>A, <1>b, <2>1 DEF Ends
<1>9. CASE RecSource(t)
  <2>1. "rec_probe" \in Pcs
    BY <1>c DEF RecPcs
  <2>2. CASE \E got \in SUBSET catalog : Get(got) /\ Begins(t, "rec_probe", got, NoSizes)
    <3>1. PICK got \in SUBSET catalog : Get(got) /\ Begins(t, "rec_probe", got, NoSizes)
      BY <2>2
    <3>2. got \subseteq Pkgs /\ \A p \in got : NoSizes[p] \in Bodies
      BY <1>a DEF TypeOK, NoSizes
    <3> QED
      BY <1>9, <1>a, <1>A, <2>1, <3>1, <3>2 DEF RecSource, Get
  <2>3. CASE Fault /\ Begins(t, AfterReconcile(t), {}, NoSizes)
    BY <1>9, <1>A, <1>b, <2>3 DEF RecSource
  <2> QED
    BY <1>9, <2>2, <2>3 DEF RecSource
<1>10. CASE RecProbe(t)
  <2>1. PICK p \in Pkgs : Takes(t, p) /\ GetFileInfo(t, p)
    BY <1>10 DEF RecProbe
  <2>2. pc' \in [Threads -> Pcs] /\ pc'[t] \in {"rec_mark", "rec_exists"}
        /\ \A u \in Threads \ {t} : pc'[u] = pc[u]
    BY <1>10, <1>a, <1>c DEF RecProbe, Step, TypeOK, RecPcs
  <2>3. listed' \in [Threads -> [RowKeys -> Bodies]] /\ rows' \in [RowKeys -> Row]
        /\ left[t] \subseteq Pkgs
    BY <1>10, <1>a DEF RecProbe, TypeOK, LoopTyped
  <2> QED
    BY <1>a, <1>g, <2>1, <2>2, <2>3, TakesFacts, GetFileInfoFacts, LoopStepTyped
<1>11. CASE RecMark(t)
  <2>1. cur[t] \in RowKeys /\ Actual(seen[t]) \in Bodies /\ left[t] \subseteq Pkgs
    BY <1>11, <1>a, ConstantsAssumption, ActualIsSize
       DEF RecMark, LoopTyped, TypeOK, ConstantsAssumption
  <2>2. UpsertPackageVersion(cur[t], "success", Actual(seen[t])) \in [RowKeys -> Row]
    BY <1>a, <2>1, RowFacts
  <2> QED
    BY <1>11, <1>B, <2>1, <2>2 DEF RecMark
<1>12. CASE RecExists(t)
  <2>1. pc' \in [Threads -> Pcs] /\ pc'[t] \in {"rec_fail", "rec_add"}
        /\ \A u \in Threads \ {t} : pc'[u] = pc[u]
    <3>1. PICK at \in {"rec_fail", "rec_add"} : Step(t, at)
      BY <1>12 DEF RecExists
    <3>2. at \in Pcs
      BY <1>c DEF RecPcs
    <3> QED
      BY <1>a, <3>1, <3>2 DEF Step, TypeOK
  <2>2. cur[t] \in Pkgs /\ left[t] \subseteq Pkgs
    BY <1>12, <1>a DEF RecExists, LoopTyped
  <2>3. UNCHANGED <<rows, loop>> /\ faults' \in Nat
    BY <1>12, <1>f DEF RecExists
  <2> QED
    BY <1>a, <1>g, <2>1, <2>2, <2>3, LoopStepTyped DEF TypeOK, loop
<1>13. CASE RecAdd(t)
  <2>1. cur[t] \in RowKeys /\ left[t] \subseteq Pkgs
    BY <1>13, <1>a, ConstantsAssumption DEF RecAdd, LoopTyped, TypeOK, ConstantsAssumption
  <2>2. UpsertPackageVersion(cur[t], "pending", 0) \in [RowKeys -> Row]
    BY <1>a, <2>1, RowFacts
  <2> QED
    BY <1>13, <1>B, <2>1, <2>2 DEF RecAdd
<1>14. CASE RecFail(t)
  <2>1. cur[t] \in RowKeys /\ left[t] \subseteq Pkgs
    BY <1>14, <1>a, ConstantsAssumption DEF RecFail, LoopTyped, TypeOK, ConstantsAssumption
  <2>2. UpdateVersionStatus(cur[t], "failed", 0) \in [RowKeys -> Row]
    BY <1>a, <2>1, RowFacts
  <2> QED
    BY <1>14, <1>B, <2>1, <2>2 DEF RecFail
<1>15. CASE Ends(t, "rec_probe", AfterReconcile(t))
  <2>1. AfterReconcile(t) \in Pcs
    BY <1>b
  <2> QED
    BY <1>15, <1>A, <1>b, <2>1 DEF Ends
<1> QED
  BY <1>1, <1>2, <1>3, <1>4, <1>5, <1>6, <1>7, <1>8, <1>9, <1>10, <1>11, <1>12, <1>13, <1>14, <1>15 DEF ReconcileStep

LEMMA ThreadTyped ==
  ASSUME TypeInv, NEW t \in Threads, ThreadStep(t)
  PROVE  TypeInv'
<1> USE DEF Step, bucket, flow, saver, loop, bounds
<1> DEFINE Calm == Pcs \ {"rec_head", "rec_fix", "rec_insert", "rec_mark", "rec_exists",
                          "rec_add", "rec_fail"}
           Moves == /\ pc' \in [Threads -> Pcs] /\ pc'[t] \in Calm
                    /\ \A u \in Threads \ {t} : pc'[u] = pc[u]
<1>a. TypeOK /\ LoopTyped
  BY DEF TypeInv
<1>b. /\ NoMap \in [Pkgs -> PackageState]
      /\ NoState \in PackageState
  BY ConstantsAssumption DEF NoMap, NoState, PackageState, Bodies, ConstantsAssumption
<1>c. {"off", "rest", "boot_load", "boot_swap", "boot_get", "boot_index", "boot_run", "boot_save",
       "get", "load", "swap", "plan", "run", "save", "scan", "retry_run", "retry_save",
       "rec_rows"} \subseteq Calm
  BY DEF Pcs, RunPcs, SavePcs, LoadPcs, RecPcs
<1>d. ASSUME NEW next \in Calm, Step(t, next)
      PROVE  Moves
  BY <1>a, <1>d DEF TypeOK
<1>e. ASSUME NEW next \in Calm, Return(t, next)
      PROVE  Moves /\ jobs' \subseteq Kinds
  <2>1. CASE t = Cron
    BY <1>a, <1>d, <1>e, <2>1 DEF Return, TypeOK
  <2>2. CASE t # Cron
    <3>1. Step(t, "off") /\ (jobs' = jobs \/ jobs' = jobs \ {Kind[t]})
      BY <1>e, <2>2 DEF Return, FinishJob
    <3>2. "off" \in Calm
      BY <1>c
    <3> QED
      BY <1>a, <1>d, <3>1, <3>2 DEF TypeOK
  <2> QED
    BY <2>1, <2>2
<1>f. ASSUME Moves, UNCHANGED cur, left'[t] \subseteq Pkgs,
             \A u \in Threads \ {t} : left'[u] = left[u]
      PROVE  LoopTyped'
  BY <1>a, <1>f DEF LoopTyped
<1>g. pc[t] \in Calm => left[t] \subseteq Pkgs
  BY <1>a DEF LoopTyped
<1>h. UNCHANGED faults \/ Fault => faults' \in Nat
  BY <1>a DEF TypeOK, Fault
<1>i. ASSUME NEW packages \in SUBSET Pkgs,
             \/ todo' = [todo EXCEPT ![t].pri = packages]
             \/ todo' = [todo EXCEPT ![t].back = packages]
      PROVE  todo' \in [Threads -> [pri : SUBSET Pkgs, back : SUBSET Pkgs]]
  <2>1. todo[t] \in [pri : SUBSET Pkgs, back : SUBSET Pkgs]
    BY <1>a DEF TypeOK
  <2>2. /\ [todo[t] EXCEPT !.pri = packages] \in [pri : SUBSET Pkgs, back : SUBSET Pkgs]
        /\ [todo[t] EXCEPT !.back = packages] \in [pri : SUBSET Pkgs, back : SUBSET Pkgs]
    BY <2>1
  <2>3. \/ todo' = [todo EXCEPT ![t] = [todo[t] EXCEPT !.pri = packages]]
        \/ todo' = [todo EXCEPT ![t] = [todo[t] EXCEPT !.back = packages]]
    BY <1>i
  <2> QED
    BY <1>a, <2>2, <2>3 DEF TypeOK
<1> HIDE DEF Calm, Moves
<1>1. CASE Tick(t)
  <2>1. Moves
    BY <1>1, <1>c, <1>d DEF Tick
  <2>2. LoopTyped'
    BY <1>1, <1>c, <1>f, <1>g, <2>1 DEF Tick
  <2> QED
    BY <1>1, <1>a, <2>1, <2>2 DEF Tick, TypeInv, TypeOK, Moves
<1>2. CASE ReadState(t)
  <2>1. Moves
    BY <1>2, <1>c, <1>d DEF ReadState
  <2>2. LoopTyped'
    BY <1>2, <1>c, <1>f, <1>g, <2>1 DEF ReadState
  <2>3. faults' \in Nat
    BY <1>2, <1>h DEF ReadState
  <2>4. snap' \in [Threads -> [Pkgs -> PackageState]]
    <3>1. ASSUME NEW got PROVE [p \in Pkgs |-> IF p \in got THEN saved[p] ELSE NoState]
                                 \in [Pkgs -> PackageState]
      BY <1>a, <1>b DEF TypeOK
    <3>2. CASE UNCHANGED snap
      BY <1>a, <3>2 DEF TypeOK
    <3>3. CASE \E got \in SUBSET Pkgs :
                 snap' = [snap EXCEPT ![t] =
                            [p \in Pkgs |-> IF p \in got THEN saved[p] ELSE NoState]]
      BY <1>a, <3>1, <3>3 DEF TypeOK
    <3> QED
      BY <1>2, <3>2, <3>3 DEF ReadState
  <2> QED
    BY <1>2, <1>a, <2>1, <2>2, <2>3, <2>4 DEF ReadState, TypeInv, TypeOK, Moves
<1>3. CASE ReplaceState(t)
  <2>1. Moves
    BY <1>3, <1>c, <1>d DEF ReplaceState
  <2>2. LoopTyped'
    BY <1>3, <1>c, <1>f, <1>g, <2>1 DEF ReplaceState
  <2>3. mem' \in [Pkgs -> PackageState] /\ snap' \in [Threads -> [Pkgs -> PackageState]]
    BY <1>3, <1>a, <1>b DEF ReplaceState, TypeOK
  <2>4. frozen' \in [Threads -> BOOLEAN]
    BY <1>3, <1>a DEF ReplaceState, TypeOK
  <2> QED
    BY <1>3, <1>a, <2>1, <2>2, <2>3, <2>4 DEF ReplaceState, TypeInv, TypeOK, Moves
<1>4. CASE BootGet(t)
  <2>1. Moves /\ jobs' \subseteq Kinds
    BY <1>4, <1>a, <1>c, <1>d, <1>e DEF BootGet, TypeOK
  <2>2. /\ left' \in [Threads -> SUBSET RowKeys] /\ left'[t] \subseteq Pkgs
        /\ \A u \in Threads \ {t} : left'[u] = left[u]
    <3>1. CASE \E got \in SUBSET catalog : left' = [left EXCEPT ![t] = got]
      BY <1>a, <3>1, ConstantsAssumption DEF TypeOK, ConstantsAssumption
    <3>2. CASE UNCHANGED left
      BY <1>4, <1>a, <1>c, <1>g, <3>2 DEF BootGet, TypeOK
    <3> QED
      BY <1>4, <3>1, <3>2 DEF BootGet
  <2>3. LoopTyped'
    BY <1>4, <1>f, <2>1, <2>2 DEF BootGet
  <2>4. faults' \in Nat
    BY <1>4, <1>h DEF BootGet, Get
  <2> QED
    BY <1>4, <1>a, <2>1, <2>2, <2>3, <2>4 DEF BootGet, TypeInv, TypeOK, Moves
<1>5. CASE BootIndex(t)
  <2>1. Moves /\ jobs' \subseteq Kinds
    BY <1>5, <1>a, <1>c, <1>d, <1>e DEF BootIndex, TypeOK
  <2>2. /\ left' \in [Threads -> SUBSET RowKeys] /\ left'[t] = {}
        /\ \A u \in Threads \ {t} : left'[u] = left[u]
    BY <1>5, <1>a DEF BootIndex, TypeOK
  <2>3. LoopTyped'
    BY <1>5, <1>f, <2>1, <2>2 DEF BootIndex
  <2>4. faults' \in Nat
    BY <1>5, <1>h DEF BootIndex
  <2>5. todo' \in [Threads -> [pri : SUBSET Pkgs, back : SUBSET Pkgs]]
    <3>1. left[t] \subseteq Pkgs
      BY <1>5, <1>c, <1>g DEF BootIndex
    <3>2. PICK page : todo' = [todo EXCEPT ![t].pri = left[t] \ page]
      BY <1>5 DEF BootIndex, Missing
    <3>3. left[t] \ page \in SUBSET Pkgs
      BY <3>1
    <3> QED
      BY <1>i, <3>2, <3>3
  <2> QED
    BY <1>5, <1>a, <2>1, <2>2, <2>3, <2>4, <2>5, ZenonT(60) DEF BootIndex, TypeInv, TypeOK, Moves
<1>6. CASE PullGet(t)
  <2>1. Moves /\ jobs' \subseteq Kinds
    BY <1>6, <1>a, <1>c, <1>d, <1>e DEF PullGet, TypeOK
  <2>2. /\ left' \in [Threads -> SUBSET RowKeys] /\ left'[t] \subseteq Pkgs
        /\ \A u \in Threads \ {t} : left'[u] = left[u]
    <3>1. CASE \E got \in SUBSET catalog : left' = [left EXCEPT ![t] = got]
      BY <1>a, <3>1, ConstantsAssumption DEF TypeOK, ConstantsAssumption
    <3>2. CASE UNCHANGED left
      BY <1>6, <1>a, <1>c, <1>g, <3>2 DEF PullGet, TypeOK
    <3> QED
      BY <1>6, <3>1, <3>2 DEF PullGet
  <2>3. LoopTyped'
    BY <1>6, <1>f, <2>1, <2>2 DEF PullGet
  <2>4. faults' \in Nat
    BY <1>6, <1>h DEF PullGet, Get
  <2> QED
    BY <1>6, <1>a, <2>1, <2>2, <2>3, <2>4 DEF PullGet, TypeInv, TypeOK, Moves
<1>7. CASE Plan(t)
  <2>1. Moves
    BY <1>7, <1>c, <1>d DEF Plan
  <2>2. /\ left' \in [Threads -> SUBSET RowKeys] /\ left'[t] = {}
        /\ \A u \in Threads \ {t} : left'[u] = left[u]
    BY <1>7, <1>a DEF Plan, TypeOK
  <2>3. LoopTyped'
    BY <1>7, <1>f, <2>1, <2>2 DEF Plan
  <2>4. todo' \in [Threads -> [pri : SUBSET Pkgs, back : SUBSET Pkgs]]
    <3>1. left[t] \subseteq Pkgs
      BY <1>7, <1>c, <1>g DEF Plan
    <3>2. /\ planPriorityAndBackfill(determinePackagesToSync(left[t])).pri \subseteq Pkgs
          /\ Batch(planPriorityAndBackfill(determinePackagesToSync(left[t])).back) \subseteq Pkgs
      BY <3>1 DEF planPriorityAndBackfill, determinePackagesToSync, Batch
    <3> QED
      BY <1>7, <1>a, <3>2 DEF Plan, TypeOK
  <2> QED
    BY <1>7, <1>a, <2>1, <2>2, <2>3, <2>4 DEF Plan, TypeInv, TypeOK, Moves
<1>8. CASE Scan(t)
  <2>1. Moves /\ jobs' \subseteq Kinds
    BY <1>8, <1>a, <1>c, <1>d, <1>e DEF Scan, TypeOK
  <2>2. LoopTyped'
    BY <1>8, <1>c, <1>f, <1>g, <2>1 DEF Scan
  <2>3. todo' \in [Threads -> [pri : SUBSET Pkgs, back : SUBSET Pkgs]]
    <3>1. Failed \in SUBSET Pkgs
      BY DEF Failed
    <3> QED
      BY <1>8, <1>i, <3>1 DEF Scan
  <2> QED
    BY <1>8, <1>a, <2>1, <2>2, <2>3 DEF Scan, TypeInv, TypeOK, Moves
<1>9. CASE \E p \in Pkgs : Launch(t, p)
  <2>1. PICK p \in Pkgs : Launch(t, p)
    BY <1>9
  <2>2. todo' \in [Threads -> [pri : SUBSET Pkgs, back : SUBSET Pkgs]]
    <3>1. todo[t].pri \ {p} \in SUBSET Pkgs /\ todo[t].back \ {p} \in SUBSET Pkgs
      BY <1>a DEF TypeOK
    <3>2. \/ todo' = [todo EXCEPT ![t].pri = todo[t].pri \ {p}]
          \/ todo' = [todo EXCEPT ![t].back = todo[t].back \ {p}]
      BY <2>1 DEF Launch
    <3> QED
      BY <1>i, <3>1, <3>2
  <2>3. work' \in [Threads -> [Pkgs -> WorkPcs]]
    BY <1>a, <2>1 DEF Launch, Goto, WorkPcs, TypeOK
  <2>4. LoopTyped'
    BY <1>a, <2>1 DEF Launch, LoopTyped
  <2> QED
    BY <1>a, <2>1, <2>2, <2>3, <2>4 DEF Launch, TypeInv, TypeOK
<1>10. CASE Join(t)
  <2>1. Moves
    BY <1>10, <1>c, <1>d DEF Join, RunPcs
  <2>2. LoopTyped'
    BY <1>10, <1>c, <1>f, <1>g, <2>1 DEF Join, RunPcs
  <2>3. unsaved' \in [Threads -> SUBSET Pkgs]
    BY <1>10, <1>a DEF Join, TypeOK
  <2> QED
    BY <1>10, <1>a, <2>1, <2>2, <2>3 DEF Join, TypeInv, TypeOK, Moves
<1>11. CASE \E p \in Pkgs : SaveRow(t, p)
  <2>1. PICK p \in Pkgs : SaveRow(t, p)
    BY <1>11
  <2>2. Iterated(t)[p] \in PackageState
    BY <1>a DEF Iterated, TypeOK
  <2>3. saved' \in [Pkgs -> PackageState] /\ unsaved' \in [Threads -> SUBSET Pkgs]
    <3>1. \/ saved' = saved
          \/ saved' = [saved EXCEPT ![p] = Iterated(t)[p]]
      BY <2>1 DEF SaveRow
    <3>2. \/ unsaved' = [unsaved EXCEPT ![t] = unsaved[t] \ {p}]
          \/ unsaved' = [unsaved EXCEPT ![t] = {}]
      BY <2>1 DEF SaveRow
    <3>3. saved' \in [Pkgs -> PackageState]
      BY <1>a, <2>2, <3>1 DEF TypeOK
    <3>4. unsaved[t] \ {p} \in SUBSET Pkgs
      BY <1>a DEF TypeOK
    <3>5. unsaved' \in [Threads -> SUBSET Pkgs]
      BY <1>a, <3>2, <3>4 DEF TypeOK
    <3> QED
      BY <3>3, <3>5
  <2>4. faults' \in Nat
    BY <1>h, <2>1 DEF SaveRow
  <2>5. LoopTyped'
    BY <1>a, <2>1 DEF SaveRow, LoopTyped
  <2> QED
    BY <1>a, <2>1, <2>3, <2>4, <2>5 DEF SaveRow, TypeInv, TypeOK
<1>12. CASE SaveDone(t)
  <2>1. Moves /\ jobs' \subseteq Kinds
    BY <1>12, <1>a, <1>c, <1>d, <1>e DEF SaveDone, TypeOK
  <2>2. LoopTyped'
    BY <1>12, <1>c, <1>f, <1>g, <2>1 DEF SaveDone, SavePcs
  <2>3. /\ unsaved' \in [Threads -> SUBSET Pkgs] /\ frozen' \in [Threads -> BOOLEAN]
        /\ snap' \in [Threads -> [Pkgs -> PackageState]]
    BY <1>12, <1>a, <1>b DEF SaveDone, TypeOK
  <2> QED
    BY <1>12, <1>a, <2>1, <2>2, <2>3 DEF SaveDone, TypeInv, TypeOK, Moves
<1>13. CASE ReconcileStep(t)
  BY <1>13, ReconcileTyped
<1> QED
  BY <1>1, <1>2, <1>3, <1>4, <1>5, <1>6, <1>7, <1>8, <1>9, <1>10, <1>11, <1>12, <1>13 DEF ThreadStep

LEMMA EnvironmentTyped ==
  ASSUME TypeInv, Environment
  PROVE  TypeInv'
<1> USE DEF Step, bucket, flow, saver, loop, bounds
<1>a. TypeOK /\ LoopTyped
  BY DEF TypeInv
<1>1. CASE \E t \in Api : Trigger(t)
  <2>1. PICK t \in Api : Trigger(t)
    BY <1>1
  <2>2. t \in Threads /\ Kind[t] \in Kinds
    BY ConstantsAssumption DEF Threads, ConstantsAssumption
  <2>3. \E at \in {"get", "boot_load", "scan", "rec_rows"} : Step(t, at)
    BY <2>1, <2>2 DEF Trigger, Kinds
  <2>4. /\ pc' \in [Threads -> Pcs] /\ pc'[t] \in {"get", "boot_load", "scan", "rec_rows"}
        /\ \A u \in Threads \ {t} : pc'[u] = pc[u]
    <3>1. {"get", "boot_load", "scan", "rec_rows"} \subseteq Pcs
      BY DEF Pcs, LoadPcs, RecPcs
    <3> QED
      BY <1>a, <2>2, <2>3, <3>1 DEF TypeOK
  <2>5. jobs' \subseteq Kinds /\ requests' \in Nat
    BY <1>a, <2>1, <2>2 DEF Trigger, TryStartJob, TypeOK
  <2>6. LoopTyped'
    BY <1>a, <2>1, <2>2, <2>4 DEF Trigger, LoopTyped
  <2> QED
    BY <1>a, <2>1, <2>4, <2>5, <2>6 DEF Trigger, TypeInv, TypeOK
<1>2. CASE \E p \in Pkgs : Publish(p) \/ ObjectLost(p)
  <2>1. PICK p \in Pkgs : Publish(p) \/ ObjectLost(p)
    BY <1>2
  <2>2. catalog' \subseteq Pkgs /\ objects' \in [Pkgs -> Bodies] /\ lost' \subseteq Pkgs
    BY <1>a, <2>1 DEF Publish, ObjectLost, TypeOK, Bodies
  <2>3. LoopTyped'
    BY <1>a, <2>1 DEF Publish, ObjectLost, LoopTyped
  <2> QED
    BY <1>a, <2>1, <2>2, <2>3 DEF Publish, ObjectLost, TypeInv, TypeOK
<1>3. CASE Crash
  <2>1. /\ NoMap \in [Pkgs -> PackageState] /\ NoSizes \in [RowKeys -> Bodies]
        /\ NoList \in [pri : SUBSET Pkgs, back : SUBSET Pkgs]
    BY ConstantsAssumption
       DEF NoMap, NoState, NoSizes, NoList, PackageState, Bodies, ConstantsAssumption
  <2>2. {"boot_load", "off"} \subseteq Pcs /\ "idle" \in WorkPcs /\ 0 \in Bodies \cap Heads
    BY DEF Pcs, LoadPcs, WorkPcs, Bodies, Heads
  <2>3. LoopTyped'
    BY <1>3 DEF Crash, LoopTyped
  <2> QED
    BY <1>3, <1>a, <2>1, <2>2, <2>3 DEF Crash, TypeInv, TypeOK
<1> QED
  BY <1>1, <1>2, <1>3 DEF Environment

(* The type invariant, with what it needs to be inductive.                 *)
LEMMA TypeInvariance == Spec => []TypeInv
<1>1. Init => TypeInv
  <2> SUFFICES ASSUME Init PROVE TypeInv
    OBVIOUS
  <2>1. /\ NoMap \in [Pkgs -> PackageState] /\ NoSizes \in [RowKeys -> Bodies]
        /\ NoList \in [pri : SUBSET Pkgs, back : SUBSET Pkgs]
    BY ConstantsAssumption
       DEF NoMap, NoState, NoSizes, NoList, PackageState, Bodies, ConstantsAssumption
  <2>2. {"boot_load", "off"} \subseteq Pcs /\ "idle" \in WorkPcs /\ 0 \in Bodies \cap Heads
    BY DEF Pcs, LoadPcs, WorkPcs, Bodies, Heads
  <2>3. [r \in RowKeys |-> NoEntry] \in [RowKeys -> Row]
    BY DEF NoEntry, Row, Bodies
  <2> QED
    BY <2>1, <2>2, <2>3 DEF Init, TypeInv, TypeOK, LoopTyped
<1>2. TypeInv /\ [Next]_vars => TypeInv'
  <2> SUFFICES ASSUME TypeInv, [Next]_vars PROVE TypeInv'
    OBVIOUS
  <2>1. CASE \E t \in Threads : ThreadStep(t)
    BY <2>1, ThreadTyped
  <2>2. CASE \E t \in Threads, p \in Pkgs : WorkerStep(t, p)
    BY <2>2, WorkerTyped
  <2>3. CASE Environment
    BY <2>3, EnvironmentTyped
  <2>4. CASE UNCHANGED vars
    BY <2>4 DEF vars, bucket, flow, saver, loop, bounds, TypeInv, TypeOK, LoopTyped
  <2> QED
    BY <2>1, <2>2, <2>3, <2>4 DEF Next
<1> QED
  BY <1>1, <1>2, PTL DEF Spec

(* The state always has the types that the module gives its variables.     *)
THEOREM TypeCorrect == Spec => []TypeOK
BY TypeInvariance, PTL DEF TypeInv

-----------------------------------------------------------------------------
(* The safety of redirects.  Once stored, a package stays stored in the    *)
(* sense of Stored; so a conjunct of Backed survives every step that does  *)
(* not write the variables it speaks of.                                   *)
LEMMA BackedKept ==
  ASSUME IInv, \A p \in Pkgs : Stored(p) => Stored(p)'
  PROVE  /\ UNCHANGED mem => MapBacked(mem)'
         /\ UNCHANGED saved => MapBacked(saved)'
         /\ UNCHANGED snap => (\A t \in Threads : MapBacked(snap[t]))'
         /\ UNCHANGED rows => RowsBacked'
         /\ UNCHANGED <<work, body>> => WorkersBacked'
         /\ UNCHANGED <<pc, left, cur, seen>> => LoopBacked'
<1> USE DEF IInv, Backed
<1>1. UNCHANGED mem => MapBacked(mem)'
  BY DEF MapBacked
<1>2. UNCHANGED saved => MapBacked(saved)'
  BY DEF MapBacked
<1>3. UNCHANGED snap => (\A t \in Threads : MapBacked(snap[t]))'
  BY DEF MapBacked
<1>4. UNCHANGED rows => RowsBacked'
  BY ConstantsAssumption DEF RowsBacked, ConstantsAssumption
<1>5. UNCHANGED <<work, body>> => WorkersBacked'
  BY DEF WorkersBacked
<1>6. UNCHANGED <<pc, left, cur, seen>> => LoopBacked'
  <2> SUFFICES ASSUME UNCHANGED <<pc, left, cur, seen>> PROVE LoopBacked'
    OBVIOUS
  <2>1. ASSUME NEW t \in Threads, pc[t] \in {"rec_fix", "rec_mark", "rec_insert"}
        PROVE  cur[t] \in RowKeys /\ ObjectOf[cur[t]] \in Pkgs
               /\ (pc[t] = "rec_insert" => cur[t] \in Pkgs)
    BY <2>1, ConstantsAssumption DEF TypeInv, LoopTyped, ConstantsAssumption
  <2>2. ASSUME NEW t \in Threads, pc[t] \in {"rec_has", "rec_insert"}
        PROVE  left[t] \subseteq Pkgs
    BY <2>2 DEF TypeInv, LoopTyped
  <2> QED
    BY <2>1, <2>2 DEF LoopBacked, LoopBackedAt
<1> QED
  BY <1>1, <1>2, <1>3, <1>4, <1>5, <1>6

LEMMA WorkerBacked ==
  ASSUME IInv, NEW t \in Threads, NEW p \in Pkgs, WorkerStep(t, p)
  PROVE  Backed'
<1> USE DEF At, Goto, bucket, flow, saver, loop
<1>a. TypeOK /\ Backed /\ MapBacked(mem) /\ WorkersBacked /\ RowsBacked
  BY DEF IInv, Backed, TypeInv
<1>b. work[t][p] = "upload" => body[t][p] # 0
  BY <1>a DEF WorkersBacked
<1>c. work[t][p] \in AfterUpload => Stored(p)
  BY <1>a DEF WorkersBacked
<1>g. \A q \in Pkgs : Stored(q) => Stored(q)'
  <2>1. UNCHANGED <<objects, lost>>
        \/ (/\ work[t][p] = "upload" /\ lost' = lost \ {p}
            /\ objects' = [objects EXCEPT ![p] = body[t][p]])
    BY DEF WorkerStep, FetchPackageInfo, Begin, Download, DownloadFails, Upload, UploadFails,
           Verify, VerifyFails, SavePackageMetadata, Record, StoreUpsert, StoreStatus
  <2> QED
    BY <1>a, <1>b, <2>1 DEF Stored, TypeOK
<1>h. UNCHANGED <<saved, snap, pc, left, listed, cur, seen>>
  BY DEF WorkerStep, FetchPackageInfo, Begin, Download, DownloadFails, Upload, UploadFails,
         Verify, VerifyFails, SavePackageMetadata, Record, StoreUpsert, StoreStatus
(* The three conjuncts a worker can disturb, each from what it writes.     *)
<1>m. MapBacked(mem)'
  <2>1. \/ UNCHANGED mem
        \/ mem' = Marked(p, "syncing", 0)
        \/ mem' = Marked(p, "failed", 0)
        \/ mem' = Marked(p, "success", body[t][p]) /\ work[t][p] = "record"
    BY DEF WorkerStep, FetchPackageInfo, Begin, Download, DownloadFails, Upload, UploadFails,
           Verify, VerifyFails, SavePackageMetadata, Record, StoreUpsert, StoreStatus, GiveUp
  <2>2. 0 \in Bodies /\ body[t][p] \in Bodies
    BY <1>a DEF TypeOK, Bodies
  <2>3. CASE UNCHANGED mem
    BY <1>g, <2>3, BackedKept
  <2>4. ASSUME NEW status \in {"syncing", "success", "failed"}, NEW size \in Bodies,
               mem' = Marked(p, status, size), status = "success" => Stored(p)
        PROVE  MapBacked(mem)'
    <3>1. \A q \in Pkgs : mem'[q].status = IF q = p THEN status ELSE mem[q].status
      BY <1>a, <2>4, MarkedFacts
    <3> QED
      BY <1>a, <1>g, <2>4, <3>1 DEF MapBacked
  <2>5. work[t][p] = "record" => Stored(p)
    BY <1>c DEF AfterUpload
  <2> QED
    BY <2>1, <2>2, <2>3, <2>4, <2>5
<1>r. RowsBacked'
  <2>1. \/ UNCHANGED rows
        \/ rows' = UpsertPackageVersion(p, "", body[t][p])
        \/ rows' = UpdateVersionStatus(p, "success", body[t][p]) /\ work[t][p] = "status"
    BY DEF WorkerStep, FetchPackageInfo, Begin, Download, DownloadFails, Upload, UploadFails,
           Verify, VerifyFails, SavePackageMetadata, Record, StoreUpsert, StoreStatus, Exec
  <2>2. p \in RowKeys /\ ObjectOf[p] = p /\ body[t][p] \in Bodies
        /\ \A r \in RowKeys : ObjectOf[r] \in Pkgs
    BY <1>a, ConstantsAssumption DEF TypeOK, ConstantsAssumption
  <2>3. CASE UNCHANGED rows
    BY <1>g, <2>3, BackedKept
  <2>4. CASE rows' = UpsertPackageVersion(p, "", body[t][p])
    <3>1. \A r \in RowKeys : rows'[r].status \in
                               {rows[r].status, IF r = p THEN "" ELSE rows[r].status}
      BY <1>a, <2>2, <2>4, RowFacts
    <3> QED
      BY <1>a, <1>g, <2>2, <3>1 DEF RowsBacked
  <2>5. CASE rows' = UpdateVersionStatus(p, "success", body[t][p]) /\ work[t][p] = "status"
    <3>1. \A r \in RowKeys : rows'[r].status \in
                               {rows[r].status, IF r = p THEN "success" ELSE rows[r].status}
      BY <1>a, <2>2, <2>5, RowFacts
    <3>2. Stored(p)
      BY <1>c, <2>5 DEF AfterUpload
    <3> QED
      BY <1>a, <1>g, <2>2, <3>1, <3>2 DEF RowsBacked
  <2> QED
    BY <2>1, <2>3, <2>4, <2>5
<1>w. WorkersBacked'
  <2>1. \E at \in WorkPcs :
          /\ work' = [work EXCEPT ![t][p] = at]
          /\ at = "upload" => work[t][p] = "download" /\ body'[t][p] # 0
          /\ at = "verify" => Stored(p)'
          /\ at \in AfterUpload \ {"verify"} => work[t][p] \in AfterUpload
    <3>1. CASE Download(t, p)
      <4>1. PICK size \in Sizes : body' = [body EXCEPT ![t][p] = size]
        BY <3>1 DEF Download
      <4>2. size # 0
        BY ConstantsAssumption DEF ConstantsAssumption
      <4>3. body'[t][p] = size
        BY <1>a, <4>1 DEF TypeOK
      <4> QED
        BY <3>1, <4>2, <4>3 DEF Download, WorkPcs, AfterUpload
    <3>2. CASE Upload(t, p)
      <4>1. Stored(p)'
        BY <1>a, <1>b, <3>2 DEF Upload, Stored, TypeOK
      <4> QED
        BY <3>2, <4>1 DEF Upload, WorkPcs, AfterUpload
    <3>3. CASE DownloadFails(t, p) \/ UploadFails(t, p) \/ VerifyFails(t, p)
      BY <3>3 DEF DownloadFails, UploadFails, VerifyFails, GiveUp, WorkPcs, AfterUpload
    <3>4. CASE FetchPackageInfo(t, p) \/ Begin(t, p) \/ Verify(t, p)
      BY <3>4 DEF FetchPackageInfo, Begin, Verify, WorkPcs, AfterUpload
    <3>5. CASE SavePackageMetadata(t, p) \/ Record(t, p) \/ StoreUpsert(t, p)
               \/ StoreStatus(t, p)
      BY <3>5 DEF SavePackageMetadata, Record, StoreUpsert, StoreStatus, WorkPcs, AfterUpload
    <3> QED
      BY <3>1, <3>2, <3>3, <3>4, <3>5 DEF WorkerStep
  <2>2. \A u \in Threads, q \in Pkgs : (u # t \/ q # p) => body'[u][q] = body[u][q]
    <3>1. UNCHANGED body \/ \E size : body' = [body EXCEPT ![t][p] = size]
      BY DEF WorkerStep, FetchPackageInfo, Begin, Download, DownloadFails, Upload, UploadFails,
             Verify, VerifyFails, SavePackageMetadata, Record, StoreUpsert, StoreStatus, GiveUp
    <3> QED
      BY <1>a, <3>1 DEF TypeOK
  <2>3. PICK at \in WorkPcs :
          /\ work' = [work EXCEPT ![t][p] = at]
          /\ at = "upload" => body'[t][p] # 0
          /\ at \in AfterUpload => Stored(p)'
    BY <1>c, <1>g, <2>1
  <2>4. \A u \in Threads, q \in Pkgs :
          work'[u][q] = IF u = t /\ q = p THEN at ELSE work[u][q]
    BY <1>a, <2>3 DEF TypeOK
  <2> QED
    BY <1>a, <1>g, <2>2, <2>3, <2>4 DEF WorkersBacked
<1> QED
  BY <1>g, <1>h, <1>m, <1>r, <1>w, BackedKept DEF Backed

LEMMA ReconcileBacked ==
  ASSUME IInv, NEW t \in Threads, ReconcileStep(t)
  PROVE  Backed'
<1> USE DEF Step, bucket, flow, saver
<1>a. TypeOK /\ LoopTyped /\ RowsBacked /\ LoopBacked
  BY DEF IInv, Backed, TypeInv
<1>g. UNCHANGED <<mem, saved, snap, work, body, objects, lost>>
  BY DEF ReconcileStep, RecFrame, RecRows, RecHead, RecFix, Ends, RecList, RecHas, RecInsert,
         RecSource, RecProbe, RecMark, RecExists, RecAdd, RecFail
<1>h. \A p \in Pkgs : Stored(p)' = Stored(p)
  BY <1>g DEF Stored
<1>i. \A p \in Pkgs : objects[p] # 0 => Stored(p)
  BY DEF Stored
<1>j. /\ Pkgs \subseteq RowKeys /\ ObjectOf \in [RowKeys -> Pkgs] /\ Alias \in [Pkgs -> RowKeys]
      /\ \A p \in Pkgs : ObjectOf[p] = p /\ ObjectOf[Alias[p]] = p
  BY ConstantsAssumption DEF ConstantsAssumption
<1>k. AfterReconcile(t) \notin {"rec_fix", "rec_mark", "rec_has", "rec_insert"}
  BY DEF AfterReconcile
(* A row that is written "success" names a stored object ...               *)
<1>r. RowsBacked'
  <2>1. CASE UNCHANGED rows
    BY <1>g, <1>h, <2>1, BackedKept
  <2>2. ASSUME NEW r \in RowKeys, NEW status \in {"", "pending", "success", "failed"},
               NEW size \in Bodies,
               \/ rows' = UpsertPackageVersion(r, status, size)
               \/ rows' = UpdateVersionStatus(r, status, size),
               status = "success" => Stored(ObjectOf[r])
        PROVE  RowsBacked'
    <3>1. \A q \in RowKeys : rows'[q].status \in
                               {rows[q].status, IF q = r THEN status ELSE rows[q].status}
      <4>0. rows \in [RowKeys -> Row]
        BY <1>a DEF TypeOK
      <4>1. CASE rows' = UpsertPackageVersion(r, status, size)
        BY <4>0, <4>1 DEF UpsertPackageVersion
      <4>2. CASE rows' = UpdateVersionStatus(r, status, size)
        BY <4>0, <4>2 DEF UpsertPackageVersion, UpdateVersionStatus
      <4> QED
        BY <2>2, <4>1, <4>2
    <3> QED
      BY <1>a, <1>h, <1>j, <2>2, <3>1 DEF RowsBacked
  <2>3. CASE RecFix(t)
    <3>1. cur[t] \in RowKeys /\ Actual(seen[t]) \in Bodies /\ listed[t][cur[t]] \in Bodies
      BY <1>a, <2>3, ActualIsSize DEF RecFix, LoopTyped, TypeOK
    <3>2. seen[t] # 0 => Stored(ObjectOf[cur[t]])
      BY <1>a, <2>3 DEF RecFix, LoopBacked, LoopBackedAt
    <3>3. \/ UNCHANGED rows
          \/ rows' = UpdateVersionStatus(cur[t], "failed", listed[t][cur[t]])
          \/ rows' = UpdateVersionStatus(cur[t], "success", Actual(seen[t])) /\ seen[t] # 0
      BY <2>3 DEF RecFix, Exec
    <3> QED
      BY <2>1, <2>2, <3>1, <3>2, <3>3
  <2>4. CASE RecInsert(t)
    <3>1. cur[t] \in Pkgs /\ Stored(cur[t])
      BY <1>a, <2>4 DEF RecInsert, LoopTyped, LoopBacked, LoopBackedAt
    <3>2. Alias[cur[t]] \in RowKeys /\ listed[t][cur[t]] \in Bodies
          /\ Stored(ObjectOf[Alias[cur[t]]])
      BY <1>a, <1>j, <3>1 DEF TypeOK
    <3>3. \/ UNCHANGED rows
          \/ rows' = UpsertPackageVersion(Alias[cur[t]], "success", listed[t][cur[t]])
      BY <2>4 DEF RecInsert, Exec
    <3> QED
      BY <2>1, <2>2, <3>2, <3>3
  <2>5. CASE RecMark(t)
    <3>1. cur[t] \in RowKeys /\ Actual(seen[t]) \in Bodies /\ Stored(ObjectOf[cur[t]])
      BY <1>a, <1>j, <2>5, ActualIsSize DEF RecMark, LoopTyped, LoopBacked, LoopBackedAt, TypeOK
    <3>2. UNCHANGED rows \/ rows' = UpsertPackageVersion(cur[t], "success", Actual(seen[t]))
      BY <2>5 DEF RecMark, Exec
    <3> QED
      BY <2>1, <2>2, <3>1, <3>2
  <2>6. CASE RecAdd(t) \/ RecFail(t)
    <3>1. cur[t] \in RowKeys /\ 0 \in Bodies
      BY <1>a, <1>j, <2>6 DEF RecAdd, RecFail, LoopTyped, Bodies
    <3>2. \/ UNCHANGED rows
          \/ rows' = UpsertPackageVersion(cur[t], "pending", 0)
          \/ rows' = UpdateVersionStatus(cur[t], "failed", 0)
      BY <2>6 DEF RecAdd, RecFail, Exec
    <3> QED
      BY <2>1, <2>2, <3>1, <3>2
  <2> QED
    BY <2>1, <2>3, <2>4, <2>5, <2>6
       DEF ReconcileStep, RecRows, RecHead, Ends, RecList, RecHas, RecSource, RecProbe, RecExists
(* ... and so does what the loop of t holds; other loops do not change.    *)
<1>o. \A u \in Threads \ {t} : /\ pc'[u] = pc[u] /\ left'[u] = left[u]
                              /\ cur'[u] = cur[u] /\ seen'[u] = seen[u]
  <2>1. /\ UNCHANGED pc \/ \E at : pc' = [pc EXCEPT ![t] = at]
        /\ UNCHANGED left \/ \E items : left' = [left EXCEPT ![t] = items]
        /\ UNCHANGED cur \/ \E r : cur' = [cur EXCEPT ![t] = r]
        /\ UNCHANGED seen \/ \E size : seen' = [seen EXCEPT ![t] = size]
    BY DEF ReconcileStep, RecRows, RecHead, RecFix, Ends, RecList, RecHas, RecInsert, RecSource,
           RecProbe, RecMark, RecExists, RecAdd, RecFail, Begins, Takes, NextItem, GetFileInfo, loop
  <2> QED
    BY <1>a, <2>1 DEF TypeOK
<1>p. ASSUME pc'[t] \notin {"rec_fix", "rec_mark", "rec_has", "rec_insert"}
      PROVE  LoopBackedAt(t)'
  BY <1>p DEF LoopBackedAt
<1>l. LoopBackedAt(t)'
  <2>1. CASE RecHead(t)
    <3>1. PICK r \in RowKeys : Takes(t, r) /\ GetFileInfo(t, ObjectOf[r])
      BY <2>1 DEF RecHead
    <3>2. cur'[t] = r /\ (seen'[t] # 0 => objects[ObjectOf[r]] # 0) /\ ObjectOf[r] \in Pkgs
      BY <1>a, <1>j, <3>1, TakesFacts, GetFileInfoFacts
    <3>3. pc'[t] = "rec_fix"
      BY <1>a, <2>1 DEF RecHead, TypeOK
    <3> QED
      BY <1>h, <1>i, <3>2, <3>3 DEF LoopBackedAt
  <2>2. CASE RecProbe(t)
    <3>1. PICK p \in Pkgs : Takes(t, p) /\ GetFileInfo(t, p)
      BY <2>2 DEF RecProbe
    <3>2. cur'[t] = p /\ (seen'[t] # 0 => objects[p] # 0) /\ ObjectOf[p] = p
      BY <1>a, <1>j, <3>1, TakesFacts, GetFileInfoFacts
    <3>3. pc'[t] = IF seen'[t] # 0 THEN "rec_mark" ELSE "rec_exists"
      BY <1>a, <2>2 DEF RecProbe, TypeOK
    <3> QED
      BY <1>h, <1>i, <3>2, <3>3 DEF LoopBackedAt
  <2>3. CASE RecList(t)
    <3>1. CASE Begins(t, "rec_source", {}, NoSizes)
      BY <1>a, <1>p, <3>1 DEF Begins, TypeOK
    <3>2. ASSUME NEW page \in SUBSET Pkgs, ListObjects(page), Begins(t, "rec_has", page, objects)
          PROVE  LoopBackedAt(t)'
      <4>1. pc'[t] = "rec_has" /\ left'[t] = page
        BY <1>a, <3>2 DEF Begins, TypeOK
      <4>2. \A p \in page : p \in Pkgs /\ Stored(p)
        BY <1>i, <3>2 DEF ListObjects
      <4> QED
        BY <1>h, <4>1, <4>2 DEF LoopBackedAt
    <3> QED
      BY <2>3, <3>1, <3>2 DEF RecList
  <2>4. CASE RecHas(t)
    <3>1. left[t] \subseteq Pkgs /\ \A p \in left[t] : Stored(p)
      BY <1>a, <2>4 DEF RecHas, LoopTyped, LoopBacked, LoopBackedAt
    <3>2. PICK p \in Pkgs : \/ Takes(t, p) /\ Step(t, "rec_insert")
                            \/ /\ p \in left[t] /\ left' = [left EXCEPT ![t] = @ \ {p}]
                               /\ UNCHANGED <<cur, pc>>
      BY <2>4 DEF RecHas
    <3>3. CASE Takes(t, p) /\ Step(t, "rec_insert")
      <4>1. pc'[t] = "rec_insert" /\ cur'[t] = p /\ left'[t] = left[t] \ {p} /\ p \in left[t]
        BY <1>a, <1>j, <3>3, TakesFacts DEF TypeOK
      <4> QED
        BY <1>h, <3>1, <4>1 DEF LoopBackedAt
    <3>4. CASE left' = [left EXCEPT ![t] = @ \ {p}] /\ UNCHANGED <<cur, pc>>
      <4>1. pc'[t] = "rec_has" /\ left'[t] = left[t] \ {p}
        BY <1>a, <2>4, <3>4 DEF RecHas, TypeOK
      <4> QED
        BY <1>h, <3>1, <4>1 DEF LoopBackedAt
    <3> QED
      BY <3>2, <3>3, <3>4
  <2>5. CASE RecInsert(t)
    <3>1. left[t] \subseteq Pkgs /\ \A p \in left[t] : Stored(p)
      BY <1>a, <2>5 DEF RecInsert, LoopTyped, LoopBacked, LoopBackedAt
    <3>2. pc'[t] = "rec_has" /\ left'[t] = left[t]
      BY <1>a, <2>5 DEF RecInsert, NextItem, TypeOK
    <3> QED
      BY <1>h, <3>1, <3>2 DEF LoopBackedAt
  <2>6. CASE RecRows(t) \/ RecSource(t)
    <3>1. pc'[t] \in {"rec_head", "rec_probe", AfterReconcile(t)}
      BY <1>a, <2>6 DEF RecRows, RecSource, Begins, TypeOK
    <3> QED
      BY <1>k, <1>p, <3>1
  <2>7. CASE \/ Ends(t, "rec_head", "rec_list") \/ Ends(t, "rec_has", "rec_source")
             \/ Ends(t, "rec_probe", AfterReconcile(t))
    <3>1. pc'[t] \in {"rec_list", "rec_source", AfterReconcile(t)}
      BY <1>a, <2>7 DEF Ends, Begins, TypeOK
    <3> QED
      BY <1>k, <1>p, <3>1
  <2>8. CASE RecFix(t) \/ RecMark(t) \/ RecAdd(t) \/ RecFail(t) \/ RecExists(t)
    <3>1. pc'[t] \in {"rec_head", "rec_probe", "rec_fail", "rec_add"}
      BY <1>a, <2>8 DEF RecFix, RecMark, RecAdd, RecFail, RecExists, NextItem, TypeOK
    <3> QED
      BY <1>p, <3>1
  <2> QED
    BY <2>1, <2>2, <2>3, <2>4, <2>5, <2>6, <2>7, <2>8 DEF ReconcileStep
<1>q. LoopBacked'
  <2> SUFFICES ASSUME NEW u \in Threads, u # t PROVE LoopBackedAt(u)'
    BY <1>l DEF LoopBacked
  <2>1. LoopBackedAt(u) /\ pc'[u] = pc[u] /\ left'[u] = left[u] /\ cur'[u] = cur[u]
        /\ seen'[u] = seen[u]
    BY <1>a, <1>o DEF LoopBacked
  <2> QED
    BY <1>g, <2>1 DEF LoopBackedAt, Stored
<1> QED
  BY <1>g, <1>h, <1>q, <1>r, BackedKept DEF Backed

LEMMA ThreadBacked ==
  ASSUME IInv, NEW t \in Threads, ThreadStep(t)
  PROVE  Backed'
<1>1. CASE ReconcileStep(t)
  BY <1>1, ReconcileBacked
<1>2. CASE ~ReconcileStep(t)
  <2> USE DEF Step, bucket, flow, saver, loop, bounds
  <2>a. /\ TypeOK /\ WorkersBacked /\ LoopBacked /\ MapBacked(mem) /\ MapBacked(saved)
        /\ \A u \in Threads : MapBacked(snap[u])
    BY DEF IInv, Backed, TypeInv
  <2>b. UNCHANGED <<objects, lost, rows, body, cur, seen>>
    BY <1>2 DEF ThreadStep, Tick, ReadState, ReplaceState, BootGet, BootIndex, PullGet, Plan, Scan,
                Launch, Join, SaveRow, SaveDone
  <2>c. \A p \in Pkgs : Stored(p) <=> Stored(p)'
    BY <2>b DEF Stored
  <2>d. \A u \in Threads : MapBacked(snap[u])'
    <3>1. CASE UNCHANGED snap
      BY <2>c, <3>1, BackedKept
    <3>2. CASE ReadState(t) /\ ~UNCHANGED snap
      <4>1. PICK got \in SUBSET Pkgs :
              snap' = [snap EXCEPT ![t] =
                         [p \in Pkgs |-> IF p \in got THEN saved[p] ELSE NoState]]
        BY <3>2 DEF ReadState
      <4>2. \A u \in Threads, p \in Pkgs : snap'[u][p] \in {snap[u][p], saved[p], NoState}
        BY <2>a, <4>1 DEF TypeOK
      <4> QED
        BY <2>a, <2>c, <4>2 DEF MapBacked, NoState
    <3>3. CASE ReplaceState(t)
      <4>1. \A u \in Threads, p \in Pkgs : snap'[u][p] \in {snap[u][p], mem[p], NoMap[p]}
        BY <2>a, <3>3 DEF ReplaceState, TypeOK
      <4>2. \A p \in Pkgs : NoMap[p].status # "success"
        BY DEF NoMap, NoState
      <4> QED
        BY <2>a, <2>c, <4>1, <4>2 DEF MapBacked
    <3>4. CASE SaveDone(t)
      <4>1. \A u \in Threads, p \in Pkgs : snap'[u][p] \in {snap[u][p], NoMap[p]}
        BY <2>a, <3>4 DEF SaveDone, TypeOK
      <4>2. \A p \in Pkgs : NoMap[p].status # "success"
        BY DEF NoMap, NoState
      <4> QED
        BY <2>a, <2>c, <4>1, <4>2 DEF MapBacked
    <3> QED
      BY <1>2, <3>1, <3>2, <3>3, <3>4
         DEF ThreadStep, Tick, BootGet, BootIndex, PullGet, Plan, Scan, Launch, Join, SaveRow
  <2>e. MapBacked(mem)'
    <3>1. UNCHANGED mem \/ mem' = snap[t]
      BY <1>2 DEF ThreadStep, Tick, ReadState, ReplaceState, BootGet, BootIndex, PullGet, Plan, Scan,
                  Launch, Join, SaveRow, SaveDone
    <3> QED
      BY <2>a, <2>c, <3>1 DEF MapBacked
  <2>f. MapBacked(saved)'
    <3>1. UNCHANGED saved \/ \E p \in Pkgs : saved' = [saved EXCEPT ![p] = Iterated(t)[p]]
      BY <1>2 DEF ThreadStep, Tick, ReadState, ReplaceState, BootGet, BootIndex, PullGet, Plan, Scan,
                  Launch, Join, SaveRow, SaveDone
    <3>2. \A p \in Pkgs : saved'[p] \in {saved[p], mem[p], snap[t][p]}
      BY <2>a, <3>1 DEF Iterated, TypeOK
    <3> QED
      BY <2>a, <2>c, <3>2 DEF MapBacked
  <2>g. WorkersBacked'
    <3>1. UNCHANGED work \/ \E p \in Pkgs : Goto(t, p, "fetch") \/ Goto(t, p, "mark")
      BY <1>2 DEF ThreadStep, Tick, ReadState, ReplaceState, BootGet, BootIndex, PullGet, Plan, Scan,
                  Launch, Join, SaveRow, SaveDone
    <3>2. \A u \in Threads, p \in Pkgs : work'[u][p] \in {work[u][p], "fetch", "mark"}
      <4>1. CASE UNCHANGED work
        BY <4>1
      <4>2. ASSUME NEW q \in Pkgs, NEW at \in {"fetch", "mark"}, Goto(t, q, at)
            PROVE  \A u \in Threads, p \in Pkgs : work'[u][p] \in {work[u][p], at}
        BY <2>a, <4>2 DEF Goto, TypeOK
      <4> QED
        BY <3>1, <4>1, <4>2
    <3> QED
      BY <2>a, <2>b, <2>c, <3>2 DEF WorkersBacked, AfterUpload
  <2>h. LoopBacked'
    <3> DEFINE Watched == {"rec_fix", "rec_mark", "rec_has", "rec_insert"}
    <3>1. \/ UNCHANGED pc
          \/ \E at : pc' = [pc EXCEPT ![t] = at] /\ at \notin Watched
      <4>1. CASE Tick(t) \/ ReadState(t) \/ ReplaceState(t)
        BY <4>1 DEF Tick, ReadState, ReplaceState
      <4>2. CASE BootGet(t) \/ BootIndex(t) \/ PullGet(t) \/ Plan(t) \/ Scan(t)
        BY <4>2 DEF BootGet, BootIndex, PullGet, Plan, Scan, Return
      <4>3. CASE (\E p \in Pkgs : Launch(t, p) \/ SaveRow(t, p)) \/ SaveDone(t)
        <5>1. CASE \E p \in Pkgs : Launch(t, p) \/ SaveRow(t, p)
          BY <5>1 DEF Launch, SaveRow, flow
        <5>2. CASE SaveDone(t)
          <6>1. \E at \in {"get", "scan", "rest", "off"} : Step(t, at)
            BY <5>2 DEF SaveDone, Return
          <6> QED
            BY <6>1 DEF Step
        <5> QED
          BY <4>3, <5>1, <5>2
      <4>4. CASE Join(t)
        <5>1. \E at \in {"boot_save", "save", "retry_save"} : Step(t, at)
          BY <4>4 DEF Join, RunPcs
        <5> QED
          BY <5>1
      <4> QED
        BY <1>2, <4>1, <4>2, <4>3, <4>4 DEF ThreadStep
    <3>2. \/ left' = left
          \/ /\ pc[t] \in {"boot_get", "boot_index", "get", "plan"}
             /\ \E items : left' = [left EXCEPT ![t] = items]
      <4>1. CASE Tick(t) \/ ReadState(t) \/ ReplaceState(t) \/ Scan(t)
        <5>1. left' = left
          BY <4>1 DEF Tick, ReadState, ReplaceState, Scan
        <5> QED
          BY <5>1
      <4>2. CASE BootGet(t) \/ BootIndex(t) \/ PullGet(t) \/ Plan(t)
        <5>1. pc[t] \in {"boot_get", "boot_index", "get", "plan"}
          BY <4>2 DEF BootGet, BootIndex, PullGet, Plan
        <5>2. left' = left \/ \E items : left' = [left EXCEPT ![t] = items]
          BY <4>2 DEF BootGet, BootIndex, PullGet, Plan
        <5> QED
          BY <5>1, <5>2
      <4>3. CASE (\E p \in Pkgs : Launch(t, p) \/ SaveRow(t, p)) \/ SaveDone(t) \/ Join(t)
        <5>1. left' = left
          BY <4>3 DEF Launch, SaveRow, SaveDone, Join
        <5> QED
          BY <5>1
      <4> QED
        BY <1>2, <4>1, <4>2, <4>3 DEF ThreadStep
    <3>3. \A u \in Threads : pc'[u] \in Watched => pc'[u] = pc[u] /\ left'[u] = left[u]
      BY <2>a, <3>1, <3>2 DEF TypeOK
    <3>4. ASSUME NEW u \in Threads PROVE LoopBackedAt(u)'
      <4>1. CASE pc'[u] \notin Watched
        BY <4>1 DEF LoopBackedAt
      <4>2. CASE pc'[u] \in Watched
        BY <2>a, <2>b, <3>3, <4>2 DEF LoopBacked, LoopBackedAt, Stored
      <4> QED
        BY <4>1, <4>2
    <3> QED
      BY <3>4 DEF LoopBacked
  <2> QED
    BY <2>b, <2>c, <2>d, <2>e, <2>f, <2>g, <2>h, BackedKept DEF Backed
<1> QED
  BY <1>1, <1>2

LEMMA EnvironmentBacked ==
  ASSUME IInv, Environment
  PROVE  Backed'
<1> USE DEF Step, bucket, flow, saver, loop, bounds
<1>a. TypeOK /\ LoopBacked
  BY DEF IInv, Backed, TypeInv
<1>g. \A p \in Pkgs : Stored(p) => Stored(p)'
  BY <1>a DEF Environment, Trigger, Publish, ObjectLost, Crash, Stored, TypeOK
<1>1. CASE \E t \in Api : Trigger(t)
  <2>1. PICK t \in Api : Trigger(t)
    BY <1>1
  <2>2. \E at \in {"get", "boot_load", "scan", "rec_rows"} : pc' = [pc EXCEPT ![t] = at]
    BY <2>1, ConstantsAssumption DEF Trigger, Kinds, ConstantsAssumption
  <2>3. \A u \in Threads : pc'[u] = pc[u] \/ pc'[u] \in {"get", "boot_load", "scan", "rec_rows"}
    BY <1>a, <2>2 DEF TypeOK, Threads
  <2>4. ASSUME NEW u \in Threads PROVE LoopBackedAt(u)'
    <3>1. CASE pc'[u] = pc[u]
      BY <1>a, <2>1, <3>1 DEF Trigger, LoopBacked, LoopBackedAt, Stored
    <3>2. CASE pc'[u] \in {"get", "boot_load", "scan", "rec_rows"}
      BY <3>2 DEF LoopBackedAt
    <3> QED
      BY <2>3, <3>1, <3>2
  <2>5. LoopBacked'
    BY <2>4 DEF LoopBacked
  <2> QED
    BY <1>g, <2>1, <2>5, BackedKept DEF Trigger, Backed
<1>2. CASE \E p \in Pkgs : Publish(p) \/ ObjectLost(p)
  BY <1>g, <1>2, BackedKept DEF Publish, ObjectLost, Backed
<1>3. CASE Crash
  <2>1. \A p \in Pkgs : NoMap[p].status # "success"
    BY DEF NoMap, NoState
  <2>2. /\ MapBacked(mem)' /\ (\A t \in Threads : MapBacked(snap[t]))'
    BY <1>3, <2>1 DEF Crash, MapBacked
  <2>3. WorkersBacked' /\ LoopBacked'
    BY <1>3 DEF Crash, WorkersBacked, AfterUpload, LoopBacked, LoopBackedAt
  <2> QED
    BY <1>3, <1>g, <2>2, <2>3, BackedKept DEF Crash, Backed
<1> QED
  BY <1>1, <1>2, <1>3 DEF Environment

LEMMA BackedInvariance == Spec => []Backed
<1>1. Init => Backed
  BY ConstantsAssumption
     DEF Init, Backed, MapBacked, RowsBacked, WorkersBacked, AfterUpload, LoopBacked, LoopBackedAt,
         NoMap, NoState, NoEntry
<1>2. TypeInv /\ TypeInv' /\ Backed /\ [Next]_vars => Backed'
  <2> SUFFICES ASSUME TypeInv, Backed, [Next]_vars PROVE Backed'
    OBVIOUS
  <2>0. IInv
    BY DEF IInv
  <2>1. CASE \E t \in Threads : ThreadStep(t)
    BY <2>0, <2>1, ThreadBacked
  <2>2. CASE \E t \in Threads, p \in Pkgs : WorkerStep(t, p)
    BY <2>0, <2>2, WorkerBacked
  <2>3. CASE Environment
    BY <2>0, <2>3, EnvironmentBacked
  <2>4. CASE UNCHANGED vars
    <3>1. \A p \in Pkgs : Stored(p) => Stored(p)'
      BY <2>4 DEF vars, bucket, Stored
    <3> QED
      BY <2>0, <2>4, <3>1, BackedKept DEF vars, flow, saver, loop, Backed
  <2> QED
    BY <2>1, <2>2, <2>3, <2>4 DEF Next
<1> QED
  BY <1>1, <1>2, TypeInvariance, PTL DEF Spec

(* Whatever claims that a package is mirrored is about a stored object: the*)
(* map, the rows, a state that a load has read, a worker past its upload,  *)
(* and a size that Reconcile saw some steps ago.                           *)
THEOREM ClaimsStayBacked == Spec => []IInv
BY TypeInvariance, BackedInvariance, PTL DEF IInv

(* Every redirect to the bucket is backed by an object, unless the bucket  *)
(* lost it: whatever the goroutines that run, the calls that fail and the  *)
(* moments at which the process dies.                                      *)
THEOREM RedirectsAreBacked == Spec => []RedirectBacked
<1>1. Backed => RedirectBacked
  <2>1. \A p \in Pkgs : p \in RowKeys /\ ObjectOf[p] = p
    BY ConstantsAssumption DEF ConstantsAssumption
  <2> QED
    BY <2>1 DEF Backed, MapBacked, RowsBacked, RedirectBacked, Redirects
<1> QED
  BY <1>1, BackedInvariance, PTL

-----------------------------------------------------------------------------
(* JobsExclusive, with "at most one" said without counting.                *)
Registry ==
  \A k \in Guarded : /\ \A s, t \in Running(k) : s = t
                     /\ k \in jobs <=> Running(k) # {}

(* A step that starts and ends no goroutine of a guarded kind.             *)
Quiet ==
  /\ jobs' = jobs
  /\ \A t \in Api : Kind[t] \in Guarded => (pc'[t] = "off" <=> pc[t] = "off")

LEMMA QuietKeeps == Registry /\ Quiet => Registry'
BY DEF Registry, Quiet, Running

(* As after the start of the process.                                      *)
LEMMA NothingRuns == (\A t \in Api : pc[t] = "off") /\ jobs = {} => Registry
<1> SUFFICES ASSUME \A t \in Api : pc[t] = "off", jobs = {} PROVE Registry
  OBVIOUS
<1>1. \A k : Running(k) = {}
  BY DEF Running
<1> QED
  BY <1>1 DEF Registry

LEMMA StepIsQuiet ==
  ASSUME TypeOK, NEW t \in Threads, pc[t] # "off", UNCHANGED jobs,
         NEW at, at # "off" \/ t = Cron \/ Kind[t] = "reconcile", Step(t, at)
  PROVE  Quiet
BY ConstantsAssumption DEF Quiet, Step, TypeOK, Guarded, Threads, ConstantsAssumption

(* A goroutine that returns gives back the slot that it alone has.         *)
LEMMA ReturnKeeps ==
  ASSUME TypeOK, Registry, NEW t \in Threads, pc[t] # "off", NEW next, Return(t, next)
  PROVE  Registry'
<1>1. CASE t = Cron
  <2>1. Quiet
    BY <1>1, ConstantsAssumption
       DEF Return, Quiet, Step, TypeOK, Threads, ConstantsAssumption
  <2> QED
    BY <2>1, QuietKeeps
<1>2. CASE t # Cron /\ Kind[t] \notin Guarded
  <2>1. Quiet
    BY <1>2 DEF Return, Quiet, Step, TypeOK, Threads
  <2> QED
    BY <2>1, QuietKeeps
<1>3. CASE t # Cron /\ Kind[t] \in Guarded
  <2>1. t \in Running(Kind[t])
    BY <1>3 DEF Running, Threads
  <2>2. jobs' = jobs \ {Kind[t]} /\ pc' = [pc EXCEPT ![t] = "off"]
    BY <1>3 DEF Return, FinishJob, Step
  <2>3. Running(Kind[t])' = {}
    BY <2>1, <2>2, <1>3 DEF Registry, Running, TypeOK, Threads
  <2>4. ASSUME NEW k \in Guarded, k # Kind[t] PROVE Running(k)' = Running(k)
    BY <2>2, <2>4 DEF Running, TypeOK, Threads
  <2> QED
    BY <2>2, <2>3, <2>4 DEF Registry
<1> QED
  BY <1>1, <1>2, <1>3

(* Reconcile returns in goroutines of its own kind only, which no slot     *)
(* guards; in BootSync it goes on.                                         *)
LEMMA ReconcileQuiet ==
  ASSUME TypeOK, NEW t \in Threads, ReconcileStep(t)
  PROVE  Quiet
<1>1. UNCHANGED jobs
  BY DEF ReconcileStep, RecRows, RecHead, RecFix, RecList, RecHas, RecInsert, RecSource, RecProbe,
         RecMark, RecExists, RecAdd, RecFail, Ends, RecFrame
<1>2. AfterReconcile(t) # "off" \/ Kind[t] = "reconcile"
  BY DEF AfterReconcile
<1>3. pc[t] # "off"
  BY DEF ReconcileStep, RecRows, RecHead, RecFix, RecList, RecHas, RecInsert, RecSource, RecProbe,
         RecMark, RecExists, RecAdd, RecFail, Ends
<1>4. UNCHANGED pc => Quiet
  BY <1>1 DEF Quiet
<1>5. \A at : Step(t, at) /\ (at # "off" \/ Kind[t] = "reconcile") => Quiet
  BY <1>1, <1>3, StepIsQuiet
<1>6. (RecRows(t) \/ RecHead(t) \/ RecFix(t) \/ RecList(t)) => Quiet
  BY <1>2, <1>5 DEF RecRows, RecHead, RecFix, RecList, Begins, NextItem
<1>7. (RecHas(t) \/ RecInsert(t) \/ RecSource(t)) => Quiet
  BY <1>2, <1>4, <1>5 DEF RecHas, RecInsert, RecSource, Begins, NextItem
<1>8. (RecProbe(t) \/ RecMark(t) \/ RecExists(t) \/ RecAdd(t) \/ RecFail(t)) => Quiet
  BY <1>5 DEF RecProbe, RecMark, RecExists, RecAdd, RecFail, NextItem
<1>9. \A from, to : Ends(t, from, to) /\ (to # "off" \/ Kind[t] = "reconcile") => Quiet
  BY <1>5 DEF Ends, Begins
<1> QED
  BY <1>2, <1>6, <1>7, <1>8, <1>9 DEF ReconcileStep

LEMMA ThreadKeepsRegistry ==
  ASSUME TypeOK, Registry, NEW t \in Threads, ThreadStep(t)
  PROVE  Registry'
<1>1. \A at : pc[t] # "off" /\ Step(t, at) /\ at # "off" /\ UNCHANGED jobs => Registry'
  BY StepIsQuiet, QuietKeeps
<1>2. UNCHANGED <<pc, jobs>> => Registry'
  BY QuietKeeps DEF Quiet
<1>3. \A next : pc[t] # "off" /\ Return(t, next) => Registry'
  BY ReturnKeeps
<1>4. CASE Tick(t) \/ ReadState(t) \/ ReplaceState(t) \/ Plan(t)
  BY <1>1, <1>4 DEF Tick, ReadState, ReplaceState, Plan
<1>5. CASE BootGet(t) \/ BootIndex(t) \/ PullGet(t) \/ Scan(t)
  BY <1>1, <1>3, <1>5 DEF BootGet, BootIndex, PullGet, Scan
<1>6. CASE \E p \in Pkgs : Launch(t, p)
  BY <1>2, <1>6 DEF Launch
<1>7. CASE Join(t)
  BY <1>1, <1>7 DEF Join, RunPcs
<1>8. CASE \E p \in Pkgs : SaveRow(t, p)
  BY <1>2, <1>8 DEF SaveRow, flow
<1>9. CASE SaveDone(t)
  BY <1>1, <1>3, <1>9 DEF SaveDone
<1>10. CASE ReconcileStep(t)
  BY <1>10, ReconcileQuiet, QuietKeeps
<1> QED
  BY <1>4, <1>5, <1>6, <1>7, <1>8, <1>9, <1>10 DEF ThreadStep

LEMMA EnvironmentKeepsRegistry ==
  ASSUME TypeOK, Registry, Environment
  PROVE  Registry'
<1>1. ASSUME NEW t \in Api, Trigger(t) PROVE Registry'
  <2>1. pc[t] = "off" /\ \E at : at # "off" /\ pc' = [pc EXCEPT ![t] = at]
    BY <1>1, ConstantsAssumption DEF Trigger, Step, ConstantsAssumption, Kinds
  <2>2. CASE Kind[t] \in Guarded
    <3>1. Kind[t] \notin jobs /\ jobs' = jobs \cup {Kind[t]}
      BY <1>1, <2>2 DEF Trigger, TryStartJob
    <3>2. Running(Kind[t])' = {t}
      BY <2>1, <2>2, <3>1 DEF Registry, Running, TypeOK, Threads
    <3>3. ASSUME NEW k \in Guarded, k # Kind[t] PROVE Running(k)' = Running(k)
      BY <2>1, <3>3 DEF Running, TypeOK, Threads
    <3> QED
      BY <3>1, <3>2, <3>3 DEF Registry
  <2>3. CASE Kind[t] \notin Guarded
    <3>1. Quiet
      BY <1>1, <2>1, <2>3 DEF Trigger, Quiet, TypeOK, Threads
    <3> QED
      BY <3>1, QuietKeeps
  <2> QED
    BY <2>2, <2>3
<1>2. ASSUME NEW p \in Pkgs, Publish(p) \/ ObjectLost(p) PROVE Registry'
  BY <1>2, QuietKeeps DEF Publish, ObjectLost, Quiet, flow
<1>3. CASE Crash
  <2>1. (\A t \in Api : pc'[t] = "off") /\ jobs' = {}
    BY <1>3, ConstantsAssumption DEF Crash, Threads, ConstantsAssumption
  <2>2. \A k \in Guarded : Running(k)' = {}
    BY <2>1 DEF Running
  <2> QED
    BY <2>1, <2>2 DEF Registry
<1> QED
  BY <1>1, <1>2, <1>3 DEF Environment

(* At most one goroutine of each guarded kind runs, and its kind is        *)
(* registered exactly as long: whatever the requests, errors and crashes.  *)
THEOREM JobsAreExclusive == Spec => []JobsExclusive
<1>1. Init => Registry
  <2>1. Init => (\A t \in Api : pc[t] = "off") /\ jobs = {}
    BY ConstantsAssumption DEF Init, Threads, ConstantsAssumption
  <2> QED
    BY <2>1, NothingRuns
<1>2. TypeOK /\ Registry /\ [Next]_vars => Registry'
  <2> SUFFICES ASSUME TypeOK, Registry, [Next]_vars PROVE Registry'
    OBVIOUS
  <2>1. CASE \E t \in Threads : ThreadStep(t)
    BY <2>1, ThreadKeepsRegistry
  <2>2. CASE \E t \in Threads, p \in Pkgs : WorkerStep(t, p)
    <3>0. PICK t \in Threads, p \in Pkgs : WorkerStep(t, p)
      BY <2>2
    <3>1. UNCHANGED <<pc, jobs>>
      BY <3>0 DEF WorkerStep, FetchPackageInfo, Begin, Download, DownloadFails, Upload, UploadFails,
                  Verify, VerifyFails, SavePackageMetadata, Record, StoreUpsert, StoreStatus
    <3> QED
      BY <3>1, QuietKeeps DEF Quiet
  <2>3. CASE Environment
    BY <2>3, EnvironmentKeepsRegistry
  <2>4. CASE UNCHANGED vars
    BY <2>4, QuietKeeps DEF vars, flow, Quiet
  <2> QED
    BY <2>1, <2>2, <2>3, <2>4 DEF Next
<1>3. Registry => JobsExclusive
  <2> SUFFICES ASSUME Registry, NEW k \in Guarded PROVE Cardinality(Running(k)) <= 1
    BY DEF Registry, JobsExclusive
  <2>1. CASE Running(k) = {}
    BY <2>1, FS_EmptySet
  <2>2. ASSUME NEW t \in Running(k) PROVE Running(k) = {t}
    BY DEF Registry
  <2> QED
    BY <2>1, <2>2, FS_Singleton
<1> QED
  BY <1>1, <1>2, <1>3, TypeCorrect, PTL DEF Spec

-----------------------------------------------------------------------------
(* SyncManager implements Mirror: each of its steps is a step of Mirror,   *)
(* or a stutter, under the refinement mapping of SyncManagerProps.         *)

(* A step that lets the catalog grow and leaves a part of the state that   *)
(* Listed speaks of alone keeps that part listed.                          *)
LEMMA ListedKept ==
  ASSUME Listed, catalog \subseteq catalog'
  PROVE  /\ UNCHANGED mem => MapListed(mem)'
         /\ UNCHANGED saved => MapListed(saved)'
         /\ UNCHANGED snap => (\A t \in Threads : MapListed(snap[t]))'
         /\ UNCHANGED <<pc, todo, work, left>> => WorkListed'
<1>1. (UNCHANGED mem => MapListed(mem)') /\ (UNCHANGED saved => MapListed(saved)')
  BY DEF Listed, MapListed
<1>2. UNCHANGED snap => (\A t \in Threads : MapListed(snap[t]))'
  BY DEF Listed, MapListed
<1>3. UNCHANGED <<pc, todo, work, left>> => WorkListed'
  BY DEF Listed, WorkListed
<1> QED
  BY <1>1, <1>2, <1>3

LEMMA WorkerListed ==
  ASSUME TypeOK, Listed, NEW t \in Threads, NEW p \in Pkgs, WorkerStep(t, p)
  PROVE  Listed'
<1> USE DEF At, Goto, bucket, flow, saver, loop
<1>1. work[t][p] # "idle" /\ p \in catalog
  BY DEF Listed, WorkListed, WorkerStep, FetchPackageInfo, Begin, Download, DownloadFails, Upload,
         UploadFails, Verify, VerifyFails, SavePackageMetadata, Record, StoreUpsert, StoreStatus
<1>2. UNCHANGED <<catalog, saved, snap, pc, todo, left>>
  BY DEF WorkerStep, FetchPackageInfo, Begin, Download, DownloadFails, Upload, UploadFails,
         Verify, VerifyFails, SavePackageMetadata, Record, StoreUpsert, StoreStatus
<1>3. MapListed(mem)'
  <2>1. \/ UNCHANGED mem
        \/ mem' = Marked(p, "syncing", 0)
        \/ mem' = Marked(p, "failed", 0)
        \/ mem' = Marked(p, "success", body[t][p])
    BY DEF WorkerStep, FetchPackageInfo, Begin, Download, DownloadFails, Upload, UploadFails,
           Verify, VerifyFails, SavePackageMetadata, Record, StoreUpsert, StoreStatus, GiveUp
  <2>2. \A q \in Pkgs : q # p => mem'[q] = mem[q]
    BY <2>1 DEF Marked, TypeOK
  <2> QED
    BY <1>1, <1>2, <2>2 DEF Listed, MapListed
<1>4. WorkListed'
  <2>1. \E at : work' = [work EXCEPT ![t][p] = at]
    BY DEF WorkerStep, FetchPackageInfo, Begin, Download, DownloadFails, Upload, UploadFails,
           Verify, VerifyFails, SavePackageMetadata, Record, StoreUpsert, StoreStatus, GiveUp
  <2>2. \A u \in Threads, q \in Pkgs : (u # t \/ q # p) => work'[u][q] = work[u][q]
    BY <2>1 DEF TypeOK
  <2> QED
    BY <1>1, <1>2, <2>2 DEF Listed, WorkListed
<1> QED
  BY <1>2, <1>3, <1>4, ListedKept DEF Listed

LEMMA ThreadListed ==
  ASSUME TypeInv, Listed, NEW t \in Threads, ThreadStep(t)
  PROVE  Listed'
<1> USE DEF bucket, flow, saver, loop, bounds
<1>a. TypeOK
  BY DEF TypeInv
<1>b. UNCHANGED catalog
  BY DEF ThreadStep, Tick, ReadState, ReplaceState, BootGet, BootIndex, PullGet, Plan, Scan, Launch,
         Join, SaveRow, SaveDone, ReconcileStep, RecFrame, RecRows, RecHead, RecFix, Ends, RecList,
         RecHas, RecInsert, RecSource, RecProbe, RecMark, RecExists, RecAdd, RecFail
<1>1. CASE ReconcileStep(t)
  <2>1. UNCHANGED <<mem, saved, snap, todo, work>>
    BY <1>1 DEF ReconcileStep, RecFrame, RecRows, RecHead, RecFix, Ends, RecList, RecHas, RecInsert,
                RecSource, RecProbe, RecMark, RecExists, RecAdd, RecFail
  <2>2. /\ UNCHANGED pc \/ \E at : /\ pc' = [pc EXCEPT ![t] = at]
                                   /\ at \notin {"boot_index", "load", "swap", "plan"}
        /\ UNCHANGED left \/ \E items : left' = [left EXCEPT ![t] = items]
        /\ pc[t] \in RecPcs
    BY <1>1, SMTT(60)
       DEF ReconcileStep, RecRows, RecHead, RecFix, RecList, RecHas, RecInsert, RecSource,
           RecProbe, RecMark, RecExists, RecAdd, RecFail, Ends, Begins, Takes, NextItem, Step,
           AfterReconcile, RecPcs
  <2>3. \A u \in Threads : pc'[u] \in {"boot_index", "load", "swap", "plan"} =>
                             pc'[u] = pc[u] /\ left'[u] = left[u]
    BY <1>a, <2>2 DEF TypeOK, RecPcs
  <2>4. WorkListed'
    BY <1>b, <2>1, <2>3 DEF Listed, WorkListed
  <2> QED
    BY <1>b, <2>1, <2>4, ListedKept DEF Listed
<1>2. CASE ~ReconcileStep(t)
  <2>1. MapListed(mem)'
    <3>1. UNCHANGED mem \/ mem' = snap[t]
      BY <1>2 DEF ThreadStep, Tick, ReadState, ReplaceState, BootGet, BootIndex, PullGet, Plan, Scan,
                  Launch, Join, SaveRow, SaveDone
    <3> QED
      BY <1>b, <3>1 DEF Listed, MapListed
  <2>2. MapListed(saved)'
    <3>1. \/ UNCHANGED saved
          \/ \E p \in Pkgs : saved' = [saved EXCEPT ![p] = Iterated(t)[p]]
      BY <1>2 DEF ThreadStep, Tick, ReadState, ReplaceState, BootGet, BootIndex, PullGet, Plan, Scan,
                  Launch, Join, SaveRow, SaveDone
    <3>2. \A p \in Pkgs : saved'[p] \in {saved[p], mem[p], snap[t][p]}
      BY <1>a, <3>1 DEF Iterated, TypeOK
    <3> QED
      BY <1>b, <3>2 DEF Listed, MapListed
  <2>3. (\A u \in Threads : MapListed(snap[u]))'
    <3>1. \A u \in Threads, p \in Pkgs : snap'[u][p] \in {snap[u][p], saved[p], mem[p], NoState}
      <4>1. CASE ReadState(t) /\ ~UNCHANGED snap
        <5>1. PICK got \in SUBSET Pkgs :
                snap' = [snap EXCEPT ![t] =
                           [p \in Pkgs |-> IF p \in got THEN saved[p] ELSE NoState]]
          BY <4>1 DEF ReadState
        <5> QED
          BY <1>a, <5>1 DEF TypeOK
      <4>2. CASE ReplaceState(t)
        BY <1>a, <4>2 DEF ReplaceState, TypeOK, NoMap
      <4>3. CASE SaveDone(t)
        BY <1>a, <4>3 DEF SaveDone, TypeOK, NoMap
      <4> QED
        BY <1>2, <4>1, <4>2, <4>3
           DEF ThreadStep, Tick, BootGet, BootIndex, PullGet, Plan, Scan, Launch, Join, SaveRow
    <3> QED
      BY <1>b, <3>1 DEF Listed, MapListed, NoState
  <2>4. WorkListed'
    <3> DEFINE Holding == {"boot_index", "load", "swap", "plan"}
    <3>1. ASSUME UNCHANGED <<todo, work>>,
                 UNCHANGED left \/ \E got \in SUBSET catalog : left' = [left EXCEPT ![t] = got],
                 \E at : Step(t, at),
                 pc'[t] \in Holding => pc[t] \in Holding \/ left'[t] \subseteq catalog
          PROVE  WorkListed'
      BY <1>a, <1>b, <3>1 DEF Listed, WorkListed, Step, TypeOK
    <3>2. CASE Tick(t) \/ ReadState(t) \/ ReplaceState(t)
      BY <1>a, <3>1, <3>2 DEF Tick, ReadState, ReplaceState, Step, TypeOK
    <3>3. CASE BootGet(t) \/ PullGet(t)
      <4>1. PICK at : Step(t, at)
        BY <3>3 DEF BootGet, PullGet, Return
      <4>2. \/ \E got \in SUBSET catalog : left' = [left EXCEPT ![t] = got]
            \/ UNCHANGED left /\ Return(t, IF pc[t] = "boot_get" THEN "get" ELSE "rest")
        BY <3>3 DEF BootGet, PullGet
      <4>3. pc'[t] \in Holding => left'[t] \subseteq catalog
        BY <1>a, <4>2 DEF Return, Step, TypeOK
      <4>4. UNCHANGED <<todo, work>>
        BY <3>3 DEF BootGet, PullGet
      <4> QED
        BY <3>1, <4>1, <4>2, <4>3, <4>4
    <3>4. ASSUME UNCHANGED work,
                 \E at : Step(t, at) /\ at \notin Holding,
                 UNCHANGED left \/ left' = [left EXCEPT ![t] = {}],
                 todo' \in [Threads -> [pri : SUBSET Pkgs, back : SUBSET Pkgs]],
                 \A u \in Threads : u # t => todo'[u] = todo[u],
                 todo'[t].pri \cup todo'[t].back \subseteq catalog
          PROVE  WorkListed'
      BY <1>a, <1>b, <3>4 DEF Listed, WorkListed, Step, TypeOK
    <3>5. todo[t].pri \subseteq catalog /\ todo[t].back \subseteq catalog
      BY DEF Listed, WorkListed
    <3>6. todo' \in [Threads -> [pri : SUBSET Pkgs, back : SUBSET Pkgs]]
      BY <1>2, ThreadTyped DEF TypeInv, TypeOK
    <3>7. CASE BootIndex(t)
      <4>1. PICK page \in SUBSET Pkgs :
              todo' = [todo EXCEPT ![t].pri = Missing(left[t], page)]
        BY <3>7 DEF BootIndex
      <4>2. Missing(left[t], page) \subseteq catalog
        BY <3>7 DEF BootIndex, Missing, Listed, WorkListed
      <4>3. \E at : Step(t, at) /\ at \notin Holding
        BY <3>7 DEF BootIndex, Return
      <4>4. /\ todo'[t].pri = Missing(left[t], page) /\ todo'[t].back = todo[t].back
            /\ \A u \in Threads : u # t => todo'[u] = todo[u]
        BY <1>a, <4>1 DEF TypeOK
      <4>5. UNCHANGED work /\ left' = [left EXCEPT ![t] = {}]
        BY <3>7 DEF BootIndex
      <4> QED
        BY <3>4, <3>5, <3>6, <4>2, <4>3, <4>4, <4>5
    <3>8. CASE Plan(t)
      <4>1. PICK pri, back \in SUBSET left[t] :
              todo' = [todo EXCEPT ![t] = [pri |-> pri, back |-> back]]
        BY <3>8 DEF Plan, planPriorityAndBackfill, Batch, determinePackagesToSync
      <4>2. left[t] \subseteq catalog
        BY <3>8 DEF Plan, Listed, WorkListed
      <4>3. Step(t, "run")
        BY <3>8 DEF Plan
      <4>4. /\ todo'[t].pri = pri /\ todo'[t].back = back
            /\ \A u \in Threads : u # t => todo'[u] = todo[u]
        BY <1>a, <4>1 DEF TypeOK
      <4>5. UNCHANGED work /\ left' = [left EXCEPT ![t] = {}]
        BY <3>8 DEF Plan
      <4> QED
        BY <3>4, <3>6, <4>1, <4>2, <4>3, <4>4, <4>5
    <3>9. CASE Scan(t)
      <4>1. Failed \subseteq catalog
        BY DEF Failed, Listed, MapListed
      <4>2. \E at : Step(t, at) /\ at \notin Holding
        BY <3>9 DEF Scan, Return
      <4>3. todo' = [todo EXCEPT ![t].pri = Failed] /\ UNCHANGED <<work, left>>
        BY <3>9 DEF Scan
      <4>4. /\ todo'[t].pri = Failed /\ todo'[t].back = todo[t].back
            /\ \A u \in Threads : u # t => todo'[u] = todo[u]
        BY <1>a, <4>3 DEF TypeOK
      <4> QED
        BY <3>4, <3>5, <3>6, <4>1, <4>2, <4>3, <4>4
    <3>10. CASE Join(t) \/ SaveDone(t) \/ \E p \in Pkgs : SaveRow(t, p)
      <4>1. UNCHANGED <<todo, work, left>>
        BY <3>10 DEF Join, SaveDone, SaveRow
      <4>2. UNCHANGED pc \/ \E at : Step(t, at) /\ at \notin Holding
        <5>1. CASE Join(t)
          BY <5>1 DEF Join, RunPcs
        <5>2. CASE SaveDone(t)
          BY <5>2 DEF SaveDone, Return
        <5>3. CASE \E p \in Pkgs : SaveRow(t, p)
          BY <5>3 DEF SaveRow
        <5> QED
          BY <3>10, <5>1, <5>2, <5>3
      <4> QED
        BY <1>a, <1>b, <4>1, <4>2 DEF Listed, WorkListed, Step, TypeOK
    <3>11. CASE \E p \in Pkgs : Launch(t, p)
      <4>1. PICK p \in Pkgs : Launch(t, p)
        BY <3>11
      <4>2. /\ p \in todo[t].pri \cup todo[t].back
            /\ \/ todo' = [todo EXCEPT ![t].pri = @ \ {p}]
               \/ todo' = [todo EXCEPT ![t].back = @ \ {p}]
            /\ \E at : work' = [work EXCEPT ![t][p] = at]
            /\ UNCHANGED <<pc, left>>
        BY <4>1 DEF Launch, Goto
      <4>3. \A u \in Threads : todo'[u].pri \cup todo'[u].back \subseteq catalog
        <5>1. \A u \in Threads : /\ todo'[u].pri \subseteq todo[u].pri
                                 /\ todo'[u].back \subseteq todo[u].back
          <6>1. CASE todo' = [todo EXCEPT ![t].pri = @ \ {p}]
            BY <1>a, <6>1 DEF TypeOK
          <6>2. CASE todo' = [todo EXCEPT ![t].back = @ \ {p}]
            BY <1>a, <6>2 DEF TypeOK
          <6> QED
            BY <4>2, <6>1, <6>2
        <5> QED
          BY <1>b, <5>1 DEF Listed, WorkListed
      <4>4. \A u \in Threads, q \in Pkgs : work'[u][q] = work[u][q] \/ q = p
        BY <1>a, <4>2 DEF TypeOK
      <4> QED
        BY <1>b, <3>5, <4>2, <4>3, <4>4 DEF Listed, WorkListed
    <3> QED
      BY <1>2, <3>2, <3>3, <3>7, <3>8, <3>9, <3>10, <3>11 DEF ThreadStep
  <2> QED
    BY <2>1, <2>2, <2>3, <2>4 DEF Listed
<1> QED
  BY <1>1, <1>2

LEMMA EnvironmentListed ==
  ASSUME TypeInv, Listed, Environment
  PROVE  Listed'
<1> USE DEF bucket, flow, saver, loop, bounds
<1>a. TypeOK
  BY DEF TypeInv
<1>b. catalog \subseteq catalog'
  BY DEF Environment, Trigger, Publish, ObjectLost, Crash
<1>1. CASE \E t \in Api : Trigger(t)
  <2>1. PICK t \in Api : Trigger(t)
    BY <1>1
  <2>2. \E at \in {"get", "boot_load", "scan", "rec_rows"} : Step(t, at)
    BY <2>1, ConstantsAssumption DEF Trigger, Kinds, ConstantsAssumption
  <2>3. \A u \in Threads : pc'[u] = pc[u] \/ pc'[u] \in {"get", "boot_load", "scan", "rec_rows"}
    BY <1>a, <2>2 DEF TypeOK, Step
  <2>4. WorkListed'
    BY <2>1, <2>3 DEF Trigger, Listed, WorkListed
  <2> QED
    BY <1>b, <2>1, <2>4, ListedKept DEF Trigger, Listed
<1>2. CASE \E p \in Pkgs : Publish(p) \/ ObjectLost(p)
  BY <1>b, <1>2, ListedKept DEF Publish, ObjectLost, Listed
<1>3. CASE Crash
  <2>1. MapListed(mem)' /\ (\A t \in Threads : MapListed(snap[t]))'
    BY <1>3 DEF Crash, MapListed, NoMap, NoState
  <2>2. WorkListed'
    BY <1>3 DEF Crash, WorkListed, NoList
  <2> QED
    BY <1>b, <1>3, <2>1, <2>2, ListedKept DEF Crash, Listed
<1> QED
  BY <1>1, <1>2, <1>3 DEF Environment

LEMMA ListedInvariance == Spec => []Listed
<1>1. Init => Listed
  BY DEF Init, Listed, MapListed, WorkListed, NoMap, NoState, NoList
<1>2. TypeInv /\ Listed /\ [Next]_vars => Listed'
  <2> SUFFICES ASSUME TypeInv, Listed, [Next]_vars PROVE Listed'
    OBVIOUS
  <2>1. CASE \E t \in Threads : ThreadStep(t)
    BY <2>1, ThreadListed
  <2>2. CASE \E t \in Threads, p \in Pkgs : WorkerStep(t, p)
    BY <2>2, WorkerListed DEF TypeInv
  <2>3. CASE Environment
    BY <2>3, EnvironmentListed
  <2>4. CASE UNCHANGED vars
    BY <2>4, ListedKept DEF vars, flow, saver, loop, Listed
  <2> QED
    BY <2>1, <2>2, <2>3, <2>4 DEF Next
<1> QED
  BY <1>1, <1>2, TypeInvariance, PTL DEF Spec

-----------------------------------------------------------------------------
(* An upload stores its package, and can only take a redirect back.        *)
LEMMA UploadStores ==
  ASSUME TypeOK, Listed, RedirectBacked, WorkersBacked, NEW t \in Threads, NEW p \in Pkgs,
         (Upload(t, p) \/ UploadFails(t, p)) /\ ~UNCHANGED <<objects, lost>>
  PROVE  M!Store(p)
<1> USE DEF At, Goto
<1>1. p \in catalog /\ UNCHANGED catalog
  BY DEF Upload, UploadFails, Listed, WorkListed
<1>2. body[t][p] # 0
  BY DEF Upload, UploadFails, WorkersBacked
<1>3. objects' = [objects EXCEPT ![p] = body[t][p]] /\ lost' = lost \ {p}
  BY DEF Upload, UploadFails
<1>4. {q \in Pkgs : Stored(q)'} = {q \in Pkgs : Stored(q)} \cup {p}
  BY <1>2, <1>3 DEF Stored, TypeOK
<1>5. \A q \in Pkgs : Redirects(q)' => Redirects(q)
  <2>1. UNCHANGED rows
    BY DEF Upload, UploadFails
  <2>2. UNCHANGED mem \/ mem' = Marked(p, "failed", 0)
    BY DEF Upload, UploadFails, GiveUp
  <2>3. \A q \in Pkgs : mem'[q].status = "success" => mem[q].status = "success"
    BY <2>2, MarkedFacts DEF Bodies
  <2> QED
    BY <2>1, <2>3 DEF Redirects
<1> QED
  BY <1>1, <1>4, <1>5 DEF M!Store

(* Any other step of the process leaves what is stored alone.              *)
LEMMA OthersKeepStored ==
  ASSUME TypeOK, [Next]_vars,
         ~\E p \in Pkgs : Publish(p),
         ~\E t \in Threads, p \in Pkgs :
            (Upload(t, p) \/ UploadFails(t, p)) /\ ~UNCHANGED <<objects, lost>>
  PROVE  UNCHANGED catalog /\ {p \in Pkgs : Stored(p)'} = {p \in Pkgs : Stored(p)}
<1> USE DEF bucket
<1>1. CASE \E t \in Threads : ThreadStep(t)
  <2>1. UNCHANGED <<catalog, objects, lost>>
    BY <1>1 DEF ThreadStep, Tick, ReadState, ReplaceState, BootGet, BootIndex, PullGet, Plan, Scan,
         Launch, Join, SaveRow, SaveDone, ReconcileStep, RecFrame, RecRows, RecHead, RecFix, Ends,
         RecList, RecHas, RecInsert, RecSource, RecProbe, RecMark, RecExists, RecAdd, RecFail
  <2> QED
    BY <2>1 DEF Stored
<1>2. CASE \E t \in Threads, p \in Pkgs : WorkerStep(t, p)
  <2>1. UNCHANGED <<catalog, objects, lost>>
    <3>1. PICK t \in Threads, p \in Pkgs : WorkerStep(t, p)
      BY <1>2
    <3>2. CASE Upload(t, p) \/ UploadFails(t, p)
      BY <3>2 DEF Upload, UploadFails
    <3>3. CASE ~(Upload(t, p) \/ UploadFails(t, p))
      BY <3>1, <3>3
         DEF WorkerStep, FetchPackageInfo, Begin, Download, DownloadFails, Verify, VerifyFails,
             SavePackageMetadata, Record, StoreUpsert, StoreStatus
    <3> QED
      BY <3>2, <3>3
  <2> QED
    BY <2>1 DEF Stored
<1>3. CASE Environment
  BY <1>3 DEF Environment, Trigger, Publish, ObjectLost, Crash, Stored, TypeOK
<1>4. CASE UNCHANGED vars
  BY <1>4 DEF vars, Stored
<1> QED
  BY <1>1, <1>2, <1>3, <1>4 DEF Next

(* Every execution of the core is one that Mirror allows, so what Mirror   *)
(* promises survives each overlap of pulls, loads, saves and crashes.      *)
THEOREM ImplementsTheMirror == Spec => ImplementsMirror
<1>1. Init => M!Init
  <2>1. Init => \A p \in Pkgs : ~Stored(p) /\ ~Redirects(p)
    BY ConstantsAssumption DEF Init, Stored, Redirects, NoMap, NoState, NoEntry, ConstantsAssumption
  <2>2. Init => catalog \subseteq Pkgs
    BY DEF Init
  <2> QED
    BY <2>1, <2>2 DEF M!Init
<1>2. /\ TypeInv /\ Listed /\ RedirectBacked /\ RedirectBacked' /\ WorkersBacked
      /\ [Next]_vars
      => [M!Next]_<<catalog, {p \in Pkgs : Stored(p)}, {p \in Pkgs : Redirects(p)}>>
  <2> SUFFICES ASSUME TypeInv, Listed, RedirectBacked, RedirectBacked', WorkersBacked,
                      [Next]_vars
               PROVE  M!Next
    OBVIOUS
  <2>1. TypeOK
    BY DEF TypeInv
  <2>2. CASE \E p \in Pkgs : Publish(p)
    <3>1. PICK p \in Pkgs : Publish(p)
      BY <2>2
    <3>2. UNCHANGED <<objects, lost, rows, mem>>
      BY <3>1 DEF Publish, bucket
    <3>3. M!Publish(p)
      BY <3>1, <3>2 DEF Publish, M!Publish, Stored, Redirects
    <3> QED
      BY <3>3 DEF M!Next
  <2>3. CASE \E t \in Threads, p \in Pkgs :
                (Upload(t, p) \/ UploadFails(t, p)) /\ ~UNCHANGED <<objects, lost>>
    BY <2>1, <2>3, UploadStores DEF M!Next
  <2>4. CASE /\ ~\E p \in Pkgs : Publish(p)
             /\ ~\E t \in Threads, p \in Pkgs :
                   (Upload(t, p) \/ UploadFails(t, p)) /\ ~UNCHANGED <<objects, lost>>
    <3>1. UNCHANGED catalog /\ {p \in Pkgs : Stored(p)'} = {p \in Pkgs : Stored(p)}
      BY <2>1, <2>4, OthersKeepStored
    <3>2. {p \in Pkgs : Redirects(p)'} \subseteq {p \in Pkgs : Stored(p)}
      BY <3>1 DEF RedirectBacked
    <3> QED
      BY <3>1, <3>2 DEF M!Next, M!Redirect
  <2> QED
    BY <2>2, <2>3, <2>4
<1>3. Backed => WorkersBacked
  BY DEF Backed
<1> QED
  BY <1>1, <1>2, <1>3, TypeInvariance, BackedInvariance, ListedInvariance, RedirectsAreBacked, PTL
     DEF Spec, ImplementsMirror, M!Spec
=============================================================================
