-------------------------------- MODULE Views --------------------------------
(***************************************************************************)
(* What the HTTP API says about the state of the mirror: each handler      *)
(* reads the rows of package_versions, the map in memory, or first the one *)
(* and then the other.                                                     *)
(***************************************************************************)
EXTENDS SyncManagerProps, Functions

ASSUME ViewsAssumption == IsFiniteSet(RowKeys)

OrPending(status) == IF status \in {"none", ""} THEN "pending" ELSE status

(* GetPackages: the status of the row, if it has one.                      *)
ListedStatus(p) == OrPending(rows[p].status)

(* GetPackageDetail: the row, then the map.                                *)
DetailStatus(p) == IF rows[p].status \in {"none", ""} THEN OrPending(mem[p].status)
                                                      ELSE rows[p].status
DetailSize(p) ==
  IF rows[p].status \in {"none", ""} /\ mem[p].size # 0 THEN mem[p].size ELSE rows[p].size

(* The others go through a list of versions, which may be a part of the    *)
(* catalog only: the page that was asked for, or a copy that is older than *)
(* the last pull, of the index (GetPackages, GetIndex) or of the metadata  *)
(* of a package (GetPackageVersions, RegistryFallback), which no pull      *)
(* clears from the caches.  MetaCache bounds the age of the latter.        *)

(* GetPackageVersions (the handler): the map alone.                        *)
VersionStatus(p) == OrPending(mem[p].status)
MirroredVersions(list) == {p \in list : VersionStatus(p) = "success"}

(* GetIndex: the versions whose tarball link points to the mirror.         *)
IndexLinks(list) == {p \in list : mem[p].status = "success"}

(* RegistryFallback: the same in the metadata of a package, where the row  *)
(* comes first, as it does when DownloadPackage follows such a link.       *)
MetadataLinks(list) == {p \in list : Redirects(p)}

(* rebuildAndCache: the versions that new metadata of a package list.      *)
RowsOf(name) == {p \in Pkgs : NameOf[p] = name /\ rows[p].status # "none"}
Rebuilt(name) ==
  IF RowsOf(name) # {} THEN RowsOf(name) ELSE {p \in catalog : NameOf[p] = name}

(* checkPackageInCOS of the edge router, its list of two names aside: it   *)
(* sees the first page of GetPackages only.                                *)
InCOS(name, list) == \E p \in list : NameOf[p] = name /\ ListedStatus(p) = "success"

(* Store.StatusCounts, TotalSuccessSize and ListAllVersions.               *)
AllVersions == {r \in RowKeys : rows[r].status # "none"}
StatusCounts(status) == Cardinality({r \in AllVersions : rows[r].status = status})
RowSizes == [r \in RowKeys |-> rows[r].size]
TotalSuccessSize == SumFunctionOnSet(RowSizes, {r \in AllVersions : rows[r].status = "success"})

(* GetMirrorStatus and GetMirrorCOSStatus with a table.                    *)
MirrorStatus == [synced |-> StatusCounts("success"), failed |-> StatusCounts("failed"),
                 storageSize |-> TotalSuccessSize]

(* The total of GetStorageStats: of every row, whatever its status;        *)
(* without rows, of what the map calls a success.                          *)
SizeOfRows == SumFunctionOnSet(RowSizes, AllVersions)
SizeOfMap ==
  SumFunctionOnSet([p \in Pkgs |-> mem[p].size], {p \in Pkgs : mem[p].status = "success"})
StorageSize == IF AllVersions # {} THEN SizeOfRows ELSE SizeOfMap

-----------------------------------------------------------------------------
(* status.go:16, packages.go:72, versions.go:79: between two pulls, as     *)
(* long as no call goes wrong and the bucket lost nothing, all that is     *)
(* said of the mirror is said of the bucket.  Whatever page or copy an     *)
(* interface goes through, however old, what it calls mirrored of it is    *)
(* what is stored of it, with its size; of the map alone, which some ask,  *)
(* that holds after a crash only as in IndexAgrees, but nothing else is    *)
(* ever called mirrored.  Metadata that is built anew lists all that is    *)
(* stored.  The totals, of which one counts rows of every status, are the  *)
(* number and the size of the objects, unless a scoped package has a       *)
(* second row, which is counted too.                                       *)
ViewsAgree ==
  pc[Cron] = "rest" /\ faults = 0 /\ lost = {} =>
    LET stored == {p \in Pkgs : objects[p] # 0}
        total == SumFunctionOnSet(objects, stored)
    IN  /\ \A p \in Pkgs :
             /\ ListedStatus(p) = "success" <=> p \in stored
             /\ DetailStatus(p) = "success" <=> p \in stored
             /\ p \in stored => DetailSize(p) = objects[p]
        /\ \A list \in SUBSET catalog :
             /\ MetadataLinks(list) = list \cap stored
             /\ \A name \in Names : InCOS(name, list) <=> \E p \in list \cap stored : NameOf[p] = name
             /\ MirroredVersions(list) \cup IndexLinks(list) \subseteq stored
             /\ crashes = 0 \/ NothingWaits =>
                  list \cap stored \subseteq MirroredVersions(list) \cap IndexLinks(list)
        /\ \A p \in stored : p \in Rebuilt(NameOf[p])
        /\ RowKeys = Pkgs =>
             /\ MirrorStatus.synced = Cardinality(stored)
             /\ MirrorStatus.storageSize = total /\ StorageSize = total
==============================================================================
