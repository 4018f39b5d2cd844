------------------------------ MODULE Planner ------------------------------
(***************************************************************************)
(* Which versions a Pull mirrors, and in which order: the filter, the sort *)
(* and the split of planner.go over an index that lists several versions   *)
(* of several packages, and the version that version.Controller then calls *)
(* "latest".  SyncManager ranks versions by a number; here they are what   *)
(* the two comparisons see of a version string.                            *)
(*                                                                         *)
(* "1.0.2-beta.3" is [core |-> <<1, 0, 2>>, pre |-> <<Word, 3>>]: an       *)
(* identifier of a pre-release is a number below 10 or a word.             *)
(***************************************************************************)
EXTENDS Naturals, Sequences, FiniteSets, SequencesExt

CONSTANTS
  Packages,       \* package names
  Scoped,         \* those that begin with "@koishijs/"
  Order,          \* Order[n]: place of name n in the order of strings
  Versions,       \* versions that may be published
  BackfillBatch,  \* BACKFILL_BATCH; 0 stands for no limit
  MaxIndex        \* bound: entries of the index

Word == 10        \* a word sorts after every digit

ASSUME PlannerAssumption ==
  /\ Scoped \subseteq Packages
  /\ Order \in [Packages -> Nat]
  /\ Versions \subseteq [core : [1..3 -> Nat], pre : Seq(0..Word)] /\ IsFiniteSet(Versions)
  /\ BackfillBatch \in Nat /\ MaxIndex \in Nat

VARIABLES
  index,  \* the list that the data source returns
  status  \* the sync state of an entry, "none" if the map has none of it
vars == <<index, status>>

Entry == [name : Packages, version : Versions]

-----------------------------------------------------------------------------
(* strings.Split by ".", then the number before "-" of each part: the first*)
(* identifier of a pre-release hides behind the patch number, the others   *)
(* are parts of their own, words among them counting as 0.                 *)
Parts(v) == v.core \o [i \in 1..(IF v.pre = <<>> THEN 0 ELSE Len(v.pre) - 1) |->
                         IF v.pre[i + 1] = Word THEN 0 ELSE v.pre[i + 1]]
Part(s, i) == IF i <= Len(s) THEN s[i] ELSE 0

(* The first place where two lists of numbers differ decides.              *)
Exceeds(s, t) ==
  \E i \in 1..(Len(s) + Len(t)) :
    /\ Part(s, i) > Part(t, i)
    /\ \A j \in 1..(i - 1) : Part(s, j) = Part(t, j)

(* compareVer(a, b) > 0.                                                   *)
Newer(a, b) == Exceeds(Parts(a), Parts(b))

(* compareVersion(a, b) > 0: numbers, then releases before pre-releases,   *)
(* then the order of strings, in which a prefix comes first.               *)
StringAfter(s, t) ==
  \/ \E i \in 1..Len(s) : /\ i <= Len(t) /\ s[i] > t[i]
                          /\ \A j \in 1..(i - 1) : s[j] = t[j]
  \/ Len(s) > Len(t) /\ SubSeq(s, 1, Len(t)) = t
Later(a, b) ==
  \/ Exceeds(a.core, b.core)
  \/ /\ a.core = b.core
     /\ \/ a.pre = <<>> /\ b.pre # <<>>
        \/ a.pre # <<>> /\ b.pre # <<>> /\ StringAfter(a.pre, b.pre)

Listed(n) == {e.version : e \in {f \in ToSet(index) : f.name = n}}

(* DistTags["latest"], which no table ever holds: the first of the sorted  *)
(* list of the versions of n that have a row, of the index if there is none.*)
LatestTag(n, rows) ==
  LET list == IF rows # {} THEN rows ELSE Listed(n)
  IN  CHOOSE v \in list : \A w \in list \ {v} : Later(v, w)

-----------------------------------------------------------------------------
(* sort.SliceStable: scoped packages, then by name; the order of the index *)
(* within a name.                                                          *)
Before(a, b) ==
  IF (a.name \in Scoped) # (b.name \in Scoped) THEN a.name \in Scoped
                                               ELSE Order[a.name] < Order[b.name]
SortedBefore(i, j) ==
  \/ Before(index[i], index[j])
  \/ ~Before(index[j], index[i]) /\ i < j

(* The entries at the positions in "is", each after those that "less" puts *)
(* before it.                                                              *)
Arranged(list, is, less) ==
  [k \in 1..Cardinality(is) |->
     list[CHOOSE i \in is : Cardinality({j \in is : <<j, i>> \in less}) = k - 1]]

SortedList(is) == Arranged(index, is, {ij \in is \X is : SortedBefore(ij[1], ij[2])})

(* planner.go:22: nothing ever puts "pending" into the map.                *)
Plannable(e) == status[e] \in {"none", "failed"}

determinePackagesToSync == SortedList({i \in DOMAIN index : Plannable(index[i])})

(* MUTANT of Keep: the last version of the list, whatever it is.           *)
KeepLast(best, p) ==
  [n \in DOMAIN best \cup {p.name} |-> IF n = p.name THEN p.version ELSE best[n]]

(* latestMap: an entry replaces one of its name that it exceeds.           *)
Keep(best, p) ==
  IF p.name \in DOMAIN best /\ ~Newer(p.version, best[p.name]) THEN best
  ELSE [n \in DOMAIN best \cup {p.name} |-> IF n = p.name THEN p.version ELSE best[n]]

latestMap(list) ==
  LET after[k \in 0..Len(list)] == IF k = 0 THEN <<>> ELSE Keep(after[k - 1], list[k])
  IN  after[Len(list)]

(* What a loop appends of a list stays in the order of the list.           *)
Chosen(list, is) == Arranged(list, is, {ij \in is \X is : ij[1] < ij[2]})

planPriorityAndBackfill(list) ==
  LET best == latestMap(list)
      latest == {i \in DOMAIN list : best[list[i].name] = list[i].version}
  IN  [pri |-> Chosen(list, latest), back |-> Chosen(list, DOMAIN list \ latest)]

(* MUTANT of Truncated: the batch is cut off the wrong end.                *)
TruncatedTail(list) ==
  IF BackfillBatch = 0 \/ Len(list) <= BackfillBatch THEN list
  ELSE SubSeq(list, Len(list) - BackfillBatch + 1, Len(list))

Truncated(list) ==
  IF BackfillBatch = 0 \/ Len(list) <= BackfillBatch THEN list
  ELSE SubSeq(list, 1, BackfillBatch)

(* What a Pull hands to its workers: first these, then those.              *)
Plan == LET plan == planPriorityAndBackfill(determinePackagesToSync)
        IN  [pri |-> plan.pri, back |-> Truncated(plan.back)]

Init == index = <<>> /\ status = [e \in Entry |-> "none"]

(* Upstream lists versions in any order.                                   *)
Publish(e) ==
  /\ Len(index) < MaxIndex
  /\ e \notin ToSet(index)
  /\ \E i \in 1..(Len(index) + 1) : index' = InsertAt(index, i, e)
  /\ UNCHANGED status

(* Workers of a Pull begin with what it planned.                           *)
Pull ==
  /\ \E begun \in SUBSET (ToSet(Plan.pri) \cup ToSet(Plan.back)) :
       status' = [e \in Entry |-> IF e \in begun THEN "syncing" ELSE status[e]]
  /\ UNCHANGED index

(* BootSync takes what has no object, retryFailedPackages what has failed. *)
Resync(e) ==
  /\ e \in ToSet(index) /\ status[e] # "syncing"
  /\ status' = [status EXCEPT ![e] = "syncing"]
  /\ UNCHANGED index

(* A worker ends.  Some never do: a load brings back a "syncing" that was  *)
(* saved while the worker of another goroutine was at the package.         *)
End(e) ==
  /\ status[e] = "syncing"
  /\ \E result \in {"success", "failed"} : status' = [status EXCEPT ![e] = result]
  /\ UNCHANGED index

Next == (\E e \in Entry : Publish(e) \/ Resync(e) \/ End(e)) \/ Pull

Spec == Init /\ [][Next]_vars

-----------------------------------------------------------------------------
(* planner.go:41, "availability first, then the history in batches": a     *)
(* version is filled in only by a Pull that also mirrors, with priority, a *)
(* version of the same package that no other exceeds of those which are    *)
(* missing and which no worker is at.                                      *)
NewestFirst ==
  LET plan == Plan IN
  \A i \in DOMAIN plan.back :
    \E j \in DOMAIN plan.pri :
      /\ plan.pri[j].name = plan.back[i].name
      /\ \A e \in ToSet(index) :
           e.name = plan.pri[j].name /\ Plannable(e) => ~Newer(e.version, plan.pri[j].version)

(* The version of a package that clients install without asking for one    *)
(* (the tag "latest") goes first when it is missing and no worker is at    *)
(* it; or else one that has no row yet does, on which the tag will move as *)
(* soon as it has.  Only among releases: the planner and the tag do not    *)
(* agree about pre-releases.                                               *)
LatestTagFirst ==
  LET pri == ToSet(Plan.pri)
      releases == {v \in Versions : v.pre = <<>>}
  IN  \A n \in {e.name : e \in ToSet(index)}, rows \in SUBSET releases :
        Listed(n) \subseteq releases =>
          LET latest == [name |-> n, version |-> LatestTag(n, rows)]
          IN  latest \in ToSet(index) /\ Plannable(latest) =>
                \/ latest \in pri
                \/ \E e \in pri : /\ e.name = n /\ rows # {} /\ e.version \notin rows
                                  /\ Later(e.version, latest.version)

(* The history waits in line, scoped packages first, then by name, and as  *)
(* the index lists it within a package: a batch holds the head of the line.*)
BatchIsPrefix ==
  LET plan == Plan
      back == ToSet(plan.back)
  IN  \A i, j \in DOMAIN index :
        /\ Plannable(index[i]) /\ index[i] \notin back \cup ToSet(plan.pri)
        /\ index[j] \in back
        => SortedBefore(j, i)
=============================================================================
