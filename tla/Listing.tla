------------------------------- MODULE Listing -------------------------------
(***************************************************************************)
(* A client reads the list of packages page by page while upstream         *)
(* publishes and withdraws versions and the mirror pulls them: the browser *)
(* through GET /api/packages (PackageList.vue goes on until the page is    *)
(* the last one), a client of npm through the search.  Each request reads  *)
(* the index anew, so that pages are cut out of different lists.           *)
(***************************************************************************)
EXTENDS Planner, Paging

CONSTANTS
  Texts,          \* search texts, as the sets of names that contain them
  PageSizes,      \* page sizes that clients ask for
  MaxWithdrawals, \* bound: versions withdrawn while the client reads
  MaxRead         \* bound: entries of the index while the client reads

ASSUME ListingAssumption ==
  /\ Texts \subseteq SUBSET Packages
  /\ PageSizes \subseteq Nat \ {0} /\ {MaxWithdrawals, MaxRead} \subseteq Nat

VARIABLE
  reader  \* the client: which interface, text and size it uses, the page it
          \* asks for next, the total on its last page; (observers) what was
          \* listed when it began and it has not been shown, and how many
          \* versions were withdrawn since

Off == [via |-> "off", text |-> {}, size |-> 1, page |-> 1, total |-> 0,
        missed |-> {}, withdrawn |-> 0]
Interfaces == {"packages", "search"}

Matching(text) == Chosen(index, {i \in DOMAIN index : index[i].name \in text})

ListingInit == Init /\ reader = Off

Open(via, text, size) ==
  /\ reader.via = "off" /\ Len(index) <= MaxRead
  /\ reader' = [Off EXCEPT !.via = via, !.text = text, !.size = size,
                           !.missed = ToSet(Matching(text))]
  /\ UNCHANGED vars

Window(n) ==
  IF reader.via = "packages" THEN PageWindow(n, reader.page, reader.size)
  ELSE SearchWindow(n, (reader.page - 1) * reader.size, reader.size)

(* The page size that the answer states; the search uses what it is asked. *)
Step == IF reader.via = "packages" THEN PageSize(reader.size) ELSE reader.size

(* What a request cuts its page out of.  Source.Get may return no packages *)
(* and no error, and the search takes an error for no packages.            *)
Answers == {Matching(reader.text), <<>>}

(* One request.  The client has read all once its pages cover the total,   *)
(* which is 0 after an empty answer and, in the browser, after an error.   *)
ReadPage ==
  /\ reader.via \in Interfaces
  /\ \E list \in Answers :
       LET window == Window(Len(list))
           missed == reader.missed \ ToSet(SubSeq(list, window.from + 1, window.end))
       IN  reader' = IF reader.page * Step >= Len(list)
                     THEN [Off EXCEPT !.via = "done", !.total = Len(list), !.missed = missed,
                                      !.withdrawn = reader.withdrawn]
                     ELSE [reader EXCEPT !.missed = missed, !.page = @ + 1]
  /\ UNCHANGED vars

(* The index lists a version no longer, or an older copy of it is read.    *)
Withdraw(i) ==
  /\ reader.via \in Interfaces /\ reader.withdrawn < MaxWithdrawals
  /\ index' = RemoveAt(index, i)
  /\ reader' = [reader EXCEPT !.missed = @ \ {index[i]}, !.withdrawn = @ + 1]
  /\ UNCHANGED status

ListingNext ==
  \/ Next /\ UNCHANGED reader /\ (reader.via \in Interfaces => Len(index') <= MaxRead)
  \/ \E via \in Interfaces, text \in Texts, size \in PageSizes : Open(via, text, size)
  \/ ReadPage
  \/ \E i \in DOMAIN index : Withdraw(i)

ListingSpec == ListingInit /\ [][ListingNext]_<<vars, reader>>

-----------------------------------------------------------------------------
(* packages.go:55, search.go:56: whoever reads page after page to the last,*)
(* and is not told that there is nothing to read, is shown every version   *)
(* that was listed from beginning to end, wherever others were inserted    *)
(* meanwhile; each one that was withdrawn may hide one other, which moves  *)
(* to a page that was read before.                                         *)
SkipsAreBounded ==
  reader.via = "done" /\ reader.total # 0 => Cardinality(reader.missed) <= reader.withdrawn
==============================================================================
