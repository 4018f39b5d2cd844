------------------------------- MODULE Paging -------------------------------
(***************************************************************************)
(* Which part of a list of n entries GET /api/packages and the search of   *)
(* npm answer with, in the machine integers of the two handlers.  A window *)
(* [from, end] stands for the slice list[from:end] of Go.                  *)
(***************************************************************************)
EXTENDS Integers

CONSTANTS
  IntMax,       \* largest int of the build
  DefaultPage,  \* 50
  LargestPage   \* 100

ASSUME PagingAssumption ==
  /\ {IntMax, DefaultPage, LargestPage} \subseteq Nat \ {0}
  /\ DefaultPage <= LargestPage /\ LargestPage <= IntMax

(* What an int holds after a result i.                                     *)
Wrap(i) == ((i + IntMax + 1) % (2 * (IntMax + 1))) - (IntMax + 1)

AtMost(i, n) == IF i > n THEN n ELSE i
AtLeast(i, n) == IF i < n THEN n ELSE i

PageSize(size) == IF size < 1 \/ size > LargestPage THEN DefaultPage ELSE size

(* MUTANT of PageWindow: the first page has the number 0.                  *)
PageWindowFromZero(n, page, size) ==
  LET start == Wrap(AtLeast(page, 1) * PageSize(size))
      end == Wrap(start + PageSize(size))
  IN  IF start >= n THEN [from |-> 0, end |-> 0] ELSE [from |-> start, end |-> AtMost(end, n)]

(* GetPackages; a window that ends before it begins is an empty page.      *)
PageWindow(n, page, size) ==
  LET start == Wrap((AtLeast(page, 1) - 1) * PageSize(size))
      end == Wrap(start + PageSize(size))
  IN  IF start >= n THEN [from |-> 0, end |-> 0] ELSE [from |-> start, end |-> AtMost(end, n)]

(* SearchV1.  The end is computed before from is brought into range.       *)
SearchWindow(n, from, size) ==
  LET end == AtMost(Wrap(from + size), n)
  IN  [from |-> AtMost(AtLeast(from, 0), end), end |-> end]
=============================================================================
