------------------------------- MODULE Mirror -------------------------------
(***************************************************************************)
(* What the mirror promises, without goroutines, tables or sync states.    *)
(* Upstream publishes package versions; the mirror stores what was         *)
(* published, keeps what it stored, and sends clients to its own bucket    *)
(* only for what it stores.                                                *)
(***************************************************************************)
CONSTANT Pkgs
VARIABLES
  published,    \* package versions that upstream lists
  stored,       \* those that the mirror has put into its bucket
  redirected    \* those whose downloads it redirects there

Init == published \subseteq Pkgs /\ stored = {} /\ redirected = {}

Publish(p) ==
  /\ p \in Pkgs \ published
  /\ published' = published \cup {p}
  /\ UNCHANGED <<stored, redirected>>

(* An upload.  A download that was redirected may be streamed from         *)
(* upstream while, or since, the package is mirrored again.                *)
Store(p) ==
  /\ p \in published
  /\ stored' = stored \cup {p}
  /\ redirected' \subseteq redirected
  /\ UNCHANGED published

(* The mirror learns, or forgets, that it stores some packages.            *)
Redirect ==
  /\ redirected' \subseteq stored
  /\ UNCHANGED <<published, stored>>

Next == (\E p \in Pkgs : Publish(p) \/ Store(p)) \/ Redirect

Spec == Init /\ [][Next]_<<published, stored, redirected>>
=============================================================================
