--------------------------- MODULE MCSyncManager ---------------------------
(***************************************************************************)
(* Values of the constants of SyncManager for TLC: k1 to k3 are            *)
(* versions of "koishi", s1 is a version of the scoped "@koishijs/cli".    *)
(* GetPackageKey turns that name into "koishijs-cli", so that Reconcile    *)
(* reads the row key s1key back from the object of s1.                     *)
(***************************************************************************)
EXTENDS Views

MCNameOf == [p \in Pkgs |-> IF p = "s1" THEN "@koishijs/cli" ELSE "koishi"]
MCVerOf == [p \in Pkgs |-> CASE p = "k3" -> 3 [] p = "k2" -> 2 [] OTHER -> 1]
MCRank == [p \in Pkgs |-> CASE p = "s1" -> 0 [] p = "k3" -> 1 [] p = "k2" -> 2 [] p = "k1" -> 3]
MCRowKeys == Pkgs \cup (IF "s1" \in Pkgs THEN {"s1key"} ELSE {})
MCAlias == [p \in Pkgs |-> IF p = "s1" THEN "s1key" ELSE p]
MCObjectOf == [r \in RowKeys |-> IF r = "s1key" THEN "s1" ELSE r]

(* Kind[t] for the API goroutines, which are named after their requests.   *)
MCKind == [t \in Api |-> CASE t \in {"pull1", "pull2"} -> "pull"
                           [] t = "boot1" -> "boot"
                           [] t = "retry1" -> "retry"
                           [] t = "reconcile1" -> "reconcile"]
=============================================================================
