----------------------------- MODULE MCListing -----------------------------
(***************************************************************************)
(* Two packages of which one is scoped, and three versions: 1.0.9, 1.1.0   *)
(* and 1.1.0-beta.2.                                                       *)
(***************************************************************************)
EXTENDS Listing

MCOrder == [n \in Packages |-> IF n = "@koishijs/cli" THEN 0 ELSE 1]
MCReleases == {[core |-> <<1, 0, 9>>, pre |-> <<>>], [core |-> <<1, 1, 0>>, pre |-> <<>>]}
MCVersions == MCReleases \cup {[core |-> <<1, 1, 0>>, pre |-> <<Word, 2>>]}
MCTexts == {{"koishi"}}

(* What a client is shown does not depend on what is mirrored, nor a plan  *)
(* on the clients: the run looks at the two apart.                         *)
MCApart == reader.via = "off" \/ \A e \in Entry : status[e] = "none"
=============================================================================
