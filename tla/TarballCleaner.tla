--------------------------- MODULE TarballCleaner ---------------------------
(***************************************************************************)
(* The middle of syncPackage: what is cut out of a downloaded file before  *)
(* it is uploaded.  Files are sequences of bytes, of which only the ones   *)
(* that the code looks for are told apart.  An upstream answers with the   *)
(* gzip payload, with the payload in one or more HTTP chunks whose framing *)
(* was left in the body, or with something that is no tarball at all.      *)
(***************************************************************************)
EXTENDS Naturals, Sequences, SequencesExt

CONSTANTS
  Window,      \* bytes of the head that are searched for the gzip magic (64)
  MaxBody,     \* bound: bytes of payload
  MaxChunks    \* bound: chunks of a framed body

ASSUME CleanerAssumption == {Window, MaxBody, MaxChunks} \subseteq Nat

(* 0x1F and 0x8B; "0", CR and LF; any other byte of a payload ("x"), of a  *)
(* chunk-size line ("n") or of a page of text ("t").                       *)
G1 == "1f"
G2 == "8b"
Bytes == {G1, G2, "0", "CR", "LF", "x", "n", "t"}
Terminator == <<"0", "CR", "LF", "CR", "LF">>

VARIABLES
  payload,   \* the tarball that upstream stores: it begins with the magic
  sent,      \* how much of it has been sent
  chunks,    \* chunks used for it, 0 for a plain body
  file,      \* bytes of the temporary file
  stage,     \* "open", "closed", "uploaded" or "failed"
  cleaned    \* bytes handed to UploadFile
vars == <<payload, sent, chunks, file, stage, cleaned>>

Init ==
  /\ payload \in {<<G1, G2>> \o rest : rest \in SeqOf({"0", "CR", "LF", "x"}, MaxBody)}
  /\ sent = 0 /\ chunks = 0
  /\ file = <<>> /\ stage = "open" /\ cleaned = <<>>

(* io.Copy: upstream sends it all, or it sends it in chunks, or a page.    *)
Respond(bytes) == stage = "open" /\ file' = file \o bytes /\ UNCHANGED <<payload, cleaned>>

SendPlain ==
  /\ chunks = 0
  /\ Respond(payload)
  /\ sent' = Len(payload) /\ stage' = "closed" /\ UNCHANGED chunks

(* The first chunk holds the magic; the last one that the bound allows     *)
(* holds the rest.                                                         *)
SendChunk(n) ==
  /\ n + sent <= Len(payload)
  /\ chunks = 0 => n >= 2
  /\ chunks + 1 < MaxChunks \/ n + sent = Len(payload)
  /\ Respond(<<"n", "CR", "LF">> \o SubSeq(payload, sent + 1, sent + n) \o <<"CR", "LF">>)
  /\ sent' = sent + n /\ chunks' = chunks + 1 /\ UNCHANGED stage

SendTerminator ==
  /\ chunks > 0 /\ sent = Len(payload)
  /\ Respond(Terminator)
  /\ stage' = "closed" /\ UNCHANGED <<sent, chunks>>

SendPage(n) ==
  /\ chunks = 0
  /\ Respond([i \in 1..n |-> "t"])
  /\ stage' = "closed" /\ UNCHANGED <<sent, chunks>>

-----------------------------------------------------------------------------
Magic(f, i) == i \in 1..(Len(f) - 1) /\ f[i] = G1 /\ f[i + 1] = G2

(* Position of the first magic in the head, 0 if there is none.            *)
GzipIdx(f) ==
  LET head == SubSeq(f, 1, IF Len(f) < Window THEN Len(f) ELSE Window)
      found == {i \in 1..Len(head) : Magic(head, i)}
  IN  IF found = {} THEN 0 ELSE CHOOSE i \in found : \A j \in found : i <= j

(* MUTANT of Suffix: any line end at the end of the file is cut off.       *)
SuffixLineEnd(f) == IF Len(f) >= 2 /\ SubSeq(f, Len(f) - 1, Len(f)) = <<"CR", "LF">> THEN 2 ELSE 0

(* The end of the file that is cut off: exactly the five-byte terminator.  *)
Suffix(f) ==
  IF Len(f) >= 5 /\ SubSeq(f, Len(f) - 4, Len(f)) = Terminator THEN 5 ELSE 0

(* MUTANT of Start: a position counted from 1 is used as an offset.        *)
StartAtIndex(f) == GzipIdx(f)

(* start and length of the part that is kept.                              *)
Start(f) == IF GzipIdx(f) > 1 THEN GzipIdx(f) - 1 ELSE 0
Length(f) == Len(f) - Suffix(f) - Start(f)
NeedsCleaning(f) == GzipIdx(f) # 1 \/ Suffix(f) > 0

(* MUTANT of Accepts: the length is not looked at.                         *)
AcceptsAnything(f) == TRUE

Accepts(f) == NeedsCleaning(f) => Length(f) > 0

Kept(f) == IF NeedsCleaning(f) THEN SubSeq(f, Start(f) + 1, Start(f) + Length(f)) ELSE f

Clean ==
  /\ stage = "closed"
  /\ IF Accepts(file) THEN stage' = "uploaded" /\ cleaned' = Kept(file)
                      ELSE stage' = "failed" /\ UNCHANGED cleaned
  /\ UNCHANGED <<payload, sent, chunks, file>>

Done == stage \in {"uploaded", "failed"} /\ UNCHANGED vars

Next ==
  \/ SendPlain \/ (\E n \in 1..Len(payload) : SendChunk(n)) \/ SendTerminator
  \/ \E n \in 0..Window : SendPage(n)
  \/ Clean
  \/ Done

Spec == Init /\ [][Next]_vars

-----------------------------------------------------------------------------
(* SyncManager takes an object of size 0 for no object: nothing that is    *)
(* uploaded is empty.                                                      *)
UploadsSomething == stage = "uploaded" => Len(cleaned) > 0

(* A tarball that arrives without framing is uploaded byte for byte, unless*)
(* it happens to end like a chunked body.                                  *)
PlainIsKept ==
  stage = "uploaded" /\ chunks = 0 /\ sent = Len(payload) /\ ~IsSuffix(Terminator, payload)
    => cleaned = payload

(* Framing or not, the object of a tarball begins as gzip does.            *)
LooksLikeGzip == stage = "uploaded" /\ sent = Len(payload) => Magic(cleaned, 1)
=============================================================================
