--------------------------- MODULE CleanerProofs ---------------------------
(***************************************************************************)
(* The size of an uploaded tarball is never 0, whatever upstream sends.    *)
(* SyncManager rests on this: there, size 0 stands for a missing object.   *)
(* A plain tarball is kept as it is, and the object of any tarball begins  *)
(* with the magic of gzip; but that of a chunked one ends with a line end. *)
(***************************************************************************)
EXTENDS TarballCleaner, SequenceTheorems, WellFoundedInduction, TLAPS

LEMMA WindowIsNat == Window \in Nat
BY CleanerAssumption DEF CleanerAssumption

LEMMA LeastElement ==
  ASSUME NEW T \in SUBSET Nat, T # {}
  PROVE  \E i \in T : \A j \in T : i <= j
<1> DEFINE less == OpToRel(<, Nat)
<1>1. PICK i \in T : \A j \in T : ~(<<j, i>> \in less)
  <2>1. IsWellFoundedOn(less, Nat)
    BY NatLessThanWellFounded
  <2> HIDE DEF less
  <2> QED
    BY <2>1, WFMin
<1>2. \A j \in T : ~(j < i)
  BY <1>1 DEF OpToRel
<1> QED
  BY <1>2

(* GzipIdx is a position in the head of the file, and so in the file.      *)
LEMMA IndexWithin ==
  ASSUME NEW f \in Seq(Bytes)
  PROVE  GzipIdx(f) \in 0..Len(f)
<1> DEFINE n == IF Len(f) < Window THEN Len(f) ELSE Window
           head == SubSeq(f, 1, n)
           found == {i \in 1..Len(head) : Magic(head, i)}
<1>1. n \in Nat /\ n <= Len(f)
  BY WindowIsNat
<1>2. Len(head) = n
  BY <1>1, SubSeqProperties
<1>3. GzipIdx(f) = IF found = {} THEN 0 ELSE CHOOSE i \in found : \A j \in found : i <= j
  BY DEF GzipIdx
<1>4. found \subseteq 1..Len(f)
  BY <1>1, <1>2
<1>a. Len(f) \in Nat
  OBVIOUS
<1> HIDE DEF found
<1>5. CASE found = {}
  BY <1>3, <1>5, <1>a
<1>6. CASE found # {}
  <2>1. \E i \in found : \A j \in found : i <= j
    BY <1>4, <1>6, LeastElement
  <2>2. GzipIdx(f) \in found
    BY <1>3, <1>6, <2>1
  <2>3. GzipIdx(f) \in 1..Len(f)
    BY <1>4, <2>2, Zenon
  <2> HIDE DEF n, head
  <2> QED
    BY <1>a, <2>3
<1> QED
  BY <1>5, <1>6

(* Start, Suffix and with them the part that is kept lie within the file.  *)
LEMMA KeptWithin ==
  ASSUME NEW f \in Seq(Bytes)
  PROVE  /\ Start(f) \in Nat /\ Start(f) <= Len(f)
         /\ Suffix(f) \in Nat /\ Suffix(f) <= Len(f)
<1>1. Suffix(f) \in Nat /\ Suffix(f) <= Len(f)
  BY DEF Suffix
<1> QED
  BY <1>1, IndexWithin DEF Start

(* The part of the file that is kept is as long as the code computes.      *)
LEMMA KeptNotEmpty ==
  ASSUME NEW f \in Seq(Bytes), Accepts(f)
  PROVE  Len(Kept(f)) > 0
<1>1. CASE NeedsCleaning(f)
  <2>1. Length(f) \in Int /\ Length(f) > 0 /\ Start(f) + Length(f) <= Len(f)
    BY <1>1, KeptWithin DEF Accepts, Length
  <2>2. Kept(f) = SubSeq(f, Start(f) + 1, Start(f) + Length(f))
    BY <1>1 DEF Kept
  <2>3. Len(Kept(f)) = Length(f)
    BY <2>1, <2>2, KeptWithin, SubSeqProperties
  <2> QED
    BY <2>1, <2>3
<1>2. CASE ~NeedsCleaning(f)
  <2>1. GzipIdx(f) = 1 /\ Kept(f) = f
    BY <1>2 DEF NeedsCleaning, Kept
  <2> QED
    BY <2>1, IndexWithin
<1> QED
  BY <1>1, <1>2

BytesInv == /\ payload \in Seq(Bytes) /\ file \in Seq(Bytes)
            /\ sent \in Nat
            /\ UploadsSomething

(* Upstream's payload as it begins, for the two lemmas that start from Init.*)
LEMMA PayloadIsBytes ==
  ASSUME Init
  PROVE  \E rest \in Seq(Bytes) : payload = <<G1, G2>> \o rest
<1>1. PICK rest \in SeqOf({"0", "CR", "LF", "x"}, MaxBody) : payload = <<G1, G2>> \o rest
  BY DEF Init
<1>2. PICK m \in 0..MaxBody : rest \in [1..m -> {"0", "CR", "LF", "x"}]
  BY <1>1 DEF SeqOf
<1>3. m \in Nat
  BY <1>2, CleanerAssumption DEF CleanerAssumption
<1>4. rest \in Seq(Bytes)
  BY <1>2, <1>3 DEF Bytes
<1> QED
  BY <1>1, <1>4

LEMMA BytesInvariance == Spec => []BytesInv
<1>1. Init => BytesInv
  <2> SUFFICES ASSUME Init PROVE BytesInv
    OBVIOUS
  <2>1. PICK rest \in Seq(Bytes) : payload = <<G1, G2>> \o rest
    BY PayloadIsBytes
  <2>3. <<G1, G2>> \in Seq(Bytes)
    BY DEF Bytes
  <2>4. payload \in Seq(Bytes)
    BY <2>1, <2>3, ConcatProperties
  <2> QED
    BY <2>4 DEF Init, BytesInv, UploadsSomething
<1>2. BytesInv /\ [Next]_vars => BytesInv'
  <2> SUFFICES ASSUME BytesInv, [Next]_vars PROVE BytesInv'
    OBVIOUS
  <2>0. payload \in Seq(Bytes) /\ file \in Seq(Bytes) /\ sent \in Nat /\ UploadsSomething
    BY DEF BytesInv
  <2>1. ASSUME NEW bytes \in Seq(Bytes), Respond(bytes)
        PROVE  file' \in Seq(Bytes) /\ payload' \in Seq(Bytes) /\ stage = "open"
               /\ UNCHANGED cleaned
    BY <2>0, <2>1, ConcatProperties DEF Respond
  <2>2. CASE SendPlain
    <3>1. Respond(payload) /\ stage' = "closed" /\ sent' = Len(payload)
      BY <2>2 DEF SendPlain
    <3> QED
      BY <2>0, <2>1, <3>1 DEF BytesInv, UploadsSomething
  <2>3. ASSUME NEW n \in 1..Len(payload), SendChunk(n)
        PROVE  BytesInv'
    <3> DEFINE part == SubSeq(payload, sent + 1, sent + n)
               bytes == <<"n", "CR", "LF">> \o part \o <<"CR", "LF">>
    <3>1. part \in Seq(Bytes)
      BY <2>0, <2>3, SubSeqProperties DEF SendChunk
    <3>2. bytes \in Seq(Bytes)
      <4>1. <<"n", "CR", "LF">> \in Seq(Bytes) /\ <<"CR", "LF">> \in Seq(Bytes)
        BY DEF Bytes
      <4>2. <<"n", "CR", "LF">> \o part \in Seq(Bytes)
        BY <3>1, <4>1, ConcatProperties
      <4> QED
        BY <4>1, <4>2, ConcatProperties
    <3>3. Respond(bytes) /\ sent' = sent + n /\ UNCHANGED stage
      BY <2>3 DEF SendChunk
    <3>4. sent' \in Nat
      BY <2>0, <3>3
    <3>5. UploadsSomething'
      BY <2>1, <3>2, <3>3 DEF UploadsSomething
    <3> QED
      BY <2>1, <3>2, <3>3, <3>4, <3>5 DEF BytesInv
  <2>4. CASE SendTerminator
    <3>1. Respond(Terminator) /\ stage' = "closed" /\ UNCHANGED sent
      BY <2>4 DEF SendTerminator
    <3>2. Terminator \in Seq(Bytes)
      BY DEF Terminator, Bytes
    <3> QED
      BY <2>0, <2>1, <3>1, <3>2 DEF BytesInv, UploadsSomething
  <2>5. ASSUME NEW n \in 0..Window, SendPage(n)
        PROVE  BytesInv'
    <3>1. Respond([i \in 1..n |-> "t"]) /\ stage' = "closed" /\ UNCHANGED sent
      BY <2>5 DEF SendPage
    <3>2. [i \in 1..n |-> "t"] \in Seq(Bytes)
      BY WindowIsNat DEF Bytes
    <3> QED
      BY <2>0, <2>1, <3>1, <3>2 DEF BytesInv, UploadsSomething
  <2>6. CASE Clean
    <3>1. CASE Accepts(file)
      BY <2>0, <2>6, <3>1, KeptNotEmpty DEF Clean, BytesInv, UploadsSomething
    <3>2. CASE ~Accepts(file)
      BY <2>0, <2>6, <3>2 DEF Clean, BytesInv, UploadsSomething
    <3> QED
      BY <3>1, <3>2
  <2>7. CASE Done \/ UNCHANGED vars
    BY <2>0, <2>7 DEF Done, vars, BytesInv, UploadsSomething
  <2> QED
    BY <2>2, <2>3, <2>4, <2>5, <2>6, <2>7 DEF Next
<1> QED
  BY <1>1, <1>2, PTL DEF Spec

(* Nothing of size 0 is uploaded, for every window, payload and chunking.  *)
THEOREM NothingEmptyIsUploaded == Spec => []UploadsSomething
<1>1. BytesInv => UploadsSomething
  BY DEF BytesInv
<1> QED
  BY <1>1, BytesInvariance, PTL

-----------------------------------------------------------------------------
(* The first magic of a file is found where it is, if the search gets there.*)
LEMMA FirstMagic ==
  ASSUME NEW f \in Seq(Bytes), NEW k \in 1..(Len(f) - 1), f[k] = G1, f[k + 1] = G2,
         \A i \in 1..(k - 1) : f[i] # G1
  PROVE  GzipIdx(f) = IF k + 1 <= Window THEN k ELSE 0
<1> DEFINE n == IF Len(f) < Window THEN Len(f) ELSE Window
           head == SubSeq(f, 1, n)
           found == {i \in 1..Len(head) : Magic(head, i)}
<1>1. n \in Nat /\ n <= Len(f) /\ Len(f) \in Nat /\ (k + 1 <= n <=> k + 1 <= Window)
  BY WindowIsNat
<1>2. Len(head) = n /\ \A i \in 1..n : head[i] = f[i]
  BY <1>1, SubSeqProperties
<1>3. GzipIdx(f) = IF found = {} THEN 0 ELSE CHOOSE i \in found : \A j \in found : i <= j
  BY DEF GzipIdx
<1>4. \A i : i \in found <=> i \in 1..(n - 1) /\ f[i] = G1 /\ f[i + 1] = G2
  <2> HIDE DEF head, n
  <2> QED
    BY <1>1, <1>2 DEF Magic
<1> HIDE DEF found, head, n
<1>5. \A i \in found : i \in Nat /\ k <= i /\ k + 1 <= n
  BY <1>1, <1>4
<1>6. CASE k + 1 <= Window
  <2>1. k \in found
    BY <1>1, <1>4, <1>6
  <2>2. \A i \in found : (\A j \in found : i <= j) => i = k
    BY <1>5, <2>1
  <2> QED
    BY <1>3, <1>5, <1>6, <2>1, <2>2
<1>7. CASE ~(k + 1 <= Window)
  <2>1. found = {}
    BY <1>1, <1>5, <1>7
  <2> QED
    BY <1>3, <1>7, <2>1
<1> QED
  BY <1>6, <1>7

(* What is cut off the end is the terminator and nothing else.             *)
LEMMA CutIsTerminator ==
  ASSUME NEW f \in Seq(Bytes), Suffix(f) # 0
  PROVE  /\ Suffix(f) = 5 /\ Len(f) >= 5
         /\ \A i \in 1..5 : f[Len(f) - 5 + i] = Terminator[i]
<1>1. Suffix(f) = 5 /\ Len(f) >= 5 /\ SubSeq(f, Len(f) - 4, Len(f)) = Terminator
  BY DEF Suffix
<1>2. \A i \in 1..5 : SubSeq(f, Len(f) - 4, Len(f))[i] = f[Len(f) - 5 + i]
  BY <1>1, SubSeqProperties
<1> QED
  BY <1>1, <1>2

LEMMA Reversed ==
  ASSUME NEW f \in Seq(Bytes)
  PROVE  /\ Reverse(f) \in Seq(Bytes) /\ Len(Reverse(f)) = Len(f)
         /\ \A i \in 1..Len(f) : Reverse(f)[i] = f[Len(f) - i + 1]
<1>1. Len(f) \in Nat
  OBVIOUS
<1> QED
  BY <1>1 DEF Reverse

LEMMA SameEnd ==
  ASSUME NEW f \in Seq(Bytes), NEW g \in Seq(Bytes), Len(g) <= Len(f),
         \A i \in 1..Len(g) : f[Len(f) - Len(g) + i] = g[i]
  PROVE  IsSuffix(g, f)
<1>1. ASSUME NEW s \in Seq(Bytes), NEW t \in Seq(Bytes), Len(s) <= Len(t),
             \A i \in 1..Len(s) : s[i] = t[i]
      PROVE  IsPrefix(s, t)
  <2>1. Len(s) \in Nat /\ Len(t) \in Nat
    OBVIOUS
  <2>2. /\ SubSeq(s, 1, Len(s)) \in Seq(Bytes) /\ Len(SubSeq(s, 1, Len(s))) = Len(s)
        /\ \A i \in 1..Len(s) : SubSeq(s, 1, Len(s))[i] = s[i]
    BY <2>1, SubSeqProperties
  <2>3. /\ SubSeq(t, 1, Len(s)) \in Seq(Bytes) /\ Len(SubSeq(t, 1, Len(s))) = Len(s)
        /\ \A i \in 1..Len(s) : SubSeq(t, 1, Len(s))[i] = t[i]
    BY <1>1, <2>1, SubSeqProperties
  <2> QED
    BY <1>1, <2>2, <2>3, SeqEqual DEF IsPrefix
<1>2. Len(f) \in Nat /\ Len(g) \in Nat
  OBVIOUS
<1>3. \A i \in 1..Len(g) : Reverse(g)[i] = Reverse(f)[i]
  <2> SUFFICES ASSUME NEW i \in 1..Len(g) PROVE Reverse(g)[i] = Reverse(f)[i]
    OBVIOUS
  <2> DEFINE j == Len(g) - i + 1
  <2>1. j \in 1..Len(g) /\ i \in 1..Len(f) /\ Len(f) - Len(g) + j = Len(f) - i + 1
    BY <1>2
  <2>2. f[Len(f) - i + 1] = g[j]
    BY <2>1
  <2> QED
    BY <2>1, <2>2, Reversed
<1> QED
  BY <1>1, <1>3, Reversed DEF IsSuffix

LEMMA CutIsSuffix ==
  ASSUME NEW f \in Seq(Bytes), Suffix(f) # 0
  PROVE  IsSuffix(Terminator, f)
<1>1. Terminator \in Seq(Bytes) /\ Len(Terminator) = 5
  BY DEF Terminator, Bytes
<1>2. Len(f) >= 5 /\ \A i \in 1..5 : f[Len(f) - 5 + i] = Terminator[i]
  BY CutIsTerminator
<1> QED
  BY <1>1, <1>2, SameEnd

(* A file that begins with the magic, and does not end like a chunked      *)
(* body, is kept as it is, even if the window is too short for the magic.  *)
LEMMA WholeIsKept ==
  ASSUME NEW f \in Seq(Bytes), Len(f) >= 2, f[1] = G1, f[2] = G2, ~IsSuffix(Terminator, f)
  PROVE  Kept(f) = f
<1>1. GzipIdx(f) \in {0, 1}
  BY FirstMagic
<1>2. Suffix(f) = 0 /\ Start(f) = 0
  BY <1>1, CutIsSuffix DEF Start
<1>3. Len(f) \in Nat /\ Length(f) = Len(f)
  BY <1>2 DEF Length
<1>4. SubSeq(f, 1, Len(f)) = f
  BY <1>3, SubSeqProperties, SeqEqual
<1> QED
  BY <1>2, <1>3, <1>4 DEF Kept

(* What is kept of a file begins with the first magic that the search finds.*)
LEMMA KeptHasMagic ==
  ASSUME NEW f \in Seq(Bytes), NEW k \in 1..(Len(f) - 1), f[k] = G1, f[k + 1] = G2,
         \A i \in 1..(k - 1) : f[i] # G1, k + 1 <= Window
  PROVE  Magic(Kept(f), 1)
<1>1. GzipIdx(f) = k /\ Start(f) = k - 1 /\ Len(f) \in Nat
  BY FirstMagic DEF Start
<1>2. Suffix(f) \in Nat /\ k + 1 + Suffix(f) <= Len(f)
  <2>1. CASE Suffix(f) = 0
    BY <1>1, <2>1
  <2>2. CASE Suffix(f) # 0
    <3>1. /\ Suffix(f) = 5 /\ Len(f) >= 5
          /\ \A i \in 1..5 : f[Len(f) - 5 + i] = Terminator[i]
      BY <2>2, CutIsTerminator
    <3>2. \A i \in 1..5 : Terminator[i] \notin {G1, G2}
      BY DEF Terminator, G1, G2
    <3>3. \A j \in (Len(f) - 4)..Len(f) : f[j] # G2
      <4> SUFFICES ASSUME NEW j \in (Len(f) - 4)..Len(f) PROVE f[j] # G2
        OBVIOUS
      <4>1. j - Len(f) + 5 \in 1..5 /\ Len(f) - 5 + (j - Len(f) + 5) = j
        BY <1>1
      <4> QED
        BY <3>1, <3>2, <4>1
    <3>4. k + 1 \notin (Len(f) - 4)..Len(f)
      BY <3>3
    <3> QED
      BY <1>1, <3>1, <3>4
  <2> QED
    BY <2>1, <2>2
<1>3. CASE NeedsCleaning(f)
  <2>1. Length(f) \in Nat /\ Length(f) >= 2 /\ Start(f) + Length(f) <= Len(f)
    BY <1>1, <1>2 DEF Length
  <2>2. /\ Len(Kept(f)) = Length(f)
        /\ \A i \in 1..Length(f) : Kept(f)[i] = f[Start(f) + i]
    <3>1. \A i \in (Start(f) + 1)..(Start(f) + Length(f)) : f[i] \in Bytes
      BY <1>1, <2>1
    <3>2. Kept(f) = SubSeq(f, Start(f) + 1, Start(f) + Length(f))
      BY <1>3 DEF Kept
    <3> QED
      BY <1>1, <2>1, <3>1, <3>2, SubSeqProperties
  <2>3. Kept(f)[1] = f[k] /\ Kept(f)[2] = f[k + 1]
    BY <1>1, <2>1, <2>2
  <2> QED
    BY <2>1, <2>2, <2>3 DEF Magic
<1>4. CASE ~NeedsCleaning(f)
  BY <1>1, <1>4 DEF NeedsCleaning, Kept, Magic
<1> QED
  BY <1>3, <1>4

-----------------------------------------------------------------------------
(* What the temporary file begins with, however upstream sent it.          *)
Framed(f) == /\ Len(f) >= 5 /\ f[4] = G1 /\ f[5] = G2
             /\ \A i \in 1..3 : f[i] # G1
Sent ==
  /\ BytesInv /\ chunks \in Nat
  /\ Len(payload) >= 2 /\ payload[1] = G1 /\ payload[2] = G2
  /\ chunks = 0 /\ stage = "open" => file = <<>> /\ sent = 0
  /\ chunks = 0 /\ stage # "open" /\ sent = Len(payload) => file = payload
  /\ chunks > 0 => Framed(file)
Whole == PlainIsKept /\ (Window >= 5 => LooksLikeGzip)

LEMMA FramedStays ==
  ASSUME NEW f \in Seq(Bytes), NEW g \in Seq(Bytes), Framed(f)
  PROVE  Framed(f \o g)
<1>1. /\ Len(f \o g) = Len(f) + Len(g) /\ Len(f) \in Nat /\ Len(g) \in Nat
      /\ \A i \in 1..5 : (f \o g)[i] = f[i]
  BY ConcatProperties DEF Framed
<1> QED
  BY <1>1 DEF Framed

LEMMA Joined ==
  ASSUME NEW f \in Seq(Bytes), NEW g \in Seq(Bytes)
  PROVE  /\ Len(f \o g) = Len(f) + Len(g) /\ Len(f) \in Nat /\ Len(g) \in Nat
         /\ \A i \in 1..(Len(f) + Len(g)) :
              (f \o g)[i] = IF i <= Len(f) THEN f[i] ELSE g[i - Len(f)]
BY ConcatProperties

LEMMA FramedBegins ==
  ASSUME NEW f \in Seq(Bytes), NEW g \in Seq(Bytes), Len(f) = 3, \A i \in 1..3 : f[i] # G1,
         Len(g) >= 2, g[1] = G1, g[2] = G2
  PROVE  Framed(f \o g)
<1>1. /\ Len(f \o g) = Len(f) + Len(g) /\ Len(g) \in Nat
      /\ \A i \in 1..(Len(f) + Len(g)) :
           (f \o g)[i] = IF i <= Len(f) THEN f[i] ELSE g[i - Len(f)]
  BY Joined
<1>2. (f \o g)[4] = g[1] /\ (f \o g)[5] = g[2]
  <2>1. 4 - Len(f) = 1 /\ 5 - Len(f) = 2
    OBVIOUS
  <2>2. (f \o g)[4] = g[4 - Len(f)] /\ (f \o g)[5] = g[5 - Len(f)]
    BY <1>1
  <2> QED
    BY <2>1, <2>2
<1>3. \A i \in 1..3 : (f \o g)[i] = f[i]
  BY <1>1
<1> QED
  BY <1>1, <1>2, <1>3 DEF Framed

LEMMA CleanIsWhole ==
  ASSUME Sent, Clean
  PROVE  Whole'
<1>0. file \in Seq(Bytes) /\ payload \in Seq(Bytes) /\ stage = "closed"
      /\ UNCHANGED <<payload, sent, chunks, file>>
  BY DEF Sent, BytesInv, Clean
<1>1. CASE stage' # "uploaded"
  BY <1>1 DEF Whole, PlainIsKept, LooksLikeGzip
<1>2. CASE stage' = "uploaded"
  <2>1. cleaned' = Kept(file)
    BY <1>2 DEF Clean
  <2>2. PlainIsKept'
    BY <1>0, <2>1, WholeIsKept DEF Sent, PlainIsKept
  <2>3. ASSUME Window >= 5, sent = Len(payload) PROVE Magic(Kept(file), 1)
    <3>1. CASE chunks = 0
      BY <1>0, <2>3, <3>1, KeptHasMagic, WindowIsNat DEF Sent
    <3>2. CASE chunks > 0
      BY <1>0, <2>3, <3>2, KeptHasMagic, WindowIsNat DEF Sent, Framed
    <3> QED
      BY <3>1, <3>2 DEF Sent
  <2> QED
    BY <1>0, <2>1, <2>2, <2>3 DEF Whole, LooksLikeGzip
<1> QED
  BY <1>1, <1>2

LEMMA SentKept ==
  ASSUME Sent, BytesInv', [Next]_vars
  PROVE  Sent'
<1>0. /\ payload \in Seq(Bytes) /\ file \in Seq(Bytes) /\ sent \in Nat /\ Len(payload) \in Nat
      /\ chunks \in Nat
  BY DEF Sent, BytesInv
<1>1. CASE SendPlain
  <2>1. <<>> \o payload = payload
    BY <1>0, ConcatEmptySeq
  <2> QED
    BY <1>0, <1>1, <2>1 DEF Sent, SendPlain, Respond
<1>2. ASSUME NEW n \in 1..Len(payload), SendChunk(n) PROVE Sent'
  <2> DEFINE part == SubSeq(payload, sent + 1, sent + n)
             opening == <<"n", "CR", "LF">>
             closing == <<"CR", "LF">>
             bytes == opening \o part \o closing
  <2>1. /\ n + sent <= Len(payload) /\ (chunks = 0 => n >= 2) /\ stage = "open"
        /\ file' = file \o bytes /\ chunks' = chunks + 1 /\ UNCHANGED <<payload, stage>>
    BY <1>2 DEF SendChunk, Respond
  <2>2. /\ part \in Seq(Bytes) /\ Len(part) = n
        /\ \A i \in 1..n : part[i] = payload[sent + i]
    BY <1>0, <2>1, SubSeqProperties
  <2>3. opening \in Seq(Bytes) /\ closing \in Seq(Bytes) /\ Len(opening) = 3
        /\ \A i \in 1..3 : opening[i] # G1
    BY DEF Bytes, G1
  <2>4. opening \o part \in Seq(Bytes)
    BY <2>2, <2>3, ConcatProperties
  <2>5. bytes \in Seq(Bytes)
    <3> HIDE DEF opening, part, closing
    <3> QED
      BY <2>3, <2>4, ConcatProperties
  <2>6. Framed(file')
    <3>1. CASE chunks = 0
      <4>1. file = <<>> /\ sent = 0 /\ n >= 2
        BY <2>1, <3>1 DEF Sent
      <4>2. file' = bytes
        BY <2>1, <2>5, <4>1, ConcatEmptySeq
      <4>3. part[1] = G1 /\ part[2] = G2
        BY <2>2, <4>1 DEF Sent
      <4> HIDE DEF opening, part, closing
      <4>4. Framed(opening \o part)
        BY <2>2, <2>3, <4>1, <4>3, FramedBegins
      <4> QED
        BY <2>3, <2>4, <4>2, <4>4, FramedStays
    <3>2. CASE chunks > 0
      <4> HIDE DEF bytes
      <4> QED
        BY <1>0, <2>1, <2>5, <3>2, FramedStays DEF Sent
    <3> QED
      BY <1>0, <3>1, <3>2
  <2> QED
    BY <1>0, <2>1, <2>6 DEF Sent
<1>3. CASE SendTerminator
  <2>1. Terminator \in Seq(Bytes)
    BY DEF Terminator, Bytes
  <2> QED
    BY <1>0, <1>3, <2>1, FramedStays DEF Sent, SendTerminator, Respond
<1>4. ASSUME NEW n \in 0..Window, SendPage(n) PROVE Sent'
  <2>1. sent = 0 /\ Len(payload) >= 2 /\ chunks = 0 /\ stage' = "closed"
        /\ UNCHANGED <<payload, sent, chunks>>
    BY <1>4 DEF Sent, SendPage, Respond
  <2> QED
    BY <1>0, <2>1 DEF Sent
<1>5. CASE Clean
  BY <1>5 DEF Clean, Sent
<1>6. CASE Done \/ UNCHANGED vars
  BY <1>6 DEF Done, vars, Sent
<1> QED
  BY <1>1, <1>2, <1>3, <1>4, <1>5, <1>6 DEF Next

LEMMA WholeKept ==
  ASSUME Sent, Whole, [Next]_vars
  PROVE  Whole'
<1>1. CASE Clean
  BY <1>1, CleanIsWhole
<1>2. ASSUME NEW bytes, Respond(bytes), stage' \in {"open", "closed"} PROVE Whole'
  BY <1>2 DEF Whole, PlainIsKept, LooksLikeGzip
<1>3. CASE SendPlain
  BY <1>2, <1>3 DEF SendPlain
<1>4. ASSUME NEW n \in 1..Len(payload), SendChunk(n) PROVE Whole'
  <2>1. stage' \in {"open", "closed"} /\ \E bytes : Respond(bytes)
    BY <1>4 DEF SendChunk, Respond
  <2> QED
    BY <1>2, <2>1
<1>5. CASE SendTerminator
  BY <1>2, <1>5 DEF SendTerminator
<1>6. ASSUME NEW n \in 0..Window, SendPage(n) PROVE Whole'
  BY <1>2, <1>6 DEF SendPage
<1>7. CASE Done \/ UNCHANGED vars
  BY <1>7 DEF Done, vars, Whole, PlainIsKept, LooksLikeGzip
<1> QED
  BY <1>1, <1>3, <1>4, <1>5, <1>6, <1>7 DEF Next

LEMMA WholeInvariance == Spec => [](Sent /\ Whole)
<1>1. Init /\ BytesInv => Sent /\ Whole
  <2> SUFFICES ASSUME Init, BytesInv PROVE Sent /\ Whole
    OBVIOUS
  <2>1. PICK rest \in Seq(Bytes) : payload = <<G1, G2>> \o rest
    BY PayloadIsBytes
  <2>2. <<G1, G2>> \in Seq(Bytes)
    BY DEF Bytes
  <2>3. Len(payload) >= 2 /\ payload[1] = G1 /\ payload[2] = G2
    BY <2>1, <2>2, Joined
  <2> QED
    BY <2>3 DEF Init, Sent, Whole, PlainIsKept, LooksLikeGzip
<1>2. Sent /\ Whole /\ BytesInv' /\ [Next]_vars => Sent' /\ Whole'
  BY SentKept, WholeKept
<1> QED
  BY <1>1, <1>2, BytesInvariance, PTL DEF Spec

(* A tarball that arrives without framing is uploaded byte for byte, for   *)
(* every payload and window, unless it ends like a chunked body.           *)
THEOREM PlainStaysWhole == Spec => []PlainIsKept
<1>1. Sent /\ Whole => PlainIsKept
  BY DEF Whole
<1> QED
  BY <1>1, WholeInvariance, PTL

(* A window of five bytes is enough for the object of every tarball, framed*)
(* in any number of chunks, to begin as gzip does.                         *)
THEOREM ObjectsLookLikeGzip == Spec => [](Window >= 5 => LooksLikeGzip)
<1>1. Sent /\ Whole => (Window >= 5 => LooksLikeGzip)
  BY DEF Whole
<1> QED
  BY <1>1, WholeInvariance, PTL

(* A file that begins with n bytes, goes on with g and ends with z.        *)
Parts(f, n, g, z) ==
  /\ Len(f) = n + Len(g) + Len(z)
  /\ SubSeq(f, n + 1, n + Len(g)) = g
  /\ SubSeq(f, n + Len(g) + 1, Len(f)) = z

LEMMA MiddleAndEnd ==
  ASSUME NEW a \in Seq(Bytes), NEW g \in Seq(Bytes), NEW z \in Seq(Bytes),
         NEW f, f = (a \o g) \o z
  PROVE  Parts(f, Len(a), g, z)
<1>1. /\ a \o g \in Seq(Bytes) /\ f \in Seq(Bytes)
  BY ConcatProperties
<1>2. /\ Len(a) \in Nat /\ Len(g) \in Nat /\ Len(z) \in Nat
      /\ Len(f) = Len(a) + Len(g) + Len(z)
  BY <1>1, Joined
<1>3. \A i \in 1..Len(g) : f[Len(a) + i] = g[i]
  <2> SUFFICES ASSUME NEW i \in 1..Len(g) PROVE f[Len(a) + i] = g[i]
    OBVIOUS
  <2>1. f[Len(a) + i] = (a \o g)[Len(a) + i]
    BY <1>1, <1>2, Joined
  <2>2. (a \o g)[Len(a) + i] = g[(Len(a) + i) - Len(a)]
    BY <1>2, Joined
  <2> QED
    BY <1>2, <2>1, <2>2
<1>4. \A i \in 1..Len(z) : f[Len(a) + Len(g) + i] = z[i]
  <2> SUFFICES ASSUME NEW i \in 1..Len(z) PROVE f[Len(a) + Len(g) + i] = z[i]
    OBVIOUS
  <2>1. Len(a \o g) = Len(a) + Len(g)
    BY Joined
  <2>2. f[Len(a) + Len(g) + i] = z[(Len(a) + Len(g) + i) - (Len(a) + Len(g))]
    BY <1>1, <1>2, <2>1, Joined
  <2> QED
    BY <1>2, <2>2
<1>5. SubSeq(f, Len(a) + 1, Len(a) + Len(g)) = g
  <2> DEFINE s == SubSeq(f, Len(a) + 1, Len(a) + Len(g))
  <2>1. /\ s \in Seq(Bytes) /\ Len(s) = Len(g)
        /\ \A i \in 1..Len(g) : s[i] = f[Len(a) + i]
    BY <1>1, <1>2, SubSeqProperties
  <2> HIDE DEF s
  <2>2. s = g
    BY <1>3, <2>1, SeqEqual
  <2> QED
    BY <2>2 DEF s
<1>6. SubSeq(f, Len(a) + Len(g) + 1, Len(f)) = z
  <2> DEFINE s == SubSeq(f, Len(a) + Len(g) + 1, Len(f))
  <2>1. /\ s \in Seq(Bytes) /\ Len(s) = Len(z)
        /\ \A i \in 1..Len(z) : s[i] = f[Len(a) + Len(g) + i]
    BY <1>1, <1>2, SubSeqProperties
  <2> HIDE DEF s
  <2>2. s = z
    BY <1>4, <2>1, SeqEqual
  <2> QED
    BY <2>2 DEF s
<1> QED
  BY <1>2, <1>5, <1>6 DEF Parts

LEMMA ThreeParts ==
  ASSUME NEW a \in Seq(Bytes), NEW p \in Seq(Bytes), NEW e \in Seq(Bytes), NEW z \in Seq(Bytes),
         NEW f, f = (a \o p \o e) \o z
  PROVE  p \o e \in Seq(Bytes) /\ Len(p \o e) = Len(p) + Len(e) /\ Parts(f, Len(a), p \o e, z)
<1>1. p \o e \in Seq(Bytes) /\ Len(p \o e) = Len(p) + Len(e)
  BY ConcatProperties
<1>2. f = (a \o (p \o e)) \o z
  BY ConcatAssociative
<1>3. Parts(f, Len(a), p \o e, z)
  BY <1>1, <1>2, MiddleAndEnd
<1> QED
  BY <1>1, <1>3

(* The only chunk so far, and the terminator after it.                     *)
LineEnd == <<"CR", "LF">>
SizeLine == <<"n", "CR", "LF">>
Chunk == SizeLine \o SubSeq(payload, 1, sent) \o LineEnd
One ==
  chunks = 1 => IF stage = "open" THEN file = Chunk
                ELSE sent = Len(payload) /\ file = Chunk \o Terminator
KeepsLineEnd == stage = "uploaded" /\ chunks = 1 => cleaned = payload \o LineEnd
LineEndLeft == Window >= 5 => KeepsLineEnd

LEMMA OneKept ==
  ASSUME Sent, One, [Next]_vars
  PROVE  One'
<1>0. payload \in Seq(Bytes) /\ sent \in Nat /\ chunks \in Nat
  BY DEF Sent, BytesInv
<1>1. CASE SendPlain
  BY <1>1 DEF SendPlain, One
<1>2. ASSUME NEW n \in 1..Len(payload), SendChunk(n) PROVE One'
  <2>1. CASE chunks = 0
    <3>1. /\ file = <<>> /\ sent = 0
          /\ file' = file \o (SizeLine \o SubSeq(payload, sent + 1, sent + n) \o LineEnd)
          /\ sent' = sent + n /\ stage' = "open" /\ payload' = payload
      BY <1>2, <2>1 DEF Sent, SendChunk, Respond, SizeLine, LineEnd
    <3>2. file' = <<>> \o Chunk' /\ n \in Nat
      BY <1>0, <3>1 DEF Chunk, SizeLine, LineEnd
    <3>3. Chunk' \in Seq(Bytes)
      <4>1. sent' = n /\ n <= Len(payload) /\ Len(payload) \in Nat
        BY <1>0, <3>1, <3>2
      <4>2. SubSeq(payload, 1, n) \in Seq(Bytes)
        BY <1>0, <4>1, SubSeqProperties
      <4>3. SizeLine \in Seq(Bytes) /\ LineEnd \in Seq(Bytes)
        BY DEF SizeLine, LineEnd, Bytes
      <4>4. SizeLine \o SubSeq(payload, 1, n) \in Seq(Bytes)
        BY <4>2, <4>3, ConcatProperties
      <4>5. Chunk' = SizeLine \o SubSeq(payload, 1, n) \o LineEnd
        BY <3>1, <4>1 DEF Chunk, SizeLine, LineEnd
      <4> QED
        BY <4>3, <4>4, <4>5, ConcatProperties
    <3> QED
      BY <3>1, <3>2, <3>3, ConcatEmptySeq DEF One
  <2>2. CASE chunks # 0
    BY <1>0, <1>2, <2>2 DEF SendChunk, One
  <2> QED
    BY <2>1, <2>2
<1>3. CASE SendTerminator
  BY <1>3 DEF SendTerminator, Respond, One, Chunk, SizeLine, LineEnd
<1>4. ASSUME NEW n \in 0..Window, SendPage(n) PROVE One'
  BY <1>4 DEF SendPage, One
<1>5. CASE Clean
  BY <1>5 DEF Clean, One, Chunk, SizeLine, LineEnd
<1>6. CASE Done \/ UNCHANGED vars
  BY <1>6 DEF Done, vars, One, Chunk, SizeLine, LineEnd
<1> QED
  BY <1>1, <1>2, <1>3, <1>4, <1>5, <1>6 DEF Next

LEMMA ChunkIsCutOut ==
  ASSUME Sent, One, chunks = 1, stage = "closed", Window >= 5
  PROVE  Kept(file) = payload \o LineEnd
<1> DEFINE g == payload \o LineEnd
           n == Len(payload) + Len(LineEnd)
<1>1. payload \in Seq(Bytes) /\ file \in Seq(Bytes) /\ Len(payload) \in Nat
  BY DEF Sent, BytesInv
<1>2. SizeLine \in Seq(Bytes) /\ LineEnd \in Seq(Bytes) /\ Terminator \in Seq(Bytes)
  BY DEF SizeLine, LineEnd, Terminator, Bytes
<1>3. Len(SizeLine) = 3 /\ Len(LineEnd) = 2 /\ Len(Terminator) = 5
  BY DEF SizeLine, LineEnd, Terminator
<1>4. file = (SizeLine \o payload \o LineEnd) \o Terminator
  <2>1. SubSeq(payload, 1, Len(payload)) = payload
    BY <1>1, SubSeqProperties, SeqEqual
  <2> QED
    BY <2>1 DEF One, Chunk
<1>5. /\ Len(file) = Len(SizeLine) + n + Len(Terminator)
      /\ SubSeq(file, Len(SizeLine) + 1, Len(SizeLine) + n) = g
      /\ SubSeq(file, Len(SizeLine) + n + 1, Len(file)) = Terminator
  <2> DEFINE h == SizeLine
             l == LineEnd
             t == Terminator
  <2>1. /\ h \in Seq(Bytes) /\ l \in Seq(Bytes) /\ t \in Seq(Bytes)
        /\ file = (h \o payload \o l) \o t
    BY <1>2, <1>4
  <2> HIDE DEF h, l, t
  <2>2. Len(payload \o l) = Len(payload) + Len(l) /\ Parts(file, Len(h), payload \o l, t)
    BY <1>1, <2>1, ThreeParts
  <2> QED
    BY <2>2 DEF h, l, t, Parts
<1> HIDE DEF g
<1>6. /\ Len(file) = Len(payload) + 10 /\ SubSeq(file, 4, Len(payload) + 5) = g
      /\ SubSeq(file, Len(payload) + 6, Len(file)) = Terminator
  <2>1. /\ Len(SizeLine) + n + Len(Terminator) = Len(payload) + 10
        /\ Len(SizeLine) + 1 = 4 /\ Len(SizeLine) + n = Len(payload) + 5
        /\ Len(SizeLine) + n + 1 = Len(payload) + 6
    BY <1>1, <1>3
  <2> QED
    BY <1>5, <2>1
<1>7. GzipIdx(file) = 4
  BY <1>1, FirstMagic, WindowIsNat DEF Sent, Framed
<1>8. Suffix(file) = 5
  <2>1. Len(file) - 4 = Len(payload) + 6 /\ Len(file) >= 5
    BY <1>1, <1>6
  <2> QED
    BY <1>6, <2>1 DEF Suffix
<1>9. Start(file) = 3 /\ Length(file) = Len(payload) + 2 /\ NeedsCleaning(file)
  BY <1>1, <1>6, <1>7, <1>8 DEF Start, Length, NeedsCleaning
<1> QED
  BY <1>1, <1>6, <1>9 DEF Kept, g

LEMMA LineEndLeftKept ==
  ASSUME Sent, One, LineEndLeft, [Next]_vars
  PROVE  LineEndLeft'
<1>1. CASE Clean
  <2>1. CASE stage' = "uploaded" /\ chunks = 1 /\ Window >= 5
    <3>1. cleaned' = Kept(file) /\ stage = "closed" /\ UNCHANGED payload
      BY <1>1, <2>1 DEF Clean
    <3> QED
      BY <2>1, <3>1, ChunkIsCutOut DEF LineEndLeft, KeepsLineEnd
  <2>2. CASE ~(stage' = "uploaded" /\ chunks = 1 /\ Window >= 5)
    BY <1>1, <2>2 DEF Clean, LineEndLeft, KeepsLineEnd
  <2> QED
    BY <2>1, <2>2
<1>2. CASE stage' # "uploaded"
  BY <1>2 DEF LineEndLeft, KeepsLineEnd
<1>3. CASE UNCHANGED vars
  BY <1>3 DEF vars, LineEndLeft, KeepsLineEnd
<1>4. [Next]_vars => Clean \/ stage' # "uploaded" \/ UNCHANGED vars
  BY DEF Next, SendPlain, SendChunk, SendTerminator, SendPage, Respond, Done
<1> QED
  BY <1>1, <1>2, <1>3, <1>4

(* uploader.go:15 and 125 promise a pure tarball; of one that came in a     *)
(* single chunk the line end after the chunk is always uploaded with it,   *)
(* whatever the payload, for every window of five bytes or more.           *)
THEOREM OneChunkKeepsLineEnd == Spec => [](Window >= 5 => KeepsLineEnd)
<1>1. Init => One /\ LineEndLeft
  BY DEF Init, One, LineEndLeft, KeepsLineEnd
<1>2. (Sent /\ Whole) /\ One /\ LineEndLeft /\ [Next]_vars => One' /\ LineEndLeft'
  BY OneKept, LineEndLeftKept
<1>3. LineEndLeft => (Window >= 5 => KeepsLineEnd)
  BY DEF LineEndLeft
<1> QED
  BY <1>1, <1>2, <1>3, WholeInvariance, PTL DEF Spec
=============================================================================
