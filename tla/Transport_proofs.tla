-------------------------- MODULE Transport_proofs --------------------------
(***************************************************************************)
(* For every size of stage and record, every mix of calls, however the     *)
(* kernel splits what it takes and whenever it fails: the transport seam   *)
(* implements the abstract byte stream of Channel, and an encrypted        *)
(* connection sends an unbroken sealed prefix.                             *)
(*                                                                         *)
(* The bytes are numbered in the order callers wrote them, so whatever is  *)
(* still on this side is a run of consecutive numbers, laid out over the   *)
(* raw write, the unsealed rest of a TLS write, the call that waits for    *)
(* its flush, and the stage, in this order; the peer has what comes before *)
(* them.  That is the inductive invariant.                                 *)
(***************************************************************************)
EXTENDS Transport, SequenceTheorems, TLAPS

CellType == Nat \X Nat \X Nat
PeerType == [opened : Nat, part : Seq(CellType), read : Seq(Nat), clear : BOOLEAN]

(* Arrays of at most two buffers.                                           *)
Arrays(S) == {<<>>} \cup {<<a>> : a \in Seq(S)} \cup {<<a, b>> : a \in Seq(S), b \in Seq(S)}

TypeOK ==
    /\ link \in Links /\ mode \in {"PLAIN", "TLS"}
    /\ buffering \in BOOLEAN /\ broken \in BOOLEAN
    /\ pc \in {"caller", "send", "blocked", "closed"}
    /\ after \in {"return", "write", "writev", "read", "loopend", "close"}
    /\ stage \in Seq(Nat) /\ plain \in Seq(Nat)
    /\ args \in Arrays(Nat) /\ iov \in Arrays(CellType)
    /\ sealSeq \in Nat /\ accepted \in Nat
    /\ peer \in PeerType

(* Which of the places where bytes wait can hold any.                       *)
Shape ==
    /\ pc # "send" => args = <<>> /\ plain = <<>>
    /\ pc = "send" \/ ~buffering => stage = <<>>
    /\ pc = "send" => /\ after = "write" => Len(args) = 1
                      /\ after = "writev" => Len(args) = 2 /\ mode = "PLAIN"
                      /\ after \notin {"write", "writev"} => args = <<>>
                      /\ after = "close" => ~buffering /\ mode = "PLAIN"
                      /\ after \notin {"return", "close"} => buffering
    /\ mode = "PLAIN" => plain = <<>>
    /\ link = "http1" => ~buffering
    /\ link # "h2tls" => mode = "PLAIN"
    /\ link = "h2tls" /\ mode = "PLAIN" =>
          \/ pc = "closed"
          \/ pc = "send" /\ after = "close" /\ Total(iov) = 0

(* How many bytes have been handed to a raw write: the rest is in plain,    *)
(* args and stage.                                                          *)
Handed == accepted - Len(stage) - Total(args) - Len(plain)

Queued ==
    /\ Handed \in Nat
    /\ stage = Bytes(accepted - Len(stage), Len(stage))
    /\ plain = Bytes(Handed, Len(plain))
    /\ Len(args) >= 1 => args[1] = Bytes(accepted - Total(args), Len(args[1]))
    /\ Len(args) = 2 => args[2] = Bytes(accepted - Len(args[2]), Len(args[2]))

(* What the raw write in progress still has to send.                        *)
Left == IF pc = "send" THEN Total(iov) ELSE 0

(* Plaintext entries are the Left bytes up to Handed.                       *)
InClear ==
    pc = "send" /\ mode = "PLAIN" =>
        /\ Left <= Handed
        /\ Len(iov) >= 1 =>
              \A i \in 1..Len(iov[1]) : iov[1][i] = <<0, 0, Handed - Left + i>>
        /\ Len(iov) = 2 =>
              \A i \in 1..Len(iov[2]) : iov[2][i] = <<0, 0, Handed - Len(iov[2]) + i>>

(* Cell i of record r, which seals the k bytes after x.                     *)
SealedCell(r, k, x, i) == <<r, k, IF i = 1 THEN 0 ELSE x + i - 1>>

(* A record in progress seals the last Size bytes handed over; Gone of its  *)
(* cells are out.                                                           *)
Size == iov[1][1][2]
Gone == Size + 1 - Left

InRecord ==
    pc = "send" /\ mode = "TLS" =>
        /\ Len(iov) <= 1
        /\ Left > 0 =>
              /\ Size <= Handed /\ Gone \in Nat
              /\ \A i \in 1..Left :
                    iov[1][i] = SealedCell(sealSeq, Size, Handed - Size, Gone + i)

(* A plaintext peer has what left, in order, and without a gap if no write  *)
(* failed.                                                                  *)
ReadInClear ==
    link # "h2tls" =>
        /\ \A i \in 1..Len(peer.read) : peer.read[i] \in 1..(Handed - Left)
        /\ \A i, j \in 1..Len(peer.read) : i < j => peer.read[i] < peer.read[j]
        /\ ~broken => peer.read = Bytes(0, Handed - Left)

(* A TLS peer has opened every record but the one in progress, whose cells  *)
(* that are out it keeps; after a failure it is one record behind for good. *)
ReadSealed ==
    link = "h2tls" =>
        /\ ~peer.clear
        /\ peer.read = Bytes(0, Len(peer.read)) /\ Len(peer.read) <= Handed
        /\ ~broken /\ Left = 0 =>
              /\ peer.opened = sealSeq /\ peer.part = <<>>
              /\ Len(peer.read) = Handed
        /\ ~broken /\ Left > 0 =>
              /\ peer.opened + 1 = sealSeq
              /\ Len(peer.read) = Handed - Size
              /\ Len(peer.part) = Gone
              /\ \A i \in 1..Gone : peer.part[i] = SealedCell(sealSeq, Size, Handed - Size, i)
        /\ broken => peer.opened < sealSeq /\ (Left > 0 => peer.opened + 1 < sealSeq)

TInv == /\ TypeOK /\ Shape /\ Queued /\ InClear /\ InRecord /\ ReadInClear /\ ReadSealed


-----------------------------------------------------------------------------
(* Runs of bytes, and the arrays of a raw write.                            *)

LEMMA BytesRun ==
    ASSUME NEW n \in Nat, NEW k \in Nat
    PROVE  /\ Bytes(n, k) \in Seq(Nat) /\ Len(Bytes(n, k)) = k
           /\ \A i \in 1..k : Bytes(n, k)[i] = n + i
<1>1. Bytes(n, k) \in [1..k -> Nat]  BY DEF Bytes
<1>2. Bytes(n, k) \in Seq(Nat)  BY <1>1, IsASeq
<1>3. Len(Bytes(n, k)) = k  BY <1>1, <1>2, LenProperties
<1> QED  BY <1>2, <1>3 DEF Bytes

(* A sequence that counts on from n is a run.                               *)
LEMMA IsRun ==
    ASSUME NEW n \in Nat, NEW T, NEW s \in Seq(T), \A i \in 1..Len(s) : s[i] = n + i
    PROVE  s = Bytes(n, Len(s))
<1>1. DOMAIN s = 1..Len(s) /\ Len(s) \in Nat  BY LenProperties
<1>2. s = [i \in 1..Len(s) |-> s[i]]  BY <1>1
<1> QED  BY <1>1, <1>2 DEF Bytes

LEMMA RunsJoin ==
    ASSUME NEW n \in Nat, NEW k \in Nat, NEW l \in Nat
    PROVE  Bytes(n, k) \o Bytes(n + k, l) = Bytes(n, k + l)
<1> DEFINE a == Bytes(n, k)
           b == Bytes(n + k, l)
           c == a \o b
<1>1. /\ a \in Seq(Nat) /\ Len(a) = k /\ \A i \in 1..k : a[i] = n + i
      /\ b \in Seq(Nat) /\ Len(b) = l /\ \A i \in 1..l : b[i] = n + k + i
    <2>1. n + k \in Nat  OBVIOUS
    <2>2. a \in Seq(Nat) /\ Len(a) = k /\ \A i \in 1..k : a[i] = n + i  BY BytesRun
    <2>3. b \in Seq(Nat) /\ Len(b) = l /\ \A i \in 1..l : b[i] = n + k + i  BY <2>1, BytesRun
    <2> QED  BY <2>2, <2>3
<1> HIDE DEF a, b
<1>2. /\ c \in Seq(Nat) /\ Len(c) = k + l
      /\ \A i \in 1..(k + l) : c[i] = IF i <= k THEN a[i] ELSE b[i - k]
    BY <1>1, ConcatProperties
<1>3. ASSUME NEW i \in 1..(k + l) PROVE c[i] = n + i
    <2>1. CASE i <= k
        <3>1. i \in 1..k  BY <2>1
        <3> QED  BY <1>1, <1>2, <2>1, <3>1
    <2>2. CASE ~ (i <= k)
        <3>1. i - k \in 1..l /\ n + k + (i - k) = n + i  BY <2>2
        <3>2. c[i] = b[i - k]  BY <1>2, <2>2
        <3> QED  BY <1>1, <3>1, <3>2
    <2> QED  BY <2>1, <2>2
<1> HIDE DEF c
<1>4. c = Bytes(n, Len(c))
    <2>1. \A i \in 1..Len(c) : c[i] = n + i  BY <1>2, <1>3
    <2> QED  BY <1>2, <2>1, IsRun
<1> QED  BY <1>2, <1>4 DEF a, b, c

LEMMA RunSplits ==
    ASSUME NEW n \in Nat, NEW k \in Nat, NEW c \in 0..k
    PROVE  /\ SubSeq(Bytes(n, k), 1, c) = Bytes(n, c)
           /\ SubSeq(Bytes(n, k), c + 1, k) = Bytes(n + c, k - c)
<1> DEFINE a == Bytes(n, k)
           s == SubSeq(a, 1, c)
           t == SubSeq(a, c + 1, k)
<1>1. a \in Seq(Nat) /\ Len(a) = k /\ \A i \in 1..k : a[i] = n + i  BY BytesRun
<1> HIDE DEF a
<1>2. s \in Seq(Nat) /\ Len(s) = c /\ \A i \in 1..c : s[i] = a[i]
    BY <1>1
<1>3. t \in Seq(Nat) /\ Len(t) = k - c /\ \A i \in 1..(k - c) : t[i] = a[c + i]
    BY <1>1
<1> HIDE DEF s, t
<1>4. \A i \in 1..Len(s) : s[i] = n + i  BY <1>1, <1>2
<1>5. \A i \in 1..Len(t) : t[i] = (n + c) + i  BY <1>1, <1>3
<1>6. s = Bytes(n, c)  BY <1>2, <1>4, IsRun
<1>7. t = Bytes(n + c, k - c)  BY <1>3, <1>5, IsRun
<1> QED  BY <1>6, <1>7 DEF a, s, t

LEMMA ArrayOne ==
    ASSUME NEW S, NEW a \in Seq(S)
    PROVE  <<a>> \in Arrays(S)
<1>1. <<a>> \in {<<b>> : b \in Seq(S)}  OBVIOUS
<1> QED  BY <1>1 DEF Arrays

LEMMA ArrayTwo ==
    ASSUME NEW S, NEW a \in Seq(S), NEW b \in Seq(S)
    PROVE  <<a, b>> \in Arrays(S)
<1>1. <<a, b>> \in {<<c, d>> : c \in Seq(S), d \in Seq(S)}  OBVIOUS
<1> QED  BY <1>1 DEF Arrays

LEMMA ArrayParts ==
    ASSUME NEW S, NEW v \in Arrays(S)
    PROVE  /\ Total(v) \in Nat
           /\ \/ Len(v) = 0 /\ v = <<>> /\ Total(v) = 0
              \/ /\ Len(v) = 1 /\ v = <<v[1]>> /\ v[1] \in Seq(S) /\ Len(v[1]) \in Nat
                 /\ Total(v) = Len(v[1])
              \/ /\ Len(v) = 2 /\ v = <<v[1], v[2]>>
                 /\ v[1] \in Seq(S) /\ Len(v[1]) \in Nat
                 /\ v[2] \in Seq(S) /\ Len(v[2]) \in Nat
                 /\ Total(v) = Len(v[1]) + Len(v[2])
<1>1. CASE v = <<>>
    BY <1>1 DEF Total
<1>2. ASSUME NEW a \in Seq(S), v = <<a>>
      PROVE  /\ Len(v) = 1 /\ v = <<v[1]>> /\ v[1] \in Seq(S) /\ Len(v[1]) \in Nat
             /\ Total(v) = Len(v[1])
    <2>1. Len(a) \in Nat  BY LenProperties
    <2>2. v # <<>> /\ Len(v) = 1 /\ v[1] = a  BY <1>2
    <2> QED  BY <1>2, <2>1, <2>2 DEF Total
<1>3. ASSUME NEW a \in Seq(S), NEW b \in Seq(S), v = <<a, b>>
      PROVE  /\ Len(v) = 2 /\ v = <<v[1], v[2]>>
             /\ v[1] \in Seq(S) /\ Len(v[1]) \in Nat
             /\ v[2] \in Seq(S) /\ Len(v[2]) \in Nat
             /\ Total(v) = Len(v[1]) + Len(v[2])
    <2>1. Len(a) \in Nat /\ Len(b) \in Nat  BY LenProperties
    <2>2. v # <<>> /\ Len(v) = 2 /\ v[1] = a /\ v[2] = b  BY <1>3
    <2> QED  BY <1>3, <2>1, <2>2 DEF Total
<1>4. \/ v = <<>> \/ \E a \in Seq(S) : v = <<a>>
      \/ \E a, b \in Seq(S) : v = <<a, b>>
    BY DEF Arrays
<1>5. CASE \E a \in Seq(S) : v = <<a>>
    BY <1>2, <1>5
<1>6. CASE \E a, b \in Seq(S) : v = <<a, b>>
    <2>1. /\ Len(v) = 2 /\ v = <<v[1], v[2]>>
          /\ v[1] \in Seq(S) /\ Len(v[1]) \in Nat
          /\ v[2] \in Seq(S) /\ Len(v[2]) \in Nat
          /\ Total(v) = Len(v[1]) + Len(v[2])
        BY <1>3, <1>6, Zenon
    <2> QED  BY <2>1
<1> QED  BY <1>1, <1>4, <1>5, <1>6

(* What raw_writev_all passes to the kernel: nothing when nothing is left,  *)
(* else the array from its first entry that holds something.                *)
LEMMA SkippedOne ==
    ASSUME NEW S, NEW a \in Seq(S)
    PROVE  SkipEmpty(<<a>>) = IF a = <<>> THEN <<>> ELSE <<a>>
<1> DEFINE v == <<a>>
           full == {i \in DOMAIN v : v[i] # <<>>}
           first == CHOOSE i \in full : \A j \in full : i <= j
<1>1. full = IF a = <<>> THEN {} ELSE {1}  OBVIOUS
<1>2. SkipEmpty(v) = IF full = {} THEN <<>> ELSE SubSeq(v, first, Len(v))
    BY DEF SkipEmpty
<1>3. CASE a = <<>>  BY <1>1, <1>2, <1>3
<1>4. CASE a # <<>>
    <2>1. full = {1}  BY <1>1, <1>4
    <2>2. first = 1
        <3> HIDE DEF full
        <3> QED  BY <2>1
    <2>3. SubSeq(v, 1, Len(v)) = v
        <3>1. v \in Seq(Seq(S))  OBVIOUS
        <3> QED  BY <3>1, SubSeqFull
    <2>4. Len(v) = 1  OBVIOUS
    <2> HIDE DEF full, first
    <2> QED  BY <1>2, <1>4, <2>1, <2>2, <2>3, <2>4
<1> QED  BY <1>3, <1>4

LEMMA SkippedTwo ==
    ASSUME NEW S, NEW a \in Seq(S), NEW b \in Seq(S)
    PROVE  SkipEmpty(<<a, b>>) = IF a # <<>> THEN <<a, b>>
                                 ELSE IF b # <<>> THEN <<b>> ELSE <<>>
<1> DEFINE v == <<a, b>>
           full == {i \in DOMAIN v : v[i] # <<>>}
           first == CHOOSE i \in full : \A j \in full : i <= j
<1>1. /\ DOMAIN v = {1, 2} /\ v[1] = a /\ v[2] = b /\ Len(v) = 2
      /\ SubSeq(v, 1, 2) = v /\ SubSeq(v, 2, 2) = <<b>>
    <2>1. DOMAIN v = {1, 2} /\ v[1] = a /\ v[2] = b /\ Len(v) = 2 /\ v # <<>>  OBVIOUS
    <2>2. v \in Seq(Seq(S))  OBVIOUS
    <2>3. SubSeq(v, 1, Len(v)) = v  BY <2>2, SubSeqFull
    <2>4. Tail(v) = SubSeq(v, 2, Len(v))  BY <2>1, <2>2, TailIsSubSeq
    <2>5. Tail(v) = <<b>>  OBVIOUS
    <2> QED  BY <2>1, <2>3, <2>4, <2>5
<1>2. SkipEmpty(v) = IF full = {} THEN <<>> ELSE SubSeq(v, first, Len(v))
    BY DEF SkipEmpty
<1>3. CASE a = <<>> /\ b = <<>>
    <2>1. full = {}  BY <1>1, <1>3
    <2> QED  BY <1>2, <1>3, <2>1
<1>4. CASE a # <<>>
    <2>1. 1 \in full /\ full \subseteq {1, 2}  BY <1>1, <1>4
    <2> HIDE DEF full
    <2>2. \E i \in full : \A j \in full : i <= j  BY <2>1
    <2>3. first \in full /\ \A j \in full : first <= j  BY <2>2
    <2> HIDE DEF first
    <2>4. first = 1  BY <2>1, <2>3
    <2> QED  BY <1>1, <1>2, <1>4, <2>1, <2>4
<1>5. CASE a = <<>> /\ b # <<>>
    <2>1. full = {2}  BY <1>1, <1>5
    <2> HIDE DEF full
    <2>2. first = 2  BY <2>1
    <2> QED  BY <1>1, <1>2, <1>5, <2>1, <2>2
<1> QED  BY <1>3, <1>4, <1>5

LEMMA Skipped ==
    ASSUME NEW S, NEW v \in Arrays(S)
    PROVE  /\ SkipEmpty(v) = <<>> <=> Total(v) = 0
           /\ Total(v) > 0 =>
                 \/ Len(v) \in 1..2 /\ Len(v[1]) > 0 /\ SkipEmpty(v) = v
                 \/ /\ Len(v) = 2 /\ Len(v[1]) = 0 /\ Len(v[2]) = Total(v)
                    /\ SkipEmpty(v) = <<v[2]>>
<1>1. \A a \in Seq(S) : Len(a) \in Nat /\ (a = <<>> <=> Len(a) = 0)
    BY LenProperties, EmptySeq
<1>2. CASE v = <<>>
    <2>1. SkipEmpty(<<>>) = <<>>  BY DEF SkipEmpty
    <2> QED  BY <1>2, <2>1 DEF Total
<1>3. CASE \E a \in Seq(S) : v = <<a>>
    <2>1. PICK a \in Seq(S) : v = <<a>>  BY <1>3
    <2>2. v[1] = a /\ Len(v) = 1 /\ v # <<>>  BY <2>1
    <2>3. Total(v) = Len(a)  BY <2>2 DEF Total
    <2>4. SkipEmpty(v) = IF a = <<>> THEN <<>> ELSE <<a>>  BY <2>1, SkippedOne
    <2>5. Len(a) \in Nat /\ (a = <<>> <=> Len(a) = 0)  BY <1>1
    <2>6. CASE a = <<>>  BY <2>3, <2>4, <2>5, <2>6
    <2>7. CASE a # <<>>
        <3>1. SkipEmpty(v) = v  BY <2>1, <2>4, <2>7
        <3>2. Len(a) > 0  BY <2>5, <2>7
        <3> QED  BY <2>2, <2>3, <3>1, <3>2
    <2> QED  BY <2>6, <2>7
<1>4. CASE \E a, b \in Seq(S) : v = <<a, b>>
    <2>1. PICK a \in Seq(S), b \in Seq(S) : v = <<a, b>>  BY <1>4
    <2>2. v[1] = a /\ v[2] = b /\ Len(v) = 2 /\ v # <<>> /\ <<b>> # <<>>  BY <2>1
    <2>3. Total(v) = Len(a) + Len(b)  BY <2>2 DEF Total
    <2>4. SkipEmpty(v) = IF a # <<>> THEN <<a, b>> ELSE IF b # <<>> THEN <<b>> ELSE <<>>
        BY <2>1, SkippedTwo
    <2>5. /\ Len(a) \in Nat /\ (a = <<>> <=> Len(a) = 0)
          /\ Len(b) \in Nat /\ (b = <<>> <=> Len(b) = 0)
        BY <1>1
    <2>6. CASE a # <<>>
        <3>1. SkipEmpty(v) = v  BY <2>1, <2>4, <2>6
        <3>2. Len(a) > 0  BY <2>5, <2>6
        <3>3. Total(v) > 0  BY <2>3, <2>5, <3>2
        <3>4. Len(v) \in 1..2  BY <2>2
        <3> QED  BY <2>2, <3>1, <3>2, <3>3, <3>4
    <2>7. CASE a = <<>> /\ b # <<>>
        <3>1. SkipEmpty(v) = <<v[2]>>  BY <2>2, <2>4, <2>7
        <3>2. Len(a) = 0 /\ Len(b) > 0  BY <2>5, <2>7
        <3>3. Total(v) = Len(b) /\ Total(v) > 0  BY <2>3, <2>5, <3>2
        <3> QED  BY <2>2, <3>1, <3>2, <3>3
    <2>8. CASE a = <<>> /\ b = <<>>
        <3>1. SkipEmpty(v) = <<>>  BY <2>4, <2>8
        <3>2. Total(v) = 0  BY <2>3, <2>5, <2>8
        <3> QED  BY <3>1, <3>2
    <2> QED  BY <2>6, <2>7, <2>8
<1> QED  BY <1>2, <1>3, <1>4 DEF Arrays


LEMMA CellsOfRun ==
    ASSUME NEW x \in Nat, NEW k \in Nat
    PROVE  /\ PlainCells(Bytes(x, k)) \in Seq(CellType) /\ Len(PlainCells(Bytes(x, k))) = k
           /\ \A i \in 1..k : PlainCells(Bytes(x, k))[i] = <<0, 0, x + i>>
<1> DEFINE c == [i \in 1..k |-> <<0, 0, x + i>>]
<1>1. PlainCells(Bytes(x, k)) = c  BY DEF PlainCells, Bytes
<1>2. c \in [1..k -> CellType]  BY DEF CellType
<1> HIDE DEF c
<1>3. c \in Seq(CellType)  BY <1>2, IsASeq
<1>4. Len(c) = k  BY <1>2, <1>3, LenProperties
<1>5. \A i \in 1..k : c[i] = <<0, 0, x + i>>  BY DEF c
<1> QED  BY <1>1, <1>3, <1>4, <1>5

(* Runs handed to a plaintext write are its entries.                        *)
LEMMA StartPlainOne ==
    ASSUME NEW x \in Nat, NEW k \in Nat, NEW next, mode = "PLAIN",
           StartNow(<<Bytes(x, k)>>, next)
    PROVE  /\ iov' \in Arrays(CellType) /\ Len(iov') = 1 /\ Total(iov') = k
           /\ Len(iov'[1]) = k /\ \A i \in 1..k : iov'[1][i] = <<0, 0, x + i>>
<1> DEFINE p == <<Bytes(x, k)>>
           c == PlainCells(Bytes(x, k))
           v == [i \in DOMAIN p |-> PlainCells(p[i])]
<1>1. c \in Seq(CellType) /\ Len(c) = k /\ \A i \in 1..k : c[i] = <<0, 0, x + i>>
    BY CellsOfRun
<1>2. iov' = v  BY DEF StartNow
<1>3. v = <<c>>
    <2>1. DOMAIN p = {1} /\ p[1] = Bytes(x, k)  OBVIOUS
    <2>2. v = [i \in {1} |-> c]
        <3> HIDE DEF p
        <3> QED  BY <2>1
    <2> HIDE DEF c, v
    <2>3. <<c>> = [i \in {1} |-> c]  OBVIOUS
    <2> QED  BY <2>2, <2>3
<1> HIDE DEF c, v
<1>4. iov' = <<c>>  BY <1>2, <1>3
<1>5. iov' \in Arrays(CellType) /\ Len(iov') = 1 /\ iov'[1] = c /\ iov' # <<>>
    BY <1>1, <1>4 DEF Arrays
<1> QED  BY <1>1, <1>5 DEF Total

LEMMA StartPlainTwo ==
    ASSUME NEW x \in Nat, NEW k \in Nat, NEW l \in Nat, NEW next, mode = "PLAIN",
           StartNow(<<Bytes(x, k), Bytes(x + k, l)>>, next)
    PROVE  /\ iov' \in Arrays(CellType) /\ Len(iov') = 2 /\ Total(iov') = k + l
           /\ Len(iov'[1]) = k /\ \A i \in 1..k : iov'[1][i] = <<0, 0, x + i>>
           /\ Len(iov'[2]) = l /\ \A i \in 1..l : iov'[2][i] = <<0, 0, x + k + i>>
<1> DEFINE p == <<Bytes(x, k), Bytes(x + k, l)>>
           c == PlainCells(Bytes(x, k))
           d == PlainCells(Bytes(x + k, l))
           v == [i \in DOMAIN p |-> PlainCells(p[i])]
<1>1. c \in Seq(CellType) /\ Len(c) = k /\ \A i \in 1..k : c[i] = <<0, 0, x + i>>
    BY CellsOfRun
<1>2. d \in Seq(CellType) /\ Len(d) = l /\ \A i \in 1..l : d[i] = <<0, 0, x + k + i>>
    <2>1. x + k \in Nat  OBVIOUS
    <2> QED  BY <2>1, CellsOfRun
<1>3. iov' = v  BY DEF StartNow
<1>4. v = <<c, d>>
    <2>1. DOMAIN p = {1, 2} /\ p[1] = Bytes(x, k) /\ p[2] = Bytes(x + k, l)  OBVIOUS
    <2>2. v = [i \in {1, 2} |-> IF i = 1 THEN c ELSE d]
        <3> HIDE DEF p
        <3> QED  BY <2>1
    <2> HIDE DEF c, d, v
    <2>3. <<c, d>> = [i \in {1, 2} |-> IF i = 1 THEN c ELSE d]  OBVIOUS
    <2> QED  BY <2>2, <2>3
<1> HIDE DEF c, d, v
<1>5. iov' = <<c, d>>  BY <1>3, <1>4
<1>6. iov' \in Arrays(CellType) /\ Len(iov') = 2 /\ iov'[1] = c /\ iov'[2] = d /\ iov' # <<>>
    BY <1>1, <1>2, <1>5 DEF Arrays
<1>7. Total(iov') = k + l
    <2>1. Len(iov'[1]) = k /\ Len(iov'[2]) = l  BY <1>1, <1>2, <1>6
    <2>2. Len(iov') # 1 /\ iov' # <<>>  BY <1>6
    <2>3. Total(iov') = Len(iov'[1]) + Len(iov'[2])  BY <2>2, Zenon DEF Total
    <2> QED  BY <2>1, <2>3
<1> QED  BY <1>1, <1>2, <1>6, <1>7

(* The first chunk of a run is sealed into a record, the rest waits.        *)
LEMMA StartSealed ==
    ASSUME NEW x \in Nat, NEW k \in Nat \ {0}, NEW next, mode = "TLS", sealSeq \in Nat,
           StartNow(<<Bytes(x, k)>>, next)
    PROVE  \E c \in 1..k :
              /\ iov' \in Arrays(CellType) /\ Len(iov') = 1 /\ Total(iov') = c + 1
              /\ \A i \in 1..(c + 1) : iov'[1][i] = SealedCell(sealSeq + 1, c, x, i)
              /\ plain' = Bytes(x + c, k - c)
              /\ sealSeq' = sealSeq + 1
<1> DEFINE p == Bytes(x, k)
           c == ChunkLen(p)
           q == Bytes(x, c)
           h == <<<<sealSeq + 1, c, 0>>>>
           b == [i \in 1..c |-> <<sealSeq + 1, c, x + i>>]
           rec == h \o b
<1>1. p \in Seq(Nat) /\ Len(p) = k /\ p # <<>>
    <2>1. p \in Seq(Nat) /\ Len(p) = k  BY BytesRun
    <2> QED  BY <2>1
<1>2. c \in 1..k  BY <1>1, TransportAssumption DEF ChunkLen
<1>3. Joined(<<p>>) = p  BY DEF Joined
<1>4. /\ iov' = <<Seal(sealSeq + 1, SubSeq(p, 1, c))>>
      /\ plain' = SubSeq(p, c + 1, Len(p)) /\ sealSeq' = sealSeq + 1
    BY <1>1, <1>3 DEF StartNow
<1>5. SubSeq(p, 1, c) = q /\ SubSeq(p, c + 1, Len(p)) = Bytes(x + c, k - c)
    <2>1. c \in 0..k  BY <1>2
    <2>2. /\ SubSeq(p, 1, c) = Bytes(x, c)
          /\ SubSeq(p, c + 1, k) = Bytes(x + c, k - c)
        <3> HIDE DEF c
        <3> QED  BY <2>1, RunSplits
    <2> QED  BY <1>1, <2>2
<1>6. q \in Seq(Nat) /\ Len(q) = c /\ DOMAIN q = 1..c /\ \A i \in 1..c : q[i] = x + i
    <2>1. c \in Nat  BY <1>2
    <2>2. q \in Seq(Nat) /\ Len(q) = c /\ \A i \in 1..c : q[i] = x + i
        <3> HIDE DEF c
        <3> QED  BY <2>1, BytesRun
    <2> QED  BY <2>2, LenProperties
<1> HIDE DEF p, c, q
<1>7. Seal(sealSeq + 1, q) = rec
    <2>1. b = [i \in DOMAIN q |-> <<sealSeq + 1, Len(q), q[i]>>]  BY <1>6
    <2> HIDE DEF b
    <2> QED  BY <1>6, <2>1 DEF Seal
<1>8. h \in Seq(CellType) /\ Len(h) = 1 /\ h[1] = <<sealSeq + 1, c, 0>>
    BY <1>2 DEF CellType
<1>9. b \in Seq(CellType) /\ Len(b) = c /\ \A i \in 1..c : b[i] = <<sealSeq + 1, c, x + i>>
    <2>1. b \in [1..c -> CellType] /\ c \in Nat  BY <1>2 DEF CellType
    <2>2. \A i \in 1..c : b[i] = <<sealSeq + 1, c, x + i>>  OBVIOUS
    <2> HIDE DEF b
    <2>3. b \in Seq(CellType)  BY <2>1, IsASeq
    <2>4. Len(b) = c  BY <2>1, <2>3, LenProperties
    <2> QED  BY <2>2, <2>3, <2>4
<1> HIDE DEF h, b
<1>10. /\ rec \in Seq(CellType) /\ Len(rec) = c + 1
       /\ \A i \in 1..(c + 1) : rec[i] = IF i <= 1 THEN h[i] ELSE b[i - 1]
    <2>1. /\ rec \in Seq(CellType) /\ Len(rec) = 1 + c
          /\ \A i \in 1..(1 + c) : rec[i] = IF i <= 1 THEN h[i] ELSE b[i - 1]
        BY <1>8, <1>9, ConcatProperties
    <2> QED  BY <1>2, <2>1
<1> HIDE DEF rec
<1>11. ASSUME NEW i \in 1..(c + 1) PROVE rec[i] = SealedCell(sealSeq + 1, c, x, i)
    <2>1. CASE i = 1  BY <1>8, <1>10, <2>1 DEF SealedCell
    <2>2. CASE i # 1
        <3>1. i - 1 \in 1..c /\ x + (i - 1) = x + i - 1 /\ ~ (i <= 1)  BY <1>2, <2>2
        <3>2. rec[i] = <<sealSeq + 1, c, x + (i - 1)>>  BY <1>9, <1>10, <3>1
        <3> QED  BY <2>2, <3>1, <3>2 DEF SealedCell
    <2> QED  BY <2>1, <2>2
<1>12. iov' = <<rec>>  BY <1>4, <1>5, <1>7
<1>13. iov' \in Arrays(CellType) /\ Len(iov') = 1 /\ iov'[1] = rec /\ iov' # <<>>
    BY <1>10, <1>12 DEF Arrays
<1>14. Total(iov') = c + 1  BY <1>10, <1>13 DEF Total
<1> QED  BY <1>2, <1>4, <1>5, <1>11, <1>13, <1>14


-----------------------------------------------------------------------------
(* Steps that leave nothing in a raw write, before or after: what is left   *)
(* waits in the stage.                                                      *)
LEMMA RestingInv ==
    ASSUME TInv, Left = 0, plain = <<>>, plain' = <<>>, args' = <<>>,
           link' = link, mode' = mode, peer' = peer, broken' = broken, sealSeq' = sealSeq,
           after' = after, iov' = iov,
           pc' \in {"caller", "blocked", "closed"},
           link = "h2tls" /\ mode = "PLAIN" => pc' = "closed",
           buffering' \in BOOLEAN, link = "http1" => ~buffering', ~buffering' => stage' = <<>>,
           accepted' \in Nat, stage' \in Seq(Nat),
           stage' = Bytes(Handed, Len(stage')), accepted' = Handed + Len(stage')
    PROVE  TInv'
<1>1. TypeOK'
    <2>1. <<>> \in Arrays(Nat) /\ <<>> \in Seq(Nat)  BY DEF Arrays
    <2> QED  BY <2>1 DEF TInv, TypeOK
<1>2. Shape'
    BY DEF TInv, Shape
<1>3. Total(<<>>) = 0 /\ Len(<<>>) = 0  BY DEF Total
<1>4. Handed \in Nat /\ Len(stage') \in Nat  BY LenProperties DEF TInv, Queued
<1>5. Handed' = Handed
    <2>1. Handed' = accepted' - Len(stage') - 0 - 0  BY <1>3 DEF Handed
    <2> QED  BY <1>4, <2>1
<1>6. Left' = 0 /\ pc' # "send"  BY DEF Left
<1>7. Bytes(Handed, 0) = <<>>  BY DEF Bytes
<1>8. Queued'
    <2>1. accepted' - Len(stage') = Handed  BY <1>4
    <2> QED  BY <1>3, <1>4, <1>5, <1>7, <2>1 DEF Queued
<1>9. InClear' /\ InRecord'  BY <1>6 DEF InClear, InRecord
<1>10. ReadInClear'
    BY <1>5, <1>6 DEF TInv, ReadInClear
<1>11. ReadSealed'
    BY <1>5, <1>6 DEF TInv, ReadSealed
<1> QED  BY <1>1, <1>2, <1>8, <1>9, <1>10, <1>11 DEF TInv

(* What surrounds every StartNow: k bytes are handed over, the stage is     *)
(* empty, and the call that waits, if any, holds what follows them.         *)
Starting(k) ==
    /\ Left = 0
    /\ link' = link /\ mode' = mode /\ buffering' = buffering
    /\ broken' = broken /\ peer' = peer
    /\ link = "h2tls" => mode = "TLS"
    /\ pc' = "send" /\ stage' = <<>>
    /\ after' \in {"return", "write", "writev", "read", "loopend"}
    /\ after' = "write" => Len(args') = 1
    /\ after' = "writev" => Len(args') = 2 /\ mode = "PLAIN"
    /\ after' \notin {"write", "writev"} => args' = <<>>
    /\ after' # "return" => buffering
    /\ accepted' \in Nat /\ args' \in Arrays(Nat)
    /\ accepted' - Total(args') = Handed + k
    /\ Len(args') >= 1 => args'[1] = Bytes(accepted' - Total(args'), Len(args'[1]))
    /\ Len(args') = 2 => args'[2] = Bytes(accepted' - Len(args'[2]), Len(args'[2]))

LEMMA StartingCommon ==
    ASSUME TInv, NEW k \in Nat, Starting(k), sealSeq' \in Nat, iov' \in Arrays(CellType),
           NEW r \in 0..k, plain' = Bytes(Handed + (k - r), r), mode = "PLAIN" => r = 0
    PROVE  /\ TypeOK' /\ Shape' /\ Queued'
           /\ Handed' = Handed + (k - r) /\ Left' = Total(iov')
<1>1. Handed \in Nat /\ r \in Nat /\ Handed + (k - r) \in Nat  BY DEF TInv, Queued
<1>2. plain' \in Seq(Nat) /\ Len(plain') = r
    <2> DEFINE x == Handed + (k - r)
    <2>1. x \in Nat  BY <1>1
    <2>2. plain' = Bytes(x, r)  OBVIOUS
    <2> HIDE DEF x
    <2> QED  BY <1>1, <2>1, <2>2, BytesRun
<1>3. TypeOK'
    <2>1. <<>> \in Seq(Nat)  OBVIOUS
    <2> QED  BY <1>2, <2>1 DEF TInv, TypeOK, Starting
<1>4. mode = "PLAIN" => plain' = <<>>
    <2>1. Len(plain') = 0 => plain' = <<>>  BY <1>2
    <2> QED  BY <1>2, <2>1
<1>5. Shape'
    BY <1>4 DEF TInv, Shape, Starting
<1>6. Total(args') \in Nat  BY ArrayParts DEF Starting
<1>7. Len(stage') = 0 /\ stage' = Bytes(accepted', 0)
    BY DEF Starting, Bytes
<1>8. Handed' = Handed + (k - r)
    <2>1. Handed' = accepted' - Len(stage') - Total(args') - Len(plain')  BY DEF Handed
    <2>2. accepted' - Total(args') = Handed + k /\ accepted' \in Nat  BY DEF Starting
    <2> QED  BY <1>1, <1>2, <1>6, <1>7, <2>1, <2>2
<1>9. Queued'
    <2>1. \A n : Bytes(n, 0) = <<>>  BY DEF Bytes
    <2>2. stage' = Bytes(accepted' - Len(stage'), Len(stage'))
        BY <1>7, <2>1, Zenon DEF Starting
    <2>3. plain' = Bytes(Handed', Len(plain'))  BY <1>2, <1>8
    <2>4. Handed' \in Nat  BY <1>1, <1>8
    <2> QED  BY <2>2, <2>3, <2>4 DEF Queued, Starting
<1>10. Left' = Total(iov')  BY DEF Left, Starting
<1> QED  BY <1>3, <1>5, <1>8, <1>9, <1>10

(* A plaintext write takes over what it is handed.                          *)
LEMMA StartPlainInv ==
    ASSUME TInv, NEW k \in Nat, Starting(k), mode = "PLAIN",
           plain' = <<>>, sealSeq' = sealSeq,
           iov' \in Arrays(CellType), Total(iov') = k, Len(iov') >= 1,
           \A i \in 1..Len(iov'[1]) : iov'[1][i] = <<0, 0, Handed + i>>,
           Len(iov') = 2 =>
              \A i \in 1..Len(iov'[2]) : iov'[2][i] = <<0, 0, Handed + Len(iov'[1]) + i>>
    PROVE  TInv'
<1>1. Handed \in Nat /\ Left = 0  BY DEF TInv, Queued, Starting
<1>2. plain' = Bytes(Handed + (k - 0), 0)  BY DEF Bytes
<1>3. sealSeq' \in Nat /\ 0 \in 0..k  BY DEF TInv, TypeOK
<1>4. /\ TypeOK' /\ Shape' /\ Queued'
      /\ Handed' = Handed + (k - 0) /\ Left' = Total(iov')
    BY <1>2, <1>3, StartingCommon
<1>5. Handed' = Handed + k /\ Left' = k /\ Handed' - Left' = Handed /\ Left' <= Handed'
    BY <1>1, <1>4
<1>6. Len(iov') = 2 => \A i \in 1..Len(iov'[2]) : iov'[2][i] = <<0, 0, Handed' - Len(iov'[2]) + i>>
    <2> SUFFICES ASSUME Len(iov') = 2, NEW i \in 1..Len(iov'[2])
                 PROVE  iov'[2][i] = <<0, 0, Handed' - Len(iov'[2]) + i>>
        OBVIOUS
    <2>1. k = Len(iov'[1]) + Len(iov'[2]) /\ Len(iov'[1]) \in Nat /\ Len(iov'[2]) \in Nat
        <3>1. Len(iov') # 0 /\ Len(iov') # 1  OBVIOUS
        <3> QED  BY <3>1, ArrayParts, Zenon
    <2>2. Handed' - Len(iov'[2]) + i = Handed + Len(iov'[1]) + i  BY <1>1, <1>5, <2>1
    <2> QED  BY <2>2
<1>7. InClear'
    <2>1. \A i \in 1..Len(iov'[1]) : iov'[1][i] = <<0, 0, Handed' - Left' + i>>  BY <1>5
    <2> QED  BY <1>5, <1>6, <2>1 DEF InClear
<1>8. mode' = "PLAIN" /\ link # "h2tls" /\ link' = link  BY DEF Starting
<1>9. InRecord'  BY <1>8 DEF InRecord
<1>10. Handed - Left = Handed  BY <1>1
<1>11. ReadInClear'
    BY <1>5, <1>8, <1>10 DEF TInv, ReadInClear, Starting
<1>12. ReadSealed'  BY <1>8 DEF ReadSealed
<1> QED  BY <1>4, <1>7, <1>9, <1>11, <1>12 DEF TInv

(* A TLS write seals its first chunk: the peer waits for just this record,  *)
(* unless it has missed one already.                                        *)
LEMMA StartSealedInv ==
    ASSUME TInv, NEW k \in Nat, Starting(k), mode = "TLS", NEW c \in 1..k,
           iov' \in Arrays(CellType), Len(iov') = 1, Total(iov') = c + 1,
           \A i \in 1..(c + 1) : iov'[1][i] = SealedCell(sealSeq + 1, c, Handed, i),
           plain' = Bytes(Handed + c, k - c), sealSeq' = sealSeq + 1
    PROVE  TInv'
<1>1. Handed \in Nat /\ Left = 0 /\ sealSeq \in Nat
    BY DEF TInv, Queued, Starting, TypeOK
<1> DEFINE r == k - c
<1>2. r \in 0..k /\ k - r = c /\ c \in Nat  OBVIOUS
<1>3. /\ TypeOK' /\ Shape' /\ Queued'
      /\ Handed' = Handed + c /\ Left' = c + 1
    <2>1. plain' = Bytes(Handed + (k - r), r)  BY <1>2
    <2>2. sealSeq' \in Nat  BY <1>1
    <2> HIDE DEF r
    <2>3. /\ TypeOK' /\ Shape' /\ Queued'
          /\ Handed' = Handed + (k - r) /\ Left' = Total(iov')
        BY <1>2, <2>1, <2>2, StartingCommon
    <2> QED  BY <1>2, <2>3
<1>4. Size' = c
    <2>1. iov'[1][1] = <<sealSeq + 1, c, 0>>  BY <1>2 DEF SealedCell
    <2> QED  BY <2>1 DEF Size
<1>5. Gone' = 0
    <2>1. Gone' = Size' + 1 - Left'  BY DEF Gone
    <2> QED  BY <1>2, <1>3, <1>4, <2>1
<1>6. Handed' - Size' = Handed /\ Size' <= Handed' /\ Left' > 0  BY <1>1, <1>2, <1>3, <1>4
<1>7. mode' = "TLS" /\ link' = link /\ link = "h2tls" /\ peer' = peer /\ broken' = broken
    BY DEF Starting, TInv, Shape
<1>8. InClear' /\ ReadInClear'  BY <1>7 DEF InClear, ReadInClear
<1>9. InRecord'
    <2>1. \A i \in 1..Left' : iov'[1][i] = SealedCell(sealSeq', Size', Handed' - Size', Gone' + i)
        <3> SUFFICES ASSUME NEW i \in 1..Left'
                     PROVE  iov'[1][i] = SealedCell(sealSeq', Size', Handed' - Size', Gone' + i)
            OBVIOUS
        <3>1. Gone' + i = i /\ i \in 1..(c + 1)  BY <1>2, <1>3, <1>5
        <3> QED  BY <1>4, <1>6, <3>1
    <2>2. Gone' \in Nat /\ Len(iov') <= 1  BY <1>5
    <2> QED  BY <1>6, <2>1, <2>2 DEF InRecord
<1>10. ReadSealed'
    <2>1. /\ ~peer.clear /\ peer.read = Bytes(0, Len(peer.read)) /\ Len(peer.read) <= Handed
          /\ ~broken => peer.opened = sealSeq /\ peer.part = <<>> /\ Len(peer.read) = Handed
          /\ broken => peer.opened < sealSeq
        BY <1>1, <1>7 DEF TInv, ReadSealed
    <2>2. peer.opened \in Nat /\ Len(peer.read) \in Nat
        <3>1. peer \in PeerType  BY DEF TInv, TypeOK
        <3>2. peer.opened \in Nat /\ peer.read \in Seq(Nat)  BY <3>1 DEF PeerType
        <3> QED  BY <3>2, LenProperties
    <2>3. Len(peer.read) <= Handed'  BY <1>1, <1>2, <1>3, <2>1, <2>2
    <2>4. ~broken => /\ peer.opened + 1 = sealSeq'
                     /\ Len(peer.read) = Handed' - Size'
                     /\ Len(peer.part) = Gone'
                     /\ \A i \in 1..Gone' :
                           peer.part[i] = SealedCell(sealSeq', Size', Handed' - Size', i)
        <3> SUFFICES ASSUME ~broken
                     PROVE  /\ peer.opened + 1 = sealSeq'
                            /\ Len(peer.read) = Handed' - Size'
                            /\ Len(peer.part) = Gone'
                            /\ 1..Gone' = {}
            OBVIOUS
        <3>1. Len(peer.part) = 0  BY <2>1
        <3> QED  BY <1>5, <1>6, <2>1, <3>1
    <2>5. broken => peer.opened < sealSeq' /\ peer.opened + 1 < sealSeq'
        BY <1>1, <2>1, <2>2
    <2> QED  BY <1>6, <1>7, <2>1, <2>3, <2>4, <2>5 DEF ReadSealed
<1> QED  BY <1>3, <1>8, <1>9, <1>10 DEF TInv


LEMMA StartOneInv ==
    ASSUME TInv, NEW k \in Nat, Starting(k), NEW next, StartNow(<<Bytes(Handed, k)>>, next)
    PROVE  TInv'
<1>1. PICK x \in Nat : x = Handed  BY DEF TInv, Queued
<1>2. StartNow(<<Bytes(x, k)>>, next)  BY <1>1
<1>3. mode \in {"PLAIN", "TLS"} /\ sealSeq \in Nat  BY DEF TInv, TypeOK
<1>4. CASE mode = "PLAIN"
    <2>1. /\ iov' \in Arrays(CellType) /\ Len(iov') = 1 /\ Total(iov') = k
          /\ Len(iov'[1]) = k /\ \A i \in 1..k : iov'[1][i] = <<0, 0, x + i>>
        BY <1>2, <1>4, StartPlainOne
    <2>2. plain' = <<>> /\ sealSeq' = sealSeq  BY <1>2, <1>4 DEF StartNow
    <2>3. \A i \in 1..Len(iov'[1]) : iov'[1][i] = <<0, 0, Handed + i>>  BY <1>1, <2>1
    <2>4. Len(iov') >= 1 /\ Len(iov') # 2  BY <2>1
    <2> QED  BY <1>4, <2>1, <2>2, <2>3, <2>4, StartPlainInv
<1>5. CASE mode = "TLS" /\ k # 0
    <2>1. PICK c \in 1..k :
              /\ iov' \in Arrays(CellType) /\ Len(iov') = 1 /\ Total(iov') = c + 1
              /\ \A i \in 1..(c + 1) : iov'[1][i] = SealedCell(sealSeq + 1, c, x, i)
              /\ plain' = Bytes(x + c, k - c)
              /\ sealSeq' = sealSeq + 1
        <3>1. k \in Nat \ {0}  BY <1>5
        <3> QED  BY <1>2, <1>3, <1>5, <3>1, StartSealed
    <2>2. /\ \A i \in 1..(c + 1) : iov'[1][i] = SealedCell(sealSeq + 1, c, Handed, i)
          /\ plain' = Bytes(Handed + c, k - c)
        BY <1>1, <2>1
    <2> QED  BY <1>5, <2>1, <2>2, StartSealedInv
<1>6. CASE mode = "TLS" /\ k = 0
    <2>1. Joined(<<Bytes(x, k)>>) = <<>>
        BY <1>6 DEF Joined, Bytes
    <2>2. iov' = <<>> /\ plain' = <<>> /\ sealSeq' = sealSeq
        BY <1>2, <1>6, <2>1 DEF StartNow
    <2>3. iov' \in Arrays(CellType) /\ Total(iov') = 0 /\ sealSeq' \in Nat
        BY <1>3, <2>2 DEF Arrays, Total
    <2>4. plain' = Bytes(Handed + (k - 0), 0) /\ 0 \in 0..k  BY <2>2 DEF Bytes
    <2>5. /\ TypeOK' /\ Shape' /\ Queued'
          /\ Handed' = Handed + (k - 0) /\ Left' = Total(iov')
        BY <1>6, <2>3, <2>4, StartingCommon
    <2>6. Handed' = Handed /\ Left' = 0 /\ Left = 0
        BY <1>1, <1>6, <2>3, <2>5 DEF Starting
    <2>7. mode' = "TLS" /\ link' = link /\ link = "h2tls" /\ peer' = peer /\ broken' = broken
        BY <1>6 DEF Starting, TInv, Shape
    <2>8. InClear' /\ ReadInClear'  BY <2>7 DEF InClear, ReadInClear
    <2>9. InRecord'
        <3>1. Len(iov') <= 1  BY <2>2
        <3> QED  BY <2>6, <3>1 DEF InRecord
    <2>10. ReadSealed'
        <3>1. ReadSealed  BY DEF TInv
        <3> QED  BY <2>2, <2>6, <2>7, <3>1 DEF ReadSealed
    <2> QED  BY <2>5, <2>8, <2>9, <2>10 DEF TInv
<1> QED  BY <1>3, <1>4, <1>5, <1>6

LEMMA StartTwoInv ==
    ASSUME TInv, NEW k \in Nat, NEW l \in Nat, Starting(k + l), mode = "PLAIN", NEW next,
           StartNow(<<Bytes(Handed, k), Bytes(Handed + k, l)>>, next)
    PROVE  TInv'
<1>1. PICK x \in Nat : x = Handed  BY DEF TInv, Queued
<1>2. StartNow(<<Bytes(x, k), Bytes(x + k, l)>>, next)  BY <1>1
<1>3. /\ iov' \in Arrays(CellType) /\ Len(iov') = 2 /\ Total(iov') = k + l
      /\ Len(iov'[1]) = k /\ \A i \in 1..k : iov'[1][i] = <<0, 0, x + i>>
      /\ Len(iov'[2]) = l /\ \A i \in 1..l : iov'[2][i] = <<0, 0, x + k + i>>
    BY <1>2, StartPlainTwo
<1>4. plain' = <<>> /\ sealSeq' = sealSeq  BY <1>2 DEF StartNow
<1>5. /\ \A i \in 1..Len(iov'[1]) : iov'[1][i] = <<0, 0, Handed + i>>
      /\ \A i \in 1..Len(iov'[2]) : iov'[2][i] = <<0, 0, Handed + Len(iov'[1]) + i>>
    BY <1>1, <1>3
<1>6. Len(iov') >= 1 /\ k + l \in Nat  BY <1>3
<1> QED  BY <1>3, <1>4, <1>5, <1>6, StartPlainInv

(* With nothing left to send, and after a failure that drops what was left, *)
(* nothing waits any more.                                                  *)
LEMMA EmptiedInv ==
    ASSUME TInv, stage' = <<>>, plain' = <<>>, args' = <<>>, Left' = 0,
           accepted' = accepted, link' = link, peer' = peer, sealSeq' = sealSeq,
           \/ Left = 0 /\ Handed = accepted /\ broken' = broken
           \/ Left > 0 /\ broken' = TRUE
    PROVE  Queued' /\ ReadInClear' /\ ReadSealed'
<1>1. Total(<<>>) = 0 /\ Len(<<>>) = 0 /\ \A n : Bytes(n, 0) = <<>>  BY DEF Total, Bytes
<1>2. accepted \in Nat /\ Handed \in Nat /\ Left \in Nat /\ sealSeq \in Nat
    <2>1. Total(iov) \in Nat  BY ArrayParts DEF TInv, TypeOK
    <2> QED  BY <2>1 DEF TInv, TypeOK, Queued, Left
<1>3. Handed' = accepted
    <2>1. Handed' = accepted - 0 - 0 - 0  BY <1>1 DEF Handed
    <2> QED  BY <1>2, <2>1
<1>4. Handed <= accepted
    <2>1. /\ Len(stage) \in Nat /\ Len(plain) \in Nat /\ Total(args) \in Nat
        BY ArrayParts, LenProperties DEF TInv, TypeOK
    <2>2. Handed = accepted - Len(stage) - Total(args) - Len(plain)  BY DEF Handed
    <2> QED  BY <1>2, <2>1, <2>2
<1>5. Queued'
    <2>1. /\ Len(stage') = 0 /\ Len(plain') = 0 /\ Len(args') = 0  BY <1>1
    <2>2. /\ stage' = Bytes(accepted' - Len(stage'), Len(stage'))
          /\ plain' = Bytes(Handed', Len(plain'))
        BY <1>1, <2>1, Zenon
    <2> QED  BY <1>2, <1>3, <2>1, <2>2 DEF Queued
<1>6. ReadInClear'
    <2> SUFFICES ASSUME link # "h2tls"
                 PROVE  /\ \A i \in 1..Len(peer.read) : peer.read[i] \in 1..(Handed' - Left')
                        /\ \A i, j \in 1..Len(peer.read) : i < j => peer.read[i] < peer.read[j]
                        /\ ~broken' => peer.read = Bytes(0, Handed' - Left')
        BY DEF ReadInClear
    <2>1. /\ \A i \in 1..Len(peer.read) : peer.read[i] \in 1..(Handed - Left)
          /\ \A i, j \in 1..Len(peer.read) : i < j => peer.read[i] < peer.read[j]
          /\ ~broken => peer.read = Bytes(0, Handed - Left)
        BY DEF TInv, ReadInClear
    <2>2. Handed' - Left' = accepted /\ Handed - Left <= accepted /\ Handed - Left \in Int
        BY <1>2, <1>3, <1>4
    <2>3. \A n \in 1..(Handed - Left) : n \in 1..accepted  BY <1>2, <2>2
    <2>4. ~broken' => ~broken /\ Handed - Left = accepted  BY <1>2
    <2> QED  BY <2>1, <2>2, <2>3, <2>4
<1>7. ReadSealed'
    <2> SUFFICES ASSUME link = "h2tls"
                 PROVE  /\ ~peer.clear
                        /\ peer.read = Bytes(0, Len(peer.read)) /\ Len(peer.read) <= Handed'
                        /\ ~broken' => /\ peer.opened = sealSeq /\ peer.part = <<>>
                                       /\ Len(peer.read) = Handed'
                        /\ broken' => peer.opened < sealSeq
        BY DEF ReadSealed
    <2>1. ReadSealed  BY DEF TInv
    <2>2. peer.opened \in Nat /\ Len(peer.read) \in Nat
        <3>1. peer \in PeerType  BY DEF TInv, TypeOK
        <3>2. peer.opened \in Nat /\ peer.read \in Seq(Nat)  BY <3>1 DEF PeerType
        <3> QED  BY <3>2, LenProperties
    <2>3. ~peer.clear /\ peer.read = Bytes(0, Len(peer.read)) /\ Len(peer.read) <= Handed
        BY <2>1 DEF ReadSealed
    <2>4. Len(peer.read) <= Handed'  BY <1>2, <1>3, <1>4, <2>2, <2>3
    <2>5. ~broken' => /\ peer.opened = sealSeq /\ peer.part = <<>>
                      /\ Len(peer.read) = Handed'
        BY <1>3, <2>1 DEF ReadSealed
    <2>6. broken' => peer.opened < sealSeq
        <3>1. CASE broken  BY <2>1, <3>1 DEF ReadSealed
        <3>2. CASE ~broken /\ broken'
            <4>1. Left > 0  BY <3>2
            <4>2. peer.opened + 1 = sealSeq  BY <2>1, <3>2, <4>1 DEF ReadSealed
            <4> QED  BY <1>2, <2>2, <4>2
        <3> QED  BY <3>1, <3>2
    <2> QED  BY <2>3, <2>4, <2>5, <2>6
<1> QED  BY <1>5, <1>6, <1>7

(* The last write of a connection: nothing is staged, so nothing leaves.    *)
LEMMA ClosingInv ==
    ASSUME TInv, stage' = <<>>, plain' = <<>>, args' = <<>>, iov' = <<PlainCells(<<>>)>>,
           pc' = "send", after' = "close", mode' = "PLAIN", buffering' = FALSE,
           accepted' = accepted, link' = link, peer' = peer, sealSeq' = sealSeq,
           broken' \in BOOLEAN,
           \/ Left = 0 /\ Handed = accepted /\ broken' = broken
           \/ Left > 0 /\ broken' = TRUE
    PROVE  TInv'
<1>1. PlainCells(<<>>) = <<>>  BY DEF PlainCells
<1>2. iov' = <<<<>>>>  BY <1>1
<1>3. iov' \in Arrays(CellType) /\ Len(iov') = 1 /\ Len(iov'[1]) = 0 /\ Total(iov') = 0
    <2> DEFINE e == <<>>
    <2>1. e \in Seq(CellType) /\ Len(e) = 0  OBVIOUS
    <2>2. iov' = <<e>>  BY <1>2
    <2> HIDE DEF e
    <2>3. Len(iov') = 1 /\ iov'[1] = e /\ iov' # <<>>  BY <2>2
    <2>4. iov' \in Arrays(CellType)  BY <2>1, <2>2, ArrayOne
    <2>5. Total(iov') = 0  BY <2>1, <2>3 DEF Total
    <2> QED  BY <2>1, <2>3, <2>4, <2>5
<1>4. Left' = 0  BY <1>3 DEF Left
<1>5. Queued' /\ ReadInClear' /\ ReadSealed'  BY <1>4, EmptiedInv
<1>6. TypeOK'
    <2>1. <<>> \in Arrays(Nat) /\ <<>> \in Seq(Nat)  BY DEF Arrays
    <2>2. buffering' \in BOOLEAN  OBVIOUS
    <2> QED  BY <1>3, <2>1, <2>2 DEF TInv, TypeOK
<1>7. Shape'  BY <1>3 DEF TInv, Shape
<1>8. InClear'
    <2>1. Left' <= Handed'  BY <1>4, <1>5 DEF Queued
    <2> QED  BY <1>3, <2>1 DEF InClear
<1>9. InRecord'  BY DEF InRecord
<1> QED  BY <1>5, <1>6, <1>7, <1>8, <1>9 DEF TInv


-----------------------------------------------------------------------------
(* The calls.                                                               *)
LEMMA AtCaller ==
    ASSUME TInv, pc \in {"caller", "blocked"}
    PROVE  /\ Left = 0 /\ plain = <<>> /\ args = <<>>
           /\ Handed \in Nat /\ accepted \in Nat /\ Len(stage) \in Nat
           /\ accepted = Handed + Len(stage) /\ stage = Bytes(Handed, Len(stage))
           /\ link = "h2tls" => mode = "TLS"
           /\ ~buffering => stage = <<>> /\ Handed = accepted
<1>1. Left = 0 /\ plain = <<>> /\ args = <<>>  BY DEF TInv, Shape, Left
<1>2. Handed \in Nat /\ accepted \in Nat /\ Len(stage) \in Nat
    BY LenProperties DEF TInv, Queued, TypeOK
<1>3. Handed = accepted - Len(stage) - 0 - 0  BY <1>1 DEF Handed, Total
<1>4. accepted = Handed + Len(stage) /\ accepted - Len(stage) = Handed  BY <1>2, <1>3
<1>5. stage = Bytes(Handed, Len(stage))
    <2>1. stage = Bytes(accepted - Len(stage), Len(stage))  BY DEF TInv, Queued
    <2> QED  BY <1>4, <2>1
<1>6. link = "h2tls" => mode = "TLS"  BY DEF TInv, Shape, TypeOK
<1>7. ~buffering => stage = <<>> /\ Handed = accepted
    <2> SUFFICES ASSUME ~buffering PROVE stage = <<>> /\ Handed = accepted  OBVIOUS
    <2>1. stage = <<>>  BY DEF TInv, Shape
    <2>2. Len(stage) = 0  BY <2>1
    <2> QED  BY <1>2, <1>4, <2>1, <2>2
<1> QED  BY <1>1, <1>2, <1>4, <1>5, <1>6, <1>7

LEMMA NoArgs ==
    <<>> \in Arrays(Nat) /\ Len(<<>>) = 0 /\ Total(<<>>) = 0
BY DEF Arrays, Total

(* A flush by a call that waits with args' for it.                          *)
LEMMA FlushInv ==
    ASSUME TInv, pc = "caller", buffering, NEW next, Flush(next),
           next \in {"write", "writev", "read", "loopend"},
           link' = link, mode' = mode, buffering' = buffering, broken' = broken, peer' = peer,
           next = "write" => Len(args') = 1,
           next = "writev" => Len(args') = 2 /\ mode = "PLAIN",
           next \notin {"write", "writev"} => args' = <<>>,
           accepted' \in Nat, args' \in Arrays(Nat), accepted' - Total(args') = accepted,
           Len(args') >= 1 => args'[1] = Bytes(accepted, Len(args'[1])),
           Len(args') = 2 => args'[2] = Bytes(accepted' - Len(args'[2]), Len(args'[2]))
    PROVE  TInv'
<1>1. /\ Left = 0 /\ Handed \in Nat /\ accepted \in Nat /\ Len(stage) \in Nat
      /\ accepted = Handed + Len(stage) /\ stage = Bytes(Handed, Len(stage))
      /\ link = "h2tls" => mode = "TLS"
    BY AtCaller
<1>2. PICK k \in Nat : k = Len(stage)  BY <1>1
<1>3. stage' = <<>> /\ StartNow(<<stage>>, next)  BY DEF Flush
<1>4. pc' = "send" /\ after' = next  BY <1>3 DEF StartNow
<1>5. Starting(k)
    BY <1>1, <1>2, <1>3, <1>4 DEF Starting
<1>6. StartNow(<<Bytes(Handed, k)>>, next)
    BY <1>1, <1>2, <1>3
<1> QED  BY <1>5, <1>6, StartOneInv

LEMMA WriteOneInv ==
    ASSUME TInv, Running, NEW n \in Nat, WriteOne(Bytes(accepted, n)), accepted' = accepted + n,
           link' = link, mode' = mode, buffering' = buffering, broken' = broken, peer' = peer
    PROVE  TInv'
<1>1. /\ Left = 0 /\ plain = <<>> /\ args = <<>>
      /\ Handed \in Nat /\ accepted \in Nat /\ Len(stage) \in Nat
      /\ accepted = Handed + Len(stage) /\ stage = Bytes(Handed, Len(stage))
      /\ link = "h2tls" => mode = "TLS"
      /\ ~buffering => stage = <<>> /\ Handed = accepted
      /\ pc = "caller"
    BY AtCaller DEF Running
<1> DEFINE buf == Bytes(accepted, n)
<1>2. buf \in Seq(Nat) /\ Len(buf) = n  BY <1>1, BytesRun
<1>3. accepted' \in Nat  BY <1>1
<1>4. CASE ~buffering /\ args' = <<>> /\ StartNow(<<buf>>, "return") /\ stage' = stage
    <2>1. pc' = "send" /\ after' = "return"  BY <1>4 DEF StartNow
    <2>2. Starting(n)
        <3>1. accepted' - Total(args') = Handed + n
            BY <1>1, <1>4, NoArgs
        <3> QED  BY <1>1, <1>3, <1>4, <2>1, <3>1, NoArgs DEF Starting
    <2>3. StartNow(<<Bytes(Handed, n)>>, "return")  BY <1>1, <1>4
    <2> QED  BY <2>2, <2>3, StartOneInv
<1>5. CASE buffering /\ stage' = stage \o buf /\ UNCHANGED <<call, sealSeq>>
    <2>1. accepted = Handed + Len(stage)  BY <1>1
    <2>2. stage' = Bytes(Handed, Len(stage) + n)
        <3>1. buf = Bytes(Handed + Len(stage), n)  BY <2>1
        <3>2. stage' = Bytes(Handed, Len(stage)) \o Bytes(Handed + Len(stage), n)
            <4> HIDE DEF buf
            <4> QED  BY <1>1, <1>5, <3>1, Zenon
        <3>3. Bytes(Handed, Len(stage)) \o Bytes(Handed + Len(stage), n)
                 = Bytes(Handed, Len(stage) + n)
            BY <1>1, RunsJoin
        <3> QED  BY <3>2, <3>3
    <2>3. stage' \in Seq(Nat) /\ Len(stage') = Len(stage) + n
        <3>1. Len(stage) + n \in Nat  BY <1>1
        <3> QED  BY <1>1, <2>2, <3>1, BytesRun
    <2>4. stage' = Bytes(Handed, Len(stage')) /\ accepted' = Handed + Len(stage')
        BY <1>1, <2>2, <2>3
    <2>5. /\ pc' = pc /\ after' = after /\ args' = args /\ plain' = plain /\ iov' = iov
          /\ sealSeq' = sealSeq
        BY <1>5 DEF call
    <2>6. buffering' \in BOOLEAN /\ (link = "http1" => ~buffering') /\ buffering'
        BY <1>5 DEF TInv, TypeOK, Shape
    <2> QED  BY <1>1, <1>3, <2>3, <2>4, <2>5, <2>6, RestingInv
<1>6. CASE buffering /\ args' = <<buf>> /\ Flush("write")
    <2>1. args' \in Arrays(Nat) /\ Len(args') = 1 /\ args'[1] = buf /\ args' # <<>>
        <3> HIDE DEF buf
        <3> QED  BY <1>2, <1>6, ArrayOne
    <2>2. Total(args') = n
        <3> HIDE DEF buf
        <3> QED  BY <1>2, <2>1 DEF Total
    <2>3. accepted' - Total(args') = accepted  BY <1>1, <2>2
    <2>4. args'[1] = Bytes(accepted, Len(args'[1]))  BY <1>2, <2>1
    <2> QED  BY <1>1, <1>3, <1>6, <2>1, <2>3, <2>4, FlushInv
<1> QED  BY <1>4, <1>5, <1>6 DEF WriteOne

LEMMA WriteInv ==
    ASSUME TInv, NEW n \in 1..MaxPart, TransportWrite(n)
    PROVE  TInv'
<1>1. n \in Nat  BY TransportAssumption
<1> QED  BY <1>1, WriteOneInv DEF TransportWrite

LEMMA WritevInv ==
    ASSUME TInv, NEW h \in 1..MaxPart, NEW b \in 0..MaxPart, TransportWritev(h, b)
    PROVE  TInv'
<1>1. /\ Left = 0 /\ plain = <<>> /\ args = <<>>
      /\ Handed \in Nat /\ accepted \in Nat /\ Len(stage) \in Nat
      /\ accepted = Handed + Len(stage) /\ stage = Bytes(Handed, Len(stage))
      /\ link = "h2tls" => mode = "TLS"
      /\ ~buffering => stage = <<>> /\ Handed = accepted
      /\ pc = "caller"
    BY AtCaller DEF TransportWritev, Running
<1>2. h \in Nat /\ b \in Nat /\ h + b \in Nat /\ accepted + h \in Nat
    BY <1>1, TransportAssumption
<1> DEFINE hdr == Bytes(accepted, h)
           body == Bytes(accepted + h, b)
<1>3. hdr \in Seq(Nat) /\ Len(hdr) = h /\ body \in Seq(Nat) /\ Len(body) = b
    BY <1>1, <1>2, BytesRun
<1>4. hdr \o body = Bytes(accepted, h + b) /\ Len(hdr \o body) = h + b
    <2>1. accepted \in Nat  BY <1>1
    <2>2. hdr \o body = Bytes(accepted, h + b)  BY <1>2, <2>1, RunsJoin
    <2>3. Len(Bytes(accepted, h + b)) = h + b  BY <1>2, <2>1, BytesRun
    <2> HIDE DEF hdr, body
    <2> QED  BY <2>2, <2>3
<1>5. /\ Running /\ accepted' = accepted + h + b /\ accepted' = accepted + (h + b)
      /\ accepted' \in Nat
      /\ link' = link /\ mode' = mode /\ buffering' = buffering /\ broken' = broken
      /\ peer' = peer
    BY <1>1, <1>2 DEF TransportWritev
<1>6. CASE mode = "TLS" /\ WriteOne(hdr \o body)
    BY <1>2, <1>4, <1>5, <1>6, WriteOneInv
<1>7. CASE mode = "PLAIN" /\ ~buffering /\ args' = <<>> /\ StartNow(<<hdr, body>>, "return")
           /\ stage' = stage
    <2>1. pc' = "send" /\ after' = "return"  BY <1>7 DEF StartNow
    <2>2. Starting(h + b)
        <3>1. accepted' - Total(args') = Handed + (h + b)
            BY <1>1, <1>2, <1>5, <1>7, NoArgs
        <3> QED  BY <1>1, <1>5, <1>7, <2>1, <3>1, NoArgs DEF Starting
    <2>3. StartNow(<<Bytes(Handed, h), Bytes(Handed + h, b)>>, "return")  BY <1>1, <1>7
    <2> QED  BY <1>2, <1>7, <2>2, <2>3, StartTwoInv
<1>8. CASE mode = "PLAIN" /\ buffering /\ Len(stage) + h + b <= StageSize
           /\ stage' = stage \o hdr \o body /\ UNCHANGED <<call, sealSeq>>
    <2>1. stage' = stage \o (hdr \o body)
        <3>1. stage \in Seq(Nat)  BY DEF TInv, TypeOK
        <3>2. (stage \o hdr) \o body = stage \o (hdr \o body)
            <4> HIDE DEF hdr, body
            <4> QED  BY <1>3, <3>1, ConcatAssociative
        <3> QED  BY <1>8, <3>2
    <2>2. WriteOne(hdr \o body)
        \* the same step as one buffer that fits
        <3>1. Len(stage) + Len(hdr \o body) <= StageSize
            <4>1. Len(hdr \o body) = h + b /\ Len(stage) \in Nat  BY <1>1, <1>4
            <4>2. StageSize \in Nat  BY TransportAssumption
            <4> HIDE DEF hdr, body
            <4> QED  BY <1>2, <1>8, <4>1, <4>2
        <3> QED  BY <1>8, <2>1, <3>1 DEF WriteOne
    <2> QED  BY <1>2, <1>4, <1>5, <2>2, WriteOneInv
<1>9. CASE mode = "PLAIN" /\ buffering /\ args' = <<hdr, body>> /\ Flush("writev")
    <2>1. /\ args' \in Arrays(Nat) /\ Len(args') = 2 /\ args'[1] = hdr /\ args'[2] = body
          /\ args' # <<>>
        <3> HIDE DEF hdr, body
        <3> QED  BY <1>3, <1>9, ArrayTwo
    <2>2. Total(args') = h + b
        <3> HIDE DEF hdr, body
        <3>1. Len(args') # 1  BY <2>1
        <3>2. Total(args') = Len(args'[1]) + Len(args'[2])  BY <2>1, <3>1, Zenon DEF Total
        <3> QED  BY <1>3, <2>1, <3>2
    <2>3. accepted' - Total(args') = accepted  BY <1>1, <1>2, <1>5, <2>2
    <2>4. args'[1] = Bytes(accepted, Len(args'[1]))  BY <1>3, <2>1
    <2>5. args'[2] = Bytes(accepted' - Len(args'[2]), Len(args'[2]))
        <3>1. accepted' - b = accepted + h  BY <1>1, <1>2, <1>5
        <3> QED  BY <1>3, <2>1, <3>1
    <2> QED  BY <1>1, <1>5, <1>9, <2>1, <2>3, <2>4, <2>5, FlushInv
<1> QED  BY <1>6, <1>7, <1>8, <1>9 DEF TransportWritev


(* A step that changes nothing but where the caller is.                     *)
LEMMA TurnInv ==
    ASSUME TInv, pc \in {"caller", "blocked"}, pc' \in {"caller", "blocked"},
           UNCHANGED <<link, mode, stage, after, args, plain, iov, sealSeq, peer, accepted, broken>>,
           \/ buffering' = buffering
           \/ link # "http1" /\ buffering' = TRUE
    PROVE  TInv'
<1>1. /\ Left = 0 /\ plain = <<>> /\ args = <<>>
      /\ accepted = Handed + Len(stage) /\ stage = Bytes(Handed, Len(stage))
      /\ link = "h2tls" => mode = "TLS"
    BY AtCaller
<1>2. /\ buffering' \in BOOLEAN /\ (link = "http1" => ~buffering')
      /\ (~buffering' => stage' = <<>>)
    <2>1. /\ buffering \in BOOLEAN /\ (link = "http1" => ~buffering)
          /\ (~buffering => stage = <<>>)
        BY DEF TInv, TypeOK, Shape
    <2>2. stage' = stage /\ link' = link  OBVIOUS
    <2>3. CASE buffering' = buffering
        <3> HIDE DEF TInv
        <3> QED  BY <2>1, <2>2, <2>3
    <2>4. CASE link # "http1" /\ buffering' = TRUE  BY <2>4
    <2> QED  BY <2>3, <2>4
<1>3. accepted' \in Nat /\ stage' \in Seq(Nat)  BY DEF TInv, TypeOK
<1> QED  BY <1>1, <1>2, <1>3, RestingInv

LEMMA LoopStartInv == ASSUME TInv, LoopStart PROVE TInv'
<1>1. stage = <<>>  BY AtCaller DEF LoopStart
<1> QED  BY <1>1, TurnInv DEF LoopStart, call

LEMMA ReadInv == ASSUME TInv, DirectRead \/ ReadReturns PROVE TInv'
BY TurnInv DEF DirectRead, ReadReturns

LEMMA FlushAloneInv == ASSUME TInv, TransportRead \/ LoopEnd PROVE TInv'
<1>1. PICK next \in {"read", "loopend"} : Flush(next)
    BY DEF TransportRead, LoopEnd
<1>2. /\ pc = "caller" /\ buffering /\ args' = <<>> /\ accepted' = accepted
      /\ link' = link /\ mode' = mode /\ buffering' = buffering /\ broken' = broken
      /\ peer' = peer
    BY DEF TransportRead, LoopEnd
<1>3. accepted' \in Nat /\ accepted \in Nat  BY <1>2 DEF TInv, TypeOK
<1>4. accepted' - Total(args') = accepted
    <2>1. Total(args') = 0  BY <1>2, NoArgs
    <2> QED  BY <1>2, <1>3, <2>1
<1>5. args' \in Arrays(Nat) /\ Len(args') = 0  BY <1>2, NoArgs
<1> QED  BY <1>1, <1>2, <1>3, <1>4, <1>5, FlushInv

LEMMA EndInv == ASSUME TInv, End PROVE TInv'
<1>1. Left = 0 /\ plain = <<>> /\ args = <<>> /\ stage = <<>> /\ Handed = accepted
    BY AtCaller DEF End
<1>2. buffering = FALSE /\ broken \in BOOLEAN  BY DEF End, TInv, TypeOK
<1> QED  BY <1>1, <1>2, ClosingInv DEF End

-----------------------------------------------------------------------------
(* What follows a write.                                                    *)
LEMMA AtDone ==
    ASSUME TInv, pc = "send"
    PROVE  /\ SkipEmpty(iov) = <<>> <=> Left = 0
           /\ Left \in Nat /\ stage = <<>>
           /\ Handed \in Nat /\ accepted \in Nat /\ Len(plain) \in Nat /\ Total(args) \in Nat
           /\ accepted = Handed + Len(plain) + Total(args)
<1>1. iov \in Arrays(CellType) /\ args \in Arrays(Nat) /\ plain \in Seq(Nat)  BY DEF TInv, TypeOK
<1>2. Left = Total(iov)  BY DEF Left
<1>3. SkipEmpty(iov) = <<>> <=> Left = 0  BY <1>1, <1>2, Skipped
<1>4. Left \in Nat /\ Total(args) \in Nat  BY <1>1, <1>2, ArrayParts
<1>5. Len(plain) \in Nat  BY <1>1, LenProperties
<1>6. stage = <<>>  BY DEF TInv, Shape
<1>7. Handed = accepted - 0 - Total(args) - Len(plain)  BY <1>6 DEF Handed
<1>8. Handed \in Nat /\ accepted \in Nat  BY DEF TInv, TypeOK, Queued
<1>9. accepted = Handed + Len(plain) + Total(args)  BY <1>4, <1>5, <1>7, <1>8
<1> QED  BY <1>3, <1>4, <1>5, <1>6, <1>8, <1>9

LEMMA SealNextInv == ASSUME TInv, SealNext PROVE TInv'
<1>1. /\ Left = 0 /\ stage = <<>> /\ Handed \in Nat /\ Len(plain) \in Nat
      /\ Total(args) \in Nat /\ accepted = Handed + Len(plain) + Total(args) /\ accepted \in Nat
    BY AtDone DEF SealNext
<1>2. PICK k \in Nat : k = Len(plain)  BY <1>1
<1>3. plain = Bytes(Handed, k)  BY <1>2 DEF TInv, Queued
<1>4. StartNow(<<Bytes(Handed, k)>>, after)  BY <1>3 DEF SealNext
<1>5. pc' = "send" /\ after' = after  BY DEF SealNext, StartNow
<1>6. mode = "TLS" /\ after # "close"  BY DEF SealNext, TInv, Shape, TypeOK
<1>7. /\ link' = link /\ mode' = mode /\ buffering' = buffering /\ broken' = broken
      /\ peer' = peer /\ args' = args /\ accepted' = accepted /\ stage' = <<>>
    BY <1>1 DEF SealNext
<1>8. accepted' - Total(args') = Handed + k  BY <1>1, <1>2, <1>7
<1>9. /\ after = "write" => Len(args) = 1
      /\ after = "writev" => Len(args) = 2 /\ mode = "PLAIN"
      /\ after \notin {"write", "writev"} => args = <<>>
      /\ after # "return" => buffering
      /\ after \in {"return", "write", "writev", "read", "loopend"}
    BY <1>6 DEF SealNext, TInv, Shape, TypeOK
<1>10. args \in Arrays(Nat)  BY DEF TInv, TypeOK
<1>11. /\ Len(args) >= 1 => args[1] = Bytes(accepted - Total(args), Len(args[1]))
       /\ Len(args) = 2 => args[2] = Bytes(accepted - Len(args[2]), Len(args[2]))
    BY DEF TInv, Queued
<1>12. Starting(k)
    BY <1>1, <1>5, <1>6, <1>7, <1>8, <1>9, <1>10, <1>11 DEF Starting
<1> QED  BY <1>4, <1>12, StartOneInv

LEMMA SendDoneInv == ASSUME TInv, SendDone PROVE TInv'
<1>1. /\ Left = 0 /\ stage = <<>> /\ Handed \in Nat /\ accepted \in Nat
      /\ Total(args) \in Nat /\ accepted = Handed + Total(args) /\ plain = <<>>
    <2>1. plain = <<>>  BY DEF SendDone
    <2>2. Len(plain) = 0  BY <2>1
    <2>3. /\ Left = 0 /\ stage = <<>> /\ Handed \in Nat /\ accepted \in Nat
          /\ Total(args) \in Nat /\ accepted = Handed + Len(plain) + Total(args)
        BY AtDone DEF SendDone
    <2>4. accepted = Handed + Total(args)  BY <2>2, <2>3
    <2> QED  BY <2>1, <2>3, <2>4
<1>2. /\ link' = link /\ peer' = peer /\ accepted' = accepted /\ broken' = broken /\ args' = <<>>
      /\ pc = "send" /\ accepted' \in Nat /\ broken' \in BOOLEAN
    BY <1>1 DEF SendDone, TInv, TypeOK
<1>3. args = <<>> => Handed = accepted  BY <1>1, NoArgs
<1>4. /\ after \notin {"write", "writev"} => args = <<>>
      /\ after = "close" \/ (link = "h2tls" => mode = "TLS")
      /\ after \in {"write", "writev"} => buffering
      /\ buffering \in BOOLEAN /\ (link = "http1" => ~buffering)
    BY <1>2 DEF TInv, Shape, TypeOK
<1>5. CASE /\ after \in {"return", "read", "close"}
          /\ pc' \in {"caller", "blocked", "closed"} /\ (after = "close" => pc' = "closed")
          /\ UNCHANGED <<after, plain, iov, sealSeq, stage, mode, buffering>>
    <2>1. Handed = accepted  BY <1>3, <1>4, <1>5
    <2>2. stage' = <<>> /\ Len(stage') = 0 /\ stage' \in Seq(Nat)  BY <1>1, <1>5
    <2>3. stage' = Bytes(Handed, Len(stage')) /\ accepted' = Handed + Len(stage')
        <3>1. Bytes(Handed, 0) = <<>>  BY DEF Bytes
        <3>2. accepted' = Handed + 0  BY <1>1, <1>2, <2>1
        <3> QED  BY <2>2, <3>1, <3>2
    <2>4. link = "h2tls" /\ mode = "PLAIN" => pc' = "closed"  BY <1>4, <1>5
    <2> QED  BY <1>1, <1>2, <1>4, <1>5, <2>2, <2>3, <2>4, RestingInv
<1>6. CASE after = "write" /\ Reconsider(args[1]) /\ UNCHANGED <<mode, buffering>>
    <2>1. Len(args) = 1  BY <1>2, <1>6 DEF TInv, Shape
    <2>2. Total(args) = Len(args[1]) /\ args[1] \in Seq(Nat) /\ Len(args[1]) \in Nat
        <3>1. args \in Arrays(Nat)  BY DEF TInv, TypeOK
        <3>2. Len(args) # 0 /\ Len(args) # 2  BY <2>1
        <3> QED  BY <3>1, <3>2, ArrayParts, Zenon
    <2>3. PICK k \in Nat : k = Len(args[1])  BY <2>2
    <2>4. accepted - Total(args) = Handed /\ accepted = Handed + k  BY <1>1, <2>2, <2>3
    <2>5. args[1] = Bytes(Handed, k)
        <3>1. Len(args) >= 1  BY <2>1
        <3>2. args[1] = Bytes(accepted - Total(args), Len(args[1]))
            BY <3>1 DEF TInv, Queued
        <3> QED  BY <2>3, <2>4, <3>2
    <2>6. CASE StartNow(<<args[1]>>, "return") /\ stage' = stage
        <3>1. pc' = "send" /\ after' = "return"  BY <2>6 DEF StartNow
        <3>2. accepted' - Total(args') = Handed + k
            <4>1. Total(args') = 0  BY <1>2, NoArgs
            <4> QED  BY <1>1, <1>2, <2>4, <4>1
        <3>3. args' \in Arrays(Nat) /\ Len(args') = 0  BY <1>2, NoArgs
        <3>4. Starting(k)
            BY <1>1, <1>2, <1>4, <1>6, <2>6, <3>1, <3>2, <3>3 DEF Starting
        <3>5. StartNow(<<Bytes(Handed, k)>>, "return")  BY <2>5, <2>6
        <3> QED  BY <3>4, <3>5, StartOneInv
    <2>7. CASE stage' = args[1] /\ pc' = "caller" /\ UNCHANGED <<after, plain, iov, sealSeq>>
        <3>1. stage' \in Seq(Nat) /\ Len(stage') = k  BY <2>2, <2>3, <2>7
        <3>2. stage' = Bytes(Handed, Len(stage')) /\ accepted' = Handed + Len(stage')
            BY <1>2, <2>4, <2>5, <2>7, <3>1
        <3> QED  BY <1>1, <1>2, <1>4, <1>6, <2>7, <3>1, <3>2, RestingInv
    <2> QED  BY <1>6, <2>6, <2>7 DEF Reconsider
<1>7. CASE after = "writev" /\ StartNow(args, "return") /\ UNCHANGED <<stage, mode, buffering>>
    <2>1. Len(args) = 2 /\ mode = "PLAIN"  BY <1>2, <1>7 DEF TInv, Shape
    <2>2. /\ Total(args) = Len(args[1]) + Len(args[2]) /\ args = <<args[1], args[2]>>
          /\ Len(args[1]) \in Nat /\ Len(args[2]) \in Nat
        <3>1. args \in Arrays(Nat)  BY DEF TInv, TypeOK
        <3>2. Len(args) # 0 /\ Len(args) # 1  BY <2>1
        <3> QED  BY <3>1, <3>2, ArrayParts, Zenon
    <2>3. PICK k \in Nat, l \in Nat : k = Len(args[1]) /\ l = Len(args[2])  BY <2>2
    <2>4. /\ accepted - Total(args) = Handed /\ accepted = Handed + (k + l)
          /\ accepted - l = Handed + k
        BY <1>1, <2>2, <2>3
    <2>5. args[1] = Bytes(Handed, k) /\ args[2] = Bytes(Handed + k, l)
        <3>1. Len(args) >= 1  BY <2>1
        <3>2. /\ args[1] = Bytes(accepted - Total(args), Len(args[1]))
              /\ args[2] = Bytes(accepted - Len(args[2]), Len(args[2]))
            BY <2>1, <3>1 DEF TInv, Queued
        <3> QED  BY <2>3, <2>4, <3>2
    <2>6. pc' = "send" /\ after' = "return"  BY <1>7 DEF StartNow
    <2>7. accepted' - Total(args') = Handed + (k + l)
        <3>1. Total(args') = 0  BY <1>2, NoArgs
        <3> QED  BY <1>1, <1>2, <2>4, <3>1
    <2>8. args' \in Arrays(Nat) /\ Len(args') = 0  BY <1>2, NoArgs
    <2>9. Starting(k + l)
        BY <1>1, <1>2, <1>4, <1>7, <2>6, <2>7, <2>8 DEF Starting
    <2>10. StartNow(<<Bytes(Handed, k), Bytes(Handed + k, l)>>, "return")
        BY <1>7, <2>2, <2>5
    <2> QED  BY <2>1, <2>9, <2>10, StartTwoInv
<1>8. CASE after = "loopend" /\ LeaveLoop(stage) /\ UNCHANGED <<plain, sealSeq>>
    <2>1. Handed = accepted  BY <1>3, <1>4, <1>8
    <2>2. /\ stage' = <<>> /\ iov' = <<PlainCells(<<>>)>> /\ pc' = "send" /\ after' = "close"
          /\ mode' = "PLAIN" /\ buffering' = FALSE
        BY <1>1, <1>8 DEF LeaveLoop
    <2> QED  BY <1>1, <1>2, <1>8, <2>1, <2>2, ClosingInv
<1> QED
    BY <1>2, <1>5, <1>6, <1>7, <1>8 DEF SendDone, ReturnToCaller

LEMMA SendFailsInv == ASSUME TInv, SendFails PROVE TInv'
<1>1. Left > 0 /\ stage = <<>> /\ pc = "send"
    <2>1. /\ SkipEmpty(iov) = <<>> <=> Left = 0
          /\ Left \in Nat /\ stage = <<>>
        BY AtDone DEF SendFails
    <2>2. Left # 0  BY <2>1 DEF SendFails
    <2> QED  BY <2>1, <2>2 DEF SendFails
<1>2. /\ broken' = TRUE /\ args' = <<>> /\ plain' = <<>> /\ sealSeq' = sealSeq
      /\ link' = link /\ peer' = peer /\ accepted' = accepted
    BY DEF SendFails, SeqAfterFailure
<1>3. CASE after = "loopend" /\ LeaveLoop(StageAfterFailure)
    <2>1. /\ stage' = <<>> /\ iov' = <<PlainCells(<<>>)>> /\ pc' = "send" /\ after' = "close"
          /\ mode' = "PLAIN" /\ buffering' = FALSE
        BY <1>1, <1>3 DEF LeaveLoop, StageAfterFailure
    <2>2. broken' \in BOOLEAN  BY <1>2
    <2> QED  BY <1>1, <1>2, <2>1, <2>2, ClosingInv
<1>4. CASE /\ pc' \in {"caller", "closed"} /\ stage' = stage /\ iov' = <<>>
          /\ UNCHANGED <<after, mode, buffering>>
    <2>1. Left' = 0 /\ pc' # "send"  BY <1>4 DEF Left
    <2>2. Queued' /\ ReadInClear' /\ ReadSealed'
        BY <1>1, <1>2, <1>4, <2>1, EmptiedInv
    <2>3. TypeOK'
        <3>1. <<>> \in Arrays(CellType) /\ <<>> \in Seq(Nat)  BY DEF Arrays
        <3>2. broken' \in BOOLEAN  BY <1>2
        <3> QED  BY <1>1, <1>2, <1>4, <3>1, <3>2, NoArgs DEF TInv, TypeOK
    <2>4. link = "h2tls" => mode = "TLS"
        <3>1. Total(iov) # 0
            <4>1. Left = Total(iov)  BY <1>1 DEF Left
            <4> QED  BY <1>1, <4>1
        <3> QED  BY <1>1, <3>1 DEF TInv, Shape, TypeOK
    <2>5. Shape'
        BY <1>1, <1>2, <1>4, <2>1, <2>4 DEF TInv, Shape
    <2>6. InClear' /\ InRecord'  BY <2>1 DEF InClear, InRecord
    <2> QED  BY <2>2, <2>3, <2>5, <2>6 DEF TInv
<1> QED
    BY <1>1, <1>3, <1>4 DEF SendFails, StageAfterFailure


-----------------------------------------------------------------------------
(* What the kernel takes is the front of the array; the rest stays.         *)
LEMMA TakenOne ==
    ASSUME NEW S, NEW a \in Seq(S), NEW n \in 1..Len(a)
    PROVE  LET w == Consume(<<a>>, n)
           IN  /\ Joined(<<a>>) = a
               /\ w \in Arrays(S) /\ Total(w) = Len(a) - n /\ Len(w) <= 1
               /\ Len(w) = 1 => /\ Len(w[1]) = Len(a) - n
                                /\ \A i \in 1..Len(w[1]) : w[1][i] = a[n + i]
<1> DEFINE v == <<a>>
           r == SubSeq(a, n + 1, Len(a))
           w == Consume(v, n)
<1>1. Len(a) \in Nat  BY LenProperties
<1>2. v # <<>> /\ Len(v) = 1 /\ v[1] = a /\ Tail(v) = <<>>  OBVIOUS
<1>3. Joined(v) = a  BY <1>2 DEF Joined
<1>4. CASE n < Len(a)
    <2>1. r \in Seq(S) /\ Len(r) = Len(a) - n /\ \A i \in 1..(Len(a) - n) : r[i] = a[n + i]
        BY <1>1, <1>4
    <2>2. w = <<r>> \o <<>>  BY <1>2, <1>4 DEF Consume
    <2> HIDE DEF r
    <2>3. <<r>> \o <<>> = <<r>>  OBVIOUS
    <2> HIDE DEF v, w
    <2>4. w = <<r>> /\ Len(w) = 1 /\ w[1] = r /\ w # <<>>  BY <2>2, <2>3
    <2>5. Total(w) = Len(a) - n  BY <2>1, <2>4 DEF Total
    <2>6. w \in Arrays(S)  BY <2>1, <2>4, ArrayOne
    <2>7. Len(w) <= 1 /\ \A i \in 1..Len(w[1]) : w[1][i] = a[n + i]  BY <2>1, <2>4
    <2> QED  BY <1>3, <2>1, <2>4, <2>5, <2>6, <2>7 DEF v, w
<1>5. CASE ~ (n < Len(a))
    <2>1. w = <<>>  BY <1>2, <1>5 DEF Consume
    <2>2. Len(a) - n = 0  BY <1>1, <1>5
    <2> HIDE DEF v, w
    <2>3. w \in Arrays(S) /\ Total(w) = 0 /\ Len(w) <= 1 /\ Len(w) # 1
        BY <2>1 DEF Arrays, Total
    <2> QED  BY <1>3, <2>2, <2>3 DEF v, w
<1> QED  BY <1>4, <1>5

LEMMA PairJoins == ASSUME NEW S, NEW a \in S, NEW b \in S PROVE <<a>> \o <<b>> = <<a, b>>
<1> DEFINE x == <<a>>
           y == <<b>>
           c == x \o y
           d == <<a, b>>
<1>1. x \in Seq(S) /\ y \in Seq(S) /\ Len(x) = 1 /\ Len(y) = 1 /\ x[1] = a /\ y[1] = b  OBVIOUS
<1>2. d \in Seq(S) /\ Len(d) = 2 /\ d[1] = a /\ d[2] = b  OBVIOUS
<1> HIDE DEF x, y, d
<1>3. /\ c \in Seq(S) /\ Len(c) = 1 + 1
      /\ \A i \in 1..(1 + 1) : c[i] = IF i <= 1 THEN x[i] ELSE y[i - 1]
    BY <1>1, ConcatProperties
<1> HIDE DEF c
<1>4. c[1] = a /\ c[2] = b  BY <1>1, <1>3
<1>5. \A i \in 1..Len(c) : c[i] = d[i]  BY <1>2, <1>3, <1>4
<1>6. c = d  BY <1>2, <1>3, <1>5, SeqEqual
<1> QED  BY <1>6 DEF c, d, x, y

(* What is left of two buffers, joined j, when n cells are gone.            *)
Remaining(S, a, b, n, j, w) ==
    /\ w \in Arrays(S) /\ Total(w) = Len(a) + Len(b) - n
    /\ \A i \in 1..Len(w[1]) : w[1][i] = j[n + i]
    /\ Len(w) = 2 => \A i \in 1..Len(w[2]) : w[2][i] = j[n + Len(w[1]) + i]

LEMMA TakenTwo ==
    ASSUME NEW S, NEW a \in Seq(S), NEW b \in Seq(S), NEW n \in 1..(Len(a) + Len(b))
    PROVE  /\ Joined(<<a, b>>) = a \o b
           /\ Remaining(S, a, b, n, a \o b, Consume(<<a, b>>, n))
<1> DEFINE v == <<a, b>>
           j == a \o b
           w == Consume(v, n)
<1>1. Len(a) \in Nat /\ Len(b) \in Nat  BY LenProperties
<1>2. v # <<>> /\ Len(v) = 2 /\ v[1] = a /\ v[2] = b /\ Tail(v) = <<b>>  OBVIOUS
<1>3. Joined(v) = j
    <2>1. Len(v) # 1  BY <1>2
    <2> HIDE DEF v, w
    <2> QED  BY <1>2, <2>1, Zenon DEF Joined
<1>4. /\ j \in Seq(S) /\ Len(j) = Len(a) + Len(b)
      /\ \A i \in 1..(Len(a) + Len(b)) : j[i] = IF i <= Len(a) THEN a[i] ELSE b[i - Len(a)]
    BY ConcatProperties
<1> HIDE DEF j
<1>5. CASE n < Len(a)
    <2> DEFINE r == SubSeq(a, n + 1, Len(a))
    <2>1. r \in Seq(S) /\ Len(r) = Len(a) - n /\ \A i \in 1..(Len(a) - n) : r[i] = a[n + i]
        BY <1>1, <1>5
    <2>2. w = <<r>> \o <<b>>  BY <1>2, <1>5 DEF Consume
    <2> HIDE DEF r
    <2>3. <<r>> \o <<b>> = <<r, b>>
        BY <2>1, PairJoins
    <2> HIDE DEF v, w
    <2>4. w = <<r, b>> /\ Len(w) = 2 /\ w[1] = r /\ w[2] = b /\ w # <<>>  BY <2>2, <2>3
    <2>5. Total(w) = Len(a) + Len(b) - n
        <3>1. Len(w) # 1  BY <2>4
        <3>2. Total(w) = Len(w[1]) + Len(w[2])  BY <2>4, <3>1, Zenon DEF Total
        <3>3. Total(w) = Len(r) + Len(b)  BY <2>4, <3>2
        <3> QED  BY <1>1, <2>1, <3>3
    <2>6. w \in Arrays(S)  BY <2>1, <2>4, ArrayTwo
    <2>7. \A i \in 1..Len(r) : r[i] = j[n + i]
        <3> TAKE i \in 1..Len(r)
        <3>1. i \in 1..(Len(a) - n) /\ n + i \in 1..(Len(a) + Len(b)) /\ n + i <= Len(a)
            BY <1>1, <2>1
        <3> QED  BY <1>4, <2>1, <3>1
    <2>8. \A i \in 1..Len(b) : b[i] = j[n + Len(r) + i]
        <3> TAKE i \in 1..Len(b)
        <3>1. /\ n + Len(r) + i = Len(a) + i /\ Len(a) + i \in 1..(Len(a) + Len(b))
              /\ ~ (Len(a) + i <= Len(a)) /\ Len(a) + i - Len(a) = i
            BY <1>1, <2>1
        <3> QED  BY <1>4, <3>1
    <2>9. Len(w) \in 1..2  BY <2>4
    <2> QED  BY <1>3, <2>4, <2>5, <2>6, <2>7, <2>8, <2>9 DEF v, w, j, Remaining
<1>6. CASE ~ (n < Len(a))
    <2> DEFINE m == n - Len(a)
               r == SubSeq(b, m + 1, Len(b))
    <2>0. m \in 0..Len(b)  BY <1>1, <1>6
    <2>1. r \in Seq(S) /\ Len(r) = Len(b) - m /\ \A i \in 1..(Len(b) - m) : r[i] = b[m + i]
        <3> HIDE DEF m
        <3> QED  BY <1>1, <2>0
    <2>2. w = <<r>>
        <3>1. Len(v) # 1  BY <1>2
        <3> QED  BY <1>2, <1>6, <3>1 DEF Consume
    <2> HIDE DEF r, v, w
    <2>4. w = <<r>> /\ Len(w) = 1 /\ w[1] = r /\ w # <<>>  BY <2>2
    <2>5. Total(w) = Len(a) + Len(b) - n
        <3>1. Total(w) = Len(r)  BY <2>4 DEF Total
        <3> QED  BY <1>1, <2>0, <2>1, <3>1
    <2>6. w \in Arrays(S)  BY <2>1, <2>4, ArrayOne
    <2>7. \A i \in 1..Len(r) : r[i] = j[n + i]
        <3> TAKE i \in 1..Len(r)
        <3>1. /\ i \in 1..(Len(b) - m) /\ n + i \in 1..(Len(a) + Len(b)) /\ ~ (n + i <= Len(a))
              /\ n + i - Len(a) = m + i
            BY <1>1, <1>6, <2>0, <2>1
        <3> HIDE DEF m
        <3> QED  BY <1>4, <2>1, <3>1
    <2>8. Len(w) \in 1..2 /\ Len(w) # 2  BY <2>4
    <2> QED  BY <1>3, <2>4, <2>5, <2>6, <2>7, <2>8 DEF v, w, j, Remaining
<1> QED  BY <1>5, <1>6


(* The cells the raw write in progress still has to send, in order.         *)
Sending == Joined(SkipEmpty(iov))

(* The kernel takes n of them from the front, and the others stay.          *)
LEMMA HandedOver ==
    ASSUME TInv, NEW n, KernelTakes(n)
    PROVE  /\ pc = "send" /\ Left \in Nat /\ n \in 1..Left
           /\ Sending \in Seq(CellType) /\ Len(Sending) = Left
           /\ iov' \in Arrays(CellType) /\ Total(iov') = Left - n
           /\ Len(iov') >= 1 => \A i \in 1..Len(iov'[1]) : iov'[1][i] = Sending[n + i]
           /\ Len(iov') = 2 =>
                 \A i \in 1..Len(iov'[2]) : iov'[2][i] = Sending[n + Len(iov'[1]) + i]
           /\ mode = "PLAIN" => \A i \in 1..Left : Sending[i] = <<0, 0, Handed - Left + i>>
           /\ mode = "TLS" => /\ Len(iov) = 1 /\ Len(iov') <= 1 /\ Sending = iov[1]
<1>1. pc = "send" /\ SkipEmpty(iov) # <<>>  BY DEF KernelTakes
<1>2. iov \in Arrays(CellType) /\ mode \in {"PLAIN", "TLS"}  BY DEF TInv, TypeOK
<1>3. Left = Total(iov) /\ Left \in Nat /\ Handed \in Nat
    <2>1. Total(iov) \in Nat  BY <1>2, ArrayParts
    <2> QED  BY <1>1, <2>1 DEF Left, TInv, Queued
<1>4. Left > 0
    <2>1. Left # 0  BY <1>1, <1>2, <1>3, Skipped
    <2> QED  BY <1>3, <2>1
<1>5. \/ Len(iov) \in 1..2 /\ Len(iov[1]) > 0 /\ SkipEmpty(iov) = iov
      \/ Len(iov) = 2 /\ Len(iov[1]) = 0 /\ Len(iov[2]) = Left /\ SkipEmpty(iov) = <<iov[2]>>
    BY <1>2, <1>3, <1>4, Skipped
<1>6. n \in 1..Total(SkipEmpty(iov)) /\ iov' = Consume(SkipEmpty(iov), n)  BY DEF KernelTakes
<1>7. mode = "TLS" => Len(iov) <= 1  BY <1>1 DEF TInv, InRecord
<1>8. mode = "PLAIN" =>
        /\ Len(iov) >= 1 =>
              \A i \in 1..Len(iov[1]) : iov[1][i] = <<0, 0, Handed - Left + i>>
        /\ Len(iov) = 2 =>
              \A i \in 1..Len(iov[2]) : iov[2][i] = <<0, 0, Handed - Len(iov[2]) + i>>
    BY <1>1 DEF TInv, InClear
<1>9. CASE Len(iov) = 1 /\ SkipEmpty(iov) = iov
    <2> DEFINE a == iov[1]
    <2>1. iov = <<a>> /\ a \in Seq(CellType) /\ Len(a) \in Nat /\ Left = Len(a)
        <3>1. Len(iov) # 0 /\ Len(iov) # 2  BY <1>9
        <3> QED  BY <1>2, <1>3, <3>1, ArrayParts, Zenon
    <2>2. n \in 1..Len(a)  BY <1>3, <1>6, <1>9, <2>1
    <2>3. /\ Joined(<<a>>) = a
          /\ iov' \in Arrays(CellType) /\ Total(iov') = Len(a) - n /\ Len(iov') <= 1
          /\ Len(iov') = 1 => \A i \in 1..Len(iov'[1]) : iov'[1][i] = a[n + i]
        <3>1. iov' = Consume(<<a>>, n)  BY <1>6, <1>9, <2>1
        <3> HIDE DEF a
        <3> QED  BY <2>1, <2>2, <3>1, TakenOne
    <2>4. Sending = a  BY <1>9, <2>1, <2>3 DEF Sending
    <2>5. mode = "PLAIN" => \A i \in 1..Left : a[i] = <<0, 0, Handed - Left + i>>
        <3>1. Len(iov) >= 1  BY <1>9
        <3> QED  BY <1>8, <2>1, <3>1
    <2>6. Len(iov') # 2 /\ (Len(iov') >= 1 => Len(iov') = 1)
        <3>1. Len(iov') = 0 \/ Len(iov') = 1 \/ Len(iov') = 2  BY <2>3, ArrayParts, Zenon
        <3>2. Len(iov') <= 1  BY <2>3
        <3> QED  BY <3>1, <3>2
    <2> HIDE DEF a
    <2> QED  BY <1>1, <1>3, <1>9, <2>1, <2>2, <2>3, <2>4, <2>5, <2>6 DEF a
<1>10. CASE Len(iov) = 2 /\ SkipEmpty(iov) = iov
    <2> DEFINE a == iov[1]
               b == iov[2]
               j == a \o b
    <2>1. /\ iov = <<a, b>> /\ a \in Seq(CellType) /\ Len(a) \in Nat
          /\ b \in Seq(CellType) /\ Len(b) \in Nat /\ Left = Len(a) + Len(b)
        <3>1. Len(iov) # 0 /\ Len(iov) # 1  BY <1>10
        <3> QED  BY <1>2, <1>3, <3>1, ArrayParts, Zenon
    <2>2. n \in 1..(Len(a) + Len(b))  BY <1>3, <1>6, <1>10, <2>1
    <2>3. /\ Joined(<<a, b>>) = j
          /\ iov' \in Arrays(CellType) /\ Total(iov') = Len(a) + Len(b) - n
          /\ \A i \in 1..Len(iov'[1]) : iov'[1][i] = j[n + i]
          /\ Len(iov') = 2 => \A i \in 1..Len(iov'[2]) : iov'[2][i] = j[n + Len(iov'[1]) + i]
        <3>1. iov' = Consume(<<a, b>>, n)  BY <1>6, <1>10, <2>1
        <3> HIDE DEF a, b
        <3>2. a \in Seq(CellType) /\ b \in Seq(CellType)  BY <2>1
        <3>3. /\ Joined(<<a, b>>) = a \o b
              /\ Remaining(CellType, a, b, n, a \o b, Consume(<<a, b>>, n))
            BY <2>2, <3>2, TakenTwo
        <3>4. Remaining(CellType, a, b, n, j, iov')  BY <3>1, <3>3
        <3> HIDE DEF j
        <3> QED  BY <3>3, <3>4 DEF Remaining, j
    <2>4. Sending = j  BY <1>10, <2>1, <2>3 DEF Sending
    <2>5. /\ j \in Seq(CellType) /\ Len(j) = Left
          /\ \A i \in 1..Left : j[i] = IF i <= Len(a) THEN a[i] ELSE b[i - Len(a)]
        <3> HIDE DEF a, b
        <3> QED  BY <2>1, ConcatProperties
    <2>6. ASSUME mode = "PLAIN", NEW i \in 1..Left PROVE j[i] = <<0, 0, Handed - Left + i>>
        <3>1. /\ \A k \in 1..Len(a) : a[k] = <<0, 0, Handed - Left + k>>
              /\ \A k \in 1..Len(b) : b[k] = <<0, 0, Handed - Len(b) + k>>
            <4>1. Len(iov) >= 1  BY <1>10
            <4> QED  BY <1>8, <1>10, <2>6, <4>1
        <3> HIDE DEF a, b, j
        <3>2. CASE i <= Len(a)
            <4>1. i \in 1..Len(a)  BY <2>1, <3>2
            <4> QED  BY <2>5, <3>1, <3>2, <4>1
        <3>3. CASE ~ (i <= Len(a))
            <4> DEFINE k == i - Len(a)
            <4>1. k \in 1..Len(b) /\ Handed - Len(b) + k = Handed - Left + i
                BY <1>3, <2>1, <3>3
            <4> HIDE DEF k
            <4>2. b[k] = <<0, 0, Handed - Left + i>>  BY <3>1, <4>1
            <4>3. j[i] = b[k]  BY <2>5, <3>3 DEF k
            <4> QED  BY <4>2, <4>3
        <3> QED  BY <3>2, <3>3
    <2>7. mode # "TLS"  BY <1>7, <1>10
    <2>8. \/ mode # "PLAIN"
          \/ \A i \in 1..Left : j[i] = <<0, 0, Handed - Left + i>>
        <3> HIDE DEF j
        <3> QED  BY <2>6
    <2> HIDE DEF a, b, j
    <2>9. n \in 1..Left /\ Total(iov') = Left - n  BY <2>1, <2>2, <2>3
    <2> QED  BY <1>1, <1>3, <2>3, <2>4, <2>5, <2>7, <2>8, <2>9, Zenon
<1>11. CASE Len(iov) = 2 /\ Len(iov[2]) = Left /\ SkipEmpty(iov) = <<iov[2]>>
    <2> DEFINE a == iov[2]
    <2>1. a \in Seq(CellType) /\ Len(a) \in Nat /\ Left = Len(a)
        <3>1. Len(iov) # 0 /\ Len(iov) # 1  BY <1>11
        <3>2. iov[2] \in Seq(CellType) /\ Len(iov[2]) \in Nat
            BY <1>2, <1>3, <3>1, ArrayParts, Zenon
        <3> QED  BY <1>11, <3>2
    <2>2. n \in 1..Len(a)
        <3>1. <<a>> # <<>> /\ Len(<<a>>) = 1 /\ <<a>>[1] = a  OBVIOUS
        <3>2. Total(<<a>>) = Len(a)  BY <3>1 DEF Total
        <3> QED  BY <1>6, <1>11, <3>2
    <2>3. /\ Joined(<<a>>) = a
          /\ iov' \in Arrays(CellType) /\ Total(iov') = Len(a) - n /\ Len(iov') <= 1
          /\ Len(iov') = 1 => \A i \in 1..Len(iov'[1]) : iov'[1][i] = a[n + i]
        <3>1. iov' = Consume(<<a>>, n)  BY <1>6, <1>11
        <3> HIDE DEF a
        <3> QED  BY <2>1, <2>2, <3>1, TakenOne
    <2>4. Sending = a  BY <1>11, <2>3 DEF Sending
    <2>5. mode = "PLAIN" => \A i \in 1..Left : a[i] = <<0, 0, Handed - Left + i>>
        BY <1>8, <1>11, <2>1
    <2>6. Len(iov') # 2 /\ (Len(iov') >= 1 => Len(iov') = 1)
        <3>1. Len(iov') = 0 \/ Len(iov') = 1 \/ Len(iov') = 2  BY <2>3, ArrayParts, Zenon
        <3>2. Len(iov') <= 1  BY <2>3
        <3> QED  BY <3>1, <3>2
    <2>7. mode # "TLS"  BY <1>7, <1>11
    <2> HIDE DEF a
    <2> QED  BY <1>1, <1>3, <2>1, <2>2, <2>3, <2>4, <2>5, <2>6, <2>7
<1> QED  BY <1>5, <1>9, <1>10, <1>11


(* What the peer makes of what arrives.                                     *)
LEMMA PayloadType == ASSUME NEW c \in Seq(CellType) PROVE Payload(c) \in Seq(Nat)
<1>1. DOMAIN c = 1..Len(c) /\ Len(c) \in Nat /\ \A i \in 1..Len(c) : c[i] \in CellType
    BY LenProperties, ElementOfSeq
<1>2. \A i \in 1..Len(c) : c[i][3] \in Nat  BY <1>1 DEF CellType
<1>3. Payload(c) = [i \in 1..Len(c) |-> c[i][3]]  BY <1>1 DEF Payload
<1>4. Payload(c) \in [1..Len(c) -> Nat]  BY <1>2, <1>3
<1> QED  BY <1>1, <1>4, IsASeq

LEMMA PayloadRun ==
    ASSUME NEW c \in Seq(CellType), NEW x \in Nat, \A i \in 1..Len(c) : c[i][3] = x + i
    PROVE  Payload(c) = Bytes(x, Len(c))
<1>1. DOMAIN c = 1..Len(c)  BY LenProperties
<1> QED  BY <1>1 DEF Payload, Bytes

(* Whatever arrives, the peer reads on from what it has read.               *)
LEMMA PeerReadsOn ==
    ASSUME peer \in PeerType, NEW c \in Seq(CellType), c # <<>>
    PROVE  /\ Receives(c) \in PeerType
           /\ \E s \in Seq(Nat) : Receives(c).read = peer.read \o s
<1> DEFINE part == peer.part \o c
           p1 == [peer EXCEPT !.read = @ \o Payload(c), !.clear = TRUE]
           p2 == [peer EXCEPT !.opened = @ + 1, !.part = <<>>,
                              !.read = @ \o Payload(Tail(part))]
           p3 == [peer EXCEPT !.part = part]
<1>1. /\ peer.opened \in Nat /\ peer.part \in Seq(CellType) /\ peer.read \in Seq(Nat)
      /\ peer.clear \in BOOLEAN
    BY DEF PeerType
<1>2. part \in Seq(CellType) /\ part # <<>>
    <2>1. part \in Seq(CellType) /\ Len(part) = Len(peer.part) + Len(c)
        BY <1>1, ConcatProperties
    <2>2. Len(c) \in Nat \ {0} /\ Len(peer.part) \in Nat  BY <1>1, EmptySeq, LenProperties
    <2> HIDE DEF part
    <2>3. Len(part) # 0  BY <2>1, <2>2
    <2> QED  BY <2>1, <2>3
<1> HIDE DEF part
<1>3. Payload(c) \in Seq(Nat) /\ Payload(Tail(part)) \in Seq(Nat)
    <2>1. Tail(part) \in Seq(CellType)  BY <1>2
    <2> QED  BY <2>1, PayloadType
<1>4. p1 \in PeerType /\ p1.read = peer.read \o Payload(c)
    <2>1. peer.read \o Payload(c) \in Seq(Nat)  BY <1>1, <1>3, ConcatProperties
    <2> QED  BY <2>1 DEF PeerType
<1>5. p2 \in PeerType /\ p2.read = peer.read \o Payload(Tail(part))
    <2>1. peer.read \o Payload(Tail(part)) \in Seq(Nat)  BY <1>1, <1>3, ConcatProperties
    <2>2. peer.opened + 1 \in Nat /\ <<>> \in Seq(CellType)  BY <1>1
    <2> QED  BY <2>1, <2>2 DEF PeerType
<1>6. p3 \in PeerType /\ p3.read = peer.read \o <<>>
    <2>1. peer.read \o <<>> = peer.read  BY <1>1, ConcatEmptySeq
    <2> QED  BY <1>2, <2>1 DEF PeerType
<1>7. Receives(c) = IF c[1][1] = 0 THEN p1 ELSE IF Complete(part) THEN p2 ELSE p3
    BY DEF Receives, part
<1>8. <<>> \in Seq(Nat)  OBVIOUS
<1> HIDE DEF p1, p2, p3
<1>9. CASE Receives(c) = p1  BY <1>3, <1>4, <1>9
<1>10. CASE Receives(c) = p2  BY <1>3, <1>5, <1>10
<1>11. CASE Receives(c) = p3  BY <1>6, <1>8, <1>11
<1> QED  BY <1>7, <1>9, <1>10, <1>11

LEMMA TakenCommon ==
    ASSUME TInv, NEW n, KernelTakes(n)
    PROVE  /\ TypeOK' /\ Shape' /\ Queued'
           /\ Handed' = Handed /\ Left' = Left - n
           /\ mode' = mode /\ link' = link /\ broken' = broken /\ sealSeq' = sealSeq
           /\ pc = "send" /\ pc' = "send" /\ accepted' = accepted
           /\ link = "h2tls" <=> mode = "TLS"
           /\ peer' = Receives(SubSeq(Sending, 1, n))
           /\ SubSeq(Sending, 1, n) \in Seq(CellType) /\ Len(SubSeq(Sending, 1, n)) = n
           /\ \A i \in 1..n : SubSeq(Sending, 1, n)[i] = Sending[i]
<1> DEFINE c == SubSeq(Sending, 1, n)
<1>1. /\ pc = "send" /\ Left \in Nat /\ n \in 1..Left
      /\ Sending \in Seq(CellType) /\ Len(Sending) = Left
      /\ iov' \in Arrays(CellType) /\ Total(iov') = Left - n
    BY HandedOver
<1>2. c \in Seq(CellType) /\ Len(c) = n /\ \A i \in 1..n : c[i] = Sending[i]
    BY <1>1
<1>3. /\ peer' = Receives(c)
      /\ UNCHANGED <<link, mode, buffering, stage, pc, after, args, plain,
                     sealSeq, accepted, broken>>
    BY DEF KernelTakes, Sending
<1> HIDE DEF c
<1>4. peer' \in PeerType
    <2>1. peer \in PeerType  BY DEF TInv, TypeOK
    <2>2. c # <<>>
        <3>1. Len(c) # 0  BY <1>1, <1>2
        <3> QED  BY <3>1
    <2> QED  BY <1>2, <1>3, <2>1, <2>2, PeerReadsOn
<1>5. TypeOK'  BY <1>1, <1>3, <1>4 DEF TInv, TypeOK
<1>6. Handed' = Handed  BY <1>3 DEF Handed
<1>7. Left' = Left - n  BY <1>1, <1>3 DEF Left
<1>8. link = "h2tls" <=> mode = "TLS"
    <2>1. Total(iov) # 0
        <3>1. Left = Total(iov)  BY <1>1 DEF Left
        <3>2. Left # 0  BY <1>1
        <3> QED  BY <3>1, <3>2
    <2> QED  BY <1>1, <2>1 DEF TInv, Shape, TypeOK
<1>9. Shape'  BY <1>1, <1>3, <1>8 DEF TInv, Shape
<1>10. Queued'  BY <1>3, <1>6 DEF TInv, Queued
<1> QED  BY <1>1, <1>2, <1>3, <1>5, <1>6, <1>7, <1>8, <1>9, <1>10 DEF c


(* Plaintext is read as it is taken, and what stays is still in order.      *)
LEMMA TakenInClear ==
    ASSUME TInv, NEW n, KernelTakes(n), mode = "PLAIN"
    PROVE  TInv'
<1> DEFINE c == SubSeq(Sending, 1, n)
<1>1. /\ TypeOK' /\ Shape' /\ Queued'
      /\ Handed' = Handed /\ Left' = Left - n
      /\ mode' = mode /\ link' = link /\ broken' = broken /\ pc = "send" /\ pc' = "send"
      /\ link # "h2tls" /\ peer' = Receives(c)
      /\ c \in Seq(CellType) /\ Len(c) = n /\ \A i \in 1..n : c[i] = Sending[i]
    BY TakenCommon
<1> HIDE DEF c
<1>2. /\ Left \in Nat /\ n \in 1..Left
      /\ iov' \in Arrays(CellType) /\ Total(iov') = Left - n
      /\ Len(iov') >= 1 => \A i \in 1..Len(iov'[1]) : iov'[1][i] = Sending[n + i]
      /\ Len(iov') = 2 =>
            \A i \in 1..Len(iov'[2]) : iov'[2][i] = Sending[n + Len(iov'[1]) + i]
      /\ \A i \in 1..Left : Sending[i] = <<0, 0, Handed - Left + i>>
    BY HandedOver
<1>3. Handed \in Nat /\ Left <= Handed  BY <1>1 DEF TInv, Queued, InClear
<1>4. PICK x \in Nat : x = Handed - Left  BY <1>2, <1>3
<1>5. Handed' - Left' = x + n /\ Left' <= Handed' /\ n \in Nat  BY <1>1, <1>2, <1>3, <1>4
<1>6. \A i \in 1..Left : Sending[i] = <<0, 0, x + i>>  BY <1>2, <1>4
<1>7. InClear'
    <2>1. ASSUME Len(iov') >= 1, NEW i \in 1..Len(iov'[1])
          PROVE  iov'[1][i] = <<0, 0, Handed' - Left' + i>>
        <3>1. Len(iov'[1]) \in Nat /\ Len(iov'[1]) <= Left - n
            <4>1. Len(iov') # 0  BY <2>1
            <4>2. CASE Len(iov') = 1
                <5>1. Len(iov'[1]) \in Nat /\ Total(iov') = Len(iov'[1])
                    <6>1. Len(iov') # 2  BY <4>2
                    <6> QED  BY <1>2, <4>1, <6>1, ArrayParts, Zenon
                <5> QED  BY <1>2, <5>1
            <4>3. CASE Len(iov') = 2
                <5>1. /\ Len(iov'[1]) \in Nat /\ Len(iov'[2]) \in Nat
                      /\ Total(iov') = Len(iov'[1]) + Len(iov'[2])
                    <6>1. Len(iov') # 1  BY <4>3
                    <6> QED  BY <1>2, <4>1, <6>1, ArrayParts, Zenon
                <5>2. PICK p \in Nat, q \in Nat : p = Len(iov'[1]) /\ q = Len(iov'[2])
                    BY <5>1
                <5>3. Left - n = p + q  BY <1>2, <5>1, <5>2
                <5>4. p <= Left - n  BY <5>3
                <5> QED  BY <5>2, <5>4
            <4>4. Len(iov') = 1 \/ Len(iov') = 2  BY <1>2, <4>1, ArrayParts, Zenon
            <4> QED  BY <4>2, <4>3, <4>4
        <3>2. n + i \in 1..Left /\ x + (n + i) = Handed' - Left' + i  BY <1>2, <1>5, <3>1
        <3>3. iov'[1][i] = Sending[n + i]  BY <1>2, <2>1
        <3>4. Sending[n + i] = <<0, 0, x + (n + i)>>  BY <1>6, <3>2
        <3> QED  BY <3>2, <3>3, <3>4
    <2>2. ASSUME Len(iov') = 2, NEW i \in 1..Len(iov'[2])
          PROVE  iov'[2][i] = <<0, 0, Handed' - Len(iov'[2]) + i>>
        <3>1. /\ Len(iov'[1]) \in Nat /\ Len(iov'[2]) \in Nat
              /\ Left - n = Len(iov'[1]) + Len(iov'[2])
            <4>1. Len(iov') # 0 /\ Len(iov') # 1  BY <2>2
            <4>2. /\ Len(iov'[1]) \in Nat /\ Len(iov'[2]) \in Nat
                  /\ Total(iov') = Len(iov'[1]) + Len(iov'[2])
                BY <1>2, <4>1, ArrayParts, Zenon
            <4> QED  BY <1>2, <4>2
        <3> DEFINE k == n + Len(iov'[1]) + i
        <3>2. k \in 1..Left /\ x + k = Handed' - Len(iov'[2]) + i
            <4>1. PICK p \in Nat, q \in Nat : p = Len(iov'[1]) /\ q = Len(iov'[2])  BY <3>1
            <4>2. Left - n = p + q /\ i \in 1..q /\ k = n + p + i  BY <3>1, <4>1
            <4>3. Handed' = Handed /\ n \in 1..Left /\ Left \in Nat  BY <1>1, <1>2
            <4> HIDE DEF k
            <4>4. k \in 1..Left /\ x + k = Handed' - q + i  BY <1>3, <1>4, <4>2, <4>3
            <4> QED  BY <4>1, <4>4
        <3>3. iov'[2][i] = Sending[k]  BY <1>2, <2>2
        <3> HIDE DEF k
        <3>4. Sending[k] = <<0, 0, x + k>>  BY <1>6, <3>2
        <3> QED  BY <3>2, <3>3, <3>4
    <2> QED  BY <1>5, <2>1, <2>2 DEF InClear
<1>8. InRecord' /\ ReadSealed'  BY <1>1 DEF InRecord, ReadSealed
<1>9. peer'.read = peer.read \o Bytes(x, n)
    <2>1. \A i \in 1..n : c[i] = <<0, 0, x + i>>
        <3> TAKE i \in 1..n
        <3>1. i \in 1..Left  BY <1>2
        <3> QED  BY <1>1, <1>6, <3>1
    <2>2. c[1][1] = 0 /\ \A i \in 1..Len(c) : c[i][3] = x + i
        <3>1. 1 \in 1..n  BY <1>2
        <3> QED  BY <1>1, <2>1, <3>1
    <2>3. Payload(c) = Bytes(x, n)  BY <1>1, <2>2, PayloadRun
    <2>4. peer' = [peer EXCEPT !.read = @ \o Payload(c), !.clear = TRUE]
        BY <1>1, <2>2 DEF Receives
    <2>5. peer \in PeerType  BY DEF TInv, TypeOK
    <2> QED  BY <2>3, <2>4, <2>5 DEF PeerType
<1>10. ReadInClear'
    <2> DEFINE r == peer.read
               b == Bytes(x, n)
               s == r \o b
    <2>1. r \in Seq(Nat) /\ Len(r) \in Nat
        <3>1. peer \in PeerType  BY DEF TInv, TypeOK
        <3>2. r \in Seq(Nat)  BY <3>1 DEF PeerType
        <3> QED  BY <3>2, LenProperties
    <2>2. b \in Seq(Nat) /\ Len(b) = n /\ \A i \in 1..n : b[i] = x + i  BY <1>5, BytesRun
    <2>3. /\ \A i \in 1..Len(r) : r[i] \in 1..x
          /\ \A i, j \in 1..Len(r) : i < j => r[i] < r[j]
          /\ ~broken => r = Bytes(0, x)
        BY <1>1, <1>4 DEF TInv, ReadInClear
    <2>4. ~broken => s = Bytes(0, x + n)
        <3>1. Bytes(0, x) \o Bytes(0 + x, n) = Bytes(0, x + n)  BY <1>5, RunsJoin
        <3>2. 0 + x = x  OBVIOUS
        <3> QED  BY <2>3, <3>1, <3>2
    <2>5. peer'.read = s  BY <1>9
    <2> HIDE DEF r, b
    <2>6. /\ s \in Seq(Nat) /\ Len(s) = Len(r) + n
          /\ \A i \in 1..(Len(r) + n) : s[i] = IF i <= Len(r) THEN r[i] ELSE b[i - Len(r)]
        BY <2>1, <2>2, ConcatProperties
    <2> HIDE DEF s
    <2>7. ASSUME NEW i \in 1..Len(s)
          PROVE  \/ i \in 1..Len(r) /\ s[i] = r[i] /\ s[i] \in 1..x
                 \/ i > Len(r) /\ i - Len(r) \in 1..n /\ s[i] = x + (i - Len(r))
        <3>1. CASE i <= Len(r)
            <4>1. i \in 1..Len(r)  BY <2>1, <3>1
            <4>2. s[i] = r[i]  BY <2>6, <3>1
            <4> QED  BY <2>3, <4>1, <4>2
        <3>2. CASE ~ (i <= Len(r))
            <4>1. i > Len(r) /\ i - Len(r) \in 1..n  BY <1>5, <2>1, <2>6, <3>2
            <4>2. s[i] = b[i - Len(r)]  BY <2>6, <3>2
            <4> QED  BY <2>2, <4>1, <4>2
        <3> QED  BY <3>1, <3>2
    <2>8. \A i \in 1..Len(s) : s[i] \in 1..(x + n)
        <3> TAKE i \in 1..Len(s)
        <3>1. CASE s[i] \in 1..x  BY <1>5, <3>1
        <3>2. CASE i - Len(r) \in 1..n /\ s[i] = x + (i - Len(r))  BY <1>5, <3>2
        <3> QED  BY <2>7, <3>1, <3>2
    <2>9. \A i, j \in 1..Len(s) : i < j => s[i] < s[j]
        <3> TAKE i, j \in 1..Len(s)
        <3> HAVE i < j
        <3>1. CASE j \in 1..Len(r)
            <4>1. i \in 1..Len(r)  BY <2>1, <3>1
            <4>2. s[i] = r[i] /\ s[j] = r[j]  BY <2>1, <2>7, <3>1, <4>1
            <4> QED  BY <2>3, <3>1, <4>1, <4>2
        <3>2. CASE j - Len(r) \in 1..n /\ s[j] = x + (j - Len(r))
            <4>1. CASE s[i] \in 1..x  BY <1>5, <3>2, <4>1
            <4>2. CASE i - Len(r) \in 1..n /\ s[i] = x + (i - Len(r))
                BY <1>5, <2>1, <3>2, <4>2
            <4> QED  BY <2>7, <4>1, <4>2
        <3> QED  BY <2>7, <3>1, <3>2
    <2> QED  BY <1>1, <1>5, <2>4, <2>5, <2>8, <2>9 DEF ReadInClear
<1> QED  BY <1>1, <1>7, <1>8, <1>10 DEF TInv


(* Of a record the peer keeps the cells until the last one comes: then it   *)
(* opens it, unless it misses an earlier record.                            *)
LEMMA TakenSealed ==
    ASSUME TInv, NEW n, KernelTakes(n), mode = "TLS"
    PROVE  TInv'
<1> DEFINE c == SubSeq(Sending, 1, n)
           part == peer.part \o c
<1>1. /\ TypeOK' /\ Shape' /\ Queued'
      /\ Handed' = Handed /\ Left' = Left - n
      /\ mode' = mode /\ link' = link /\ broken' = broken /\ sealSeq' = sealSeq
      /\ pc = "send" /\ pc' = "send"
      /\ link = "h2tls" /\ peer' = Receives(c)
      /\ c \in Seq(CellType) /\ Len(c) = n /\ \A i \in 1..n : c[i] = Sending[i]
    BY TakenCommon
<1> HIDE DEF c
<1>2. /\ Left \in Nat /\ n \in 1..Left
      /\ iov' \in Arrays(CellType) /\ Total(iov') = Left - n
      /\ Len(iov') >= 1 => \A i \in 1..Len(iov'[1]) : iov'[1][i] = Sending[n + i]
      /\ Len(iov) = 1 /\ Len(iov') <= 1 /\ Sending = iov[1]
    BY HandedOver
<1>3. Left > 0 /\ n \in Nat /\ n > 0  BY <1>2
<1>4. /\ Size <= Handed /\ Gone \in Nat
      /\ \A i \in 1..Left : iov[1][i] = SealedCell(sealSeq, Size, Handed - Size, Gone + i)
    BY <1>1, <1>3 DEF TInv, InRecord
<1>5. Size \in Nat /\ Handed \in Nat /\ sealSeq \in Nat
    <2>1. 1 \in 1..Left  BY <1>2, <1>3
    <2>2. Sending[1] \in CellType
        <3>1. Sending \in Seq(CellType) /\ Len(Sending) = Left  BY HandedOver
        <3> QED  BY <2>1, <3>1, ElementOfSeq
    <2>3. Size \in Nat  BY <1>2, <2>2 DEF Size, CellType
    <2> QED  BY <2>3 DEF TInv, TypeOK, Queued
<1>6. PICK k \in Nat, x \in Nat, g \in Nat :
          /\ k = Size /\ x = Handed - Size /\ g = Gone /\ g = k + 1 - Left /\ Handed = x + k
    <2>1. Gone = Size + 1 - Left  BY DEF Gone
    <2> QED  BY <1>2, <1>4, <1>5, <2>1
<1>7. \A i \in 1..Left : Sending[i] = SealedCell(sealSeq, k, x, g + i)  BY <1>2, <1>4, <1>6
<1>8. \A i \in 1..n : c[i] = SealedCell(sealSeq, k, x, g + i)
    <2> TAKE i \in 1..n
    <2>1. i \in 1..Left  BY <1>2
    <2> QED  BY <1>1, <1>7, <2>1
<1>9. \A i \in 1..n : c[i][1] = sealSeq /\ c[i][2] = k  BY <1>8 DEF SealedCell
<1>10. /\ peer.opened \in Nat /\ peer.part \in Seq(CellType) /\ Len(peer.part) \in Nat
       /\ peer.read \in Seq(Nat) /\ Len(peer.read) \in Nat /\ peer \in PeerType
    <2>1. peer \in PeerType  BY DEF TInv, TypeOK
    <2>2. peer.opened \in Nat /\ peer.part \in Seq(CellType) /\ peer.read \in Seq(Nat)
        BY <2>1 DEF PeerType
    <2> QED  BY <2>1, <2>2, LenProperties
<1>11. /\ part \in Seq(CellType) /\ Len(part) = Len(peer.part) + n
       /\ \A i \in 1..(Len(peer.part) + n) :
             part[i] = IF i <= Len(peer.part) THEN peer.part[i] ELSE c[i - Len(peer.part)]
    BY <1>1, <1>10, ConcatProperties
<1>12. /\ ~peer.clear /\ peer.read = Bytes(0, Len(peer.read)) /\ Len(peer.read) <= Handed
       /\ ~broken => /\ peer.opened + 1 = sealSeq
                     /\ Len(peer.read) = x
                     /\ Len(peer.part) = g
                     /\ \A i \in 1..g : peer.part[i] = SealedCell(sealSeq, k, x, i)
       /\ broken => peer.opened < sealSeq /\ peer.opened + 1 < sealSeq
    BY <1>1, <1>3, <1>6 DEF TInv, ReadSealed
<1>13. c[1][1] # 0
    <2>1. 1 \in 1..n /\ sealSeq # 0
        <3>1. peer.opened < sealSeq
            <4>1. CASE broken  BY <1>12, <4>1
            <4>2. CASE ~broken
                <5>1. peer.opened + 1 = sealSeq  BY <1>12, <4>2
                <5> QED  BY <1>10, <5>1
            <4> QED  BY <4>1, <4>2
        <3> QED  BY <1>3, <1>5, <1>10, <3>1
    <2> QED  BY <1>9, <2>1
<1>14. peer' = IF Complete(part)
               THEN [peer EXCEPT !.opened = @ + 1, !.part = <<>>,
                                 !.read = @ \o Payload(Tail(part))]
               ELSE [peer EXCEPT !.part = part]
    BY <1>1, <1>13 DEF Receives
<1>15. Left' > 0 => Size' = k /\ Gone' = g + n
    <2> SUFFICES ASSUME Left' > 0 PROVE Size' = k /\ Gone' = g + n
        OBVIOUS
    <2>1. Len(iov'[1]) = Left - n /\ Len(iov') = 1
        <3>1. Total(iov') # 0  BY <1>1, <1>2
        <3>2. Len(iov') # 2
            <4>1. Len(iov') <= 1  BY <1>2
            <4> QED  BY <4>1
        <3> QED  BY <1>2, <3>1, <3>2, ArrayParts, Zenon
    <2>2. 1 \in 1..Len(iov'[1]) /\ n + 1 \in 1..Left /\ Len(iov') >= 1  BY <1>1, <1>2, <2>1
    <2>3. iov'[1][1] = Sending[n + 1]  BY <1>2, <2>2
    <2>4. iov'[1][1][2] = k  BY <1>7, <2>2, <2>3 DEF SealedCell
    <2>5. Gone' = Size' + 1 - Left'  BY DEF Gone
    <2>6. Size' = k  BY <2>4 DEF Size
    <2> QED  BY <1>1, <1>2, <1>6, <2>5, <2>6
<1>16. InRecord'
    <2>1. ASSUME Left' > 0
          PROVE  /\ Size' <= Handed' /\ Gone' \in Nat
                 /\ \A i \in 1..Left' :
                       iov'[1][i] = SealedCell(sealSeq', Size', Handed' - Size', Gone' + i)
        <3>1. Size' = k /\ Gone' = g + n  BY <1>15, <2>1
        <3>2. Size' <= Handed' /\ Gone' \in Nat /\ Handed' - Size' = x
            BY <1>1, <1>3, <1>6, <3>1
        <3>3. Len(iov'[1]) = Left' /\ Len(iov') >= 1
            <4>1. Total(iov') # 0  BY <1>1, <1>2, <2>1
            <4>2. Len(iov') # 2
                <5>1. Len(iov') <= 1  BY <1>2
                <5> QED  BY <5>1
            <4>3. Len(iov'[1]) = Total(iov') /\ Len(iov') = 1
                BY <1>2, <4>1, <4>2, ArrayParts, Zenon
            <4> QED  BY <1>1, <1>2, <4>3
        <3>4. ASSUME NEW i \in 1..Left'
              PROVE  iov'[1][i] = SealedCell(sealSeq', Size', Handed' - Size', Gone' + i)
            <4>1. n + i \in 1..Left /\ g + (n + i) = Gone' + i
                BY <1>1, <1>2, <1>6, <3>1
            <4>2. iov'[1][i] = Sending[n + i]  BY <1>2, <3>3
            <4>3. Sending[n + i] = SealedCell(sealSeq, k, x, g + (n + i))  BY <1>7, <4>1
            <4> QED  BY <1>1, <3>1, <3>2, <4>1, <4>2, <4>3
        <3> QED  BY <3>2, <3>4
    <2> QED  BY <1>2, <2>1 DEF InRecord
<1>17. InClear' /\ ReadInClear'  BY <1>1 DEF InClear, ReadInClear
<1> HIDE DEF part
<1>18. CASE broken
    <2>1. ~ Complete(part)
        <3> DEFINE l == Len(peer.part) + n
        <3>1. l \in 1..l /\ l = Len(part) /\ ~ (l <= Len(peer.part)) /\ l - Len(peer.part) = n
            BY <1>3, <1>10, <1>11
        <3>2. part[l] = c[n]  BY <1>11, <3>1
        <3>3. n \in 1..n  BY <1>3
        <3>4. part[l][1] = sealSeq  BY <1>9, <3>2, <3>3
        <3>5. sealSeq # peer.opened + 1
            <4>1. peer.opened + 1 < sealSeq  BY <1>12, <1>18
            <4> QED  BY <1>5, <1>10, <4>1
        <3>6. l \in DOMAIN part
            <4>1. DOMAIN part = 1..Len(part)  BY <1>11, LenProperties
            <4> QED  BY <3>1, <4>1
        <3> QED  BY <3>4, <3>5, <3>6 DEF Complete
    <2>2. peer' = [peer EXCEPT !.part = part]  BY <1>14, <2>1
    <2>3. peer'.opened = peer.opened /\ peer'.read = peer.read /\ peer'.clear = peer.clear
        BY <1>10, <2>2 DEF PeerType
    <2>4. ReadSealed'
        BY <1>1, <1>12, <1>18, <2>3 DEF ReadSealed
    <2> QED  BY <1>1, <1>16, <1>17, <2>4 DEF TInv
<1>19. CASE ~broken
    <2>1. \A i \in 1..(g + n) : part[i] = SealedCell(sealSeq, k, x, i)
        <3> TAKE i \in 1..(g + n)
        <3>1. Len(peer.part) = g  BY <1>12, <1>19
        <3>2. CASE i <= g
            <4>1. i \in 1..g  BY <3>2
            <4>2. part[i] = peer.part[i]  BY <1>11, <3>1, <3>2
            <4>3. peer.part[i] = SealedCell(sealSeq, k, x, i)  BY <1>12, <1>19, <4>1
            <4> QED  BY <4>2, <4>3
        <3>3. CASE ~ (i <= g)
            <4>1. i - g \in 1..n /\ g + (i - g) = i  BY <1>3, <3>3
            <4>2. part[i] = c[i - g]  BY <1>11, <3>1, <3>3
            <4>3. c[i - g] = SealedCell(sealSeq, k, x, g + (i - g))  BY <1>8, <4>1
            <4> QED  BY <4>1, <4>2, <4>3
        <3> QED  BY <3>2, <3>3
    <2>2. Len(part) = g + n /\ part \in Seq(CellType) /\ DOMAIN part = 1..(g + n)
        <3>1. Len(part) = g + n /\ part \in Seq(CellType)  BY <1>11, <1>12, <1>19
        <3> QED  BY <3>1, LenProperties
    <2>3. part[1][2] = k /\ \A i \in 1..(g + n) : part[i][1] = peer.opened + 1
        <3>1. 1 \in 1..(g + n)  BY <1>3
        <3>2. peer.opened + 1 = sealSeq  BY <1>12, <1>19
        <3> QED  BY <2>1, <3>1, <3>2 DEF SealedCell
    <2>4. Complete(part) <=> g + n = k + 1  BY <2>2, <2>3 DEF Complete
    <2>5. g + n = k + 1 <=> Left' = 0  BY <1>1, <1>2, <1>6
    <2>6. CASE Left' > 0
        <3>1. ~ Complete(part)  BY <2>4, <2>5, <2>6
        <3>2. peer' = [peer EXCEPT !.part = part]  BY <1>14, <3>1
        <3>3. /\ peer'.opened = peer.opened /\ peer'.read = peer.read
              /\ peer'.clear = peer.clear /\ peer'.part = part
            BY <1>10, <3>2 DEF PeerType
        <3>4. Size' = k /\ Gone' = g + n /\ Handed' - Size' = x
            BY <1>1, <1>6, <1>15, <2>6
        <3>5. Left' # 0  BY <2>6
        <3>6. ReadSealed'
            BY <1>1, <1>12, <1>19, <2>1, <2>2, <3>3, <3>4, <3>5 DEF ReadSealed
        <3> QED  BY <1>1, <1>16, <1>17, <3>6 DEF TInv
    <2>7. CASE Left' = 0
        <3> DEFINE t == Tail(part)
        <3>1. Complete(part) /\ g + n = k + 1  BY <2>4, <2>5, <2>7
        <3>2. t \in Seq(CellType) /\ Len(t) = k /\ \A i \in 1..k : t[i] = part[i + 1]
            <4>1. Len(part) = k + 1 /\ part # <<>>  BY <2>2, <3>1
            <4> QED  BY <2>2, <4>1
        <3>3. \A i \in 1..k : t[i][3] = x + i
            <4> TAKE i \in 1..k
            <4>1. i + 1 \in 1..(g + n) /\ i + 1 # 1 /\ x + (i + 1) - 1 = x + i  BY <3>1
            <4>2. part[i + 1] = SealedCell(sealSeq, k, x, i + 1)  BY <2>1, <4>1
            <4>3. part[i + 1][3] = x + (i + 1) - 1  BY <4>1, <4>2 DEF SealedCell
            <4> HIDE DEF t
            <4> QED  BY <3>2, <4>1, <4>3
        <3>4. Payload(t) = Bytes(x, k)
            <4> HIDE DEF t
            <4> QED  BY <3>2, <3>3, PayloadRun
        <3>5. /\ peer'.opened = peer.opened + 1 /\ peer'.part = <<>>
              /\ peer'.read = peer.read \o Payload(t) /\ peer'.clear = peer.clear
            BY <1>10, <1>14, <3>1 DEF PeerType
        <3>6. peer'.read = Bytes(0, Handed') /\ Len(peer'.read) = Handed'
            <4>1. peer.read = Bytes(0, x)
                BY <1>12, <1>19
            <4>2. Bytes(0, x) \o Bytes(0 + x, k) = Bytes(0, x + k)  BY RunsJoin
            <4>3. 0 + x = x /\ x + k = Handed'  BY <1>1, <1>6
            <4>4. Len(Bytes(0, x + k)) = x + k
                <5>1. x + k \in Nat  OBVIOUS
                <5> QED  BY <5>1, BytesRun
            <4> QED  BY <3>4, <3>5, <4>1, <4>2, <4>3, <4>4
        <3>7. Handed' <= Handed' /\ ~ (Left' > 0)  BY <1>1, <1>5, <2>7
        <3>8. peer'.opened = sealSeq'  BY <1>1, <1>12, <1>19, <3>5
        <3>9. ReadSealed'
            BY <1>1, <1>12, <1>19, <2>7, <3>5, <3>6, <3>7, <3>8 DEF ReadSealed
        <3> QED  BY <1>1, <1>16, <1>17, <3>9 DEF TInv
    <2>8. Left' > 0 \/ Left' = 0  BY <1>1, <1>2
    <2> QED  BY <2>6, <2>7, <2>8
<1> QED  BY <1>18, <1>19


-----------------------------------------------------------------------------
(* The invariant, and what it gives.                                        *)

LEMMA InitInv == ASSUME Init PROVE TInv
<1>1. /\ link \in Links /\ mode = (IF link = "h2tls" THEN "TLS" ELSE "PLAIN")
      /\ buffering = FALSE /\ stage = <<>> /\ pc = "caller" /\ after = "return"
      /\ args = <<>> /\ plain = <<>> /\ iov = <<>> /\ sealSeq = 0 /\ accepted = 0
      /\ broken = FALSE
      /\ peer = [opened |-> 0, part |-> <<>>, read |-> <<>>, clear |-> FALSE]
    BY DEF Init
<1>2. /\ peer.opened = 0 /\ peer.part = <<>> /\ peer.read = <<>> /\ peer.clear = FALSE
      /\ Len(<<>>) = 0 /\ Total(<<>>) = 0
    BY <1>1 DEF Total
<1>3. TypeOK
    <2>1. <<>> \in Arrays(Nat) /\ <<>> \in Arrays(CellType)  BY DEF Arrays
    <2>2. peer \in PeerType
        <3>1. <<>> \in Seq(CellType) /\ <<>> \in Seq(Nat)  OBVIOUS
        <3> QED  BY <1>1, <3>1 DEF PeerType
    <2>3. <<>> \in Seq(Nat) /\ 0 \in Nat /\ mode \in {"PLAIN", "TLS"}  BY <1>1
    <2>4. buffering \in BOOLEAN /\ broken \in BOOLEAN  BY <1>1
    <2> QED  BY <1>1, <2>1, <2>2, <2>3, <2>4 DEF TypeOK
<1>4. Shape  BY <1>1 DEF Shape, Links
<1>5. Handed = 0 /\ Left = 0
    <2>1. Handed = 0 - 0 - 0 - 0  BY <1>1, <1>2 DEF Handed
    <2> QED  BY <1>1, <2>1 DEF Left
<1>6. \A n : Bytes(n, 0) = <<>>  BY DEF Bytes
<1>7. Queued
    <2>1. 0 - 0 = 0 /\ 0 \in Nat /\ ~ (0 >= 1) /\ 0 # 2  OBVIOUS
    <2> QED  BY <1>1, <1>2, <1>5, <1>6, <2>1 DEF Queued
<1>8. InClear /\ InRecord  BY <1>1 DEF InClear, InRecord
<1>9. ReadInClear
    <2>1. 0 - 0 = 0 /\ 1..0 = {}  OBVIOUS
    <2> QED  BY <1>2, <1>5, <1>6, <2>1 DEF ReadInClear
<1>10. ReadSealed
    <2>1. ~ (0 > 0) /\ 0 <= 0  OBVIOUS
    <2> QED  BY <1>1, <1>2, <1>5, <1>6, <2>1 DEF ReadSealed
<1> QED  BY <1>3, <1>4, <1>7, <1>8, <1>9, <1>10 DEF TInv

LEMMA StutterInv == ASSUME TInv, UNCHANGED vars PROVE TInv'
<1>1. /\ link' = link /\ mode' = mode /\ buffering' = buffering /\ stage' = stage
      /\ pc' = pc /\ after' = after /\ args' = args /\ plain' = plain /\ iov' = iov
      /\ sealSeq' = sealSeq /\ peer' = peer /\ accepted' = accepted /\ broken' = broken
    BY DEF vars, call
<1>2. Handed' = Handed /\ Left' = Left /\ Size' = Size  BY <1>1 DEF Handed, Left, Size
<1>3. Gone' = Gone  BY <1>2 DEF Gone
<1>4. TypeOK' /\ Shape'  BY <1>1 DEF TInv, TypeOK, Shape
<1>5. Queued' /\ InClear'  BY <1>1, <1>2 DEF TInv, Queued, InClear
<1>6. InRecord' /\ ReadInClear'  BY <1>1, <1>2, <1>3 DEF TInv, InRecord, ReadInClear
<1>7. ReadSealed'  BY <1>1, <1>2, <1>3 DEF TInv, ReadSealed
<1> QED  BY <1>4, <1>5, <1>6, <1>7 DEF TInv

LEMMA KernelTakesInv == ASSUME TInv, NEW n, KernelTakes(n) PROVE TInv'
BY TakenInClear, TakenSealed DEF TInv, TypeOK

LEMMA NextInv == ASSUME TInv, [Next]_vars PROVE TInv'
<1>1. ASSUME NEW n \in 1..MaxPart, TransportWrite(n) PROVE TInv'
    BY <1>1, WriteInv
<1>2. ASSUME NEW h \in 1..MaxPart, NEW b \in 0..MaxPart, TransportWritev(h, b) PROVE TInv'
    BY <1>2, WritevInv
<1>3. ASSUME NEW n, KernelTakes(n) PROVE TInv'
    BY <1>3, KernelTakesInv
<1>4. CASE TransportRead \/ LoopEnd  BY <1>4, FlushAloneInv
<1>5. CASE DirectRead \/ ReadReturns  BY <1>5, ReadInv
<1>6. CASE LoopStart  BY <1>6, LoopStartInv
<1>7. CASE End  BY <1>7, EndInv
<1>8. CASE SealNext  BY <1>8, SealNextInv
<1>9. CASE SendDone  BY <1>9, SendDoneInv
<1>10. CASE SendFails  BY <1>10, SendFailsInv
<1>11. CASE UNCHANGED vars  BY <1>11, StutterInv
<1> QED
    BY <1>1, <1>2, <1>3, <1>4, <1>5, <1>6, <1>7, <1>8, <1>9, <1>10, <1>11 DEF Next

(* The bytes on this side are one run of the stream, in the order of the    *)
(* places they pass through, and the peer has what comes before it          *)
(* (src/transport: transport_write, transport_flush, raw_writev_all).       *)
THEOREM TInvariance == Spec => []TInv
<1>1. Init => TInv  BY InitInv
<1>2. TInv /\ [Next]_vars => TInv'  BY NextInv
<1> QED  BY <1>1, <1>2, PTL DEF Spec

(* Whatever the calls, the splits and the failures, an encrypted connection *)
(* sends nothing in the clear and its peer reads an unbroken prefix of what *)
(* was written.                                                             *)
THEOREM SealedCorrect == Spec => []SealedPrefix
<1>1. TInv => SealedPrefix  BY DEF TInv, ReadSealed, SealedPrefix
<1> QED  BY <1>1, TInvariance, PTL


-----------------------------------------------------------------------------
(* The refinement: every step of the seam is a step of the byte stream, or  *)
(* leaves it as it is.                                                      *)
LEMMA Counting ==
    ASSUME NEW k \in Nat
    PROVE  Bytes(0, k) = [i \in 1..k |-> i]
BY DEF Bytes

(* Nothing on this side, and no write failed: the peer has everything.      *)
LEMMA NothingKept ==
    ASSUME TInv, Left = 0, plain = <<>>, args = <<>>, stage = <<>>
    PROVE  broken \/ Stream!AllDelivered
<1> SUFFICES ASSUME ~broken PROVE peer.read = [i \in 1..accepted |-> i]
    BY DEF Stream!AllDelivered
<1>1. accepted \in Nat  BY DEF TInv, TypeOK
<1>2. Handed = accepted
    <2>1. Total(<<>>) = 0 /\ Len(<<>>) = 0  BY DEF Total
    <2>2. Handed = accepted - 0 - 0 - 0  BY <2>1 DEF Handed
    <2> QED  BY <1>1, <2>2
<1>3. peer.read = Bytes(0, accepted)
    <2>1. CASE link = "h2tls"
        BY <1>2, <2>1 DEF TInv, ReadSealed
    <2>2. CASE link # "h2tls"
        <3>1. Handed - Left = accepted  BY <1>1, <1>2
        <3> QED  BY <2>2, <3>1 DEF TInv, ReadInClear
    <2> QED  BY <2>1, <2>2
<1> QED  BY <1>1, <1>3, Counting

LEMMA WritesAccept ==
    ASSUME TInv, NEW k \in Nat \ {0}, Running, accepted' = accepted + k,
           pc' \in {"caller", "send"}, peer' = peer, broken' = broken
    PROVE  Stream!Accept
<1>1. accepted \in Nat  BY DEF TInv, TypeOK
<1>2. accepted' > accepted  BY <1>1
<1> QED  BY <1>2 DEF Running, Stream!Accept

LEMMA OneStays == ASSUME NEW buf, WriteOne(buf), pc = "caller" PROVE pc' \in {"caller", "send"}
BY DEF WriteOne, StartNow, Flush, call

LEMMA WriteAccepts ==
    ASSUME TInv, NEW n \in 1..MaxPart, TransportWrite(n)
    PROVE  Stream!Accept
<1>1. n \in Nat \ {0}  BY TransportAssumption
<1>2. /\ Running /\ accepted' = accepted + n /\ peer' = peer /\ broken' = broken
      /\ WriteOne(Bytes(accepted, n))
    BY DEF TransportWrite
<1>3. pc' \in {"caller", "send"}  BY <1>2, OneStays DEF Running
<1> QED  BY <1>1, <1>2, <1>3, WritesAccept

LEMMA WritevAccepts ==
    ASSUME TInv, NEW h \in 1..MaxPart, NEW b \in 0..MaxPart, TransportWritev(h, b)
    PROVE  Stream!Accept
<1>1. h + b \in Nat \ {0} /\ h \in Nat /\ b \in Nat  BY TransportAssumption
<1>2. Running /\ accepted' = accepted + h + b /\ peer' = peer /\ broken' = broken
    BY DEF TransportWritev
<1>3. accepted' = accepted + (h + b)
    <2>1. accepted \in Nat  BY DEF TInv, TypeOK
    <2> QED  BY <1>1, <1>2, <2>1
<1>4. pc' \in {"caller", "send"}
    <2> DEFINE hdr == Bytes(accepted, h)
               body == Bytes(accepted + h, b)
    <2>1. pc = "caller"  BY <1>2 DEF Running
    <2>2. CASE WriteOne(hdr \o body)  BY <2>1, <2>2, OneStays
    <2>3. CASE StartNow(<<hdr, body>>, "return")  BY <2>3 DEF StartNow
    <2>4. CASE UNCHANGED call  BY <2>1, <2>4 DEF call
    <2>5. CASE Flush("writev")  BY <2>5 DEF Flush, StartNow
    <2> QED  BY <2>2, <2>3, <2>4, <2>5 DEF TransportWritev
<1> QED  BY <1>1, <1>2, <1>3, <1>4, WritesAccept

LEMMA TakingDelivers ==
    ASSUME TInv, NEW n, KernelTakes(n)
    PROVE  Stream!Deliver \/ UNCHANGED Stream!chVars
<1> DEFINE r == peer.read
           t == peer'.read
<1>1. TInv'  BY KernelTakesInv
<1>2. /\ pc = "send" /\ pc' = "send" /\ accepted' = accepted /\ broken' = broken
      /\ link' = link /\ Handed' = Handed /\ Left' = Left - n
      /\ peer' = Receives(SubSeq(Sending, 1, n))
      /\ SubSeq(Sending, 1, n) \in Seq(CellType) /\ Len(SubSeq(Sending, 1, n)) = n
    BY TakenCommon
<1>3. n \in 1..Left /\ Left \in Nat  BY HandedOver
<1>4. PICK s \in Seq(Nat) : t = r \o s
    <2> DEFINE c == SubSeq(Sending, 1, n)
    <2>1. c \in Seq(CellType) /\ Len(c) = n /\ peer' = Receives(c)  BY <1>2
    <2> HIDE DEF c
    <2>2. c # <<>>
        <3>1. Len(c) # 0  BY <1>3, <2>1
        <3> QED  BY <3>1
    <2>3. peer \in PeerType  BY DEF TInv, TypeOK
    <2> QED  BY <2>1, <2>2, <2>3, PeerReadsOn
<1>5. r \in Seq(Nat) /\ t \in Seq(Nat) /\ Len(r) \in Nat /\ Len(s) \in Nat
    <2>1. peer \in PeerType /\ peer' \in PeerType  BY <1>1 DEF TInv, TypeOK
    <2>2. r \in Seq(Nat) /\ t \in Seq(Nat)  BY <2>1 DEF PeerType
    <2> QED  BY <2>2, LenProperties
<1>6. /\ DOMAIN r = 1..Len(r) /\ DOMAIN t = 1..Len(t) /\ Len(t) \in Nat
    BY <1>5, LenProperties
<1>7. Len(t) = Len(r) + Len(s) /\ \A i \in 1..Len(r) : t[i] = r[i]
    <2>1. /\ Len(r \o s) = Len(r) + Len(s)
          /\ \A i \in 1..(Len(r) + Len(s)) : (r \o s)[i] = IF i <= Len(r) THEN r[i] ELSE s[i - Len(r)]
        <3> HIDE DEF r
        <3> QED  BY <1>5, ConcatProperties
    <2>2. \A i \in 1..Len(r) : i \in 1..(Len(r) + Len(s)) /\ i <= Len(r)
        <3> HIDE DEF r
        <3> QED  BY <1>5
    <2> HIDE DEF r, t
    <2> QED  BY <1>4, <2>1, <2>2
<1>8. CASE s = <<>>
    <2>1. t = r  BY <1>4, <1>5, <1>8, ConcatEmptySeq
    <2> QED  BY <1>2, <2>1 DEF Stream!chVars
<1>9. CASE s # <<>>
    <2>1. Len(t) > Len(r)
        <3>1. Len(s) \in Nat \ {0}  BY <1>9, EmptySeq
        <3> HIDE DEF r, t
        <3> QED  BY <1>5, <1>7, <3>1
    <2>2. PICK H \in Nat, A \in Nat, L \in Nat :
              /\ H = Handed' /\ A = accepted' /\ L = Left' /\ H <= A
              /\ H - L \in Int /\ H - L <= A
        <3>1. Handed' \in Nat /\ accepted' \in Nat  BY <1>1 DEF TInv, TypeOK, Queued
        <3>2. Left' \in Nat  BY <1>2, <1>3
        <3>3. Handed' <= accepted'
            <4>1. Handed' = accepted' - Len(stage') - Total(args') - Len(plain')  BY DEF Handed
            <4>2. stage' \in Seq(Nat) /\ plain' \in Seq(Nat) /\ args' \in Arrays(Nat)
                BY <1>1 DEF TInv, TypeOK
            <4>3. Len(stage') \in Nat /\ Len(plain') \in Nat  BY <4>2, LenProperties
            <4>4. Total(args') \in Nat  BY <4>2, ArrayParts
            <4> QED  BY <3>1, <4>1, <4>3, <4>4
        <3> QED  BY <3>1, <3>2, <3>3
    <2>3. CASE link = "h2tls"
        <3>1. t = Bytes(0, Len(t)) /\ Len(t) <= H
            BY <1>1, <1>2, <2>2, <2>3 DEF TInv, ReadSealed
        <3>2. t = [i \in 1..Len(t) |-> i]
            <4> HIDE DEF t
            <4> QED  BY <1>6, <3>1, Counting
        <3>3. \A i \in 1..Len(t) : t[i] = i /\ i \in 1..accepted'
            <4> HIDE DEF t
            <4>1. \A i \in 1..Len(t) : t[i] = i  BY <3>2
            <4>2. \A i \in 1..Len(t) : i \in 1..A  BY <1>6, <2>2, <3>1
            <4> QED  BY <2>2, <4>1, <4>2
        <3>4. /\ \A i \in DOMAIN r : t[i] = r[i]
              /\ \A i \in DOMAIN t : t[i] \in 1..accepted
              /\ \A i, j \in DOMAIN t : i < j => t[i] < t[j]
            BY <1>2, <1>6, <1>7, <3>3
        <3> QED  BY <1>2, <2>1, <3>2, <3>4 DEF Stream!Deliver
    <2>4. CASE link # "h2tls"
        <3>1. /\ \A i \in 1..Len(t) : t[i] \in 1..(H - L)
              /\ \A i, j \in 1..Len(t) : i < j => t[i] < t[j]
              /\ ~broken => t = Bytes(0, H - L)
            BY <1>1, <1>2, <2>2, <2>4 DEF TInv, ReadInClear
        <3>2. \A i \in 1..Len(t) : t[i] \in 1..accepted
            <4>0. H <= A  BY <2>2
            <4>1. \A e \in 1..(H - L) : e \in 1..A  BY <4>0
            <4> QED  BY <1>2, <2>2, <3>1, <4>1
        <3>3. ~broken => t = [i \in 1..Len(t) |-> i]
            <4> SUFFICES ASSUME ~broken PROVE t = [i \in 1..Len(t) |-> i]
                OBVIOUS
            <4>1. H - L \in Nat
                <5>1. Left' <= Handed'
                    <6>1. pc' = "send" /\ mode' = "PLAIN"  BY <1>1, <1>2, <2>4 DEF TInv, Shape
                    <6> QED  BY <1>1, <6>1 DEF TInv, InClear
                <5>2. L <= H  BY <2>2, <5>1
                <5> QED  BY <5>2
            <4>2. t = Bytes(0, H - L)  BY <3>1
            <4>3. Len(Bytes(0, H - L)) = H - L /\ Bytes(0, H - L) = [i \in 1..(H - L) |-> i]
                BY <4>1, BytesRun, Counting
            <4> HIDE DEF t
            <4> QED  BY <4>2, <4>3
        <3>4. /\ \A i \in DOMAIN r : t[i] = r[i]
              /\ \A i \in DOMAIN t : t[i] \in 1..accepted
              /\ \A i, j \in DOMAIN t : i < j => t[i] < t[j]
            BY <1>6, <1>7, <3>1, <3>2
        <3> QED  BY <1>2, <2>1, <3>3, <3>4 DEF Stream!Deliver
    <2> QED  BY <2>3, <2>4
<1> QED  BY <1>8, <1>9


LEMMA RestRefines ==
    ASSUME TInv,
           \/ TransportRead \/ DirectRead \/ ReadReturns \/ LoopStart \/ LoopEnd \/ End
           \/ SealNext \/ SendDone \/ SendFails
    PROVE  Stream!ChNext \/ UNCHANGED Stream!chVars
<1>1. CASE \/ TransportRead \/ LoopStart \/ LoopEnd \/ End \/ SealNext
    <2>1. /\ pc \in {"caller", "send"} /\ pc' \in {"caller", "send"}
          /\ peer' = peer /\ accepted' = accepted /\ broken' = broken
        BY <1>1 DEF TransportRead, LoopStart, LoopEnd, End, SealNext, Flush, StartNow, call
    <2> QED  BY <2>1 DEF Stream!chVars
<1>2. CASE DirectRead
    <2>1. /\ pc = "caller" /\ pc' = "blocked" /\ link = "http1"
          /\ peer' = peer /\ accepted' = accepted /\ broken' = broken
        BY <1>2 DEF DirectRead
    <2>2. Left = 0 /\ plain = <<>> /\ args = <<>>  BY <2>1, AtCaller
    <2>3. stage = <<>>  BY <2>1 DEF TInv, Shape
    <2>4. broken \/ Stream!AllDelivered  BY <2>2, <2>3, NothingKept
    <2> QED  BY <2>1, <2>4 DEF Stream!ChNext, Stream!Block
<1>3. CASE ReadReturns
    <2>1. /\ pc = "blocked" /\ pc' = "caller"
          /\ peer' = peer /\ accepted' = accepted /\ broken' = broken
        BY <1>3 DEF ReadReturns
    <2> QED  BY <2>1 DEF Stream!ChNext, Stream!Wake
<1>4. CASE SendDone
    <2>1. /\ pc = "send" /\ peer' = peer /\ accepted' = accepted /\ broken' = broken
          /\ plain = <<>> /\ SkipEmpty(iov) = <<>>
        BY <1>4 DEF SendDone
    <2>2. Left = 0 /\ stage = <<>>  BY <2>1, AtDone
    <2>3. CASE pc' \in {"caller", "send"}  BY <2>1, <2>3 DEF Stream!chVars
    <2>4. CASE /\ after \in {"read", "close"} /\ pc' \in {"blocked", "closed"}
        <3>1. args = <<>>  BY <2>1, <2>4 DEF TInv, Shape
        <3>2. broken \/ Stream!AllDelivered  BY <2>1, <2>2, <3>1, NothingKept
        <3> QED  BY <2>1, <2>4, <3>2 DEF Stream!ChNext, Stream!Block, Stream!Close
    <2> QED
        BY <1>4, <2>3, <2>4 DEF SendDone, ReturnToCaller, Reconsider, StartNow, LeaveLoop
<1>5. CASE SendFails
    <2>1. /\ pc = "send" /\ peer' = peer /\ accepted' = accepted /\ broken' = TRUE
          /\ pc' \in {"caller", "send", "closed"}
        BY <1>5 DEF SendFails, LeaveLoop
    <2> QED  BY <2>1 DEF Stream!ChNext, Stream!Break
<1> QED  BY <1>1, <1>2, <1>3, <1>4, <1>5

LEMMA StepRefines == ASSUME TInv, [Next]_vars PROVE [Stream!ChNext]_(Stream!chVars)
<1>1. ASSUME NEW n \in 1..MaxPart, TransportWrite(n) PROVE Stream!ChNext
    BY <1>1, WriteAccepts DEF Stream!ChNext
<1>2. ASSUME NEW h \in 1..MaxPart, NEW b \in 0..MaxPart, TransportWritev(h, b)
      PROVE  Stream!ChNext
    BY <1>2, WritevAccepts DEF Stream!ChNext
<1>3. ASSUME NEW n, KernelTakes(n) PROVE Stream!ChNext \/ UNCHANGED Stream!chVars
    BY <1>3, TakingDelivers DEF Stream!ChNext
<1>4. CASE \/ TransportRead \/ DirectRead \/ ReadReturns \/ LoopStart \/ LoopEnd \/ End
           \/ SealNext \/ SendDone \/ SendFails
    BY <1>4, RestRefines
<1>5. CASE UNCHANGED vars
    BY <1>5 DEF vars, call, Stream!chVars
<1> QED  BY <1>1, <1>2, <1>3, <1>4, <1>5 DEF Next

(* The seam implements the abstract byte stream of Channel: every byte a    *)
(* caller wrote arrives once and in order, and the connection never blocks  *)
(* on the peer, nor closes, with a byte still on this side, unless a write  *)
(* failed (transport_write's ORDERING and DEADLOCK notes, transport_read's  *)
(* flush, child_end).                                                       *)
THEOREM StreamCorrect == Spec => ImplementsChannel
<1>1. Init => Stream!ChInit
    BY DEF Init, Stream!ChInit
<1>2. TInv /\ [Next]_vars => [Stream!ChNext]_(Stream!chVars)  BY StepRefines
<1> QED  BY <1>1, <1>2, TInvariance, PTL DEF Spec, ImplementsChannel, Stream!ChSpec
=============================================================================
