-------------------------- MODULE Http1Conn_proofs --------------------------
(***************************************************************************)
(* Keep-alive and pipelining, for every script of requests, every way the  *)
(* reads cut it and every buffer size and budget: answers come in the      *)
(* order of the requests, each from its own bytes, and the Connection      *)
(* header says what happens.                                               *)
(***************************************************************************)
EXTENDS Http1Conn, TLAPS, WellFoundedInduction

-----------------------------------------------------------------------------
(***************************************************************************)
(* The inductive invariant.  What is in `buf' and on the socket is one     *)
(* stream of cells, the Total that have not been served yet.               *)
(***************************************************************************)
Cell == Nat \X Nat

Answer == [to : Nat, status : Nat, keep : BOOLEAN]

Places == {"first", "read", "gotdata", "leftover", "found", "answered", "closed", "h2",
           "lost", "killed"}

ConnTypeOK ==
    /\ script \in Seq(Requests)
    /\ sock \in Seq(Cell)
    /\ buf \in Seq(Cell)
    /\ got \in Nat
    /\ answers \in Seq(Answer)
    /\ headerLen \in Nat
    /\ totalLen \in Nat
    /\ keep \in BOOLEAN
    /\ pc \in Places

Total == Len(buf) + Len(sock)

Stream == [k \in 1..Total |-> IF k <= Len(buf) THEN buf[k] ELSE sock[k - Len(buf)]]

\* The cell behind c in what the client sends.
After(c) == IF EndsHeader(c) THEN <<c[1] + 1, 1>> ELSE <<c[1], c[2] + 1>>

\* The stream consists of cells of the script, in its order, up to its end.
InStream ==
    /\ \A k \in 1..Total : Stream[k][1] \in 1..Len(script)
    /\ \A k \in 1..Total : k < Total => Stream[k + 1] = After(Stream[k])
    /\ Total > 0 => Stream[Total][1] = Len(script) /\ EndsHeader(Stream[Total])

\* The request that is looked for, or was found, is the one behind the last
\* that was answered, and starts at the front of `buf'; the header of the one
\* just answered ends at headerLen.
InPlace ==
    /\ pc = "first" => buf = <<>> /\ answers = <<>>
    /\ pc \in {"first", "read", "gotdata", "leftover", "found"} =>
          IF Total = 0 THEN Len(script) = Len(answers)
          ELSE Stream[1] = <<Len(answers) + 1, 1>>
    /\ pc = "found" => HeaderEnd(buf) # 0
    /\ pc = "answered" =>
          /\ headerLen \in 1..Len(buf) /\ totalLen = Len(buf)
          /\ buf[headerLen][1] = Len(answers) /\ EndsHeader(buf[headerLen])

\* A body follows a request that announced one.
BodiesAnnounced ==
    \A i \in DOMAIN script : script[i].inBody =>
        i > 1 /\ (script[i - 1].inBody \/ "Content-Length" \in script[i - 1].fields)

\* The n-th answer is to the n-th request, which is no body and, if the answer
\* keeps the connection, announces none; an answer to no request closes.
Answered ==
    \A k \in DOMAIN answers :
        IF answers[k].to = 0 THEN ~ answers[k].keep
        ELSE /\ answers[k].to = k /\ k <= Len(script) /\ ~ script[k].inBody
             /\ answers[k].keep => "Content-Length" \notin script[k].fields

\* The promise, at every place of the loop.
Promised ==
    /\ \A k \in DOMAIN answers : k < Len(answers) => answers[k].keep
    /\ pc \in {"read", "gotdata", "leftover", "found"} /\ answers # <<>> =>
          answers[Len(answers)].keep
    /\ pc = "answered" => /\ answers # <<>> /\ keep = answers[Len(answers)].keep
                          /\ answers[Len(answers)].to # 0
    /\ pc = "closed" /\ ~ shut /\ answers # <<>> => ~ answers[Len(answers)].keep
    /\ pc = "gotdata" /\ got = 0 => shut

CInv ==
    /\ ConnTypeOK /\ InStream /\ InPlace /\ BodiesAnnounced /\ Answered /\ Promised
    /\ NeverWaitsForWhatItHas

-----------------------------------------------------------------------------
(***************************************************************************)
(* Sequences, and finding the end of a header.                             *)
(***************************************************************************)

\* What a concatenation consists of.
LEMMA Concatenated ==
    ASSUME NEW S, NEW s \in Seq(S), NEW t \in Seq(S)
    PROVE  /\ s \o t \in Seq(S) /\ Len(s \o t) = Len(s) + Len(t)
           /\ \A k \in 1..Len(s) : (s \o t)[k] = s[k]
           /\ \A k \in 1..Len(t) : (s \o t)[Len(s) + k] = t[k]
<1>1. s \o t \in Seq(S) /\ Len(s \o t) = Len(s) + Len(t) /\ Len(s) \in Nat /\ Len(t) \in Nat
    OBVIOUS
<1>2. \A k \in 1..Len(s) : (s \o t)[k] = s[k]
    OBVIOUS
<1>3. ASSUME NEW k \in 1..Len(t) PROVE (s \o t)[Len(s) + k] = t[k]
  <2>1. Len(s) + k \in 1..(Len(s) + Len(t)) /\ ~ (Len(s) + k <= Len(s)) /\ (Len(s) + k) - Len(s) = k
    BY <1>1
  <2> QED BY <2>1
<1> QED BY <1>1, <1>2, <1>3


\* Every non-empty set of naturals has a least element.
LEMMA LeastNat ==
    ASSUME NEW T, T \subseteq Nat, T # {}
    PROVE  \E m \in T : \A n \in T : m <= n
<1>1. PICK m \in T : \A n \in T : ~ (<<n, m>> \in OpToRel(<, Nat))
    BY NatLessThanWellFounded, WFMin
<1>2. ASSUME NEW n \in T, NEW l \in T, n < l
      PROVE  <<n, l>> \in OpToRel(<, Nat)
    BY <1>2, Zenon DEF OpToRel
<1>3. \A n \in T : ~ (n < m)
    BY <1>1, <1>2, Zenon
<1>4. \A n \in T : m <= n
    BY <1>3, SMT
<1> QED BY <1>4

\* parse_header_end finds the first end of a header, if there is one.
LEMMA HeaderEndFirst ==
    ASSUME NEW b \in Seq(Cell)
    PROVE  /\ HeaderEnd(b) = 0 <=> \A k \in DOMAIN b : ~ EndsHeader(b[k])
           /\ HeaderEnd(b) # 0 =>
                /\ HeaderEnd(b) \in 1..Len(b) /\ EndsHeader(b[HeaderEnd(b)])
                /\ \A k \in DOMAIN b : EndsHeader(b[k]) => HeaderEnd(b) <= k
<1> DEFINE ends == {k \in DOMAIN b : EndsHeader(b[k])}
<1>1. CASE ends = {}
    BY <1>1 DEF HeaderEnd
<1>2. CASE ends # {}
  <2>1. ends \subseteq Nat /\ \A k \in ends : k \in 1..Len(b)
    OBVIOUS
  <2>2. \E m \in ends : \A n \in ends : m <= n
    <3> HIDE DEF ends
    <3> QED BY <1>2, <2>1, LeastNat
  <2>3. HeaderEnd(b) = Min(ends)
    BY <1>2 DEF HeaderEnd
  <2>4. Min(ends) \in ends /\ \A n \in ends : Min(ends) <= n
    <3> HIDE DEF ends
    <3> QED BY <2>2 DEF Min
  <2>5. HeaderEnd(b) \in 1..Len(b) /\ EndsHeader(b[HeaderEnd(b)])
    BY <2>1, <2>3, <2>4
  <2>6. \A k \in DOMAIN b : EndsHeader(b[k]) => HeaderEnd(b) <= k
    BY <2>3, <2>4
  <2>7. HeaderEnd(b) # 0 /\ HeaderEnd(b) \in DOMAIN b
    BY <2>5
  <2> QED BY <2>5, <2>6, <2>7
<1> QED BY <1>1, <1>2

\* The first header in `buf' is all of one request.
LEMMA HeaderOfOne ==
    ASSUME ConnTypeOK, InStream, NEW h \in 1..Len(buf),
           \A k \in 1..Len(buf) : EndsHeader(buf[k]) => h <= k
    PROVE  buf[h][1] = buf[1][1]
<1> DEFINE T == {k \in 1..h : buf[k][1] # buf[1][1]}
<1>1. CASE T = {}
    BY <1>1
<1>2. CASE T # {}
  <2>1. T \subseteq Nat
    OBVIOUS
  <2>2. PICK m \in T : \A n \in T : m <= n
    <3> HIDE DEF T
    <3> QED BY <1>2, <2>1, LeastNat
  <2>3. m \in 1..h /\ m # 1 /\ buf[m][1] # buf[1][1]
    BY <2>2
  <2>4. Len(buf) \in Nat /\ Len(sock) \in Nat /\ Total \in Nat /\ Len(buf) <= Total
    BY DEF ConnTypeOK, Total
  <2>5. /\ m - 1 \in 1..h /\ m - 1 \in 1..Len(buf) /\ m \in 1..Len(buf)
        /\ m - 1 \in 1..Total /\ m - 1 < Total /\ (m - 1) + 1 = m
    BY <2>3, <2>4
  <2>6. m - 1 \notin T
    <3> HIDE DEF T
    <3>1. m - 1 \in T => m <= m - 1
        BY <2>2
    <3> QED BY <2>3, <3>1
  <2>7. buf[m - 1][1] = buf[1][1]
    BY <2>5, <2>6
  <2>8. ~ EndsHeader(buf[m - 1])
    <3>1. EndsHeader(buf[m - 1]) => h <= m - 1
        BY <2>5
    <3> QED BY <2>3, <3>1
  <2>9. Stream[m - 1] = buf[m - 1] /\ Stream[m] = buf[m]
    BY <2>4, <2>5 DEF Stream
  <2>10. Stream[m] = After(Stream[m - 1])
    BY <2>5 DEF InStream
  <2>11. buf[m] = <<buf[m - 1][1], buf[m - 1][2] + 1>>
    BY <2>8, <2>9, <2>10 DEF After
  <2> QED BY <2>3, <2>7, <2>11
<1> QED BY <1>1, <1>2

-----------------------------------------------------------------------------
(***************************************************************************)
(* The client and the reads.                                               *)
(***************************************************************************)
LEMMA InitConn == Init => CInv
<1> SUFFICES ASSUME Init PROVE CInv
    OBVIOUS
<1>1. /\ script = <<>> /\ sock = <<>> /\ buf = <<>> /\ answers = <<>> /\ pc = "first"
      /\ got = 0 /\ headerLen = 0 /\ totalLen = 0 /\ keep = FALSE
    BY DEF Init
<1>2. ConnTypeOK
  <2>1. script \in Seq(Requests) /\ sock \in Seq(Cell) /\ buf \in Seq(Cell) /\ answers \in Seq(Answer)
    BY <1>1
  <2>2. got \in Nat /\ headerLen \in Nat /\ totalLen \in Nat
    BY <1>1
  <2>3. keep \in BOOLEAN
    BY <1>1, Zenon
  <2>4. pc \in Places
    BY <1>1 DEF Places
  <2> QED BY <2>1, <2>2, <2>3, <2>4, Zenon DEF ConnTypeOK
<1>3. Total = 0 /\ DOMAIN answers = {} /\ DOMAIN script = {}
    BY <1>1 DEF Total
<1> QED BY <1>1, <1>2, <1>3 DEF CInv, InStream, InPlace, BodiesAnnounced, Answered, Promised,
                                NeverWaitsForWhatItHas

\* What the types say of the stream.
LEMMA StreamType ==
    ASSUME ConnTypeOK
    PROVE  /\ Len(buf) \in Nat /\ Len(sock) \in Nat /\ Total \in Nat
           /\ Len(script) \in Nat /\ Len(answers) \in Nat
           /\ \A k \in 1..Total : Stream[k] \in Cell
           /\ \A k \in 1..Len(buf) : k \in 1..Total /\ Stream[k] = buf[k]
BY DEF ConnTypeOK, Total, Stream

LEMMA SendConn ==
    ASSUME CInv, NEW r \in Requests, Send(r)
    PROVE  CInv'
<1> DEFINE n == Len(script) + 1
           c == Cells(n, r.len)
<1>1. /\ script' = Append(script, r) /\ sock' = sock \o c
      /\ r.inBody => /\ script # <<>>
                     /\ Last(script).inBody \/ "Content-Length" \in Last(script).fields
      /\ UNCHANGED <<shut, buf, got, decided, pc, headerLen, totalLen, budget, method, keep, answers>>
    BY DEF Send, requestVars
<1>2. ConnTypeOK /\ r.len \in Nat \ {0} /\ r.inBody \in BOOLEAN
    BY RequestShape DEF CInv
<1>3. /\ script \in Seq(Requests) /\ Len(script) \in Nat /\ n \in Nat
      /\ script' \in Seq(Requests) /\ Len(script') = n /\ script'[n] = r
      /\ \A i \in 1..Len(script) : script'[i] = script[i]
    BY <1>1, <1>2 DEF ConnTypeOK
<1>4. /\ c \in Seq(Cell) /\ Len(c) = r.len
      /\ \A k \in 1..r.len : c[k] = <<n, k>>
    BY <1>2, <1>3 DEF Cells, Cell
<1> HIDE DEF c
<1>5. /\ sock \in Seq(Cell) /\ Len(sock) \in Nat
      /\ sock' \in Seq(Cell) /\ Len(sock') = Len(sock) + r.len
      /\ \A k \in 1..Len(sock) : sock'[k] = sock[k]
      /\ \A k \in 1..r.len : sock'[Len(sock) + k] = <<n, k>>
  <2>1. sock \in Seq(Cell) /\ Len(sock) \in Nat
    BY <1>2 DEF ConnTypeOK
  <2>2. /\ sock \o c \in Seq(Cell) /\ Len(sock \o c) = Len(sock) + Len(c)
        /\ \A k \in 1..Len(sock) : (sock \o c)[k] = sock[k]
        /\ \A k \in 1..Len(c) : (sock \o c)[Len(sock) + k] = c[k]
    BY <1>4, <2>1, Concatenated
  <2>3. \A k \in 1..r.len : (sock \o c)[Len(sock) + k] = <<n, k>>
    BY <1>4, <2>2, Zenon
  <2>4. Len(sock') = Len(sock) + r.len
    BY <1>1, <1>4, <2>2, Zenon
  <2> QED BY <1>1, <2>1, <2>2, <2>3, <2>4, Zenon
<1> HIDE DEF n
<1>6. ConnTypeOK'
    BY <1>1, <1>2, <1>3, <1>5 DEF ConnTypeOK
<1>7. /\ Len(buf) \in Nat /\ Total \in Nat /\ Len(answers) \in Nat
      /\ Total' = Total + r.len /\ Total' \in Nat /\ buf' = buf
    BY <1>1, <1>2, <1>5, StreamType DEF Total
<1>8. \A k \in 1..Total : Stream'[k] = Stream[k]
    BY <1>1, <1>5, <1>7 DEF Stream, Total
<1>9. \A k \in 1..r.len : Stream'[Total + k] = <<n, k>>
  <2> SUFFICES ASSUME NEW k \in 1..r.len PROVE Stream'[Total + k] = <<n, k>>
    OBVIOUS
  <2>1. /\ Total + k \in 1..Total' /\ ~ (Total + k <= Len(buf'))
        /\ (Total + k) - Len(buf') = Len(sock) + k
    <3>1. /\ Total = Len(buf) + Len(sock) /\ buf' = buf
          /\ Len(buf) \in Nat /\ Len(sock) \in Nat
        BY <1>5, <1>7, Zenon DEF Total
    <3>2. k \in Nat /\ k >= 1 /\ k <= r.len
        BY <1>2
    <3> QED BY <1>2, <1>7, <3>1, <3>2
  <2>2. Stream'[Total + k] = sock'[(Total + k) - Len(buf')]
    BY <2>1, Zenon DEF Stream
  <2> QED BY <1>5, <2>1, <2>2, Zenon
<1>10. \A d : d[1] \in 1..Len(script) => (EndsHeader(d)' <=> EndsHeader(d)) /\ After(d)' = After(d)
    BY <1>3 DEF EndsHeader, RequestAt, After
<1>11. \A k \in 1..Total' : k \in 1..Total \/ \E j \in 1..r.len : k = Total + j
  <2> SUFFICES ASSUME NEW k \in 1..Total', ~ (k \in 1..Total)
               PROVE  \E j \in 1..r.len : k = Total + j
    OBVIOUS
  <2>1. k - Total \in 1..r.len /\ k = Total + (k - Total)
    BY <1>2, <1>7
  <2> QED BY <2>1
<1>14. InStream'
  <2>1. ASSUME NEW k \in 1..Total' PROVE Stream'[k][1] \in 1..Len(script')
    <3>1. CASE k \in 1..Total
      <4>1. Stream'[k] = Stream[k] /\ Stream[k][1] \in 1..Len(script)
        BY <1>8, <3>1 DEF CInv, InStream
      <4> QED BY <1>3, <4>1 DEF n
    <3>2. CASE k \notin 1..Total
      <4>1. PICK j \in 1..r.len : k = Total + j
        BY <1>11, <3>2
      <4>2. Stream'[k] = <<n, j>>
        BY <1>9, <4>1
      <4> QED BY <1>3, <4>2 DEF n
    <3> QED BY <3>1, <3>2
  <2>2. ASSUME NEW k \in 1..Total', k < Total'
        PROVE  Stream'[k + 1] = After(Stream[k])'
    <3>1. CASE k \in 1..Total /\ k < Total
      <4>1. Stream'[k] = Stream[k] /\ Stream'[k + 1] = Stream[k + 1] /\ Stream[k][1] \in 1..Len(script)
        BY <1>7, <1>8, <3>1 DEF CInv, InStream
      <4>2. Stream[k + 1] = After(Stream[k])
        BY <3>1 DEF CInv, InStream
      <4> QED BY <1>10, <4>1, <4>2 DEF After, EndsHeader, RequestAt
    <3>2. CASE k = Total
      <4>1. Total \in 1..Total /\ Total > 0
        BY <1>7, <3>2
      <4>2. Stream'[k] = Stream[k] /\ Stream[k][1] = Len(script) /\ EndsHeader(Stream[k])
        BY <1>8, <3>2, <4>1 DEF CInv, InStream
      <4>3. Stream'[k + 1] = <<n, 1>>
        BY <1>2, <1>9, <3>2
      <4>4. Len(script) \in 1..Len(script)
        BY <4>1, <4>2 DEF CInv, InStream
      <4> QED BY <1>3, <4>2, <4>3, <4>4 DEF After, EndsHeader, RequestAt, n
    <3>3. CASE k > Total
      <4>1. PICK j \in 1..r.len : k = Total + j
        BY <1>7, <1>11, <3>3
      <4>2. j < r.len /\ j + 1 \in 1..r.len /\ k + 1 = Total + (j + 1)
        BY <1>2, <1>7, <2>2, <4>1
      <4>3. Stream'[k] = <<n, j>> /\ Stream'[k + 1] = <<n, j + 1>>
        BY <1>9, <4>1, <4>2
      <4> QED BY <1>3, <4>2, <4>3 DEF After, EndsHeader, RequestAt
    <3> QED BY <1>7, <3>1, <3>2, <3>3
  <2>3. Stream'[Total'] = <<n, r.len>>
    BY <1>2, <1>7, <1>9
  <2> QED BY <1>3, <2>1, <2>2, <2>3 DEF InStream, EndsHeader, RequestAt
<1>12. \A k \in 1..Len(buf) : buf[k][1] \in 1..Len(script)
    BY <1>2, StreamType DEF CInv, InStream
<1>13. HeaderEnd(buf)' = HeaderEnd(buf)
  <2>1. \A k \in DOMAIN buf : EndsHeader(buf[k])' <=> EndsHeader(buf[k])
    BY <1>1, <1>2, <1>3, <1>12 DEF ConnTypeOK, EndsHeader, RequestAt
  <2> QED BY <1>1, <2>1 DEF HeaderEnd
<1>15. InPlace'
  <2>1. Total' # 0
    BY <1>2, <1>7
  <2>2. Total = 0 => Stream'[1] = <<n, 1>>
    BY <1>2, <1>7, <1>9
  <2>3. Total # 0 => Stream'[1] = Stream[1]
    BY <1>7, <1>8
  <2> QED BY <1>1, <1>3, <1>7, <1>12, <1>13, <2>1, <2>2, <2>3
        DEF CInv, InPlace, EndsHeader, RequestAt, n
<1>16. BodiesAnnounced'
    BY <1>1, <1>2, <1>3 DEF CInv, BodiesAnnounced, Last, n
<1>17. Answered' /\ Promised'
    BY <1>1, <1>2, <1>3 DEF CInv, Answered, Promised, ConnTypeOK, n
<1>18. NeverWaitsForWhatItHas'
    BY <1>1, <1>13 DEF CInv, NeverWaitsForWhatItHas
<1> QED BY <1>6, <1>14, <1>15, <1>16, <1>17, <1>18 DEF CInv

\* What a step that leaves the script and the stream alone preserves.
LEMMA StreamFrame ==
    ASSUME CInv, UNCHANGED script, Total' = Total, Stream' = Stream
    PROVE  InStream' /\ BodiesAnnounced'
BY DEF CInv, InStream, BodiesAnnounced, EndsHeader, RequestAt, After

\* What depends on the script, `buf' and the socket only.
LEMMA BytesFrame ==
    ASSUME CInv, UNCHANGED <<script, sock, buf>>
    PROVE  /\ InStream' /\ BodiesAnnounced' /\ Total' = Total /\ Stream' = Stream
           /\ HeaderEnd(buf)' = HeaderEnd(buf)
<1>1. Total' = Total /\ Stream' = Stream
    BY DEF Total, Stream
<1>2. HeaderEnd(buf)' = HeaderEnd(buf)
    BY DEF HeaderEnd, EndsHeader, RequestAt
<1> QED BY <1>1, <1>2, StreamFrame

LEMMA ShutConn == CInv /\ Shut => CInv'
<1> SUFFICES ASSUME CInv, Shut PROVE CInv'
    OBVIOUS
<1>1. shut' = TRUE /\ UNCHANGED <<script, sock, buf, got, pc, headerLen, totalLen, keep, answers>>
    BY DEF Shut, requestVars
<1>2. ConnTypeOK'
    BY <1>1 DEF CInv, ConnTypeOK
<1>3. /\ InStream' /\ BodiesAnnounced' /\ Total' = Total /\ Stream' = Stream
      /\ HeaderEnd(buf)' = HeaderEnd(buf)
    BY <1>1, BytesFrame
<1>4. InPlace' /\ Answered' /\ Promised' /\ NeverWaitsForWhatItHas'
    BY <1>1, <1>3 DEF CInv, InPlace, Answered, Promised, NeverWaitsForWhatItHas, EndsHeader, RequestAt
<1> QED BY <1>2, <1>3, <1>4 DEF CInv

\* read() moves cells from the socket to the end of `buf' and leaves the stream
\* as it was.
LEMMA ReadKeepsStream ==
    ASSUME ConnTypeOK, NEW n \in 1..Len(sock),
           Len(buf') = Len(buf) + n,
           \A k \in 1..Len(buf) : buf'[k] = buf[k],
           \A k \in 1..n : buf'[Len(buf) + k] = sock[k],
           Len(sock') = Len(sock) - n,
           \A k \in 1..(Len(sock) - n) : sock'[k] = sock[n + k]
    PROVE  Total' = Total /\ Stream' = Stream
<1>1. sock \in Seq(Cell) /\ Len(sock) \in Nat /\ buf \in Seq(Cell) /\ Len(buf) \in Nat /\ n \in Nat
      /\ n <= Len(sock)
    BY DEF ConnTypeOK
<1>2. Total' = Total /\ Total = Len(buf) + Len(sock) /\ Total \in Nat
    BY <1>1 DEF Total
<1>3. ASSUME NEW k \in 1..Total
      PROVE  (IF k <= Len(buf') THEN buf'[k] ELSE sock'[k - Len(buf')])
                = (IF k <= Len(buf) THEN buf[k] ELSE sock[k - Len(buf)])
  <2>1. CASE k <= Len(buf)
    <3>1. k \in 1..Len(buf) /\ k <= Len(buf')
        BY <1>1, <1>2, <2>1
    <3> QED BY <2>1, <3>1
  <2>2. CASE ~ (k <= Len(buf)) /\ k <= Len(buf')
    <3>1. k - Len(buf) \in 1..n /\ k = Len(buf) + (k - Len(buf))
        BY <1>1, <1>2, <2>2
    <3>2. buf'[Len(buf) + (k - Len(buf))] = sock[k - Len(buf)]
        BY <3>1
    <3> QED BY <2>2, <3>1, <3>2
  <2>3. CASE ~ (k <= Len(buf'))
    <3>1. /\ ~ (k <= Len(buf)) /\ k - Len(buf') \in 1..(Len(sock) - n)
          /\ n + (k - Len(buf')) = k - Len(buf)
        BY <1>1, <1>2, <2>3
    <3>2. sock'[k - Len(buf')] = sock[n + (k - Len(buf'))]
        BY <3>1
    <3> QED BY <2>3, <3>1, <3>2
  <2> QED BY <2>1, <2>2, <2>3
<1>4. Stream' = Stream
  <2>1. Stream' = [k \in 1..Total |-> IF k <= Len(buf') THEN buf'[k] ELSE sock'[k - Len(buf')]]
    BY <1>2 DEF Stream
  <2>2. @ = [k \in 1..Total |-> IF k <= Len(buf) THEN buf[k] ELSE sock[k - Len(buf)]]
    BY <1>3
  <2> QED BY <2>1, <2>2 DEF Stream
<1> QED BY <1>2, <1>4

LEMMA ReadConn == CInv /\ (FirstRead \/ Read) => CInv'
<1> SUFFICES ASSUME CInv, FirstRead \/ Read PROVE CInv'
    OBVIOUS
<1>1. /\ pc \in {"first", "read"} /\ pc' = "gotdata"
      /\ UNCHANGED <<script, shut, headerLen, totalLen, keep, answers>>
    BY DEF FirstRead, Read, requestVars
<1>2. sock \in Seq(Cell) /\ buf \in Seq(Cell) /\ ConnTypeOK /\ Len(sock) \in Nat /\ Len(buf) \in Nat
    BY DEF CInv, ConnTypeOK
<1>3. \E n \in 1..Len(sock) :
        /\ buf' = buf \o SubSeq(sock, 1, n) /\ got' = n /\ sock' = SubSeq(sock, n + 1, Len(sock))
  <2>1. ASSUME NEW x \in Int, NEW y \in Int, NEW n \in 1..Min({x, y}) PROVE n \in 1..x
    <3>1. \A z \in {x, y} : Min({x, y}) <= z
      <4>1. \E z \in {x, y} : \A w \in {x, y} : z <= w
        <5>1. CASE x <= y
            BY <5>1
        <5>2. CASE ~ (x <= y)
            BY <5>2
        <5> QED BY <5>1, <5>2
      <4> QED BY <4>1 DEF Min
    <3>2. Min({x, y}) \in {x, y}
      <4>1. \E z \in {x, y} : \A w \in {x, y} : z <= w
        <5>1. CASE x <= y
            BY <5>1
        <5>2. CASE ~ (x <= y)
            BY <5>2
        <5> QED BY <5>1, <5>2
      <4> QED BY <4>1 DEF Min
    <3> QED BY <3>1, <3>2
  <2>2. CASE FirstRead
    <3>1. buf = <<>>
        BY <2>2 DEF FirstRead, CInv, InPlace
    <3>2. PICK n \in 1..Min({Len(sock), BufSize}) :
            buf' = SubSeq(sock, 1, n) /\ got' = n /\ sock' = SubSeq(sock, n + 1, Len(sock))
        BY <2>2 DEF FirstRead
    <3>3. n \in 1..Len(sock)
        BY <1>2, <2>1, Http1Assumption
    <3>4. SubSeq(sock, 1, n) \in Seq(Cell)
        BY <1>2, <3>3
    <3>5. buf \o SubSeq(sock, 1, n) = SubSeq(sock, 1, n)
        BY <3>1, <3>4
    <3> QED BY <3>2, <3>3, <3>5
  <2>3. CASE Read
    <3>1. PICK n \in 1..Min({Len(sock), BufSize - Len(buf)}) :
            buf' = buf \o SubSeq(sock, 1, n) /\ got' = n /\ sock' = SubSeq(sock, n + 1, Len(sock))
        BY <2>3 DEF Read
    <3>2. BufSize - Len(buf) \in Int
        BY <1>2, Http1Assumption
    <3>3. n \in 1..Len(sock)
        BY <1>2, <2>1, <3>2
    <3> QED BY <3>1, <3>3
  <2> QED BY <2>2, <2>3
<1>4. PICK n \in 1..Len(sock) :
        /\ buf' = buf \o SubSeq(sock, 1, n) /\ got' = n /\ sock' = SubSeq(sock, n + 1, Len(sock))
    BY <1>3
<1>5. buf' \in Seq(Cell) /\ sock' \in Seq(Cell) /\ Total' = Total /\ Stream' = Stream
  <2> DEFINE d == SubSeq(sock, 1, n)
             e == SubSeq(sock, n + 1, Len(sock))
  <2>1. d \in Seq(Cell) /\ Len(d) = n /\ \A k \in 1..n : d[k] = sock[k]
    BY <1>2
  <2>2. /\ e \in Seq(Cell) /\ Len(e) = Len(sock) - n
        /\ \A k \in 1..(Len(sock) - n) : e[k] = sock[n + k]
    BY <1>2
  <2>3. buf' = buf \o d /\ sock' = e
    BY <1>4
  <2> HIDE DEF d, e
  <2>4. /\ buf \o d \in Seq(Cell) /\ Len(buf \o d) = Len(buf) + Len(d)
        /\ \A k \in 1..Len(buf) : (buf \o d)[k] = buf[k]
        /\ \A k \in 1..Len(d) : (buf \o d)[Len(buf) + k] = d[k]
    <3>1. buf \in Seq(Cell) /\ d \in Seq(Cell)
        BY <1>2, <2>1
    <3> QED BY <3>1, Concatenated
  <2>5. /\ buf' \in Seq(Cell) /\ Len(buf') = Len(buf) + n
        /\ \A k \in 1..Len(buf) : buf'[k] = buf[k]
        /\ \A k \in 1..n : buf'[Len(buf) + k] = sock[k]
    BY <2>1, <2>3, <2>4, Zenon
  <2>6. /\ sock' \in Seq(Cell) /\ Len(sock') = Len(sock) - n
        /\ \A k \in 1..(Len(sock) - n) : sock'[k] = sock[n + k]
    BY <2>2, <2>3, Zenon
  <2> QED BY <1>2, <2>5, <2>6, ReadKeepsStream
<1>6. got' \in Nat /\ got' # 0
    BY <1>4
<1>7. ConnTypeOK'
    BY <1>1, <1>2, <1>5, <1>6 DEF ConnTypeOK, Places
<1>8. InStream' /\ BodiesAnnounced'
    BY <1>1, <1>5, StreamFrame
<1>9. InPlace' /\ Answered' /\ Promised' /\ NeverWaitsForWhatItHas'
    BY <1>1, <1>5, <1>6 DEF CInv, InPlace, Answered, Promised, NeverWaitsForWhatItHas
<1> QED BY <1>7, <1>8, <1>9 DEF CInv

LEMMA ReadEofConn == CInv /\ ReadEof => CInv'
<1> SUFFICES ASSUME CInv, ReadEof PROVE CInv'
    OBVIOUS
<1>1. /\ pc \in {"first", "read"} /\ pc' = (IF pc = "first" THEN "closed" ELSE "gotdata")
      /\ got' = 0 /\ shut /\ UNCHANGED <<script, sock, buf, shut, headerLen, totalLen, keep, answers>>
    BY DEF ReadEof, requestVars
<1>2. ConnTypeOK'
    BY <1>1 DEF CInv, ConnTypeOK, Places
<1>3. InStream' /\ BodiesAnnounced' /\ Total' = Total /\ Stream' = Stream
    BY <1>1, BytesFrame
<1>4. InPlace' /\ Answered' /\ Promised' /\ NeverWaitsForWhatItHas'
    BY <1>1, <1>3 DEF CInv, InPlace, Answered, Promised, NeverWaitsForWhatItHas
<1> QED BY <1>2, <1>3, <1>4 DEF CInv

-----------------------------------------------------------------------------
(***************************************************************************)
(* The steps that only decide.                                             *)
(***************************************************************************)

\* A step to pc' that writes nothing.
LEMMA GoesOn ==
    ASSUME CInv, UNCHANGED <<script, sock, shut, buf, got, headerLen, totalLen, keep, answers>>,
           \/ pc \in {"gotdata", "leftover"} /\ pc' = "found" /\ HeaderEnd(buf) # 0
           \/ pc \in {"gotdata", "leftover"} /\ pc' = "read" /\ HeaderEnd(buf) = 0
           \/ pc' \in {"h2", "lost", "killed"}
           \/ pc' = "closed" /\ (shut \/ pc = "first")
    PROVE  CInv'
<1>1. ConnTypeOK'
  <2>1. pc' \in Places
    BY DEF Places
  <2> QED BY <2>1 DEF CInv, ConnTypeOK
<1>2. /\ InStream' /\ BodiesAnnounced' /\ Total' = Total /\ Stream' = Stream
      /\ HeaderEnd(buf)' = HeaderEnd(buf)
    BY BytesFrame
<1>3. InPlace'
    BY <1>2 DEF CInv, InPlace
<1>4. Answered' /\ Promised' /\ NeverWaitsForWhatItHas'
    BY <1>2 DEF CInv, InPlace, Answered, Promised, NeverWaitsForWhatItHas
<1> QED BY <1>1, <1>2, <1>3, <1>4 DEF CInv

\* An answer to no request, from a place of the read loop.
LEMMA RepliesAndCloses ==
    ASSUME CInv, UNCHANGED <<script, sock, shut, buf, got>>, NEW status \in Nat,
           ReplyAndClose(status), pc \in {"read", "gotdata", "leftover"}
    PROVE  CInv'
<1> DEFINE a == [to |-> 0, status |-> status, keep |-> FALSE]
<1>1. a \in Answer /\ a.to = 0 /\ ~ a.keep
    BY DEF Answer
<1>2. /\ answers' = Append(answers, a) /\ keep' = FALSE /\ pc' = "closed"
      /\ UNCHANGED <<headerLen, totalLen>>
    BY DEF ReplyAndClose
<1> HIDE DEF a
<1>3. answers \in Seq(Answer) /\ Len(answers) \in Nat
    BY DEF CInv, ConnTypeOK
<1>4. /\ answers' \in Seq(Answer) /\ Len(answers') = Len(answers) + 1 /\ answers' # <<>>
      /\ answers'[Len(answers')] = a /\ \A k \in 1..Len(answers) : answers'[k] = answers[k]
    BY <1>1, <1>2, <1>3
<1>5. ConnTypeOK'
  <2>1. keep' \in BOOLEAN
    BY <1>2, Zenon
  <2>2. pc' \in Places
    BY <1>2 DEF Places
  <2> QED BY <1>2, <1>4, <2>1, <2>2 DEF CInv, ConnTypeOK
<1>6. InStream' /\ BodiesAnnounced'
    BY BytesFrame
<1>7. InPlace' /\ NeverWaitsForWhatItHas'
    BY <1>2 DEF InPlace, NeverWaitsForWhatItHas
<1>8. DOMAIN answers = 1..Len(answers) /\ DOMAIN answers' = 1..(Len(answers) + 1)
    BY <1>3, <1>4
<1>9. Answered'
  <2> SUFFICES ASSUME NEW k \in 1..(Len(answers) + 1)
               PROVE  IF answers'[k].to = 0 THEN ~ answers'[k].keep
                      ELSE /\ answers'[k].to = k /\ k <= Len(script) /\ ~ script[k].inBody
                           /\ answers'[k].keep => "Content-Length" \notin script[k].fields
    BY <1>8 DEF Answered
  <2>1. CASE k \in 1..Len(answers)
    BY <1>4, <1>8, <2>1 DEF CInv, Answered
  <2>2. CASE k = Len(answers) + 1
    BY <1>1, <1>4, <2>2
  <2> QED BY <1>3, <2>1, <2>2
<1>10. Promised'
  <2>1. ASSUME NEW k \in 1..Len(answers) PROVE answers'[k].keep
    <3>1. CASE k < Len(answers)
        BY <1>4, <1>8, <3>1 DEF CInv, Promised
    <3>2. CASE k = Len(answers)
        BY <1>3, <1>4, <3>2 DEF CInv, Promised
    <3> QED BY <1>3, <3>1, <3>2
  <2>2. \A k \in DOMAIN answers' : k < Len(answers') => answers'[k].keep
    BY <1>3, <1>4, <1>8, <2>1
  <2> QED BY <1>1, <1>2, <1>4, <2>2 DEF Promised
<1> QED BY <1>5, <1>6, <1>7, <1>9, <1>10 DEF CInv

LEMMA ReadFailsConn == CInv /\ ReadFails => CInv'
<1> SUFFICES ASSUME CInv, ReadFails PROVE CInv'
    OBVIOUS
<1>1. pc \in {"first", "read"} /\ UNCHANGED <<script, sock, shut, buf, got>>
    BY DEF ReadFails
<1>2. CASE pc = "read" /\ ReplyAndClose(408)
    BY <1>1, <1>2, RepliesAndCloses
<1>3. CASE pc = "read" /\ ReplyAndClose(500)
    BY <1>1, <1>3, RepliesAndCloses
<1>4. CASE pc' = (IF pc = "first" THEN "closed" ELSE "lost") /\ UNCHANGED requestVars
  <2>1. pc' = "lost" \/ (pc' = "closed" /\ pc = "first")
    BY <1>4
  <2> QED BY <1>1, <1>4, <2>1, GoesOn DEF requestVars
<1> QED BY <1>2, <1>3, <1>4 DEF ReadFails

LEMMA DeadlineConn == CInv /\ Deadline => CInv'
BY GoesOn DEF Deadline, requestVars

LEMMA GotDataConn == CInv /\ GotData => CInv'
<1> SUFFICES ASSUME CInv, GotData PROVE CInv'
    OBVIOUS
<1>1. pc = "gotdata" /\ UNCHANGED <<script, sock, shut, buf, got>>
    BY DEF GotData
<1>2. CASE /\ UNCHANGED requestVars
           /\ \/ pc' = "h2"
              \/ HeaderEnd(buf) # 0 /\ pc' = "found"
              \/ HeaderEnd(buf) = 0 /\ pc' = "read"
    BY <1>1, <1>2, GoesOn DEF requestVars
<1>3. CASE UNCHANGED requestVars /\ pc' = "closed" /\ got = 0
  <2>1. shut
    BY <1>1, <1>3 DEF CInv, Promised
  <2> QED BY <1>1, <1>3, <2>1, GoesOn DEF requestVars
<1>4. CASE ReplyAndClose(400)
    BY <1>1, <1>4, RepliesAndCloses
<1>5. CASE ReplyAndClose(431)
    BY <1>1, <1>5, RepliesAndCloses
<1> QED BY <1>2, <1>3, <1>4, <1>5, Zenon DEF GotData

LEMMA CheckLeftoverConn == CInv /\ CheckLeftover => CInv'
<1> SUFFICES ASSUME CInv, CheckLeftover PROVE CInv'
    OBVIOUS
<1>1. pc = "leftover" /\ UNCHANGED <<script, sock, shut, buf, got>>
    BY DEF CheckLeftover
<1>2. CASE /\ UNCHANGED requestVars
           /\ \/ HeaderEnd(buf) # 0 /\ pc' = "found"
              \/ HeaderEnd(buf) = 0 /\ pc' = "read"
    BY <1>1, <1>2, GoesOn DEF requestVars
<1>3. CASE ReplyAndClose(431)
    BY <1>1, <1>3, RepliesAndCloses
<1> QED BY <1>2, <1>3, Zenon DEF CheckLeftover

-----------------------------------------------------------------------------
(***************************************************************************)
(* Serving, and going on.                                                  *)
(***************************************************************************)

\* The answer names its request, and keeps the connection only if no body can
\* follow.
LEMMA AnswerShape ==
    ASSUME NEW i \in Nat
    PROVE  /\ AnswerTo(i) \in Answer /\ AnswerTo(i).to = i
           /\ AnswerTo(i).keep => "Content-Length" \notin script[i].fields
<1> DEFINE r == script[i]
           verdict == ShouldKeepAlive(r, MethodOf(r), Status(r))
           keeps == verdict = "keep" /\ budget > 1
<1>1. Status(r) \in Nat
  <2> HIDE DEF r
  <2>1. VersionStatus(r) \in Nat
    BY DEF VersionStatus
  <2>2. ParseStatus(r) \in Nat
    BY DEF ParseStatus
  <2>3. DispatchStatus(r) \in Nat
    BY DEF DispatchStatus, ResourceStatus
  <2> QED BY <2>1, <2>2, <2>3 DEF Status
<1>2. verdict = "keep" => "Content-Length" \notin r.fields
  <2> HIDE DEF r
  <2>1. ASSUME verdict = "keep" PROVE Lookup(r, "Content-Length") # "escapes" /\ Lookup(r, "Content-Length") # "found"
    BY <2>1 DEF ShouldKeepAlive
  <2>2. ASSUME "Content-Length" \in r.fields
        PROVE  Lookup(r, "Content-Length") = "escapes" \/ Lookup(r, "Content-Length") = "found"
    BY <2>2 DEF Lookup
  <2> QED BY <2>1, <2>2
<1>3. keeps \in BOOLEAN
    OBVIOUS
<1>4. CASE verdict = "escapes"
  <2>1. AnswerTo(i) = [to |-> i, status |-> 400, keep |-> FALSE]
    BY <1>4, Zenon DEF AnswerTo
  <2> QED BY <2>1 DEF Answer
<1>5. CASE verdict # "escapes"
  <2>1. AnswerTo(i) = [to |-> i, status |-> Status(r), keep |-> keeps]
    BY <1>5, Zenon DEF AnswerTo
  <2>2. AnswerTo(i).keep = keeps /\ AnswerTo(i).to = i
    <3> HIDE DEF keeps
    <3> QED BY <2>1
  <2>3. AnswerTo(i) \in Answer
    <3> HIDE DEF keeps, r
    <3> QED BY <1>1, <1>3, <2>1 DEF Answer
  <2> QED BY <1>2, <2>2, <2>3, Zenon
<1> QED BY <1>4, <1>5

LEMMA ServeConn == CInv /\ Serve => CInv'
<1> SUFFICES ASSUME CInv, Serve PROVE CInv'
    OBVIOUS
<1> DEFINE n == Len(answers)
           i == n + 1
           a == AnswerTo(i)
           h == HeaderEnd(buf)
<1>1. /\ pc = "found" /\ pc' = "answered" /\ headerLen' = h /\ totalLen' = Len(buf)
      /\ answers' = Append(answers, AnswerTo(buf[1][1])) /\ keep' = AnswerTo(buf[1][1]).keep
      /\ UNCHANGED <<script, sock, shut, buf, got>>
    BY DEF Serve
<1>2. ConnTypeOK /\ buf \in Seq(Cell) /\ answers \in Seq(Answer) /\ n \in Nat /\ Len(buf) \in Nat
    BY DEF CInv, ConnTypeOK
<1>3. /\ h \in 1..Len(buf) /\ EndsHeader(buf[h])
      /\ \A k \in 1..Len(buf) : EndsHeader(buf[k]) => h <= k
    BY <1>1, <1>2, HeaderEndFirst DEF CInv, InPlace
<1>4. Total # 0 /\ 1 \in 1..Total /\ Stream[1] = buf[1] /\ Stream[1] = <<i, 1>>
  <2>1. Total # 0 /\ 1 \in 1..Total /\ Stream[1] = buf[1]
    BY <1>2, <1>3, StreamType DEF Total
  <2>2. Stream[1] = <<i, 1>>
    BY <1>1, <2>1 DEF CInv, InPlace
  <2> QED BY <2>1, <2>2
<1>5. buf[1][1] = i /\ i \in 1..Len(script)
    BY <1>4 DEF CInv, InStream
<1>6. buf[h][1] = i
  <2>1. buf[h][1] = buf[1][1]
    BY <1>2, <1>3, HeaderOfOne DEF CInv
  <2> QED BY <1>5, <2>1
<1>7. a \in Answer /\ a.to = i /\ (a.keep => "Content-Length" \notin script[i].fields)
    BY <1>2, AnswerShape
<1>8. answers' = Append(answers, a) /\ keep' = a.keep
    BY <1>1, <1>5
<1> HIDE DEF a, h
<1>9. /\ answers' \in Seq(Answer) /\ Len(answers') = i /\ answers' # <<>>
      /\ answers'[i] = a /\ \A k \in 1..n : answers'[k] = answers[k]
      /\ DOMAIN answers = 1..n /\ DOMAIN answers' = 1..i
    BY <1>2, <1>7, <1>8
<1>10. \A k \in 1..n : answers[k].keep
  <2> SUFFICES ASSUME NEW k \in 1..n PROVE answers[k].keep
    OBVIOUS
  <2>1. CASE k < n
    BY <1>9, <2>1 DEF CInv, Promised
  <2>2. CASE k = n
    BY <1>1, <1>2, <2>2 DEF CInv, Promised
  <2> QED BY <1>2, <2>1, <2>2
<1>11. ~ script[i].inBody
  <2>1. CASE i = 1
    BY <1>5, <2>1 DEF CInv, BodiesAnnounced
  <2>2. CASE i # 1
    <3>1. n \in 1..n
        BY <1>2, <2>2
    <3>2. ~ script[n].inBody /\ "Content-Length" \notin script[n].fields
        BY <1>9, <1>10, <3>1 DEF CInv, Answered
    <3>3. i - 1 = n /\ i \in DOMAIN script
        BY <1>2, <1>5 DEF ConnTypeOK
    <3> QED BY <3>2, <3>3 DEF CInv, BodiesAnnounced
  <2> QED BY <2>1, <2>2
<1>12. ConnTypeOK'
  <2>1. pc' \in Places
    BY <1>1 DEF Places
  <2>2. keep' \in BOOLEAN
    BY <1>7, <1>8 DEF Answer
  <2>3. headerLen' \in Nat /\ totalLen' \in Nat
    BY <1>1, <1>2, <1>3
  <2> QED BY <1>1, <1>2, <1>9, <2>1, <2>2, <2>3 DEF ConnTypeOK
<1>13. InStream' /\ BodiesAnnounced'
    BY <1>1, BytesFrame
<1>14. InPlace' /\ NeverWaitsForWhatItHas'
  <2>1. headerLen' \in 1..Len(buf') /\ totalLen' = Len(buf') /\ buf'[headerLen'][1] = Len(answers')
    BY <1>1, <1>3, <1>6, <1>9
  <2>2. EndsHeader(buf[headerLen])'
    BY <1>1, <1>3 DEF EndsHeader, RequestAt
  <2> QED BY <1>1, <2>1, <2>2 DEF InPlace, NeverWaitsForWhatItHas
<1>15. Answered'
  <2> SUFFICES ASSUME NEW k \in 1..i
               PROVE  IF answers'[k].to = 0 THEN ~ answers'[k].keep
                      ELSE /\ answers'[k].to = k /\ k <= Len(script) /\ ~ script[k].inBody
                           /\ answers'[k].keep => "Content-Length" \notin script[k].fields
    BY <1>1, <1>9 DEF Answered
  <2>1. CASE k \in 1..n
    BY <1>9, <2>1 DEF CInv, Answered
  <2>2. CASE k = i
    BY <1>2, <1>5, <1>7, <1>9, <1>11, <2>2
  <2> QED BY <1>2, <2>1, <2>2
<1>16. Promised'
  <2>1. \A k \in DOMAIN answers' : k < Len(answers') => answers'[k].keep
    BY <1>2, <1>9, <1>10
  <2>2. answers'[Len(answers')].to # 0 /\ keep' = answers'[Len(answers')].keep
    BY <1>2, <1>7, <1>8, <1>9
  <2> QED BY <1>1, <1>9, <2>1, <2>2 DEF Promised
<1> QED BY <1>12, <1>13, <1>14, <1>15, <1>16 DEF CInv

\* http1_keepalive_continue moves what is behind the header to the front.
LEMMA LeftoverShape ==
    ASSUME CInv, pc = "answered"
    PROVE  /\ Leftover \in Seq(Cell) /\ Len(Leftover) = Len(buf) - headerLen
           /\ \A k \in 1..(Len(buf) - headerLen) : Leftover[k] = buf[headerLen + k]
<1>1. /\ buf \in Seq(Cell) /\ Len(buf) \in Nat /\ headerLen \in 1..Len(buf) /\ totalLen = Len(buf)
      /\ headerLen \in Nat
    BY DEF CInv, ConnTypeOK, InPlace
<1>2. CASE totalLen > headerLen
  <2>1. Leftover = SubSeq(buf, headerLen + 1, Len(buf))
    BY <1>1, <1>2 DEF Leftover
  <2> QED BY <1>1, <2>1
<1>3. CASE ~ (totalLen > headerLen)
  <2>1. Leftover = <<>> /\ Len(buf) - headerLen = 0
    BY <1>1, <1>3 DEF Leftover
  <2> QED BY <2>1
<1> QED BY <1>2, <1>3

LEMMA ContinueConn == CInv /\ Continue => CInv'
<1> SUFFICES ASSUME CInv, Continue PROVE CInv'
    OBVIOUS
<1>1. pc = "answered" /\ UNCHANGED <<script, sock, shut, got, headerLen, totalLen, keep, answers>>
    BY DEF Continue
<1>2. CASE ~ keep
  <2>1. pc' = "closed" /\ UNCHANGED buf
    BY <1>2 DEF Continue
  <2>2. ConnTypeOK'
    BY <1>1, <2>1 DEF CInv, ConnTypeOK, Places
  <2>3. InStream' /\ BodiesAnnounced'
    BY <1>1, <2>1, BytesFrame
  <2>4. InPlace' /\ Answered' /\ Promised' /\ NeverWaitsForWhatItHas'
    BY <1>1, <1>2, <2>1 DEF CInv, InPlace, Answered, Promised, NeverWaitsForWhatItHas
  <2> QED BY <2>2, <2>3, <2>4 DEF CInv
<1>3. CASE keep
  <2> DEFINE h == headerLen
  <2>1. pc' = "leftover" /\ buf' = Leftover
    BY <1>3 DEF Continue
  <2>2. /\ buf' \in Seq(Cell) /\ Len(buf') = Len(buf) - h
        /\ \A k \in 1..(Len(buf) - h) : buf'[k] = buf[h + k]
    BY <1>1, <2>1, LeftoverShape
  <2>3. /\ Len(buf) \in Nat /\ Len(sock) \in Nat /\ h \in 1..Len(buf) /\ h \in Nat
        /\ buf[h][1] = Len(answers) /\ EndsHeader(buf[h]) /\ ConnTypeOK
        /\ Total = Len(buf) + Len(sock) /\ Total' = Total - h /\ Total \in Nat /\ Total' \in Nat
        /\ h \in 1..Total /\ Stream[h] = buf[h]
    <3>1. /\ Len(buf) \in Nat /\ Len(sock) \in Nat /\ h \in 1..Len(buf) /\ h \in Nat
          /\ buf[h][1] = Len(answers) /\ EndsHeader(buf[h]) /\ ConnTypeOK
        BY <1>1 DEF CInv, ConnTypeOK, InPlace
    <3>2. Total = Len(buf) + Len(sock) /\ Total' = Len(buf') + Len(sock')
        BY DEF Total
    <3>3. Total' = Total - h /\ Total \in Nat /\ Total' \in Nat
        BY <1>1, <2>2, <3>1, <3>2
    <3>4. h \in 1..Total /\ Stream[h] = buf[h]
        BY <3>1, StreamType
    <3> QED BY <3>1, <3>2, <3>3, <3>4
  <2>4. ASSUME NEW k \in 1..Total'
        PROVE  h + k \in 1..Total /\ Stream'[k] = Stream[h + k]
    <3>1. h + k \in 1..Total
        BY <2>3
    <3>2. Stream'[k] = IF k <= Len(buf') THEN buf'[k] ELSE sock'[k - Len(buf')]
        BY DEF Stream
    <3>3. Stream[h + k] = IF h + k <= Len(buf) THEN buf[h + k] ELSE sock[(h + k) - Len(buf)]
        BY <3>1 DEF Stream
    <3>4. CASE k <= Len(buf')
      <4>1. k \in 1..(Len(buf) - h) /\ h + k <= Len(buf)
        BY <2>2, <2>3, <3>4
      <4> QED BY <2>2, <3>1, <3>2, <3>3, <3>4, <4>1
    <3>5. CASE ~ (k <= Len(buf'))
      <4>1. ~ (h + k <= Len(buf)) /\ (h + k) - Len(buf) = k - Len(buf')
        BY <2>2, <2>3, <3>5
      <4> QED BY <1>1, <3>1, <3>2, <3>3, <3>5, <4>1
    <3> QED BY <3>4, <3>5
  <2> HIDE DEF h
  <2>5. ConnTypeOK'
    <3>1. pc' \in Places
        BY <2>1 DEF Places
    <3> QED BY <1>1, <2>2, <2>3, <3>1 DEF ConnTypeOK
  <2>6. \A c : (EndsHeader(c)' <=> EndsHeader(c)) /\ After(c)' = After(c)
    BY <1>1 DEF EndsHeader, RequestAt, After
  <2>7. InStream'
    <3>1. \A k \in 1..Total' : Stream'[k][1] \in 1..Len(script')
        BY <1>1, <2>4 DEF CInv, InStream
    <3>2. ASSUME NEW k \in 1..Total', k < Total'
          PROVE  Stream'[k + 1] = After(Stream[k])'
      <4>1. k + 1 \in 1..Total' /\ h + k < Total /\ h + (k + 1) = (h + k) + 1
        BY <2>3, <3>2
      <4>2. Stream'[k] = Stream[h + k] /\ h + k \in 1..Total
        BY <2>4
      <4>3. Stream'[k + 1] = Stream[(h + k) + 1]
        BY <2>4, <4>1
      <4>4. Stream[(h + k) + 1] = After(Stream[h + k])
        BY <4>1, <4>2 DEF CInv, InStream
      <4> QED BY <1>1, <4>2, <4>3, <4>4 DEF After, EndsHeader, RequestAt
    <3>3. ASSUME Total' > 0
          PROVE  Stream'[Total'][1] = Len(script') /\ EndsHeader(Stream[Total])'
      <4>1. Total' \in 1..Total' /\ h + Total' = Total /\ Total > 0
        BY <2>3, <3>3
      <4>2. Stream'[Total'] = Stream[Total]
        BY <2>4, <4>1
      <4>3. Stream[Total][1] = Len(script) /\ EndsHeader(Stream[Total])
        BY <4>1 DEF CInv, InStream
      <4> QED BY <1>1, <4>2, <4>3 DEF EndsHeader, RequestAt
    <3> QED BY <3>1, <3>2, <3>3 DEF InStream
  <2>8. InPlace'
    <3>1. CASE Total' = 0
      <4>1. h = Total /\ Total > 0
        BY <2>3, <3>1
      <4>2. Stream[Total][1] = Len(script)
        BY <4>1 DEF CInv, InStream
      <4> QED BY <1>1, <2>1, <2>3, <3>1, <4>1, <4>2 DEF InPlace
    <3>2. CASE Total' # 0
      <4>1. 1 \in 1..Total' /\ h < Total
        BY <2>3, <3>2
      <4>2. Stream'[1] = Stream[h + 1]
        BY <2>4, <4>1
      <4>3. Stream[h + 1] = After(Stream[h])
        BY <2>3, <4>1 DEF CInv, InStream
      <4>4. Stream'[1] = <<Len(answers) + 1, 1>>
        BY <2>3, <4>2, <4>3 DEF After
      <4> QED BY <1>1, <2>1, <3>2, <4>4 DEF InPlace
    <3> QED BY <3>1, <3>2
  <2>9. BodiesAnnounced' /\ Answered' /\ NeverWaitsForWhatItHas'
    BY <1>1, <2>1 DEF CInv, BodiesAnnounced, Answered, NeverWaitsForWhatItHas
  <2>10. Promised'
    BY <1>1, <1>3, <2>1 DEF CInv, Promised
  <2> QED BY <2>5, <2>7, <2>8, <2>9, <2>10 DEF CInv
<1> QED BY <1>2, <1>3

-----------------------------------------------------------------------------
(***************************************************************************)
(* The theorems.                                                           *)
(***************************************************************************)
LEMMA NextConn == CInv /\ [Next]_vars => CInv'
<1> SUFFICES ASSUME CInv, [Next]_vars PROVE CInv'
    OBVIOUS
<1>1. CASE \E r \in Requests : Send(r)
    BY <1>1, SendConn
<1>2. CASE UNCHANGED vars
  <2>1. UNCHANGED <<script, sock, shut, buf, got, pc, headerLen, totalLen, keep, answers>>
    BY <1>2 DEF vars
  <2>2. ConnTypeOK'
    BY <2>1 DEF CInv, ConnTypeOK
  <2>3. /\ InStream' /\ BodiesAnnounced' /\ Total' = Total /\ Stream' = Stream
        /\ HeaderEnd(buf)' = HeaderEnd(buf)
    BY <2>1, BytesFrame
  <2>4. InPlace' /\ Answered' /\ Promised' /\ NeverWaitsForWhatItHas'
    BY <2>1, <2>3 DEF CInv, InPlace, Answered, Promised, NeverWaitsForWhatItHas, EndsHeader, RequestAt
  <2> QED BY <2>2, <2>3, <2>4 DEF CInv
<1> QED BY <1>1, <1>2, ShutConn, ReadConn, ReadEofConn, ReadFailsConn, GotDataConn,
           CheckLeftoverConn, ServeConn, ContinueConn, DeadlineConn DEF Next

\* The invariant holds in every state of every connection.
THEOREM Keepalive == Spec => []CInv
BY InitConn, NextConn, PTL DEF Spec

\* Pipelined requests are answered in the order they were sent, each from its
\* own bytes, and no body is taken for a request, for every script of requests,
\* every buffer size and every way the reads cut the stream (child.S,
\* keep_alive.S).
THEOREM OrderCorrect == Spec => []AnswersInOrder
<1>1. CInv => AnswersInOrder
  <2> SUFFICES ASSUME CInv PROVE AnswersInOrder
    OBVIOUS
  <2>1. ASSUME pc = "found" PROVE buf[1] = <<Len(answers) + 1, 1>>
    <3>1. ConnTypeOK /\ buf \in Seq(Cell) /\ Len(buf) \in Nat
        BY DEF CInv, ConnTypeOK
    <3>2. HeaderEnd(buf) \in 1..Len(buf)
        BY <2>1, <3>1, HeaderEndFirst DEF CInv, InPlace
    <3>3. 1 \in 1..Len(buf) /\ Total # 0 /\ Stream[1] = buf[1]
        BY <3>1, <3>2, StreamType
    <3> QED BY <2>1, <3>3 DEF CInv, InPlace
  <2>2. \A k \in DOMAIN answers : answers[k].to # 0 => answers[k].to = k /\ ~ script[k].inBody
    BY DEF CInv, Answered
  <2> QED BY <2>1, <2>2 DEF AnswersInOrder
<1> QED BY <1>1, Keepalive, PTL

\* The Connection header of an answer says what the server then does, up to the
\* last request of the budget (http1_should_keep_alive, child.S).
THEOREM PromiseCorrect == Spec => []PromiseKept
<1>1. CInv => PromiseKept
    BY DEF CInv, Promised, PromiseKept, Last
<1> QED BY <1>1, Keepalive, PTL

\* The server is never in read() with a whole request in `buf'
\* (Lcheck_leftover).
THEOREM NoIdleWait == Spec => []NeverWaitsForWhatItHas
<1>1. CInv => NeverWaitsForWhatItHas
    BY DEF CInv
<1> QED BY <1>1, Keepalive, PTL

=============================================================================
