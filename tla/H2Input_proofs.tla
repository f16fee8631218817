--------------------------- MODULE H2Input_proofs ---------------------------
(***************************************************************************)
(* The two readers of an HTTP/2 connection's socket, for every buffer      *)
(* size, every sequence of frames and every depth of waiting responses:    *)
(* unless a wait tears a frame, each frame is dispatched once, with its    *)
(* own payload; torn or not, what is read fits in `buf`.                   *)
(***************************************************************************)
EXTENDS H2Input, TLAPS

-----------------------------------------------------------------------------
(***************************************************************************)
(* The inductive invariant.  The cells not parsed yet, in `buf` and on the *)
(* socket, are numbered as one stream; the wait takes cells out of its     *)
(* middle, from behind `buf`.                                              *)
(***************************************************************************)
Cell == Nat \X Nat

InputTypeOK ==
    /\ script \in Seq([kind : Kinds, len : Nat])
    /\ sock \in Seq(Cell)
    /\ buf \in Seq(Cell)
    /\ off \in Nat
    /\ pc \in {"start", "header", "payload", "waitheader", "waitpayload", "ended"}
    /\ dispatched \in Seq(Nat)
    /\ torn \in BOOLEAN

\* The frame whose payload is due is one this end accepts, torn or not.
Accepted ==
    pc \in {"payload", "waitpayload"} => frame \in DOMAIN script /\ script[frame].len <= MaxRx

Fits == off + Len(buf) <= BufSize

Total == Len(buf) + Len(sock)

Stream == [k \in 1..Total |-> IF k <= Len(buf) THEN buf[k] ELSE sock[k - Len(buf)]]

\* How many cells of its frame come after the i-th cell.
Rest == [i \in 1..Total |-> (HeaderLen + script[Stream[i][1]].len) - Stream[i][2]]

\* From each cell of the stream its frame goes on to its end, and everything
\* behind belongs to later frames.
Runs ==
    \A i \in 1..Total :
        /\ Stream[i][1] \in DOMAIN script /\ Stream[i][2] \in Nat \ {0}
        /\ Rest[i] \in Nat
        /\ i + Rest[i] <= Total
        /\ \A j \in i..Total :
              IF j <= i + Rest[i]
              THEN Stream[j] = <<Stream[i][1], Stream[i][2] + (j - i)>>
              ELSE Stream[j][1] > Stream[i][1]

\* Behind the end of a frame another starts, except where the wait has taken
\* the header of one away, behind b cells.
Starts(b) ==
    \A i \in 1..Total :
        LET e == i + Rest[i] + 1
        IN  e <= Total /\ e # b + 1 => Stream[e][2] = 1

Base == IF pc = "waitpayload" THEN Len(buf) ELSE 0

\* The reader whose turn it is stands at the start of a frame.
Fresh == Total > 0 /\ (pc \in {"start", "header", "waitheader"} \/ Base > 0) => Stream[1][2] = 1

\* With a header parsed, its payload is what comes next.
Current ==
    pc \in {"payload", "waitpayload"} =>
        LET n == script[frame].len
        IN  /\ Base + n <= Total
            /\ \A k \in 1..(Total - Base) :
                  IF k <= n THEN Stream[Base + k] = <<frame, HeaderLen + k>>
                  ELSE Stream[Base + k][1] > frame
            /\ Base + n < Total => Stream[Base + n + 1][2] = 1
            /\ \A i \in DOMAIN dispatched : dispatched[i] # frame

\* While the wait is inside a frame, `buf` ends with a frame, an earlier one.
Closed ==
    pc = "waitpayload" =>
        \A i \in 1..Len(buf) : i + Rest[i] <= Len(buf) /\ Stream[i][1] < frame

\* No frame is dispatched and still ahead; none is neither.
Ahead ==
    /\ \A i \in DOMAIN dispatched, k \in 1..Total : dispatched[i] # Stream[k][1]
    /\ \A f \in DOMAIN script :
          \/ \E i \in DOMAIN dispatched : dispatched[i] = f
          \/ \E k \in 1..Total : Stream[k][1] = f
          \/ pc \in {"payload", "waitpayload"} /\ f = frame

Once ==
    /\ synced
    /\ \A i \in DOMAIN dispatched : dispatched[i] \in DOMAIN script
    /\ \A i, j \in DOMAIN dispatched : dispatched[i] = dispatched[j] => i = j

\* The payload handed over last is that of the frame dispatched last.
Whole ==
    dispatched # <<>> =>
        LET f == dispatched[Len(dispatched)]
        IN  payload = [k \in 1..script[f].len |-> <<f, HeaderLen + k>>]

StreamInv == Runs /\ Starts(Base) /\ Fresh /\ Current /\ Closed /\ Ahead

Untorn == Once /\ Whole /\ (pc # "ended" => StreamInv)

AtStart == pc = "start" => buf = <<>>

NInv == InputTypeOK /\ Accepted /\ Fits /\ AtStart /\ (~ torn => Untorn)

-----------------------------------------------------------------------------
(***************************************************************************)
(* Sequences, and the stream they make.                                    *)
(***************************************************************************)
LEMMA Concatenated ==
    ASSUME NEW S, NEW s \in Seq(S), NEW t \in Seq(S)
    PROVE  /\ s \o t \in Seq(S) /\ Len(s \o t) = Len(s) + Len(t)
           /\ \A k \in 1..Len(s) : (s \o t)[k] = s[k]
           /\ \A k \in 1..Len(t) : (s \o t)[Len(s) + k] = t[k]
<1>1. s \o t \in Seq(S) /\ Len(s \o t) = Len(s) + Len(t) /\ Len(s) \in Nat /\ Len(t) \in Nat
    OBVIOUS
<1>2. \A k \in 1..Len(s) : (s \o t)[k] = s[k]
    OBVIOUS
<1>3. ASSUME NEW k \in 1..Len(t) PROVE (s \o t)[Len(s) + k] = t[k]
  <2>1. Len(s) + k \in 1..(Len(s) + Len(t)) /\ ~ (Len(s) + k <= Len(s)) /\ (Len(s) + k) - Len(s) = k
    BY <1>1
  <2> QED BY <2>1
<1> QED BY <1>1, <1>2, <1>3

LEMMA TakeShape ==
    ASSUME NEW S, NEW s \in Seq(S), NEW n \in 0..Len(s)
    PROVE  /\ Take(s, n) \in Seq(S) /\ Len(Take(s, n)) = n
           /\ \A k \in 1..n : Take(s, n)[k] = s[k]
           /\ Take(s, n) = [k \in 1..n |-> s[k]]
<1>1. Take(s, n) \in Seq(S) /\ Len(Take(s, n)) = n /\ \A k \in 1..n : Take(s, n)[k] = s[k]
    BY DEF Take
<1> DEFINE t == Take(s, n)
<1>2. t \in Seq(S) /\ Len(t) = n /\ \A k \in 1..n : t[k] = s[k]
    BY <1>1
<1> HIDE DEF t
<1>3. t = [k \in 1..n |-> s[k]]
    BY <1>2
<1> QED BY <1>1, <1>3 DEF t

LEMMA DropShape ==
    ASSUME NEW S, NEW s \in Seq(S), NEW n \in 0..Len(s)
    PROVE  /\ Drop(s, n) \in Seq(S) /\ Len(Drop(s, n)) = Len(s) - n
           /\ \A k \in 1..(Len(s) - n) : Drop(s, n)[k] = s[n + k]
BY DEF Drop

\* What the types say of the stream.
LEMMA StreamType ==
    ASSUME InputTypeOK
    PROVE  /\ Len(buf) \in Nat /\ Len(sock) \in Nat /\ Total \in Nat /\ Len(script) \in Nat
           /\ Total = Len(buf) + Len(sock)
           /\ \A k \in 1..Total : Stream[k] \in Cell
           /\ \A k \in 1..Len(buf) : k \in 1..Total /\ Stream[k] = buf[k]
           /\ \A k \in 1..Len(sock) : Len(buf) + k \in 1..Total /\ Stream[Len(buf) + k] = sock[k]
<1>1. /\ Len(buf) \in Nat /\ Len(sock) \in Nat /\ Total \in Nat /\ Len(script) \in Nat
      /\ Total = Len(buf) + Len(sock)
    BY DEF InputTypeOK, Total
<1>2. \A k \in 1..Len(buf) : k \in 1..Total /\ Stream[k] = buf[k]
    BY <1>1 DEF Stream
<1>3. ASSUME NEW k \in 1..Len(sock)
      PROVE  Len(buf) + k \in 1..Total /\ Stream[Len(buf) + k] = sock[k]
  <2>1. /\ Len(buf) + k \in 1..Total /\ ~ (Len(buf) + k <= Len(buf))
        /\ (Len(buf) + k) - Len(buf) = k
    BY <1>1
  <2>2. Stream[Len(buf) + k] = sock[(Len(buf) + k) - Len(buf)]
    BY <2>1, Zenon DEF Stream
  <2> QED BY <2>1, <2>2
<1>4. ASSUME NEW k \in 1..Total PROVE Stream[k] \in Cell
  <2>1. CASE k <= Len(buf)
    <3>1. k \in 1..Len(buf) /\ buf \in Seq(Cell)
        BY <1>1, <2>1 DEF InputTypeOK
    <3>2. buf[k] \in Cell
        BY <3>1
    <3> QED BY <1>2, <3>1, <3>2
  <2>2. CASE ~ (k <= Len(buf))
    <3>1. k - Len(buf) \in 1..Len(sock) /\ Len(buf) + (k - Len(buf)) = k
        BY <1>1, <2>2
    <3>2. sock \in Seq(Cell)
        BY DEF InputTypeOK
    <3>3. sock[k - Len(buf)] \in Cell
        BY <3>1, <3>2
    <3>4. Stream[Len(buf) + (k - Len(buf))] = sock[k - Len(buf)]
        BY <1>3, <3>1
    <3> QED BY <3>1, <3>3, <3>4
  <2> QED BY <2>1, <2>2
<1> QED BY <1>1, <1>2, <1>3, <1>4

LEMMA ScriptType ==
    ASSUME InputTypeOK
    PROVE  /\ DOMAIN script = 1..Len(script)
           /\ \A f \in DOMAIN script : f \in Nat /\ script[f].len \in Nat
<1>1. script \in Seq([kind : Kinds, len : Nat])
    BY DEF InputTypeOK
<1>2. DOMAIN script = 1..Len(script)
    BY <1>1
<1>3. ASSUME NEW f \in DOMAIN script PROVE f \in Nat /\ script[f].len \in Nat
  <2>1. Len(script) \in Nat /\ f \in 1..Len(script)
    BY <1>1, <1>2
  <2>2. script[f] \in [kind : Kinds, len : Nat]
    <3> DEFINE R == [kind : Kinds, len : Nat]
    <3>1. script \in Seq(R)
        BY <1>1
    <3> HIDE DEF R
    <3>2. script[f] \in R
        BY <2>1, <3>1
    <3> QED BY <3>2 DEF R
  <2> QED BY <2>1, <2>2
<1> QED BY <1>2, <1>3

\* A read moves cells from the socket to the end of `buf` and leaves the stream
\* as it was.
LEMMA ReadKeepsStream ==
    ASSUME InputTypeOK, NEW n \in 0..Len(sock),
           Len(buf') = Len(buf) + n,
           \A k \in 1..Len(buf) : buf'[k] = buf[k],
           \A k \in 1..n : buf'[Len(buf) + k] = sock[k],
           Len(sock') = Len(sock) - n,
           \A k \in 1..(Len(sock) - n) : sock'[k] = sock[n + k]
    PROVE  Total' = Total /\ Stream' = Stream
<1>1. sock \in Seq(Cell) /\ Len(sock) \in Nat /\ buf \in Seq(Cell) /\ Len(buf) \in Nat /\ n \in Nat
      /\ n <= Len(sock)
    BY DEF InputTypeOK
<1>2. Total' = Total /\ Total = Len(buf) + Len(sock) /\ Total \in Nat
    BY <1>1 DEF Total
<1>3. ASSUME NEW k \in 1..Total
      PROVE  (IF k <= Len(buf') THEN buf'[k] ELSE sock'[k - Len(buf')])
                = (IF k <= Len(buf) THEN buf[k] ELSE sock[k - Len(buf)])
  <2>1. CASE k <= Len(buf)
    <3>1. k \in 1..Len(buf) /\ k <= Len(buf')
        BY <1>1, <1>2, <2>1
    <3> QED BY <2>1, <3>1
  <2>2. CASE ~ (k <= Len(buf)) /\ k <= Len(buf')
    <3>1. k - Len(buf) \in 1..n /\ k = Len(buf) + (k - Len(buf))
        BY <1>1, <1>2, <2>2
    <3>2. buf'[Len(buf) + (k - Len(buf))] = sock[k - Len(buf)]
        BY <3>1
    <3> QED BY <2>2, <3>1, <3>2
  <2>3. CASE ~ (k <= Len(buf'))
    <3>1. /\ ~ (k <= Len(buf)) /\ k - Len(buf') \in 1..(Len(sock) - n)
          /\ n + (k - Len(buf')) = k - Len(buf)
        BY <1>1, <1>2, <2>3
    <3>2. sock'[k - Len(buf')] = sock[n + (k - Len(buf'))]
        BY <3>1
    <3> QED BY <2>3, <3>1, <3>2
  <2> QED BY <2>1, <2>2, <2>3
<1>4. Stream' = Stream
  <2>1. Stream' = [k \in 1..Total |-> IF k <= Len(buf') THEN buf'[k] ELSE sock'[k - Len(buf')]]
    BY <1>2 DEF Stream
  <2>2. @ = [k \in 1..Total |-> IF k <= Len(buf) THEN buf[k] ELSE sock[k - Len(buf)]]
    BY <1>3
  <2> QED BY <2>1, <2>2 DEF Stream
<1> QED BY <1>2, <1>4

\* Parsing m cells out of `buf` takes them from the front of the stream.
LEMMA FromBuf ==
    ASSUME InputTypeOK, NEW m \in 0..Len(buf), buf' = Drop(buf, m), sock' = sock
    PROVE  /\ buf' \in Seq(Cell) /\ Len(buf') = Len(buf) - m /\ Total' = Total - m
           /\ \A k \in 1..Total' : Stream'[k] = Stream[k + m]
<1>1. /\ Len(buf) \in Nat /\ Len(sock) \in Nat /\ Total \in Nat /\ m \in Nat /\ m <= Len(buf)
      /\ buf \in Seq(Cell)
    BY StreamType DEF InputTypeOK
<1>2. /\ buf' \in Seq(Cell) /\ Len(buf') = Len(buf) - m
      /\ \A k \in 1..(Len(buf) - m) : buf'[k] = buf[m + k]
    BY <1>1, DropShape
<1>3. Total' = Total - m /\ Total = Len(buf) + Len(sock)
  <2>1. Total' = Len(buf') + Len(sock') /\ Total = Len(buf) + Len(sock)
    BY DEF Total
  <2> QED BY <1>1, <1>2, <2>1
<1>4. ASSUME NEW k \in 1..Total' PROVE Stream'[k] = Stream[k + m]
  <2>1. k + m \in 1..Total
    BY <1>1, <1>3
  <2>2. Stream'[k] = IF k <= Len(buf') THEN buf'[k] ELSE sock'[k - Len(buf')]
    BY DEF Stream
  <2>3. Stream[k + m] = IF k + m <= Len(buf) THEN buf[k + m] ELSE sock[(k + m) - Len(buf)]
    BY <2>1 DEF Stream
  <2>4. CASE k <= Len(buf')
    <3>1. k \in 1..(Len(buf) - m) /\ k + m <= Len(buf) /\ m + k = k + m
        BY <1>1, <1>2, <2>4
    <3>2. buf'[k] = buf[m + k]
        BY <1>2, <3>1
    <3> QED BY <2>2, <2>3, <2>4, <3>1, <3>2
  <2>5. CASE ~ (k <= Len(buf'))
    <3>1. ~ (k + m <= Len(buf)) /\ (k + m) - Len(buf) = k - Len(buf')
        BY <1>1, <1>2, <2>5
    <3> QED BY <2>2, <2>3, <2>5, <3>1
  <2> QED BY <2>4, <2>5
<1> QED BY <1>2, <1>3, <1>4

\* The wait takes its m cells from behind `buf`.
LEMMA FromSock ==
    ASSUME InputTypeOK, NEW m \in 0..Len(sock), sock' = Drop(sock, m), buf' = buf
    PROVE  /\ sock' \in Seq(Cell) /\ Len(sock') = Len(sock) - m /\ Total' = Total - m
           /\ \A k \in 1..Total' : Stream'[k] = IF k <= Len(buf) THEN Stream[k] ELSE Stream[k + m]
<1>1. /\ Len(buf) \in Nat /\ Len(sock) \in Nat /\ Total \in Nat /\ m \in Nat /\ m <= Len(sock)
      /\ sock \in Seq(Cell)
    BY StreamType DEF InputTypeOK
<1>2. /\ sock' \in Seq(Cell) /\ Len(sock') = Len(sock) - m
      /\ \A k \in 1..(Len(sock) - m) : sock'[k] = sock[m + k]
    BY <1>1, DropShape
<1>3. Total' = Total - m /\ Total = Len(buf) + Len(sock)
  <2>1. Total' = Len(buf') + Len(sock') /\ Total = Len(buf) + Len(sock)
    BY DEF Total
  <2> QED BY <1>1, <1>2, <2>1
<1>4. ASSUME NEW k \in 1..Total'
      PROVE  Stream'[k] = IF k <= Len(buf) THEN Stream[k] ELSE Stream[k + m]
  <2>1. k \in 1..Total /\ k + m \in 1..Total
    BY <1>1, <1>3
  <2>2. Stream'[k] = IF k <= Len(buf') THEN buf'[k] ELSE sock'[k - Len(buf')]
    BY DEF Stream
  <2>3. CASE k <= Len(buf)
    BY <2>1, <2>2, <2>3 DEF Stream
  <2>4. CASE ~ (k <= Len(buf))
    <3>1. /\ k - Len(buf) \in 1..(Len(sock) - m) /\ ~ (k + m <= Len(buf))
          /\ (k + m) - Len(buf) = m + (k - Len(buf))
        BY <1>1, <1>2, <1>3, <2>4
    <3>2. Stream[k + m] = sock[(k + m) - Len(buf)]
        BY <2>1, <3>1 DEF Stream
    <3>3. sock'[k - Len(buf)] = sock[m + (k - Len(buf))]
        BY <1>2, <3>1
    <3> QED BY <2>2, <2>4, <3>1, <3>2, <3>3
  <2> QED BY <2>3, <2>4
<1> QED BY <1>2, <1>3, <1>4

-----------------------------------------------------------------------------
(***************************************************************************)
(* Taking m cells out of the stream, from behind its first b.              *)
(***************************************************************************)
LEMMA CutRuns ==
    ASSUME NEW b \in Nat, NEW m \in Nat, Runs, Starts(b), UNCHANGED script, Total \in Nat,
           b + m <= Total, Total' = Total - m,
           \A k \in 1..Total' : Stream'[k] = IF k <= b THEN Stream[k] ELSE Stream[k + m],
           \A i \in 1..b : i + Rest[i] <= b
    PROVE  Runs' /\ Starts(b)'
<1> DEFINE o(k) == IF k <= b THEN k ELSE k + m
<1>1. \A k \in 1..Total' : o(k) \in 1..Total /\ Stream'[k] = Stream[o(k)]
    OBVIOUS
<1>2. \A k \in 1..Total' : Rest'[k] = Rest[o(k)]
    BY <1>1 DEF Rest
<1>3. ASSUME NEW i \in 1..Total'
      PROVE  /\ Stream'[i][1] \in DOMAIN script' /\ Stream'[i][2] \in Nat \ {0}
             /\ Rest'[i] \in Nat /\ i + Rest'[i] <= Total'
             /\ \A j \in i..Total' :
                  IF j <= i + Rest'[i]
                  THEN Stream'[j] = <<Stream'[i][1], Stream'[i][2] + (j - i)>>
                  ELSE Stream'[j][1] > Stream'[i][1]
  <2>1. /\ o(i) \in 1..Total /\ Stream'[i] = Stream[o(i)] /\ Rest'[i] = Rest[o(i)]
        /\ Rest[o(i)] \in Nat /\ o(i) + Rest[o(i)] <= Total
    BY <1>1, <1>2 DEF Runs
  <2>2. Stream'[i][1] \in DOMAIN script' /\ Stream'[i][2] \in Nat \ {0}
    BY <2>1 DEF Runs
  <2>3. i + Rest'[i] <= Total'
    BY <2>1
  <2>4. ASSUME NEW j \in i..Total'
        PROVE  IF j <= i + Rest'[i]
               THEN Stream'[j] = <<Stream'[i][1], Stream'[i][2] + (j - i)>>
               ELSE Stream'[j][1] > Stream'[i][1]
    <3>1. j \in 1..Total' /\ o(j) \in o(i)..Total /\ Stream'[j] = Stream[o(j)]
        BY <1>1
    <3>2. IF o(j) <= o(i) + Rest[o(i)]
          THEN Stream[o(j)] = <<Stream[o(i)][1], Stream[o(i)][2] + (o(j) - o(i))>>
          ELSE Stream[o(j)][1] > Stream[o(i)][1]
        BY <2>1, <3>1 DEF Runs
    <3>3. (j <= i + Rest[o(i)]) <=> (o(j) <= o(i) + Rest[o(i)])
        BY <2>1
    <3>4. j <= i + Rest[o(i)] => o(j) - o(i) = j - i
        BY <2>1
    <3> HIDE DEF o
    <3> QED BY <2>1, <3>1, <3>2, <3>3, <3>4
  <2> QED BY <2>1, <2>2, <2>3, <2>4
<1>4. Runs'
    BY <1>3 DEF Runs
<1>5. ASSUME NEW i \in 1..Total', i + Rest'[i] + 1 <= Total', i + Rest'[i] + 1 # b + 1
      PROVE  Stream'[i + Rest'[i] + 1][2] = 1
  <2> DEFINE e == i + Rest'[i] + 1
             g == o(i) + Rest[o(i)] + 1
  <2>1. o(i) \in 1..Total /\ Rest'[i] = Rest[o(i)] /\ Rest[o(i)] \in Nat
    BY <1>1, <1>2 DEF Runs
  <2>2. e \in 1..Total' /\ o(e) = g /\ g # b + 1
    BY <1>5, <2>1
  <2>3. g <= Total /\ Stream'[e] = Stream[g]
    BY <1>1, <2>2
  <2>4. Stream[g][2] = 1
    BY <2>1, <2>2, <2>3 DEF Starts
  <2> QED BY <2>3, <2>4
<1>6. Starts(b)'
    BY <1>5 DEF Starts
<1> QED BY <1>4, <1>6

-----------------------------------------------------------------------------
(***************************************************************************)
(* A header is parsed, behind the first b cells: the frame loop with b = 0 *)
(* and the wait with b = Len(buf).                                         *)
(***************************************************************************)

\* The header, its frame's payload behind it, and then another frame.
LEMMA HeaderAhead ==
    ASSUME InputTypeOK, Runs, Starts(0), NEW b \in Nat, b + 1 <= Total, Stream[b + 1][2] = 1
    PROVE  LET f == Stream[b + 1][1]
               n == script[f].len
           IN  /\ f \in DOMAIN script /\ n \in Nat
               /\ b + HeaderLen + n <= Total
               /\ \A k \in 1..(Total - b) : IF k <= HeaderLen + n THEN Stream[b + k] = <<f, k>>
                                            ELSE Stream[b + k][1] > f
               /\ b + HeaderLen + n < Total => Stream[b + HeaderLen + n + 1][2] = 1
<1> DEFINE f == Stream[b + 1][1]
           n == script[f].len
<1>1. Total \in Nat /\ b + 1 \in 1..Total
    BY StreamType
<1>2. f \in DOMAIN script
    BY <1>1 DEF Runs
<1>3. n \in Nat
    BY <1>2, ScriptType
<1>4. Rest[b + 1] = n + 1
    BY <1>1, <1>3 DEF Rest, HeaderLen
<1>5. b + HeaderLen + n <= Total
    BY <1>1, <1>3, <1>4 DEF Runs, HeaderLen
<1>6. ASSUME NEW k \in 1..(Total - b)
      PROVE  IF k <= HeaderLen + n THEN Stream[b + k] = <<f, k>> ELSE Stream[b + k][1] > f
  <2>1. b + k \in (b + 1)..Total
    BY <1>1
  <2>2. IF b + k <= (b + 1) + Rest[b + 1]
        THEN Stream[b + k] = <<Stream[b + 1][1], Stream[b + 1][2] + ((b + k) - (b + 1))>>
        ELSE Stream[b + k][1] > Stream[b + 1][1]
    BY <1>1, <2>1 DEF Runs
  <2>3. (b + k <= (b + 1) + Rest[b + 1]) <=> (k <= HeaderLen + n)
    BY <1>3, <1>4 DEF HeaderLen
  <2>4. Stream[b + 1][2] + ((b + k) - (b + 1)) = k
    OBVIOUS
  <2> QED BY <2>2, <2>3, <2>4
<1>7. ASSUME b + HeaderLen + n < Total PROVE Stream[b + HeaderLen + n + 1][2] = 1
  <2>1. (b + 1) + Rest[b + 1] + 1 = b + HeaderLen + n + 1
    BY <1>3, <1>4 DEF HeaderLen
  <2>2. (b + 1) + Rest[b + 1] + 1 <= Total /\ (b + 1) + Rest[b + 1] + 1 # 0 + 1
    BY <1>1, <1>3, <1>4, <1>7 DEF HeaderLen
  <2>3. Stream[(b + 1) + Rest[b + 1] + 1][2] = 1
    BY <1>1, <2>2 DEF Starts
  <2> QED BY <2>1, <2>3
<1> QED BY <1>2, <1>3, <1>5, <1>6, <1>7

LEMMA Parses ==
    ASSUME InputTypeOK, StreamInv, pc \in {"header", "waitheader"},
           NEW b \in Nat, b + HeaderLen <= Total, Stream[b + 1][2] = 1,
           \A i \in 1..b : i + Rest[i] <= b,
           Total' = Total - HeaderLen,
           \A k \in 1..Total' : Stream'[k] = IF k <= b THEN Stream[k] ELSE Stream[k + HeaderLen],
           UNCHANGED <<script, dispatched>>,
           frame' = Stream[b + 1][1], pc' \in {"payload", "waitpayload"}, Base' = b
    PROVE  StreamInv'
<1> DEFINE f == Stream[b + 1][1]
           n == script[f].len
           h == HeaderLen
<1>1. Total \in Nat /\ h \in Nat /\ h = 2 /\ Base = 0 /\ Starts(0) /\ Runs /\ b + 1 \in 1..Total
      /\ Total' = Total - h /\ b + h <= Total /\ Total' \in Nat
    BY StreamType DEF HeaderLen, Base, StreamInv
<1>2. Starts(b)
    BY <1>1 DEF Starts, Runs
<1>3. Runs' /\ Starts(b)'
    BY <1>1, <1>2, CutRuns
<1>4. Starts(Base)'
    BY <1>3 DEF Starts
<1>5. /\ f \in DOMAIN script /\ n \in Nat /\ b + h + n <= Total
      /\ \A k \in 1..(Total - b) : IF k <= h + n THEN Stream[b + k] = <<f, k>>
                                   ELSE Stream[b + k][1] > f
      /\ b + h + n < Total => Stream[b + h + n + 1][2] = 1
    BY <1>1, HeaderAhead
<1> HIDE DEF h
<1>6. Fresh'
  <2> SUFFICES ASSUME Total' > 0, Base' > 0 PROVE Stream'[1][2] = 1
    BY DEF Fresh
  <2>1. 1 \in 1..Total' /\ 1 <= b /\ Total > 0
    BY <1>1
  <2>2. Stream'[1] = Stream[1]
    BY <2>1
  <2>3. Stream[1][2] = 1
    BY <2>1 DEF StreamInv, Fresh
  <2> QED BY <2>2, <2>3
<1>7. Current'
  <2>1. b + n <= Total'
    BY <1>1, <1>5
  <2>2. ASSUME NEW k \in 1..(Total' - b)
        PROVE  IF k <= n THEN Stream'[b + k] = <<f, h + k>> ELSE Stream'[b + k][1] > f
    <3>1. b + k \in 1..Total' /\ ~ (b + k <= b) /\ (b + k) + h = b + (h + k)
          /\ h + k \in 1..(Total - b) /\ (h + k <= h + n <=> k <= n)
        BY <1>1, <1>5
    <3>2. Stream'[b + k] = Stream[b + (h + k)]
        BY <3>1 DEF h
    <3> QED BY <1>5, <3>1, <3>2
  <2>3. ASSUME b + n < Total' PROVE Stream'[b + n + 1][2] = 1
    <3>1. b + n + 1 \in 1..Total' /\ ~ (b + n + 1 <= b) /\ (b + n + 1) + h = b + h + n + 1
          /\ b + h + n < Total
        BY <1>1, <1>5, <2>3
    <3>2. Stream'[b + n + 1] = Stream[b + h + n + 1]
        BY <3>1 DEF h
    <3> QED BY <1>5, <3>1, <3>2
  <2>4. \A i \in DOMAIN dispatched : dispatched[i] # f
    BY <1>1 DEF StreamInv, Ahead
  <2>5. script'[frame'].len = n /\ frame' = f
    OBVIOUS
  <2> HIDE DEF f, n
  <2> QED BY <2>1, <2>2, <2>3, <2>4, <2>5 DEF Current, h
<1>8. Closed'
  <2> SUFFICES ASSUME pc' = "waitpayload", NEW i \in 1..Len(buf')
               PROVE  i + Rest'[i] <= Len(buf') /\ Stream'[i][1] < frame'
    BY DEF Closed
  <2>1. Len(buf') = b /\ i \in 1..b
    BY DEF Base
  <2>2. i \in 1..Total' /\ i \in 1..Total /\ Stream'[i] = Stream[i]
    BY <1>1, <2>1
  <2>3. Rest'[i] = Rest[i]
    BY <2>2 DEF Rest
  <2>4. i + Rest[i] <= b /\ Rest[i] \in Nat /\ Stream[i][1] \in DOMAIN script
    BY <1>1, <2>1, <2>2 DEF Runs
  <2>5. b + 1 \in i..Total /\ ~ (b + 1 <= i + Rest[i])
    BY <1>1, <2>1, <2>4
  <2>6. Stream[b + 1][1] > Stream[i][1]
    BY <1>1, <2>2, <2>5 DEF Runs
  <2>7. Stream[i][1] \in Nat /\ f \in Nat
    BY <1>5, <2>4, ScriptType
  <2> QED BY <2>1, <2>2, <2>3, <2>4, <2>6, <2>7
<1>9. Ahead'
  <2>1. \A k \in 1..Total' : \E j \in 1..Total : Stream'[k] = Stream[j]
    <3> SUFFICES ASSUME NEW k \in 1..Total' PROVE \E j \in 1..Total : Stream'[k] = Stream[j]
        OBVIOUS
    <3>1. k \in 1..Total /\ k + HeaderLen \in 1..Total
        BY <1>1 DEF h
    <3> QED BY <3>1
  <2>2. \A i \in DOMAIN dispatched, k \in 1..Total' : dispatched[i] # Stream'[k][1]
    BY <2>1 DEF StreamInv, Ahead
  <2>3. ASSUME NEW g \in DOMAIN script, NEW k \in 1..Total, Stream[k][1] = g, g # f
        PROVE  \E j \in 1..Total' : Stream'[j][1] = g
    <3>1. CASE k <= b
      <4>1. k \in 1..Total' /\ Stream'[k] = Stream[k]
        BY <1>1, <3>1
      <4> QED BY <2>3, <4>1
    <3>2. CASE k > b
      <4>1. k - b \in 1..(Total - b) /\ b + (k - b) = k
        BY <1>1, <3>2
      <4>2. ~ (k - b <= h)
        <5>1. k - b <= h => k - b <= h + n
            BY <1>1, <1>5
        <5>2. k - b <= h + n => Stream[k] = <<f, k - b>>
            BY <1>5, <4>1
        <5> QED BY <2>3, <5>1, <5>2
      <4>3. k - h \in 1..Total' /\ ~ (k - h <= b) /\ (k - h) + h = k
        BY <1>1, <4>1, <4>2
      <4>4. Stream'[k - h] = Stream[k]
        BY <4>3 DEF h
      <4> QED BY <2>3, <4>3, <4>4
    <3> QED BY <1>1, <3>1, <3>2
  <2>4. ASSUME NEW g \in DOMAIN script
        PROVE  \/ \E i \in DOMAIN dispatched : dispatched[i] = g
               \/ \E k \in 1..Total' : Stream'[k][1] = g
               \/ g = frame'
    BY <2>3 DEF StreamInv, Ahead
  <2> QED BY <2>2, <2>4 DEF Ahead
<1> QED BY <1>3, <1>4, <1>6, <1>7, <1>8, <1>9 DEF StreamInv

-----------------------------------------------------------------------------
(***************************************************************************)
(* A frame is dispatched, and its payload taken from behind the first Base *)
(* cells.                                                                  *)
(***************************************************************************)
LEMMA Dispatches ==
    ASSUME InputTypeOK, Accepted, StreamInv, Once, pc \in {"payload", "waitpayload"},
           Total' = Total - script[frame].len,
           \A k \in 1..Total' :
              Stream'[k] = IF k <= Base THEN Stream[k] ELSE Stream[k + script[frame].len],
           dispatched' = Append(dispatched, frame), UNCHANGED <<script, synced>>,
           pc' \in {"header", "waitheader"}
    PROVE  StreamInv' /\ Once'
<1>0. PICK b \in Nat : b = Base
    BY StreamType DEF Base
<1> DEFINE n == script[frame].len
<1>1. /\ Total \in Nat /\ b \in Nat /\ n \in Nat /\ frame \in Nat /\ frame \in DOMAIN script
      /\ Len(buf) \in Nat
    BY StreamType, ScriptType DEF Accepted, Base
<1>2. /\ b + n <= Total
      /\ \A k \in 1..(Total - b) : IF k <= n THEN Stream[b + k] = <<frame, HeaderLen + k>>
                                   ELSE Stream[b + k][1] > frame
      /\ b + n < Total => Stream[b + n + 1][2] = 1
      /\ \A i \in DOMAIN dispatched : dispatched[i] # frame
    BY <1>0 DEF StreamInv, Current
<1>3. \A i \in 1..b : i + Rest[i] <= b /\ Stream[i][1] < frame
    BY <1>0 DEF StreamInv, Closed, Base
<1>4. Runs /\ Starts(b) /\ Total' = Total - n /\ Total' \in Nat /\ Base' = 0 /\ UNCHANGED script
      /\ \A k \in 1..Total' : Stream'[k] = IF k <= b THEN Stream[k] ELSE Stream[k + n]
  <2>1. Runs /\ Starts(b) /\ Base' = 0
    BY <1>0 DEF StreamInv, Base
  <2>2. \A k \in 1..Total' : Stream'[k] = IF k <= b THEN Stream[k] ELSE Stream[k + n]
    BY <1>0
  <2> QED BY <1>1, <1>2, <2>1, <2>2
<1> HIDE DEF n
<1>5. Runs' /\ Starts(b)'
    BY <1>1, <1>2, <1>3, <1>4, CutRuns
<1>6. b + 1 <= Total' => Stream'[b + 1][2] = 1
  <2> SUFFICES ASSUME b + 1 <= Total' PROVE Stream'[b + 1][2] = 1
    OBVIOUS
  <2>1. b + 1 \in 1..Total' /\ ~ (b + 1 <= b) /\ (b + 1) + n = b + n + 1 /\ b + n < Total
    <3>1. Total' = Total - n /\ Total' \in Nat /\ n \in Nat /\ Total \in Nat
        BY <1>1, <1>4
    <3>2. b + 1 \in 1..Total' /\ ~ (b + 1 <= b)
        BY <3>1
    <3>3. (b + 1) + n = b + n + 1
        BY <3>1
    <3>4. b + n < Total
        BY <3>1
    <3> QED BY <3>2, <3>3, <3>4
  <2>2. Stream'[b + 1] = Stream[b + n + 1]
    BY <1>4, <2>1
  <2> QED BY <1>2, <2>1, <2>2
<1>7. Starts(Base)'
  <2> SUFFICES ASSUME NEW i \in 1..Total', i + Rest'[i] + 1 <= Total'
               PROVE  Stream'[i + Rest'[i] + 1][2] = 1
    BY <1>4 DEF Starts
  <2>1. CASE i + Rest'[i] + 1 = b + 1
    BY <1>6, <2>1
  <2>2. CASE i + Rest'[i] + 1 # b + 1
    BY <1>5, <2>2 DEF Starts
  <2> QED BY <2>1, <2>2
<1>8. Fresh'
  <2> SUFFICES ASSUME Total' > 0 PROVE Stream'[1][2] = 1
    BY DEF Fresh
  <2>1. CASE b = 0
    BY <1>4, <1>6, <2>1
  <2>2. CASE b # 0
    <3>1. 1 \in 1..Total' /\ 1 <= b /\ Total > 0
        BY <1>1, <1>4, <2>2
    <3>2. Stream'[1] = Stream[1]
        BY <1>4, <3>1
    <3>3. Stream[1][2] = 1
        BY <1>0, <1>1, <3>1 DEF StreamInv, Fresh
    <3> QED BY <3>2, <3>3
  <2> QED BY <2>1, <2>2
<1>9. Current' /\ Closed'
    BY DEF Current, Closed
<1>10. /\ dispatched \in Seq(Nat) /\ Len(dispatched) \in Nat /\ DOMAIN dispatched = 1..Len(dispatched)
       /\ DOMAIN dispatched' = 1..(Len(dispatched) + 1)
       /\ dispatched'[Len(dispatched) + 1] = frame
       /\ \A i \in DOMAIN dispatched : dispatched'[i] = dispatched[i] /\ i \in DOMAIN dispatched'
       /\ \A i \in DOMAIN dispatched' : i \in DOMAIN dispatched \/ i = Len(dispatched) + 1
  <2>1. dispatched \in Seq(Nat)
    BY DEF InputTypeOK
  <2> QED BY <1>1, <2>1
<1>11. Once'
  <2>1. synced' /\ \A i \in DOMAIN dispatched' : dispatched'[i] \in DOMAIN script'
    BY <1>1, <1>10 DEF Once
  <2>2. ASSUME NEW i \in DOMAIN dispatched', NEW j \in DOMAIN dispatched', dispatched'[i] = dispatched'[j]
        PROVE  i = j
    BY <1>2, <1>10, <2>2 DEF Once
  <2> QED BY <2>1, <2>2 DEF Once
<1>12. ASSUME NEW k \in 1..Total'
       PROVE  Stream'[k][1] # frame /\ \E j \in 1..Total : Stream'[k] = Stream[j]
  <2>1. CASE k <= b
    <3>1. k \in 1..b /\ k \in 1..Total /\ Stream'[k] = Stream[k]
        BY <1>1, <1>4, <2>1
    <3>2. Stream[k][1] < frame /\ Stream[k][1] \in DOMAIN script
        BY <1>3, <1>4, <3>1 DEF Runs
    <3>3. Stream[k][1] \in Nat
        BY <3>2, ScriptType
    <3> QED BY <1>1, <3>1, <3>2, <3>3
  <2>2. CASE ~ (k <= b)
    <3>1. /\ k + n \in 1..Total /\ Stream'[k] = Stream[k + n]
          /\ (k + n) - b \in 1..(Total - b) /\ ~ ((k + n) - b <= n) /\ b + ((k + n) - b) = k + n
        BY <1>1, <1>4, <2>2
    <3>2. Stream[k + n][1] > frame /\ Stream[k + n][1] \in DOMAIN script
        BY <1>2, <1>4, <3>1 DEF Runs
    <3>3. Stream[k + n][1] \in Nat
        BY <3>2, ScriptType
    <3> QED BY <1>1, <3>1, <3>2, <3>3
  <2> QED BY <2>1, <2>2
<1>13. ASSUME NEW g \in DOMAIN script, NEW k \in 1..Total, Stream[k][1] = g, g # frame
       PROVE  \E j \in 1..Total' : Stream'[j][1] = g
  <2>1. CASE k <= b
    <3>1. k \in 1..Total' /\ Stream'[k] = Stream[k]
        BY <1>1, <1>2, <1>4, <2>1
    <3> QED BY <1>13, <3>1
  <2>2. CASE ~ (k <= b)
    <3>1. k - b \in 1..(Total - b) /\ b + (k - b) = k
        BY <1>1, <2>2
    <3>2. ~ (k - b <= n)
        BY <1>2, <1>13, <3>1
    <3>3. k - n \in 1..Total' /\ ~ (k - n <= b) /\ (k - n) + n = k
        BY <1>1, <1>4, <3>1, <3>2
    <3>4. Stream'[k - n] = Stream[k]
        BY <1>4, <3>3
    <3> QED BY <1>13, <3>3, <3>4
  <2> QED BY <2>1, <2>2
<1>14. Ahead'
  <2>1. \A i \in DOMAIN dispatched', k \in 1..Total' : dispatched'[i] # Stream'[k][1]
    BY <1>10, <1>12 DEF StreamInv, Ahead
  <2>2. ASSUME NEW g \in DOMAIN script
        PROVE  \/ \E i \in DOMAIN dispatched' : dispatched'[i] = g
               \/ \E k \in 1..Total' : Stream'[k][1] = g
    <3>1. CASE \E i \in DOMAIN dispatched : dispatched[i] = g
        BY <1>10, <3>1
    <3>2. CASE g = frame
      <4>1. Len(dispatched) + 1 \in DOMAIN dispatched'
        BY <1>10
      <4> QED BY <1>10, <3>2, <4>1
    <3>3. CASE g # frame /\ \E k \in 1..Total : Stream[k][1] = g
        BY <1>13, <3>3
    <3> QED BY <3>1, <3>2, <3>3 DEF StreamInv, Ahead
  <2> QED BY <2>1, <2>2 DEF Ahead
<1> QED BY <1>5, <1>7, <1>8, <1>9, <1>11, <1>14 DEF StreamInv

-----------------------------------------------------------------------------
(***************************************************************************)
(* The client sends a frame: its cells come behind all the others.         *)
(***************************************************************************)
LEMMA InitInput == Init => NInv
<1> SUFFICES ASSUME Init PROVE NInv
    OBVIOUS
<1>1. /\ script = <<>> /\ sock = <<>> /\ buf = <<>> /\ off = 0 /\ pc = "start"
      /\ dispatched = <<>> /\ synced /\ ~ torn
    BY DEF Init
<1>2. InputTypeOK
  <2>1. script \in Seq([kind : Kinds, len : Nat]) /\ sock \in Seq(Cell) /\ buf \in Seq(Cell)
        /\ dispatched \in Seq(Nat) /\ off \in Nat
    BY <1>1
  <2>2. pc \in {"start", "header", "payload", "waitheader", "waitpayload", "ended"}
    BY <1>1
  <2>3. torn \in BOOLEAN
    BY DEF Init
  <2> QED BY <2>1, <2>2, <2>3, Zenon DEF InputTypeOK
<1>3. Total = 0 /\ DOMAIN dispatched = {} /\ DOMAIN script = {}
    BY <1>1 DEF Total
<1>4. Accepted /\ Fits /\ AtStart
    BY <1>1, InputAssumption DEF Accepted, Fits, AtStart
<1>5. Once /\ Whole
    BY <1>1, <1>3 DEF Once, Whole
<1>6. StreamInv
    BY <1>1, <1>3 DEF StreamInv, Runs, Starts, Fresh, Current, Closed, Ahead
<1> QED BY <1>2, <1>4, <1>5, <1>6 DEF NInv, Untorn

\* What a frame the client adds leaves as it was, and how the stream grows.
LEMMA SendStream ==
    ASSUME InputTypeOK, NEW kind \in Kinds, NEW len \in Nat, ClientSends(kind, len)
    PROVE  /\ script' \in Seq([kind : Kinds, len : Nat]) /\ sock' \in Seq(Cell)
           /\ DOMAIN script' = DOMAIN script \cup {Len(script) + 1}
           /\ script'[Len(script) + 1].len = len
           /\ \A f \in DOMAIN script : script'[f] = script[f] /\ f < Len(script) + 1
           /\ Total' = Total + (HeaderLen + len)
           /\ \A k \in 1..Total : Stream'[k] = Stream[k]
           /\ \A k \in 1..(HeaderLen + len) : Stream'[Total + k] = <<Len(script) + 1, k>>
           /\ UNCHANGED <<buf, off, pc, frame, depth, dispatched, payload, synced, torn>>
<1> DEFINE g == Len(script) + 1
           r == [kind |-> kind, len |-> len]
           R == [kind : Kinds, len : Nat]
           c == Cells(g, len)
           n == HeaderLen + len
<1>1. /\ script' = Append(script, r) /\ sock' = sock \o c
      /\ UNCHANGED <<buf, off, pc, frame, depth, dispatched, payload, synced, torn>>
    BY DEF ClientSends
<1>2. script \in Seq(R) /\ Len(script) \in Nat /\ g \in Nat /\ r \in R /\ r.len = len
      /\ DOMAIN script = 1..Len(script) /\ n \in Nat
    BY ScriptType, StreamType DEF InputTypeOK, HeaderLen
<1>3. /\ script' \in Seq(R) /\ Len(script') = g /\ script'[g] = r
      /\ DOMAIN script' = 1..g /\ \A f \in 1..Len(script) : script'[f] = script[f]
  <2> HIDE DEF R, r
  <2> QED BY <1>1, <1>2
<1>4. c \in Seq(Cell) /\ Len(c) = n /\ \A k \in 1..n : c[k] = <<g, k>>
  <2>1. c = [i \in 1..n |-> <<g, i>>]
    BY DEF Cells
  <2> HIDE DEF c, n, g
  <2> QED BY <1>2, <2>1 DEF Cell
<1>5. sock \in Seq(Cell) /\ Len(sock) \in Nat /\ Len(buf) \in Nat /\ Total \in Nat
      /\ Total = Len(buf) + Len(sock)
    BY StreamType DEF InputTypeOK
<1> HIDE DEF c, n, g, r, R
<1>6. /\ sock \o c \in Seq(Cell) /\ Len(sock \o c) = Len(sock) + Len(c)
      /\ \A k \in 1..Len(sock) : (sock \o c)[k] = sock[k]
      /\ \A k \in 1..Len(c) : (sock \o c)[Len(sock) + k] = c[k]
  <2>1. sock \in Seq(Cell) /\ c \in Seq(Cell)
    BY <1>4, <1>5
  <2> QED BY <2>1, Concatenated
<1>7. \A k \in 1..n : (sock \o c)[Len(sock) + k] = <<g, k>>
    BY <1>4, <1>6, Zenon
<1>8. /\ sock' \in Seq(Cell) /\ Len(sock') = Len(sock) + n
      /\ \A k \in 1..Len(sock) : sock'[k] = sock[k]
      /\ \A k \in 1..n : sock'[Len(sock) + k] = <<g, k>>
    BY <1>1, <1>4, <1>6, <1>7, Zenon
<1>9. Total' = Total + n /\ Total' \in Nat
  <2>1. Total' = Len(buf') + Len(sock')
    BY DEF Total
  <2> QED BY <1>1, <1>2, <1>5, <1>8, <2>1
<1>10. \A k \in 1..Total : Stream'[k] = Stream[k]
    BY <1>1, <1>2, <1>5, <1>8, <1>9 DEF Stream
<1>11. ASSUME NEW k \in 1..n PROVE Stream'[Total + k] = <<g, k>>
  <2>1. /\ Total + k \in 1..Total' /\ ~ (Total + k <= Len(buf'))
        /\ (Total + k) - Len(buf') = Len(sock) + k
    BY <1>1, <1>2, <1>5, <1>9
  <2>2. Stream'[Total + k] = sock'[(Total + k) - Len(buf')]
    BY <2>1, Zenon DEF Stream
  <2> QED BY <1>8, <2>1, <2>2, Zenon
<1>12. DOMAIN script' = DOMAIN script \cup {g}
    BY <1>2, <1>3 DEF g
<1> QED BY <1>1, <1>2, <1>3, <1>8, <1>9, <1>10, <1>11, <1>12 DEF g, n, r, R

LEMMA SendInput ==
    ASSUME NInv, NEW kind \in Kinds, NEW len \in 0..(MaxRx + 1), ClientSends(kind, len)
    PROVE  NInv'
<1> DEFINE g == Len(script) + 1
           n == HeaderLen + len
<1>1. InputTypeOK /\ len \in Nat
    BY InputAssumption DEF NInv
<1>2. /\ script' \in Seq([kind : Kinds, len : Nat]) /\ sock' \in Seq(Cell)
      /\ DOMAIN script' = DOMAIN script \cup {g}
      /\ script'[g].len = len
      /\ \A f \in DOMAIN script : script'[f] = script[f] /\ f < g
      /\ Total' = Total + n
      /\ \A k \in 1..Total : Stream'[k] = Stream[k]
      /\ \A k \in 1..n : Stream'[Total + k] = <<g, k>>
      /\ UNCHANGED <<buf, off, pc, frame, depth, dispatched, payload, synced, torn>>
    BY <1>1, SendStream
<1>3. /\ Total \in Nat /\ Total' \in Nat /\ n \in Nat /\ n >= 2 /\ g \in Nat /\ n = 2 + len
      /\ 1 \in 1..n /\ \A f \in DOMAIN script : f \in Nat /\ script[f].len \in Nat
    BY <1>1, <1>2, StreamType, ScriptType DEF HeaderLen
<1> HIDE DEF n, g
<1>4. InputTypeOK'
    BY <1>1, <1>2 DEF InputTypeOK
<1>5. Accepted' /\ Fits' /\ AtStart'
    BY <1>2 DEF NInv, Accepted, Fits, AtStart
<1>6. ASSUME Once, Whole PROVE Once' /\ Whole'
  <2>1. Once'
    BY <1>2, <1>6 DEF Once
  <2>2. ASSUME dispatched # <<>> PROVE dispatched[Len(dispatched)] \in DOMAIN script
    <3>1. dispatched \in Seq(Nat)
        BY <1>1 DEF InputTypeOK
    <3>2. Len(dispatched) \in DOMAIN dispatched
        BY <2>2, <3>1
    <3> QED BY <1>6, <3>2 DEF Once
  <2>3. Whole'
    BY <1>2, <1>6, <2>2 DEF Whole
  <2> QED BY <2>1, <2>3
<1>7. ASSUME Once, pc # "ended", StreamInv PROVE StreamInv'
  <2>1. \A k \in 1..Total' : k \in 1..Total \/ \E j \in 1..n : k = Total + j
    <3> SUFFICES ASSUME NEW k \in 1..Total', ~ (k \in 1..Total) PROVE \E j \in 1..n : k = Total + j
        OBVIOUS
    <3>1. k - Total \in 1..n /\ k = Total + (k - Total)
        BY <1>2, <1>3
    <3> QED BY <3>1
  <2>2. ASSUME NEW i \in 1..Total
        PROVE  /\ i \in 1..Total' /\ Stream'[i] = Stream[i] /\ Rest'[i] = Rest[i]
               /\ Stream[i][1] \in DOMAIN script /\ Stream[i][1] < g /\ Stream[i][1] \in Nat
               /\ Rest[i] \in Nat /\ i + Rest[i] <= Total
    <3>1. i \in 1..Total' /\ Stream'[i] = Stream[i] /\ Stream[i][1] \in DOMAIN script
          /\ Rest[i] \in Nat /\ i + Rest[i] <= Total
        BY <1>2, <1>3, <1>7 DEF StreamInv, Runs
    <3>2. Rest'[i] = Rest[i]
        BY <1>2, <3>1 DEF Rest
    <3> QED BY <1>2, <1>3, <3>1, <3>2
  <2>3. ASSUME NEW k \in 1..n
        PROVE  Total + k \in 1..Total' /\ Stream'[Total + k] = <<g, k>> /\ Rest'[Total + k] = n - k
    <3>1. Total + k \in 1..Total' /\ Stream'[Total + k] = <<g, k>>
      <4>1. Total' = Total + n /\ Total \in Nat /\ n \in Nat
        BY <1>2, <1>3
      <4>2. Total + k \in 1..Total'
        BY <4>1
      <4> QED BY <1>2, <4>2
    <3>2. Rest'[Total + k] = (HeaderLen + script'[Stream'[Total + k][1]].len) - Stream'[Total + k][2]
        BY <3>1 DEF Rest
    <3>3. Stream'[Total + k][1] = g /\ Stream'[Total + k][2] = k
        BY <3>1
    <3> QED BY <1>2, <3>1, <3>2, <3>3 DEF n
  <2>4. ASSUME NEW i \in 1..Total'
        PROVE  /\ Stream'[i][1] \in DOMAIN script' /\ Stream'[i][2] \in Nat \ {0}
               /\ Rest'[i] \in Nat /\ i + Rest'[i] <= Total'
               /\ \A j \in i..Total' :
                    IF j <= i + Rest'[i]
                    THEN Stream'[j] = <<Stream'[i][1], Stream'[i][2] + (j - i)>>
                    ELSE Stream'[j][1] > Stream'[i][1]
    <3>1. CASE i \in 1..Total
      <4>1. /\ Stream'[i] = Stream[i] /\ Rest'[i] = Rest[i] /\ Stream[i][1] \in DOMAIN script
            /\ Stream[i][1] < g /\ Stream[i][1] \in Nat
            /\ Rest[i] \in Nat /\ i + Rest[i] <= Total /\ Stream[i][2] \in Nat \ {0}
        BY <1>7, <2>2, <3>1 DEF StreamInv, Runs
      <4>2. ASSUME NEW j \in i..Total'
            PROVE  IF j <= i + Rest'[i]
                   THEN Stream'[j] = <<Stream'[i][1], Stream'[i][2] + (j - i)>>
                   ELSE Stream'[j][1] > Stream'[i][1]
        <5>1. CASE j \in 1..Total
          <6>1. j \in i..Total /\ Stream'[j] = Stream[j]
            BY <1>2, <5>1
          <6>2. IF j <= i + Rest[i] THEN Stream[j] = <<Stream[i][1], Stream[i][2] + (j - i)>>
                ELSE Stream[j][1] > Stream[i][1]
            BY <1>7, <3>1, <6>1 DEF StreamInv, Runs
          <6> QED BY <4>1, <6>1, <6>2
        <5>2. CASE ~ (j \in 1..Total)
          <6>1. j \in 1..Total' /\ j > Total /\ ~ (j <= i + Rest'[i])
            BY <1>3, <3>1, <4>1, <5>2
          <6>2. PICK k \in 1..n : j = Total + k
            BY <2>1, <5>2, <6>1
          <6>3. Stream'[j] = <<g, k>>
            BY <1>2, <6>2
          <6> QED BY <1>3, <4>1, <6>1, <6>3
        <5> QED BY <5>1, <5>2
      <4> QED BY <1>2, <1>3, <4>1, <4>2
    <3>2. CASE ~ (i \in 1..Total)
      <4>1. PICK k \in 1..n : i = Total + k
        BY <2>1, <3>2
      <4>2. Stream'[i] = <<g, k>> /\ Rest'[i] = n - k
        BY <2>3, <4>1
      <4>3. Rest'[i] \in Nat /\ i + Rest'[i] = Total'
        BY <1>2, <1>3, <4>1, <4>2
      <4>4. ASSUME NEW j \in i..Total' PROVE j <= i + Rest'[i] /\ Stream'[j] = <<g, k + (j - i)>>
        <5>1. j - Total \in 1..n /\ j = Total + (j - Total) /\ j - Total = k + (j - i) /\ j <= i + Rest'[i]
            BY <1>2, <1>3, <4>1, <4>3
        <5>2. Stream'[Total + (j - Total)] = <<g, j - Total>>
            BY <1>2, <5>1
        <5> QED BY <5>1, <5>2
      <4>5. g \in DOMAIN script' /\ k \in Nat \ {0}
        BY <1>2
      <4> QED BY <4>2, <4>3, <4>4, <4>5
    <3> QED BY <3>1, <3>2
  <2>5. Runs'
    BY <2>4 DEF Runs
  <2>6. Base' = Base /\ Base \in Nat /\ Base <= Total /\ Len(buf) <= Total
    BY <1>1, <1>2, StreamType DEF Base
  <2>7. Total + 1 \in 1..Total' /\ Stream'[Total + 1] = <<g, 1>>
    BY <1>3, <2>3
  <2>8. Starts(Base)'
    <3> SUFFICES ASSUME NEW i \in 1..Total', i + Rest'[i] + 1 <= Total', i + Rest'[i] + 1 # Base + 1
                 PROVE  Stream'[i + Rest'[i] + 1][2] = 1
        BY <2>6 DEF Starts
    <3>1. CASE i \in 1..Total
      <4> DEFINE e == i + Rest[i] + 1
      <4>1. Rest'[i] = Rest[i] /\ Rest[i] \in Nat /\ i + Rest[i] <= Total
        BY <2>2, <3>1
      <4>2. CASE e <= Total
        <5>1. Stream[e][2] = 1
            BY <1>7, <3>1, <4>1, <4>2 DEF StreamInv, Starts
        <5>2. e \in 1..Total
            BY <1>3, <4>1, <4>2
        <5>3. Stream'[e] = Stream[e]
            BY <1>2, <5>2
        <5> QED BY <4>1, <5>1, <5>3
      <4>3. CASE ~ (e <= Total)
        <5>1. e = Total + 1
            BY <1>3, <4>1, <4>3
        <5> QED BY <2>7, <4>1, <5>1
      <4> QED BY <4>2, <4>3
    <3>2. CASE ~ (i \in 1..Total)
      <4>1. PICK k \in 1..n : i = Total + k
        BY <2>1, <3>2
      <4>2. Rest'[i] = n - k
        BY <2>3, <4>1
      <4> QED BY <1>2, <1>3, <4>1, <4>2
    <3> QED BY <3>1, <3>2
  <2>9. Fresh'
    <3>1. CASE Total = 0
        BY <2>7, <3>1 DEF Fresh
    <3>2. CASE Total # 0
      <4>1. Stream'[1] = Stream[1] /\ Total > 0
        BY <1>2, <1>3, <3>2
      <4> QED BY <1>2, <1>7, <2>6, <4>1 DEF StreamInv, Fresh
    <3> QED BY <3>1, <3>2
  <2>10. Current'
    <3> SUFFICES ASSUME pc \in {"payload", "waitpayload"} PROVE Current'
        BY <1>2 DEF Current
    <3>0. PICK b \in Nat : b = Base
        BY <2>6
    <3> DEFINE m == script[frame].len
    <3>1. /\ frame \in DOMAIN script /\ frame' = frame /\ script'[frame'].len = m /\ m \in Nat
          /\ frame < g /\ frame \in Nat
        BY <1>2, <1>3 DEF NInv, Accepted
    <3>2. /\ b + m <= Total
          /\ \A k \in 1..(Total - b) : IF k <= m THEN Stream[b + k] = <<frame, HeaderLen + k>>
                                       ELSE Stream[b + k][1] > frame
          /\ b + m < Total => Stream[b + m + 1][2] = 1
          /\ \A i \in DOMAIN dispatched : dispatched[i] # frame
        BY <1>7, <3>0 DEF StreamInv, Current
    <3>3. b \in Nat /\ b <= Total /\ Base' = b
        BY <2>6, <3>0
    <3> HIDE DEF m
    <3>4. ASSUME NEW k \in 1..(Total' - b)
          PROVE  IF k <= m THEN Stream'[b + k] = <<frame, HeaderLen + k>> ELSE Stream'[b + k][1] > frame
      <4>1. CASE b + k \in 1..Total
        <5>1. k \in 1..(Total - b) /\ Stream'[b + k] = Stream[b + k]
            BY <1>2, <1>3, <3>3, <4>1
        <5> QED BY <3>2, <5>1
      <4>2. CASE ~ (b + k \in 1..Total)
        <5>1. b + k \in 1..Total' /\ ~ (k <= m)
          <6>1. b \in Nat /\ Total \in Nat /\ Total' \in Nat /\ m \in Nat /\ b + m <= Total
            BY <1>3, <3>1, <3>2, <3>3
          <6>2. b + k \in 1..Total'
            BY <1>2, <1>3, <6>1
          <6>3. b + k > Total
            BY <4>2, <6>1
          <6> QED BY <6>1, <6>2, <6>3
        <5>2. PICK j \in 1..n : b + k = Total + j
            BY <2>1, <4>2, <5>1
        <5>3. Stream'[b + k] = <<g, j>>
            BY <1>2, <5>2
        <5> QED BY <1>3, <3>1, <5>1, <5>3
      <4> QED BY <4>1, <4>2
    <3>5. Stream'[b + m + 1][2] = 1
      <4>1. CASE b + m < Total
        <5>1. b + m + 1 \in 1..Total
            BY <1>3, <3>1, <3>3, <4>1
        <5> QED BY <1>2, <3>2, <4>1, <5>1
      <4>2. CASE ~ (b + m < Total)
        <5>1. b + m + 1 = Total + 1
            BY <1>3, <3>1, <3>2, <3>3, <4>2
        <5> QED BY <2>7, <5>1
      <4> QED BY <4>1, <4>2
    <3>6. b + m <= Total'
        BY <1>2, <1>3, <3>1, <3>2, <3>3
    <3>7. \A i \in DOMAIN dispatched' : dispatched'[i] # frame'
        BY <1>2, <3>2
    <3>8. Current' <=>
            LET x == script'[frame'].len
            IN  /\ Base' + x <= Total'
                /\ \A k \in 1..(Total' - Base') :
                      IF k <= x THEN Stream'[Base' + k] = <<frame', HeaderLen + k>>
                      ELSE Stream'[Base' + k][1] > frame'
                /\ Base' + x < Total' => Stream'[Base' + x + 1][2] = 1
                /\ \A i \in DOMAIN dispatched' : dispatched'[i] # frame'
        BY <1>2 DEF Current
    <3> QED BY <3>1, <3>3, <3>4, <3>5, <3>6, <3>7, <3>8
  <2>11. Closed'
    <3> SUFFICES ASSUME pc = "waitpayload", NEW i \in 1..Len(buf)
                 PROVE  i + Rest'[i] <= Len(buf) /\ Stream'[i][1] < frame
        BY <1>2 DEF Closed
    <3>1. i \in 1..Total
        BY <1>1, StreamType
    <3>2. Stream'[i] = Stream[i] /\ Rest'[i] = Rest[i]
        BY <2>2, <3>1
    <3> QED BY <1>7, <3>2 DEF StreamInv, Closed
  <2>12. Ahead'
    <3>1. ASSUME NEW i \in DOMAIN dispatched, NEW k \in 1..Total' PROVE dispatched[i] # Stream'[k][1]
      <4>1. CASE k \in 1..Total
        BY <1>2, <1>7, <4>1 DEF StreamInv, Ahead
      <4>2. CASE ~ (k \in 1..Total)
        <5>1. PICK j \in 1..n : k = Total + j
            BY <2>1, <4>2
        <5>2. Stream'[k] = <<g, j>>
            BY <1>2, <5>1
        <5>3. dispatched[i] \in DOMAIN script
            BY <1>7 DEF Once
        <5>4. dispatched[i] < g /\ dispatched[i] \in Nat
            BY <1>2, <1>3, <5>3
        <5> QED BY <1>3, <5>2, <5>4
      <4> QED BY <4>1, <4>2
    <3>2. ASSUME NEW f \in DOMAIN script'
          PROVE  \/ \E i \in DOMAIN dispatched : dispatched[i] = f
                 \/ \E k \in 1..Total' : Stream'[k][1] = f
                 \/ pc \in {"payload", "waitpayload"} /\ f = frame
      <4>1. CASE f = g
        BY <2>7, <4>1
      <4>2. CASE f \in DOMAIN script /\ \E k \in 1..Total : Stream[k][1] = f
        BY <2>2, <4>2
      <4>3. CASE f \in DOMAIN script /\ ~ \E k \in 1..Total : Stream[k][1] = f
        BY <1>7, <4>3 DEF StreamInv, Ahead
      <4> QED BY <1>2, <4>1, <4>2, <4>3
    <3> QED BY <1>2, <3>1, <3>2 DEF Ahead
  <2> QED BY <2>5, <2>8, <2>9, <2>10, <2>11, <2>12 DEF StreamInv
<1>8. ~ torn' => Untorn'
    BY <1>2, <1>6, <1>7 DEF NInv, Untorn
<1> QED BY <1>4, <1>5, <1>8 DEF NInv

-----------------------------------------------------------------------------
(***************************************************************************)
(* The frame loop's reads.                                                 *)
(***************************************************************************)
LEMMA KeepsOnce ==
    ASSUME UNCHANGED <<script, dispatched, payload, synced>>
    PROVE  (Once => Once') /\ (Whole => Whole')
BY DEF Once, Whole

LEMMA Moves ==
    ASSUME InputTypeOK, NEW n \in 0..Len(sock), buf' = buf \o Take(sock, n), sock' = Drop(sock, n)
    PROVE  /\ buf' \in Seq(Cell) /\ Len(buf') = Len(buf) + n /\ sock' \in Seq(Cell)
           /\ Total' = Total /\ Stream' = Stream
<1> DEFINE d == Take(sock, n)
<1>1. sock \in Seq(Cell) /\ buf \in Seq(Cell) /\ Len(sock) \in Nat /\ Len(buf) \in Nat
    BY StreamType DEF InputTypeOK
<1>2. d \in Seq(Cell) /\ Len(d) = n /\ \A k \in 1..n : d[k] = sock[k]
    BY <1>1, TakeShape
<1>3. /\ sock' \in Seq(Cell) /\ Len(sock') = Len(sock) - n
      /\ \A k \in 1..(Len(sock) - n) : sock'[k] = sock[n + k]
    BY <1>1, DropShape
<1>4. buf' = buf \o d
    OBVIOUS
<1> HIDE DEF d
<1>5. /\ buf \o d \in Seq(Cell) /\ Len(buf \o d) = Len(buf) + Len(d)
      /\ \A k \in 1..Len(buf) : (buf \o d)[k] = buf[k]
      /\ \A k \in 1..Len(d) : (buf \o d)[Len(buf) + k] = d[k]
  <2>1. \A s, t \in Seq(Cell) :
          /\ s \o t \in Seq(Cell) /\ Len(s \o t) = Len(s) + Len(t)
          /\ \A k \in 1..Len(s) : (s \o t)[k] = s[k]
          /\ \A k \in 1..Len(t) : (s \o t)[Len(s) + k] = t[k]
    BY Concatenated
  <2> QED BY <1>1, <1>2, <2>1, Zenon
<1>6. /\ buf' \in Seq(Cell) /\ Len(buf') = Len(buf) + n
      /\ \A k \in 1..Len(buf) : buf'[k] = buf[k]
      /\ \A k \in 1..n : buf'[Len(buf) + k] = sock[k]
    BY <1>2, <1>4, <1>5, Zenon
<1>7. Total' = Total /\ Stream' = Stream
    BY <1>3, <1>6, ReadKeepsStream
<1> QED BY <1>3, <1>6, <1>7

\* A read by the frame loop changes nothing that the stream says.
LEMMA Refilled ==
    ASSUME Untorn, UNCHANGED <<script, frame, dispatched, payload, synced>>,
           Total' = Total, Stream' = Stream,
           \/ pc = "start" /\ pc' = "header"
           \/ pc \in {"header", "payload"} /\ pc' = pc
    PROVE  Untorn'
<1>1. StreamInv /\ Base = 0 /\ Base' = 0 /\ Rest' = Rest /\ pc' # "ended"
    BY DEF Untorn, Base, Rest
<1>2. Once' /\ Whole'
    BY KeepsOnce DEF Untorn
<1>3. Runs' /\ Starts(Base)'
    BY <1>1 DEF StreamInv, Runs, Starts
<1>4. Fresh' /\ Closed' /\ Ahead'
    BY <1>1 DEF StreamInv, Fresh, Closed, Ahead
<1>5. Current'
    BY <1>1 DEF StreamInv, Current
<1> QED BY <1>1, <1>2, <1>3, <1>4, <1>5 DEF Untorn, StreamInv

LEMMA FirstReadInput ==
    ASSUME NInv, NEW k \in 0..BufSize, FirstRead(k)
    PROVE  NInv'
<1>1. /\ pc = "start" /\ pc' = "header" /\ k <= Len(sock) /\ off' = 0
      /\ buf' = Take(sock, k) /\ sock' = Drop(sock, k)
      /\ UNCHANGED <<script, frame, depth, dispatched, payload, synced, torn>>
    BY DEF FirstRead
<1>2. InputTypeOK /\ buf = <<>> /\ Len(sock) \in Nat /\ sock \in Seq(Cell) /\ BufSize \in Nat
    BY <1>1, InputAssumption, StreamType DEF NInv, AtStart, InputTypeOK
<1>3. k \in 0..Len(sock) /\ Len(buf) = 0
    BY <1>1, <1>2
<1>4. buf' = buf \o Take(sock, k)
  <2>1. Take(sock, k) \in Seq(Cell)
    BY <1>2, <1>3, TakeShape
  <2> QED BY <1>1, <1>2, <2>1
<1>5. /\ buf' \in Seq(Cell) /\ Len(buf') = Len(buf) + k /\ sock' \in Seq(Cell)
      /\ Total' = Total /\ Stream' = Stream
    BY <1>1, <1>2, <1>3, <1>4, Moves
<1>6. InputTypeOK' /\ AtStart' /\ Accepted'
    BY <1>1, <1>2, <1>5 DEF InputTypeOK, AtStart, Accepted
<1>7. Fits'
    BY <1>1, <1>2, <1>3, <1>5 DEF Fits
<1>8. ~ torn' => Untorn'
    BY <1>1, <1>5, Refilled DEF NInv
<1> QED BY <1>6, <1>7, <1>8 DEF NInv

\* The loop reads what is missing of n cells.
LEMMA RefillInput ==
    ASSUME NInv, NEW n \in Nat, n <= BufSize, Refill(n), pc \in {"header", "payload"},
           UNCHANGED <<script, pc, frame, depth, dispatched, payload, synced, torn>>
    PROVE  NInv'
<1> DEFINE m == n - Len(buf)
<1>1. Len(buf) < n /\ m <= Len(sock) /\ buf' = buf \o Take(sock, m) /\ sock' = Drop(sock, m) /\ off' = 0
    BY DEF Refill
<1>2. InputTypeOK /\ Len(sock) \in Nat /\ Len(buf) \in Nat /\ BufSize \in Nat
    BY InputAssumption, StreamType DEF NInv
<1>3. m \in 0..Len(sock) /\ Len(buf) + m = n
    BY <1>1, <1>2
<1> HIDE DEF m
<1>4. /\ buf' \in Seq(Cell) /\ Len(buf') = Len(buf) + m /\ sock' \in Seq(Cell)
      /\ Total' = Total /\ Stream' = Stream
    BY <1>1, <1>2, <1>3, Moves
<1>5. InputTypeOK' /\ AtStart' /\ Accepted'
  <2>1. off' \in Nat
    BY <1>1
  <2> QED BY <1>2, <1>4, <2>1 DEF InputTypeOK, AtStart, Accepted, NInv
<1>6. Fits'
    BY <1>1, <1>2, <1>3, <1>4 DEF Fits
<1>7. ~ torn' => Untorn'
    BY <1>4, Refilled DEF NInv
<1> QED BY <1>5, <1>6, <1>7 DEF NInv

LEMMA LoopRefillInput == NInv /\ (LoopRefillHeader \/ LoopRefillPayload) => NInv'
<1>1. ASSUME NInv, LoopRefillHeader PROVE NInv'
  <2>1. HeaderLen \in Nat /\ HeaderLen <= BufSize
    BY InputAssumption DEF HeaderLen
  <2> QED BY <1>1, <2>1, RefillInput DEF LoopRefillHeader
<1>2. ASSUME NInv, LoopRefillPayload PROVE NInv'
  <2> DEFINE n == script[frame].len
  <2>1. pc = "payload" /\ Refill(n)
        /\ UNCHANGED <<script, pc, frame, depth, dispatched, payload, synced, torn>>
    BY <1>2 DEF LoopRefillPayload
  <2>2. n \in Nat /\ n <= MaxRx
    BY <1>2, <2>1, ScriptType DEF NInv, Accepted
  <2>3. n <= BufSize
    BY <2>2, InputAssumption
  <2> HIDE DEF n
  <2> QED BY <1>2, <2>1, <2>2, <2>3, RefillInput
<1> QED BY <1>1, <1>2

-----------------------------------------------------------------------------
(***************************************************************************)
(* Headers.                                                                *)
(***************************************************************************)
LEMMA HeaderIs ==
    ASSUME InputTypeOK, NEW s \in Seq(Cell), Len(s) >= HeaderLen, NEW f \in DOMAIN script,
           s[1] = <<f, 1>>, s[2] = <<f, 2>>
    PROVE  IsHeader(Take(s, HeaderLen))
<1> DEFINE c == Cells(f, 0)
<1>1. f \in Nat /\ HeaderLen = 2 /\ Len(s) \in Nat
    BY ScriptType DEF HeaderLen
<1>2. c = [i \in 1..2 |-> <<f, i>>]
    BY <1>1 DEF Cells
<1>3. c \in Seq(Cell) /\ Len(c) = 2 /\ c[1] = <<f, 1>> /\ c[2] = <<f, 2>>
  <2> HIDE DEF c
  <2> QED BY <1>1, <1>2 DEF Cell
<1> HIDE DEF c
<1>4. 2 \in 0..Len(c) /\ 2 \in 0..Len(s)
    BY <1>1, <1>3
<1>5. Take(s, 2) = [k \in 1..2 |-> s[k]] /\ Take(c, 2) = [k \in 1..2 |-> c[k]]
    BY <1>3, <1>4, TakeShape
<1>6. \A k \in 1..2 : s[k] = c[k]
  <2>1. \A k \in 1..2 : k = 1 \/ k = 2
    OBVIOUS
  <2>2. s[1] = c[1] /\ s[2] = c[2]
    BY <1>3, Zenon
  <2> QED BY <2>1, <2>2, Zenon
<1>7. Take(s, 2) = Take(c, 2)
    BY <1>5, <1>6
<1> QED BY <1>1, <1>7 DEF IsHeader, c

LEMMA HeaderNames ==
    ASSUME InputTypeOK, NEW c, IsHeader(c)
    PROVE  c[1][1] \in DOMAIN script
<1>1. PICK f \in DOMAIN script : c = Take(Cells(f, 0), HeaderLen)
    BY DEF IsHeader
<1> DEFINE d == Cells(f, 0)
<1>2. f \in Nat /\ HeaderLen = 2
    BY ScriptType DEF HeaderLen
<1>3. d = [i \in 1..2 |-> <<f, i>>]
    BY <1>2 DEF Cells
<1>4. d \in Seq(Cell) /\ Len(d) = 2 /\ d[1] = <<f, 1>>
  <2> HIDE DEF d
  <2> QED BY <1>2, <1>3 DEF Cell
<1> HIDE DEF d
<1>5. 2 \in 0..Len(d)
    BY <1>4
<1>6. Take(d, 2)[1] = d[1]
  <2>1. \A k \in 1..2 : Take(d, 2)[k] = d[k]
    BY <1>4, <1>5, TakeShape
  <2> QED BY <2>1
<1>7. c = Take(d, 2)
    BY <1>1, <1>2 DEF d
<1> QED BY <1>4, <1>6, <1>7

LEMMA LoopHeaderInput == NInv /\ LoopHeader => NInv'
<1> SUFFICES ASSUME NInv, LoopHeader PROVE NInv'
    OBVIOUS
<1> DEFINE c == Take(buf, HeaderLen)
<1>1. /\ pc = "header" /\ Len(buf) >= HeaderLen /\ buf' = Drop(buf, HeaderLen)
      /\ off' = off + HeaderLen
      /\ UNCHANGED <<script, sock, depth, dispatched, payload, torn>>
    BY DEF LoopHeader
<1>2. IF IsHeader(c)
      THEN frame' = c[1][1] /\ pc' = (IF TooBig(c) THEN "ended" ELSE "payload") /\ UNCHANGED synced
      ELSE synced' = FALSE /\ pc' = "ended"
    BY DEF LoopHeader, ParseHeader
<1>3. InputTypeOK /\ buf \in Seq(Cell) /\ Len(buf) \in Nat /\ off \in Nat /\ HeaderLen = 2
      /\ Len(buf) >= 2 /\ HeaderLen \in 0..Len(buf) /\ 1 \in 1..HeaderLen
    BY <1>1, StreamType DEF NInv, InputTypeOK, HeaderLen
<1>4. c[1] = buf[1] /\ buf[1] = Stream[1] /\ buf[2] = Stream[2] /\ Total \in Nat /\ Total >= 2
  <2>1. c[1] = buf[1]
    BY <1>3, TakeShape
  <2> QED BY <1>3, <2>1, StreamType
<1> HIDE DEF c
<1>5. /\ buf' \in Seq(Cell) /\ Len(buf') = Len(buf) - HeaderLen /\ Total' = Total - HeaderLen
      /\ \A k \in 1..Total' : Stream'[k] = Stream[k + HeaderLen]
    BY <1>1, <1>3, FromBuf
<1>6. pc' \in {"payload", "ended"}
    BY <1>2
<1>7. InputTypeOK' /\ AtStart' /\ Fits'
  <2>1. off' \in Nat /\ off' + Len(buf') = off + Len(buf)
    <3>1. off' = off + 2 /\ Len(buf') = Len(buf) - 2
        BY <1>1, <1>3, <1>5
    <3> QED BY <1>3, <3>1
  <2>2. pc' \in {"start", "header", "payload", "waitheader", "waitpayload", "ended"} /\ pc' # "start"
    BY <1>6
  <2> QED BY <1>1, <1>3, <1>5, <2>1, <2>2 DEF InputTypeOK, AtStart, Fits, NInv
<1>8. Accepted'
  <2> SUFFICES ASSUME pc' = "payload" PROVE frame' \in DOMAIN script /\ script[frame'].len <= MaxRx
    BY <1>1, <1>6 DEF Accepted
  <2>1. IsHeader(c) /\ ~ TooBig(c) /\ frame' = c[1][1]
    BY <1>2
  <2>2. frame' \in DOMAIN script
    BY <1>3, <2>1, HeaderNames
  <2>3. script[frame'].len \in Nat /\ ~ (script[frame'].len > MaxRx)
    BY <1>3, <2>1, <2>2, ScriptType DEF TooBig
  <2> QED BY <2>2, <2>3, InputAssumption
<1>9. ASSUME ~ torn PROVE Untorn'
  <2>1. Once /\ Whole /\ StreamInv
    BY <1>1, <1>9 DEF NInv, Untorn
  <2>2. Base = 0 /\ Starts(0) /\ Runs /\ Stream[0 + 1][2] = 1 /\ 0 + 1 <= Total /\ 0 \in Nat
    BY <1>1, <1>4, <2>1 DEF StreamInv, Base, Fresh
  <2> DEFINE f == Stream[0 + 1][1]
             n == script[f].len
  <2>3. /\ f \in DOMAIN script /\ n \in Nat
        /\ \A k \in 1..(Total - 0) : IF k <= HeaderLen + n THEN Stream[0 + k] = <<f, k>>
                                     ELSE Stream[0 + k][1] > f
    BY <1>3, <2>2, HeaderAhead
  <2>4. Stream[1] = <<f, 1>> /\ Stream[2] = <<f, 2>>
    <3>1. 1 \in 1..(Total - 0) /\ 2 \in 1..(Total - 0) /\ 1 <= HeaderLen + n /\ 2 <= HeaderLen + n
        BY <1>3, <1>4, <2>3
    <3>2. Stream[0 + 1] = <<f, 1>> /\ Stream[0 + 2] = <<f, 2>>
        BY <2>3, <3>1
    <3> QED BY <3>2
  <2>5. IsHeader(c)
    BY <1>1, <1>3, <1>4, <2>3, <2>4, HeaderIs DEF c
  <2>6. frame' = Stream[0 + 1][1] /\ UNCHANGED synced
    BY <1>2, <1>4, <2>5
  <2>7. Once' /\ Whole'
    BY <1>1, <2>1, <2>6, KeepsOnce
  <2>8. CASE pc' = "payload"
    <3>1. Base' = 0
        BY <2>8 DEF Base
    <3>2. 0 + HeaderLen <= Total /\ \A i \in 1..0 : i + Rest[i] <= 0
        BY <1>3, <1>4
    <3>3. \A k \in 1..Total' : Stream'[k] = IF k <= 0 THEN Stream[k] ELSE Stream[k + HeaderLen]
        BY <1>5
    <3>4. StreamInv'
        BY <1>1, <1>3, <1>5, <2>1, <2>2, <2>6, <2>8, <3>1, <3>2, <3>3, Parses
    <3> QED BY <2>7, <3>4 DEF Untorn
  <2> QED BY <1>6, <2>7, <2>8 DEF Untorn
<1> QED BY <1>1, <1>7, <1>8, <1>9 DEF NInv

LEMMA WaitHeaderInput == NInv /\ WaitHeader => NInv'
<1> SUFFICES ASSUME NInv, WaitHeader PROVE NInv'
    OBVIOUS
<1> DEFINE c == Take(sock, HeaderLen)
<1>1. /\ pc = "waitheader" /\ Len(sock) >= HeaderLen /\ sock' = Drop(sock, HeaderLen)
      /\ ~ TooBig(c) /\ torn' = (torn \/ ~ AtBoundary)
      /\ UNCHANGED <<script, buf, off, depth, dispatched, payload>>
    BY DEF WaitHeader
<1>2. IF IsHeader(c)
      THEN frame' = c[1][1] /\ pc' = "waitpayload" /\ UNCHANGED synced
      ELSE synced' = FALSE /\ pc' = "ended"
    BY DEF WaitHeader, ParseHeader
<1>3. InputTypeOK /\ sock \in Seq(Cell) /\ Len(sock) \in Nat /\ Len(buf) \in Nat /\ HeaderLen = 2
      /\ Len(sock) >= 2 /\ HeaderLen \in 0..Len(sock) /\ 1 \in 1..HeaderLen
    BY <1>1, StreamType DEF NInv, InputTypeOK, HeaderLen
<1>4. PICK b \in Nat : b = Len(buf)
    BY <1>3
<1>5. /\ c[1] = sock[1] /\ sock[1] = Stream[b + 1] /\ sock[2] = Stream[b + 2]
      /\ Total \in Nat /\ b + 2 <= Total
  <2>1. c[1] = sock[1]
    BY <1>3, TakeShape
  <2>2. 1 \in 1..Len(sock) /\ 2 \in 1..Len(sock)
    BY <1>3
  <2> QED BY <1>3, <1>4, <2>1, <2>2, StreamType
<1> HIDE DEF c
<1>6. /\ sock' \in Seq(Cell) /\ Total' = Total - HeaderLen
      /\ \A k \in 1..Total' : Stream'[k] = IF k <= b THEN Stream[k] ELSE Stream[k + HeaderLen]
    BY <1>1, <1>3, <1>4, FromSock
<1>7. pc' \in {"waitpayload", "ended"}
    BY <1>2
<1>8. InputTypeOK' /\ AtStart' /\ Fits'
  <2>1. pc' \in {"start", "header", "payload", "waitheader", "waitpayload", "ended"} /\ pc' # "start"
    BY <1>7
  <2>2. torn' \in BOOLEAN
    BY <1>1, Zenon
  <2> QED BY <1>1, <1>3, <1>6, <2>1, <2>2 DEF InputTypeOK, AtStart, Fits, NInv
<1>9. Accepted'
  <2> SUFFICES ASSUME pc' = "waitpayload" PROVE frame' \in DOMAIN script /\ script[frame'].len <= MaxRx
    BY <1>1, <1>7 DEF Accepted
  <2>1. IsHeader(c) /\ ~ TooBig(c) /\ frame' = c[1][1]
    BY <1>1, <1>2
  <2>2. frame' \in DOMAIN script
    BY <1>3, <2>1, HeaderNames
  <2>3. script[frame'].len \in Nat /\ ~ (script[frame'].len > MaxRx)
    BY <1>3, <2>1, <2>2, ScriptType DEF TooBig
  <2> QED BY <2>2, <2>3, InputAssumption
<1>10. ASSUME ~ torn' PROVE Untorn'
  <2>1. ~ torn /\ AtBoundary
    BY <1>1, <1>10, Zenon
  <2>2. Once /\ Whole /\ StreamInv
    BY <1>1, <2>1 DEF NInv, Untorn
  <2>3. Stream[b + 1][2] = 1
    BY <1>3, <1>5, <2>1 DEF AtBoundary
  <2>4. Base = 0 /\ Starts(0) /\ Runs /\ b + 1 <= Total
    BY <1>1, <1>5, <2>2 DEF StreamInv, Base
  <2> DEFINE f == Stream[b + 1][1]
             n == script[f].len
  <2>5. /\ f \in DOMAIN script /\ n \in Nat
        /\ \A k \in 1..(Total - b) : IF k <= HeaderLen + n THEN Stream[b + k] = <<f, k>>
                                     ELSE Stream[b + k][1] > f
    BY <1>3, <2>3, <2>4, HeaderAhead
  <2>6. Stream[b + 1] = <<f, 1>> /\ Stream[b + 2] = <<f, 2>>
    <3>1. 1 \in 1..(Total - b) /\ 2 \in 1..(Total - b) /\ 1 <= HeaderLen + n /\ 2 <= HeaderLen + n
        BY <1>3, <1>5, <2>5
    <3> QED BY <2>5, <3>1
  <2>7. IsHeader(c)
    BY <1>1, <1>3, <1>5, <2>5, <2>6, HeaderIs DEF c
  <2>8. frame' = Stream[b + 1][1] /\ UNCHANGED synced /\ pc' = "waitpayload" /\ Base' = b
    BY <1>1, <1>2, <1>4, <1>5, <2>7 DEF Base
  <2>9. Once' /\ Whole'
    BY <1>1, <2>2, <2>8, KeepsOnce
  <2>10. ASSUME NEW i \in 1..b PROVE i + Rest[i] <= b
    <3>1. i \in 1..Total /\ b + 1 \in i..Total
        BY <1>5
    <3>2. Rest[i] \in Nat /\ Stream[i][2] \in Nat \ {0}
        BY <2>4, <3>1 DEF Runs
    <3>3. b + 1 <= i + Rest[i] => Stream[b + 1] = <<Stream[i][1], Stream[i][2] + ((b + 1) - i)>>
        BY <2>4, <3>1 DEF Runs
    <3>4. Stream[i][2] + ((b + 1) - i) # 1
        BY <3>2
    <3>5. ~ (b + 1 <= i + Rest[i])
        BY <2>3, <3>3, <3>4
    <3> QED BY <3>2, <3>5
  <2>11. b + HeaderLen <= Total
    BY <1>3, <1>5
  <2>12. StreamInv'
    BY <1>1, <1>3, <1>6, <2>2, <2>3, <2>8, <2>10, <2>11, Parses
  <2> QED BY <2>8, <2>9, <2>12 DEF Untorn
<1> QED BY <1>8, <1>9, <1>10 DEF NInv

-----------------------------------------------------------------------------
(***************************************************************************)
(* Dispatching, ending, giving up.                                         *)
(***************************************************************************)

\* What both readers hand over: n cells, the frame's own.
LEMMA HandsOver ==
    ASSUME InputTypeOK, NEW n \in Nat, NEW s \in Seq(Cell), n <= Len(s),
           frame \in Nat, script[frame].len = n, UNCHANGED script,
           \A k \in 1..n : s[k] = <<frame, HeaderLen + k>>,
           payload' = Take(s, n), dispatched' = Append(dispatched, frame)
    PROVE  Whole'
<1>1. n \in 0..Len(s) /\ dispatched \in Seq(Nat)
    BY DEF InputTypeOK
<1>2. payload' = [k \in 1..n |-> s[k]]
    BY <1>1, TakeShape
<1>3. payload' = [k \in 1..n |-> <<frame, HeaderLen + k>>]
    BY <1>2
<1>4. dispatched'[Len(dispatched')] = frame
    BY <1>1
<1> QED BY <1>3, <1>4 DEF Whole

LEMMA LoopDispatchInput ==
    ASSUME NInv, NEW d \in 0..MaxDepth, LoopDispatch(d)
    PROVE  NInv'
<1> DEFINE n == script[frame].len
<1>1. /\ pc = "payload" /\ Len(buf) >= n /\ dispatched' = Append(dispatched, frame)
      /\ payload' = Take(buf, n) /\ buf' = Drop(buf, n) /\ off' = off + n
      /\ UNCHANGED <<script, sock, frame, synced, torn>>
    BY DEF LoopDispatch
<1>2. pc' \in {"header", "waitheader"}
    BY DEF LoopDispatch, Outcome, Home
<1>3. InputTypeOK /\ Accepted /\ frame \in DOMAIN script /\ frame \in Nat /\ n \in Nat
    BY <1>1, ScriptType DEF NInv, Accepted
<1>4. /\ buf \in Seq(Cell) /\ Len(buf) \in Nat /\ off \in Nat /\ dispatched \in Seq(Nat)
      /\ n \in 0..Len(buf)
    BY <1>1, <1>3, StreamType DEF InputTypeOK
<1>5. /\ buf' \in Seq(Cell) /\ Len(buf') = Len(buf) - n /\ Total' = Total - n
      /\ \A k \in 1..Total' : Stream'[k] = Stream[k + n]
  <2> HIDE DEF n
  <2> QED BY <1>1, <1>3, <1>4, FromBuf
<1>6. InputTypeOK' /\ Accepted' /\ Fits' /\ AtStart'
  <2>1. off' \in Nat /\ off' + Len(buf') = off + Len(buf)
    <3> HIDE DEF n
    <3> QED BY <1>1, <1>3, <1>4, <1>5
  <2>2. pc' \in {"start", "header", "payload", "waitheader", "waitpayload", "ended"} /\ pc' # "start"
        /\ pc' \notin {"payload", "waitpayload"}
    BY <1>2
  <2>3. dispatched' \in Seq(Nat)
    BY <1>1, <1>3, <1>4
  <2> QED BY <1>1, <1>3, <1>5, <2>1, <2>2, <2>3 DEF InputTypeOK, Accepted, Fits, AtStart, NInv
<1>7. ASSUME ~ torn PROVE Untorn'
  <2>1. Once /\ StreamInv /\ Base = 0
    BY <1>1, <1>7 DEF NInv, Untorn, Base
  <2>2. \A k \in 1..Total' : Stream'[k] = IF k <= Base THEN Stream[k] ELSE Stream[k + script[frame].len]
    BY <1>5, <2>1
  <2>3. StreamInv' /\ Once'
    BY <1>1, <1>2, <1>3, <1>5, <2>1, <2>2, Dispatches
  <2>4. \A k \in 1..n : buf[k] = <<frame, HeaderLen + k>>
    <3> SUFFICES ASSUME NEW k \in 1..n PROVE buf[k] = <<frame, HeaderLen + k>>
        OBVIOUS
    <3> HIDE DEF n
    <3>1. k \in 1..Len(buf) /\ k \in 1..(Total - Base) /\ k <= n /\ Base + k = k
        BY <1>3, <1>4, <2>1, StreamType
    <3>2. Stream[k] = buf[k]
        BY <1>3, <3>1, StreamType
    <3>3. Stream[Base + k] = <<frame, HeaderLen + k>>
        BY <1>1, <2>1, <3>1 DEF StreamInv, Current, n
    <3> QED BY <3>1, <3>2, <3>3
  <2>5. Whole'
    BY <1>1, <1>3, <1>4, <2>4, HandsOver
  <2> QED BY <2>3, <2>5 DEF Untorn
<1> QED BY <1>1, <1>6, <1>7 DEF NInv

LEMMA WaitDispatchInput ==
    ASSUME NInv, NEW d \in 0..MaxDepth, WaitDispatch(d)
    PROVE  NInv'
<1> DEFINE n == script[frame].len
<1>1. /\ pc = "waitpayload" /\ Len(sock) >= n /\ dispatched' = Append(dispatched, frame)
      /\ payload' = Take(sock, n) /\ sock' = Drop(sock, n)
      /\ UNCHANGED <<script, buf, off, frame, synced, torn>>
    BY DEF WaitDispatch
<1>2. pc' \in {"header", "waitheader"}
    BY DEF WaitDispatch, Outcome, Home
<1>3. InputTypeOK /\ Accepted /\ frame \in DOMAIN script /\ frame \in Nat /\ n \in Nat
    BY <1>1, ScriptType DEF NInv, Accepted
<1>4. /\ sock \in Seq(Cell) /\ Len(sock) \in Nat /\ dispatched \in Seq(Nat) /\ n \in 0..Len(sock)
      /\ Len(buf) \in Nat
    BY <1>1, <1>3, StreamType DEF InputTypeOK
<1>5. /\ sock' \in Seq(Cell) /\ Total' = Total - n
      /\ \A k \in 1..Total' : Stream'[k] = IF k <= Len(buf) THEN Stream[k] ELSE Stream[k + n]
  <2> HIDE DEF n
  <2> QED BY <1>1, <1>3, <1>4, FromSock
<1>6. InputTypeOK' /\ Accepted' /\ Fits' /\ AtStart'
  <2>1. pc' \in {"start", "header", "payload", "waitheader", "waitpayload", "ended"} /\ pc' # "start"
        /\ pc' \notin {"payload", "waitpayload"}
    BY <1>2
  <2>2. dispatched' \in Seq(Nat)
    BY <1>1, <1>3, <1>4
  <2> QED BY <1>1, <1>3, <1>5, <2>1, <2>2 DEF InputTypeOK, Accepted, Fits, AtStart, NInv
<1>7. ASSUME ~ torn PROVE Untorn'
  <2>1. Once /\ StreamInv /\ Base = Len(buf)
    BY <1>1, <1>7 DEF NInv, Untorn, Base
  <2>2. \A k \in 1..Total' : Stream'[k] = IF k <= Base THEN Stream[k] ELSE Stream[k + script[frame].len]
    BY <1>5, <2>1
  <2>3. StreamInv' /\ Once'
    BY <1>1, <1>2, <1>3, <1>5, <2>1, <2>2, Dispatches
  <2>4. \A k \in 1..n : sock[k] = <<frame, HeaderLen + k>>
    <3> SUFFICES ASSUME NEW k \in 1..n PROVE sock[k] = <<frame, HeaderLen + k>>
        OBVIOUS
    <3> HIDE DEF n
    <3>1. k \in 1..Len(sock) /\ k \in 1..(Total - Base) /\ k <= n
        BY <1>3, <1>4, <2>1, StreamType
    <3>2. Stream[Len(buf) + k] = sock[k]
        BY <1>3, <3>1, StreamType
    <3>3. Stream[Base + k] = <<frame, HeaderLen + k>>
        BY <1>1, <2>1, <3>1 DEF StreamInv, Current, n
    <3> QED BY <2>1, <3>2, <3>3
  <2>5. Whole'
    BY <1>1, <1>3, <1>4, <2>4, HandsOver
  <2> QED BY <2>3, <2>5 DEF Untorn
<1> QED BY <1>1, <1>6, <1>7 DEF NInv

LEMMA LoopEndsInput == NInv /\ LoopEnds => NInv'
<1> SUFFICES ASSUME NInv, LoopEnds PROVE NInv'
    OBVIOUS
<1>1. pc' = "ended" /\ UNCHANGED <<script, sock, buf, off, frame, dispatched, payload, synced, torn>>
    BY DEF LoopEnds
<1>2. InputTypeOK' /\ Accepted' /\ Fits' /\ AtStart'
    BY <1>1 DEF NInv, InputTypeOK, Accepted, Fits, AtStart
<1>3. ~ torn' => Untorn'
    BY <1>1, KeepsOnce DEF NInv, Untorn
<1> QED BY <1>2, <1>3 DEF NInv

\* A response is given up: torn, unless nothing of the next frame had come.
LEMMA WaitGivesUp == NInv /\ (WaitRefuses \/ WaitTimesOut) => NInv'
<1> SUFFICES ASSUME NInv, WaitRefuses \/ WaitTimesOut PROVE NInv'
    OBVIOUS
<1>1. /\ pc' \in {"header", "waitheader"} /\ UNCHANGED <<script, buf, off, frame, dispatched, payload, synced>>
      /\ torn' \in BOOLEAN
  <2>1. CASE WaitRefuses
    BY <2>1 DEF WaitRefuses, Home
  <2>2. CASE WaitTimesOut
    <3>1. pc' \in {"header", "waitheader"}
        /\ UNCHANGED <<script, buf, off, frame, dispatched, payload, synced>>
        BY <2>2 DEF WaitTimesOut, Home
    <3>2. torn' \in BOOLEAN
        BY <2>2, Zenon DEF WaitTimesOut
    <3> QED BY <3>1, <3>2
  <2> QED BY <2>1, <2>2
<1>2. sock' \in Seq(Cell)
  <2>1. CASE WaitRefuses
    <3>1. sock \in Seq(Cell) /\ HeaderLen \in 0..Len(sock) /\ sock' = Drop(sock, HeaderLen)
        BY <2>1 DEF WaitRefuses, NInv, InputTypeOK, HeaderLen
    <3> QED BY <3>1, DropShape
  <2>2. CASE WaitTimesOut
    BY <2>2 DEF WaitTimesOut
  <2> QED BY <2>1, <2>2
<1>3. InputTypeOK' /\ Accepted' /\ Fits' /\ AtStart'
    BY <1>1, <1>2 DEF NInv, InputTypeOK, Accepted, Fits, AtStart
<1>4. ASSUME ~ torn' PROVE Untorn'
  <2>1. WaitTimesOut
    BY <1>4 DEF WaitRefuses
  <2>2. ~ torn /\ sock = <<>> /\ pc = "waitheader" /\ sock' = <<>>
    BY <1>4, <2>1, Zenon DEF WaitTimesOut
  <2>3. Once /\ Whole /\ StreamInv
    BY <2>2 DEF NInv, Untorn
  <2>4. Once' /\ Whole'
    BY <1>1, <2>3, KeepsOnce
  <2>5. Total' = Total /\ Stream' = Stream /\ Base = 0 /\ Base' = 0
    BY <1>1, <2>2 DEF Total, Stream, Base
  <2>6. Rest' = Rest
    BY <1>1, <2>5 DEF Rest
  <2>7. StreamInv'
    <3>1. Runs' /\ Starts(Base)'
        BY <1>1, <2>3, <2>5, <2>6 DEF StreamInv, Runs, Starts
    <3>2. Fresh' /\ Current' /\ Closed'
        BY <1>1, <2>2, <2>3, <2>5 DEF StreamInv, Fresh, Current, Closed
    <3>3. Ahead'
        BY <1>1, <2>2, <2>3, <2>5 DEF StreamInv, Ahead
    <3> QED BY <3>1, <3>2, <3>3 DEF StreamInv
  <2> QED BY <2>4, <2>7 DEF Untorn
<1> QED BY <1>3, <1>4 DEF NInv

-----------------------------------------------------------------------------
(***************************************************************************)
(* The theorems.                                                           *)
(***************************************************************************)
LEMMA NextInput == NInv /\ [Next]_vars => NInv'
<1> SUFFICES ASSUME NInv, [Next]_vars PROVE NInv'
    OBVIOUS
<1>1. CASE \E kind \in Kinds, len \in 0..(MaxRx + 1) : ClientSends(kind, len)
    BY <1>1, SendInput
<1>2. CASE \E k \in 0..BufSize : FirstRead(k)
    BY <1>2, FirstReadInput
<1>3. CASE \E d \in 0..MaxDepth : LoopDispatch(d)
    BY <1>3, LoopDispatchInput
<1>4. CASE \E d \in 0..MaxDepth : WaitDispatch(d)
    BY <1>4, WaitDispatchInput
<1>5. CASE UNCHANGED vars
  <2>1. UNCHANGED <<script, sock, buf, off, pc, frame, dispatched, payload, synced, torn>>
    BY <1>5 DEF vars
  <2>2. InputTypeOK' /\ Accepted' /\ Fits' /\ AtStart'
    BY <2>1 DEF NInv, InputTypeOK, Accepted, Fits, AtStart
  <2>3. Total' = Total /\ Stream' = Stream /\ Base' = Base
    BY <2>1 DEF Total, Stream, Base
  <2>4. Rest' = Rest
    BY <2>1, <2>3 DEF Rest
  <2>5. StreamInv => StreamInv'
    <3> SUFFICES ASSUME StreamInv PROVE StreamInv'
        OBVIOUS
    <3>1. Runs' /\ Starts(Base)'
        BY <2>1, <2>3, <2>4 DEF StreamInv, Runs, Starts
    <3>2. Fresh' /\ Current'
        BY <2>1, <2>3 DEF StreamInv, Fresh, Current
    <3>3. Closed' /\ Ahead'
        BY <2>1, <2>3, <2>4 DEF StreamInv, Closed, Ahead
    <3> QED BY <3>1, <3>2, <3>3 DEF StreamInv
  <2>6. ~ torn' => Untorn'
    BY <2>1, <2>5, KeepsOnce DEF NInv, Untorn
  <2> QED BY <2>2, <2>6 DEF NInv
<1> QED BY <1>1, <1>2, <1>3, <1>4, <1>5, LoopRefillInput, LoopHeaderInput, LoopEndsInput,
           WaitHeaderInput, WaitGivesUp DEF Next

\* The invariant holds in every state of every connection.
THEOREM Input == Spec => []NInv
BY InitInput, NextInput, PTL DEF Spec

\* The payload of a frame, as a sequence of its own cells.
LEMMA OwnCells ==
    ASSUME NEW f \in Nat, NEW n \in Nat
    PROVE  Drop(Cells(f, n), HeaderLen) = [k \in 1..n |-> <<f, HeaderLen + k>>]
<1> DEFINE c == Cells(f, n)
           m == HeaderLen + n
<1>1. m \in Nat /\ HeaderLen = 2 /\ m - 2 = n /\ 2 \in 0..m
    BY DEF HeaderLen
<1>2. c \in Seq(Cell) /\ Len(c) = m /\ \A k \in 1..m : c[k] = <<f, k>>
  <2>1. c = [i \in 1..m |-> <<f, i>>]
    BY DEF Cells
  <2> HIDE DEF c, m
  <2> QED BY <1>1, <2>1 DEF Cell
<1> DEFINE d == Drop(c, 2)
<1> HIDE DEF c, m
<1>3. d \in Seq(Cell) /\ Len(d) = n /\ \A k \in 1..n : d[k] = c[2 + k]
    BY <1>1, <1>2, DropShape
<1>4. \A k \in 1..n : d[k] = <<f, 2 + k>>
  <2> SUFFICES ASSUME NEW k \in 1..n PROVE d[k] = <<f, 2 + k>>
    OBVIOUS
  <2> HIDE DEF d
  <2>1. 2 + k \in 1..m
    BY <1>1
  <2>2. c[2 + k] = <<f, 2 + k>>
    BY <1>2, <2>1
  <2> QED BY <1>3, <2>2
<1>5. d = [k \in 1..n |-> <<f, 2 + k>>]
  <2> HIDE DEF d
  <2>1. d = [k \in 1..n |-> d[k]]
    BY <1>3
  <2>2. [k \in 1..n |-> d[k]] = [k \in 1..n |-> <<f, 2 + k>>]
    BY <1>4
  <2> QED BY <2>1, <2>2
<1> QED BY <1>1, <1>5 DEF c, d

\* Unless a wait starts or gives up inside a frame, each frame is dispatched
\* with its own payload, whichever reader took it, and what the frame loop
\* holds always fits in `buf` (h2_connection_loop, h2_write_body).
THEOREM PayloadCorrect == Spec => []OwnPayload
<1>1. NInv => OwnPayload
  <2> SUFFICES ASSUME NInv PROVE OwnPayload
    OBVIOUS
  <2>1. ASSUME ~ torn, dispatched # <<>>
        PROVE  LET f == dispatched[Len(dispatched)]
               IN  payload = Drop(Cells(f, script[f].len), HeaderLen)
    <3> DEFINE f == dispatched[Len(dispatched)]
    <3>1. dispatched \in Seq(Nat) /\ InputTypeOK
        BY DEF NInv, InputTypeOK
    <3>2. Len(dispatched) \in DOMAIN dispatched
        BY <2>1, <3>1
    <3>3. f \in DOMAIN script
        BY <2>1, <3>2 DEF NInv, Untorn, Once
    <3>4. f \in Nat /\ script[f].len \in Nat
        BY <3>1, <3>3, ScriptType
    <3>5. payload = [k \in 1..script[f].len |-> <<f, HeaderLen + k>>]
        BY <2>1 DEF NInv, Untorn, Whole
    <3> HIDE DEF f
    <3>6. payload = Drop(Cells(f, script[f].len), HeaderLen)
        BY <3>4, <3>5, OwnCells
    <3> QED BY <3>6 DEF f
  <2> QED BY <2>1 DEF OwnPayload, NInv, Fits
<1> QED BY <1>1, Input, PTL

\* Unless a wait starts or gives up inside a frame, every frame sent is either
\* dispatched, and once, or the current one, or still ahead; no bytes that are
\* not a header are ever parsed as one.
THEOREM FramesCorrect == Spec => []NoFrameLost
<1>1. NInv => NoFrameLost
  <2> SUFFICES ASSUME NInv, ~ torn PROVE NoFrameLost
    BY DEF NoFrameLost
  <2>1. synced /\ \A i, j \in DOMAIN dispatched : dispatched[i] = dispatched[j] => i = j
    BY DEF NInv, Untorn, Once
  <2> DEFINE all == {dispatched[i] : i \in DOMAIN dispatched}
                    \cup FramesIn(buf) \cup FramesIn(sock)
                    \cup (IF pc \in {"payload", "waitpayload"} THEN {frame} ELSE {})
  <2>2. ASSUME pc # "ended" PROVE DOMAIN script = all
    <3>1. InputTypeOK /\ StreamInv /\ Once /\ Accepted
        BY <2>2 DEF NInv, Untorn
    <3>2. Len(buf) \in Nat /\ Len(sock) \in Nat /\ DOMAIN buf = 1..Len(buf) /\ DOMAIN sock = 1..Len(sock)
        BY <3>1, StreamType DEF InputTypeOK
    <3>3. \A k \in 1..Total : Stream[k][1] \in DOMAIN script
        BY <3>1 DEF StreamInv, Runs
    <3>4. \A k \in DOMAIN buf : buf[k][1] \in DOMAIN script
        BY <3>1, <3>2, <3>3, StreamType
    <3>5. ASSUME NEW k \in DOMAIN sock PROVE sock[k][1] \in DOMAIN script
      <4>1. Len(buf) + k \in 1..Total /\ Stream[Len(buf) + k] = sock[k]
        BY <3>1, <3>2, StreamType
      <4> QED BY <3>3, <4>1
    <3>6. ASSUME NEW f \in all PROVE f \in DOMAIN script
      <4>1. CASE f \in {dispatched[i] : i \in DOMAIN dispatched}
        BY <3>1, <4>1 DEF Once
      <4>2. CASE f \in FramesIn(buf) \cup FramesIn(sock)
        BY <3>4, <3>5, <4>2 DEF FramesIn
      <4>3. CASE pc \in {"payload", "waitpayload"} /\ f = frame
        BY <3>1, <4>3 DEF Accepted
      <4> QED BY <4>1, <4>2, <4>3
    <3>7. ASSUME NEW k \in 1..Total PROVE Stream[k][1] \in FramesIn(buf) \cup FramesIn(sock)
      <4>1. Total = Len(buf) + Len(sock)
        BY DEF Total
      <4>2. CASE k <= Len(buf)
        <5>1. k \in DOMAIN buf /\ Stream[k] = buf[k]
            BY <3>1, <3>2, <4>2, StreamType
        <5> QED BY <5>1 DEF FramesIn
      <4>3. CASE ~ (k <= Len(buf))
        <5>1. k - Len(buf) \in 1..Len(sock) /\ Len(buf) + (k - Len(buf)) = k
            BY <3>2, <4>1, <4>3
        <5>2. Stream[Len(buf) + (k - Len(buf))] = sock[k - Len(buf)]
            BY <3>1, <5>1, StreamType
        <5> QED BY <3>2, <5>1, <5>2 DEF FramesIn
      <4> QED BY <4>2, <4>3
    <3>8. ASSUME NEW f \in DOMAIN script PROVE f \in all
        BY <3>1, <3>7 DEF StreamInv, Ahead
    <3> HIDE DEF all
    <3> QED BY <3>6, <3>8
  <2> QED BY <2>1, <2>2 DEF NoFrameLost
<1> QED BY <1>1, Input, PTL

=============================================================================
