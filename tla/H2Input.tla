------------------------------ MODULE H2Input ------------------------------
(***************************************************************************)
(* How an HTTP/2 connection gets its frames.  Two readers take bytes off   *)
(* the same socket: the frame loop (h2_connection_loop), which parks bytes *)
(* it has read but not parsed in `buf`, and the flow-control wait of a     *)
(* writer (h2_write_body), which reads one frame at a time into            *)
(* h2_wait_buf while the frame loop is suspended further up the stack.     *)
(*                                                                         *)
(* What a frame does is modelled in H2Conn; here a frame is a request,     *)
(* whose response may run out of credit and wait, a WINDOW_UPDATE ("wu"),  *)
(* which may let waiting responses finish, or a frame over the size this   *)
(* end accepts ("big").  On the socket a frame is a run of cells           *)
(* <<frame, position>>: HeaderLen cells of header, then its payload.       *)
(***************************************************************************)
EXTENDS Integers, Sequences, FiniteSets

CONSTANTS
    BufSize,     \* BUF_SIZE, in cells
    MaxRx,       \* H2C_MAX_RX_FRAME_SIZE, in cells
    MaxFrames,   \* bound: the frames the client sends
    MaxDepth     \* bound: the responses waiting at once

HeaderLen == 2

ASSUME InputAssumption ==
    /\ MaxRx \in Nat
    /\ BufSize \in Nat
    /\ MaxRx <= BufSize
    /\ HeaderLen <= BufSize
    /\ MaxFrames \in Nat
    /\ MaxDepth \in Nat

Kinds == {"req", "wu", "big"}

VARIABLES
    script,      \* the frames the client has sent: kind and payload length
    sock,        \* cells sent and not yet read
    buf,         \* the frame loop's unparsed cells ...
    off,         \* ... and where in its buffer they start (x22)
    pc,          \* where the connection is
    frame,       \* the frame whose header was parsed last
    depth,       \* responses suspended in the flow-control wait
    dispatched,  \* the frames handed to h2_dispatch_frame, in order
    payload,     \* the cells handed over with the last of them
    synced,      \* every header parsed so far was one
    torn         \* a wait has started, or given up, in the middle of a frame

vars == <<script, sock, buf, off, pc, frame, depth, dispatched, payload,
          synced, torn>>

Cells(f, n) == [i \in 1..(HeaderLen + n) |-> <<f, i>>]
Drop(s, n) == SubSeq(s, n + 1, Len(s))
Take(s, n) == SubSeq(s, 1, n)

Init ==
    /\ script = <<>>
    /\ sock = <<>>
    /\ buf = <<>>
    /\ off = 0
    /\ pc = "start"
    /\ frame = 0
    /\ depth = 0
    /\ dispatched = <<>>
    /\ payload = <<>>
    /\ synced = TRUE
    /\ torn = FALSE

-----------------------------------------------------------------------------

ClientSends(kind, len) ==
    /\ Len(script) < MaxFrames
    /\ IF kind = "big" THEN len = MaxRx + 1 ELSE len <= MaxRx
    /\ script' = Append(script, [kind |-> kind, len |-> len])
    /\ sock' = sock \o Cells(Len(script) + 1, len)
    /\ UNCHANGED <<buf, off, pc, frame, depth, dispatched, payload, synced, torn>>

\* The first read of the connection takes whatever has arrived behind the
\* preface, and the loop starts with those cells compacted to the front.
FirstRead(k) ==
    /\ pc = "start"
    /\ k <= Len(sock)
    /\ k <= BufSize
    /\ buf' = Take(sock, k)
    /\ sock' = Drop(sock, k)
    /\ off' = 0
    /\ pc' = "header"
    /\ UNCHANGED <<script, frame, depth, dispatched, payload, synced, torn>>

\* Control is in the frame loop, or in the innermost wait.
Home(d) == IF d = 0 THEN "header" ELSE "waitheader"

\* The loop needs n cells and has fewer: the leftover is compacted and the
\* rest read behind it.
Refill(n) ==
    /\ Len(buf) < n
    /\ n - Len(buf) <= Len(sock)
    /\ buf' = buf \o Take(sock, n - Len(buf))
    /\ sock' = Drop(sock, n - Len(buf))
    /\ off' = 0

\* A header is parsed from cells c: the frame it names, or nonsense when the
\* cells are not a header, and from there on nothing is known.
IsHeader(c) == \E f \in DOMAIN script : c = Take(Cells(f, 0), HeaderLen)

ParseHeader(c, next) ==
    IF IsHeader(c)
    THEN /\ frame' = c[1][1]
         /\ pc' = next
         /\ UNCHANGED synced
    ELSE /\ synced' = FALSE
         /\ pc' = "ended"
         /\ UNCHANGED frame

TooBig(c) == IsHeader(c) /\ script[c[1][1]].len > MaxRx

LoopRefillHeader ==
    /\ pc = "header"
    /\ Refill(HeaderLen)
    /\ UNCHANGED <<script, pc, frame, depth, dispatched, payload, synced, torn>>

\* h2_parse_frame_header and h2_validate_frame; too large is a GOAWAY.
LoopHeader ==
    /\ pc = "header"
    /\ Len(buf) >= HeaderLen
    /\ buf' = Drop(buf, HeaderLen)
    /\ off' = off + HeaderLen
    /\ ParseHeader(Take(buf, HeaderLen),
                   IF TooBig(Take(buf, HeaderLen)) THEN "ended" ELSE "payload")
    /\ UNCHANGED <<script, sock, depth, dispatched, payload, torn>>

\* Mutant: the rest of a payload is read over its first part, not behind it.
LoopRefillPayloadOver ==
    LET n == script[frame].len
        k == n - Len(buf)
    IN  /\ pc = "payload"
        /\ Len(buf) < n
        /\ k <= Len(sock)
        /\ buf' = [i \in 1..n |-> IF i <= k THEN sock[i]
                                  ELSE buf[IF i <= Len(buf) THEN i ELSE Len(buf)]]
        /\ sock' = Drop(sock, k)
        /\ off' = 0
        /\ UNCHANGED <<script, pc, frame, depth, dispatched, payload, synced, torn>>

LoopRefillPayload ==
    /\ pc = "payload"
    /\ Refill(script[frame].len)
    /\ UNCHANGED <<script, pc, frame, depth, dispatched, payload, synced, torn>>

\* What a dispatched frame leads to: a request is answered at once or goes
\* into (or one level further into) the wait; credit lets any number of the
\* waiting responses finish, innermost first.
Outcome(d) ==
    /\ depth' = d
    /\ d <= MaxDepth
    /\ script[frame].kind = "req" => d \in {depth, depth + 1}
    /\ script[frame].kind = "wu" => d \in 0..depth
    /\ pc' = Home(d)

LoopDispatch(d) ==
    LET n == script[frame].len
    IN  /\ pc = "payload"
        /\ Len(buf) >= n
        /\ dispatched' = Append(dispatched, frame)
        /\ payload' = Take(buf, n)
        /\ buf' = Drop(buf, n)
        /\ off' = off + n
        /\ Outcome(d)
        /\ UNCHANGED <<script, sock, frame, synced, torn>>

\* A frame that ends the connection, a failed read, or the client going away.
LoopEnds ==
    /\ pc \in {"header", "payload"}
    /\ pc' = "ended"
    /\ UNCHANGED <<script, sock, buf, off, frame, depth, dispatched, payload,
                   synced, torn>>

\* The socket stands at the start of a frame: no frame has its first part in
\* `buf`, or lost, and its rest on the socket.
AtBoundary == sock = <<>> \/ sock[1][2] = 1

\* The wait reads a header off the socket, into h2_wait_buf.
WaitHeader ==
    /\ pc = "waitheader"
    /\ Len(sock) >= HeaderLen
    /\ ~TooBig(Take(sock, HeaderLen))
    /\ sock' = Drop(sock, HeaderLen)
    /\ ParseHeader(Take(sock, HeaderLen), "waitpayload")
    /\ torn' = (torn \/ ~AtBoundary)
    /\ UNCHANGED <<script, buf, off, depth, dispatched, payload>>

\* A header h2_validate_frame refuses: the response is given up with the
\* frame's payload still on the socket.
WaitRefuses ==
    /\ pc = "waitheader"
    /\ Len(sock) >= HeaderLen
    /\ TooBig(Take(sock, HeaderLen))
    /\ sock' = Drop(sock, HeaderLen)
    /\ torn' = TRUE
    /\ depth' = depth - 1
    /\ pc' = Home(depth - 1)
    /\ UNCHANGED <<script, buf, off, frame, dispatched, payload, synced>>

\* Mutant: the wait reads a payload into the frame loop's own buffer.
WaitDispatchInBuf(d) ==
    LET n == script[frame].len
    IN  /\ pc = "waitpayload"
        /\ Len(sock) >= n
        /\ dispatched' = Append(dispatched, frame)
        /\ payload' = Take(sock, n)
        /\ sock' = Drop(sock, n)
        /\ buf' = [i \in DOMAIN buf |->
                     IF off + i <= n THEN sock[off + i] ELSE buf[i]]
        /\ Outcome(d)
        /\ UNCHANGED <<script, off, frame, synced, torn>>

\* The wait reads the payload, into h2_wait_buf, and dispatches the frame.
WaitDispatch(d) ==
    LET n == script[frame].len
    IN  /\ pc = "waitpayload"
        /\ Len(sock) >= n
        /\ dispatched' = Append(dispatched, frame)
        /\ payload' = Take(sock, n)
        /\ sock' = Drop(sock, n)
        /\ Outcome(d)
        /\ UNCHANGED <<script, buf, off, frame, synced, torn>>

\* The read times out: transport_read has already handed over what there was
\* of the frame, and the response is given up.
WaitTimesOut ==
    /\ \/ pc = "waitheader" /\ Len(sock) < HeaderLen
       \/ pc = "waitpayload" /\ Len(sock) < script[frame].len
    /\ sock' = <<>>
    /\ torn' = (torn \/ sock # <<>> \/ pc = "waitpayload")
    /\ depth' = depth - 1
    /\ pc' = Home(depth - 1)
    /\ UNCHANGED <<script, buf, off, frame, dispatched, payload, synced>>

Next ==
    \/ \E kind \in Kinds, len \in 0..(MaxRx + 1) : ClientSends(kind, len)
    \/ \E k \in 0..BufSize : FirstRead(k)
    \/ LoopRefillHeader \/ LoopHeader \/ LoopRefillPayload
    \/ \E d \in 0..MaxDepth : LoopDispatch(d)
    \/ LoopEnds
    \/ WaitHeader \/ WaitRefuses
    \/ \E d \in 0..MaxDepth : WaitDispatch(d)
    \/ WaitTimesOut

Spec == Init /\ [][Next]_vars

-----------------------------------------------------------------------------
(* Properties.                                                             *)

\* Unless a wait starts or gives up inside a frame, a frame is dispatched with
\* its own payload, all of it and nothing else, whichever reader took it
\* (h2_connection_loop's cursor x22 and count x21); and what the frame loop
\* holds always fits in `buf`, torn or not: the compaction before each read
\* makes the room.
OwnPayload ==
    /\ off + Len(buf) <= BufSize
    /\ ~torn /\ dispatched # <<>> =>
          LET f == dispatched[Len(dispatched)]
          IN  payload = Drop(Cells(f, script[f].len), HeaderLen)

FramesIn(s) == {s[i][1] : i \in DOMAIN s}

\* Unless a wait starts or gives up inside a frame, none is lost or repeated:
\* each one sent is dispatched once, is the current one, or is whole or in
\* part ahead in `buf` or on the socket; and every header parsed is one.
NoFrameLost ==
    ~torn =>
        /\ synced
        /\ \A i, j \in DOMAIN dispatched :
              dispatched[i] = dispatched[j] => i = j
        /\ pc # "ended" =>
              DOMAIN script =
                 {dispatched[i] : i \in DOMAIN dispatched}
                 \cup FramesIn(buf) \cup FramesIn(sock)
                 \cup (IF pc \in {"payload", "waitpayload"} THEN {frame} ELSE {})

=============================================================================
