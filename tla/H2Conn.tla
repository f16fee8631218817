------------------------------- MODULE H2Conn -------------------------------
(***************************************************************************)
(* The HTTP/2 engine of one connection: the frame loop of                  *)
(* h2_connection_loop, the frame handlers h2_dispatch_frame calls, and the *)
(* response path h2_process_request -> h2_write_body, which writes a whole *)
(* response inline and, when the flow-control windows run dry, reads and   *)
(* dispatches further frames from inside the writer.  A frame read there   *)
(* can complete another request, which is then served recursively: the     *)
(* activations of h2_process_request form the variable `stack'.            *)
(*                                                                         *)
(* The server is one sequential process, so the interleavings that matter  *)
(* are those of its steps with the client: which frame the client sends    *)
(* next, at every point where the server reads one.  The client is not     *)
(* constrained: any member of Frames may arrive at any read.               *)
(***************************************************************************)
EXTENDS H2Streams, Sequences

CONSTANTS
    StreamIds,       \* the odd stream ids the client uses
    Requests,        \* what a decoded header block can ask for
    BodyLen,         \* octets of body each request is answered with, or HeadersOnly
    Frames,          \* the frames the client may send
    MaxFlowWindow,   \* H2_MAX_FLOW_WINDOW, 2^31 - 1 in defs.S
    DefaultWindow,   \* H2_DEFAULT_INITIAL_WINDOW_SIZE, 65535 in defs.S
    MaxFrameSize     \* H2_DEFAULT_MAX_FRAME_SIZE, 2^14 in defs.S

\* A request answered by a HEADERS frame alone: HEAD, OPTIONS and every error
\* status h2_process_request sends through h2_reply_status.
HeadersOnly == -1

FrameTypes == {"DATA", "HEADERS", "RST_STREAM", "SETTINGS", "PING", "GOAWAY",
               "WINDOW_UPDATE", "OTHER", "OVERSIZE"}

\* What parsing the payload comes to: a length or padding the handler rejects,
\* an undecodable HPACK block, a malformed request, or nothing wrong.
Faults == {"NO_ERROR", "FRAME_SIZE_ERROR", "PROTOCOL_ERROR", "COMPRESSION_ERROR",
           "MALFORMED"}

\* h2_build_request reports a malformed request with the code PROTOCOL_ERROR.
FaultCode(fault) == IF fault = "MALFORMED" THEN "PROTOCOL_ERROR" ELSE fault

StreamErrors == {"STREAM_CLOSED", "REFUSED_STREAM"}

(***************************************************************************)
(* A frame: bit0 is flag 0x1 (END_STREAM on DATA and HEADERS, ACK on       *)
(* SETTINGS and PING); req is what a HEADERS block asks for; n is the      *)
(* increment of a WINDOW_UPDATE, or the SETTINGS_INITIAL_WINDOW_SIZE of a  *)
(* SETTINGS frame (NoEntry when it carries none).                          *)
(***************************************************************************)
NoEntry == -1

FrameSpace == [type : FrameTypes, id : Nat, bit0 : BOOLEAN, req : Requests,
               n : Int, fault : Faults]

ASSUME ClientIds == StreamIds \subseteq {k \in Nat : k % 2 = 1}
ASSUME Bodies    == BodyLen \in [Requests -> Nat \cup {HeadersOnly}]
ASSUME Alphabet  == /\ Frames \subseteq FrameSpace /\ Frames # {}
                    /\ \A f \in Frames : f.id % 2 = 1 => f.id \in StreamIds
                    /\ \A f \in Frames : f.type = "SETTINGS" => f.n >= NoEntry
                    /\ \A f \in Frames : f.type = "WINDOW_UPDATE" => f.n >= 0
ASSUME Windows   == /\ MaxFlowWindow \in Nat
                    /\ DefaultWindow \in 0..MaxFlowWindow
                    /\ MaxFrameSize \in Nat \ {0}

VARIABLES
    iws,          \* H2C_SETTINGS_INITIAL_WINDOW_SIZE
    connWindow,   \* H2C_WINDOW
    goaway,       \* H2C_GOAWAY_RECEIVED
    request,      \* the singleton `request' struct h2_build_request fills:
                  \* what is asked for, and by which stream (REQ_STREAM_ID)
    frameBuf,     \* whose HEADERS frame is at the front of h2_frame_buf; 0 none
    pc,           \* where the process is
    stack,        \* activations of h2_process_request, innermost first
    broken        \* the client is gone: nothing written reaches it any more

(***************************************************************************)
(* What an observer of the connection records; the program has no such     *)
(* variables and no action reads them.                                     *)
(***************************************************************************)
VARIABLES
    wire,         \* per stream: HEADERS frames, DATA octets, END_STREAM sent
    credit,       \* per stream: the send window the client believes it granted
    connCredit,   \* the same for the connection
    resets        \* streams the client has reset

connVars == <<iws, connWindow, goaway, request, frameBuf, pc, stack, broken>>
ghostVars == <<wire, credit, connCredit, resets>>
vars == <<tableVars, connVars, ghostVars>>

\* One activation of h2_process_request / h2_write_body.
Activation == [id : StreamIds, slot : Slots, left : Nat, staged : BOOLEAN]

Top == Head(stack)

Push(a, st) == <<a>> \o st

Nested == stack # <<>>

\* Where a caller of h2_dispatch_frame or h2_process_request goes on: the frame
\* loop reads the next frame, a writer looks at its windows again.
Resume(st) == IF st = <<>> THEN "read" ELSE "body"

PCs == {"preface", "read", "serve", "body", "fail", "done", "closed"}

ConnTypeOK ==
    /\ iws \in Nat
    /\ connWindow \in Nat
    /\ goaway \in BOOLEAN
    /\ request \in [req : Requests, id : StreamIds \cup {0}]
    /\ frameBuf \in StreamIds \cup {0}
    /\ pc \in PCs
    /\ stack \in Seq(Activation)
    /\ broken \in BOOLEAN

ObserverTypeOK ==
    /\ wire \in [StreamIds -> [hdrs : Nat, data : Nat, end : BOOLEAN]]
    /\ credit \in [StreamIds -> Int]
    /\ connCredit \in Nat
    /\ resets \subseteq StreamIds

\* Every variable has its type; in particular no frame the client sends drives
\* the connection window below zero, where the unsigned code would read it as
\* an unlimited one.
TypeOK == TableTypeOK /\ ConnTypeOK /\ ObserverTypeOK

\* h2_connection_loop's reset of the per-connection state.  The request and
\* frame structs keep whatever they held.
Init ==
    /\ InitTable
    /\ iws = DefaultWindow
    /\ connWindow = DefaultWindow
    /\ goaway = FALSE
    /\ request \in [req : Requests, id : {0}]
    /\ frameBuf = 0
    /\ pc = "preface"
    /\ stack = <<>>
    /\ broken = FALSE
    /\ wire = [s \in StreamIds |-> [hdrs |-> 0, data |-> 0, end |-> FALSE]]
    /\ credit = [s \in StreamIds |-> 0]
    /\ connCredit = DefaultWindow
    /\ resets = {}

-----------------------------------------------------------------------------
(***************************************************************************)
(* Writing.  A write to a live client succeeds; after the client has gone  *)
(* it may still be accepted into the write stage, or fail, and reaches     *)
(* nobody either way.                                                      *)
(***************************************************************************)
WriteResults == IF broken THEN {"ok", "failed"} ELSE {"ok"}

SendHeaders(w, s, end) ==
    IF broken THEN w
    ELSE [w EXCEPT ![s].hdrs = @ + 1, ![s].end = @ \/ end]

SendData(w, s, k, end) ==
    IF broken THEN w
    ELSE [w EXCEPT ![s].data = @ + k, ![s].end = @ \/ end]

PeerGone ==
    /\ pc # "closed"
    /\ ~ broken
    /\ broken' = TRUE
    /\ UNCHANGED <<tableVars, iws, connWindow, goaway, request,
                   frameBuf, pc, stack, ghostVars>>

-----------------------------------------------------------------------------
(***************************************************************************)
(* The start of h2_connection_loop: verify the client preface and send our *)
(* SETTINGS; a bad preface, a failed read or a failed write ends it.       *)
(***************************************************************************)
Preface ==
    /\ pc = "preface"
    /\ pc' \in {"read", "closed"}
    /\ UNCHANGED <<tableVars, iws, connWindow, goaway, request,
                   frameBuf, stack, broken, ghostVars>>

(***************************************************************************)
(* Reading a frame and dispatching it, in the frame loop or in a writer's  *)
(* wait loop: the two loops share everything but what an error comes to.   *)
(* h2_frame_header and the error code do not outlive the step, so they are *)
(* the parameters f and e.                                                 *)
(*                                                                         *)
(* Outcome is the code behind the bl h2_dispatch_frame.  No error: the     *)
(* request processing hook, which looks the frame's stream up again and    *)
(* enters h2_process_request if its request is complete and not yet being  *)
(* served.  A stream error: RST_STREAM, and the loop goes on.  Any other   *)
(* error: the frame loop sends GOAWAY and ends, the wait loop aborts the   *)
(* response it is writing.                                                 *)
(***************************************************************************)
\* Mutant: no H2S_FLAG_SERVING test.
ReadyToServeAgain(id) ==
    id # 0 /\ Found(id) /\ state[SlotOf(id)] = "HALF_CLOSED_REMOTE"

ReadyToServe(id) ==
    /\ id # 0
    /\ Found(id)
    /\ state[SlotOf(id)] = "HALF_CLOSED_REMOTE"
    /\ ~ serving[SlotOf(id)]

\* Mutant: the hook is missing from the wait loop.
HookOuterOnly(f, e) == e = "NO_ERROR" /\ ReadyToServe(f.id)' /\ ~ Nested

Hook(f, e) == e = "NO_ERROR" /\ ReadyToServe(f.id)'

\* Stream errors on stream 0 end the frame loop and leave the wait loop alone.
GoesOn(f, e) == e \in StreamErrors /\ (f.id # 0 \/ Nested)

Outcome(f, e) ==
    LET served == Hook(f, e)
        fatal  == e # "NO_ERROR" /\ ~ GoesOn(f, e)
    IN  /\ stack' = IF served
                    THEN Push([id |-> f.id, slot |-> SlotOf(f.id)', left |-> 0,
                               staged |-> FALSE], stack)
                    ELSE stack
        /\ pc' = CASE served  -> "serve"
                   [] fatal   -> IF Nested THEN "fail" ELSE "closed"
                   [] OTHER   -> Resume(stack)

Reads(f, type) == pc = "read" /\ f.type = type

\* h2_validate_frame turns a frame longer than we accept away before its
\* payload is read.
OversizeFrame(f) ==
    /\ Reads(f, "OVERSIZE")
    /\ UNCHANGED <<tableVars, iws, connWindow, goaway, request, frameBuf,
                   broken, wire, credit, connCredit, resets>>
    /\ Outcome(f, "FRAME_SIZE_ERROR")

\* Mutant: a writer retries a read that failed.
ReadFailRetries ==
    /\ pc = "read"
    /\ pc' = IF Nested THEN "body" ELSE "closed"
    /\ UNCHANGED <<tableVars, iws, connWindow, goaway, request,
                   frameBuf, stack, broken, ghostVars>>

\* Timeout, end of file or a read error: the frame loop closes the
\* connection, the wait loop aborts the response it is writing.
ReadFail ==
    /\ pc = "read"
    /\ pc' = IF Nested THEN "fail" ELSE "closed"
    /\ UNCHANGED <<tableVars, iws, connWindow, goaway, request,
                   frameBuf, stack, broken, ghostVars>>

\* The stream is in the table: may it take another HEADERS frame?
KnownVerdict(id) ==
    IF Transition(state[SlotOf(id)], "RECV_HEADERS") = Invalid
    THEN EventError(state[SlotOf(id)])
    ELSE "NO_ERROR"

\* It is not: may it be opened?
OpenVerdict ==
    IF goaway THEN "REFUSED_STREAM"
    ELSE IF QuotaReached THEN "ENHANCE_YOUR_CALM"
    ELSE IF ~ CanAllocate THEN "REFUSED_STREAM"
    ELSE "NO_ERROR"

\* Mutant: an id at or below the high-water mark is accepted.
HeadersVerdictAnyId(id) ==
    IF id % 2 = 0 THEN "PROTOCOL_ERROR"
    ELSE IF Found(id) THEN KnownVerdict(id) ELSE OpenVerdict

\* h2_validate_stream_id and the early returns of h2_handle_headers and
\* h2_stream_create, in the order the code makes them.
HeadersVerdict(id) ==
    IF id % 2 = 0 THEN "PROTOCOL_ERROR"
    ELSE IF Found(id) THEN KnownVerdict(id)
    ELSE IF id <= lastId THEN "PROTOCOL_ERROR"
    ELSE OpenVerdict

\* The state a stream is left in by a HEADERS or DATA frame it accepts.
AfterFrame(ends) ==
    IF ends THEN Transition("OPEN", "RECV_END_STREAM") ELSE "OPEN"

\* A refused frame changes nothing.  An accepted one opens its stream, or goes
\* to a stream still OPEN, before the header block is decoded: a block that is
\* at fault leaves the stream OPEN and the request struct alone.
HandleHeaders(f) ==
    /\ Reads(f, "HEADERS")
    /\ LET e  == HeadersVerdict(f.id)
           ok == f.fault = "NO_ERROR"
           st == AfterFrame(ok /\ f.bit0)
       IN  /\ CASE e # "NO_ERROR" ->
                     UNCHANGED <<tableVars, request, credit>>
                [] e = "NO_ERROR" /\ Found(f.id) ->
                     /\ StoreState(SlotOf(f.id), st)
                     /\ serving' = [serving EXCEPT ![SlotOf(f.id)] = FALSE]
                     /\ UNCHANGED <<ids, sid, window, used, lastId, credit>>
                     /\ request' = IF ok THEN [req |-> f.req, id |-> f.id] ELSE request
                [] OTHER ->
                     /\ InitSlot(AllocSlot, f.id, iws, st)
                     /\ credit' = [credit EXCEPT ![f.id] = iws]
                     /\ request' = IF ok THEN [req |-> f.req, id |-> f.id] ELSE request
           /\ UNCHANGED <<iws, connWindow, goaway, frameBuf, broken, wire, connCredit, resets>>
           /\ Outcome(f, IF e # "NO_ERROR" THEN e ELSE FaultCode(f.fault))

DataVerdict(id) ==
    IF ~ Found(id) THEN "PROTOCOL_ERROR"
    ELSE IF Transition(state[SlotOf(id)], "RECV_DATA") = Invalid
    THEN EventError(state[SlotOf(id)])
    ELSE "NO_ERROR"

HandleData(f) ==
    /\ Reads(f, "DATA")
    /\ IF DataVerdict(f.id) = "NO_ERROR"
       THEN /\ StoreState(SlotOf(f.id), AfterFrame(f.bit0))
            /\ UNCHANGED <<ids, sid, serving, window, used, lastId>>
       ELSE UNCHANGED tableVars
    /\ UNCHANGED <<iws, connWindow, goaway, request, frameBuf, broken, wire, credit,
                   connCredit, resets>>
    /\ Outcome(f, DataVerdict(f.id))

RstVerdict(f) ==
    IF f.fault # "NO_ERROR" THEN "FRAME_SIZE_ERROR"
    ELSE IF f.id % 2 = 0 \/ ~ Found(f.id) THEN "PROTOCOL_ERROR"
    ELSE IF Transition(state[SlotOf(f.id)], "RECV_RST_STREAM") = Invalid
    THEN EventError(state[SlotOf(f.id)])
    ELSE "NO_ERROR"

HandleRstStream(f) ==
    /\ Reads(f, "RST_STREAM")
    /\ IF RstVerdict(f) = "NO_ERROR"
       THEN /\ StoreState(SlotOf(f.id), "CLOSED")
            /\ resets' = resets \cup {f.id}
            /\ UNCHANGED <<ids, sid, serving, window, used, lastId>>
       ELSE UNCHANGED <<tableVars, resets>>
    /\ UNCHANGED <<iws, connWindow, goaway, request, frameBuf, broken, wire, credit,
                   connCredit>>
    /\ Outcome(f, RstVerdict(f))

(***************************************************************************)
(* h2_handle_settings.  A changed SETTINGS_INITIAL_WINDOW_SIZE is stored   *)
(* and then shifts the window of every live stream, slot by slot, up to    *)
(* the first one it would push over the maximum.  A frame carries at most  *)
(* one such entry here; a rejected entry behind it leaves it applied.      *)
(***************************************************************************)
Live(i) == sid[i] # 0 /\ state[i] # "CLOSED"

Overflows(i, delta) == Live(i) /\ window[i] + delta > MaxFlowWindow

\* Mutant: the change is not retroactive.
UnshiftedWindow(delta) == window

ShiftedWindow(delta) ==
    [i \in Slots |-> IF Live(i) /\ \A j \in 0..i : ~ Overflows(j, delta)
                     THEN window[i] + delta
                     ELSE window[i]]

\* The frame is rejected before any entry is applied.
SettingsRejected(f) ==
    IF f.id # 0 THEN "PROTOCOL_ERROR"
    ELSE IF f.fault = "FRAME_SIZE_ERROR" THEN "FRAME_SIZE_ERROR"
    ELSE IF ~ f.bit0 /\ f.n > MaxFlowWindow THEN "FLOW_CONTROL_ERROR"
    ELSE "NO_ERROR"

\* The streams whose window the client still accounts for.
Accounted(s) == s <= lastId /\ ~ wire[s].end /\ s \notin resets

HandleSettings(f) ==
    /\ Reads(f, "SETTINGS")
    /\ LET e       == SettingsRejected(f)
           applied == e = "NO_ERROR" /\ ~ f.bit0 /\ f.n # NoEntry
           delta   == f.n - iws
       IN  /\ iws' = IF applied THEN f.n ELSE iws
           /\ window' = IF applied THEN ShiftedWindow(delta) ELSE window
           /\ credit' = [s \in StreamIds |-> IF applied /\ Accounted(s)
                                             THEN credit[s] + delta ELSE credit[s]]
           /\ UNCHANGED <<ids, sid, state, serving, used, closed, lastId, connWindow,
                          goaway, request, frameBuf, broken, wire, connCredit, resets>>
           /\ Outcome(f, IF e # "NO_ERROR" THEN e
                         ELSE IF applied /\ \E i \in Slots : Overflows(i, delta)
                         THEN "FLOW_CONTROL_ERROR"
                         ELSE FaultCode(f.fault))

(***************************************************************************)
(* h2_handle_window_update.  Windows are u64 and the limit is compared     *)
(* unsigned, so a sum that is still negative counts as over the limit.     *)
(***************************************************************************)
AboveLimit(w) == w < 0 \/ w > MaxFlowWindow

WindowUpdateVerdict(f) ==
    IF f.fault # "NO_ERROR" THEN "FRAME_SIZE_ERROR"
    ELSE IF f.n = 0 THEN "PROTOCOL_ERROR"
    ELSE IF f.id = 0
    THEN IF AboveLimit(connWindow + f.n) THEN "FLOW_CONTROL_ERROR" ELSE "NO_ERROR"
    ELSE IF ~ Found(f.id)
    THEN IF f.id > lastId THEN "PROTOCOL_ERROR" ELSE "NO_ERROR"
    ELSE IF Live(SlotOf(f.id)) /\ AboveLimit(window[SlotOf(f.id)] + f.n)
    THEN "FLOW_CONTROL_ERROR"
    ELSE "NO_ERROR"

HandleWindowUpdate(f) ==
    /\ Reads(f, "WINDOW_UPDATE")
    /\ LET ok == WindowUpdateVerdict(f) = "NO_ERROR"
       IN  CASE ok /\ f.id = 0 ->
                  /\ connWindow' = connWindow + f.n
                  /\ connCredit' = connCredit + f.n
                  /\ UNCHANGED <<window, credit>>
             [] ok /\ f.id # 0 /\ Found(f.id) /\ Live(SlotOf(f.id)) ->
                  /\ window' = [window EXCEPT ![SlotOf(f.id)] = @ + f.n]
                  /\ credit' = [credit EXCEPT ![f.id] = @ + f.n]
                  /\ UNCHANGED <<connWindow, connCredit>>
             [] OTHER ->
                  UNCHANGED <<window, credit, connWindow, connCredit>>
    /\ UNCHANGED <<ids, sid, state, serving, used, closed, lastId, iws, goaway, request,
                   frameBuf, broken, wire, resets>>
    /\ Outcome(f, WindowUpdateVerdict(f))

PingVerdict(f) ==
    IF f.fault # "NO_ERROR" THEN "FRAME_SIZE_ERROR"
    ELSE IF f.id # 0 THEN "PROTOCOL_ERROR"
    ELSE "NO_ERROR"

\* h2_handle_ping: an ACK, or an echo the engine keeps no state about.
HandlePing(f) ==
    /\ Reads(f, "PING")
    /\ UNCHANGED <<tableVars, iws, connWindow, goaway, request, frameBuf,
                   broken, wire, credit, connCredit, resets>>
    /\ Outcome(f, PingVerdict(f))

GoawayVerdict(f) ==
    IF f.id # 0 THEN "PROTOCOL_ERROR"
    ELSE IF f.fault # "NO_ERROR" THEN "FRAME_SIZE_ERROR"
    ELSE "NO_ERROR"

\* h2_handle_goaway: answered in kind; from now on no new stream is opened.
HandleGoaway(f) ==
    /\ Reads(f, "GOAWAY")
    /\ goaway' = (goaway \/ GoawayVerdict(f) = "NO_ERROR")
    /\ UNCHANGED <<tableVars, iws, connWindow, request, frameBuf, broken, wire, credit,
                   connCredit, resets>>
    /\ Outcome(f, GoawayVerdict(f))

\* PRIORITY, PUSH_PROMISE, CONTINUATION and unknown types are no-ops.
HandleOther(f) ==
    /\ Reads(f, "OTHER")
    /\ UNCHANGED <<tableVars, iws, connWindow, goaway, request, frameBuf,
                   broken, wire, credit, connCredit, resets>>
    /\ Outcome(f, "NO_ERROR")

ReadFrame ==
    \E f \in Frames :
        \/ HandleHeaders(f) \/ HandleData(f) \/ HandleRstStream(f) \/ HandleSettings(f)
        \/ HandleWindowUpdate(f) \/ HandlePing(f) \/ HandleGoaway(f) \/ HandleOther(f)
        \/ OversizeFrame(f)

-----------------------------------------------------------------------------
(***************************************************************************)
(* h2_process_request, from its entry up to the first frame of the         *)
(* response.  A request answered by HEADERS alone is written and done (a   *)
(* failed HEAD falls into the 500 path, a failed status reply does not);   *)
(* a GET encodes its HEADERS at the front of h2_frame_buf and either       *)
(* leaves them staged there for h2_write_body or, if they are too long,    *)
(* writes them at once.                                                    *)
(***************************************************************************)
Serve ==
    /\ pc = "serve"
    /\ MarkServing(Top.slot)
    /\ frameBuf' = Top.id
    /\ \E res \in WriteResults :
         \/ /\ BodyLen[request.req] = HeadersOnly
            /\ wire' = SendHeaders(wire, Top.id, TRUE)
            /\ pc' \in IF res = "ok" THEN {"done"} ELSE {"done", "fail"}
            /\ UNCHANGED stack
         \/ /\ BodyLen[request.req] # HeadersOnly
            /\ \/ /\ stack' = Push([Top EXCEPT !.left = BodyLen[request.req],
                                               !.staged = TRUE], Tail(stack))
                  /\ pc' = "body"
                  /\ UNCHANGED wire
               \/ /\ stack' = Push([Top EXCEPT !.left = BodyLen[request.req]], Tail(stack))
                  /\ wire' = SendHeaders(wire, Top.id, FALSE)
                  /\ pc' = IF res = "ok" THEN "body" ELSE "fail"
    /\ UNCHANGED <<iws, connWindow, goaway, request, broken,
                   credit, connCredit, resets>>

(***************************************************************************)
(* h2_write_body.                                                          *)
(***************************************************************************)
LesserOf(a, b) == IF a <= b THEN a ELSE b

StreamCredit(a) == IF window[a.slot] < 0 THEN 0 ELSE window[a.slot]

\* Mutant: the connection's window is forgotten.
ChunkOfStream(a) == LesserOf(MaxFrameSize, LesserOf(StreamCredit(a), a.left))

Chunk(a) == LesserOf(LesserOf(MaxFrameSize, connWindow),
                     LesserOf(StreamCredit(a), a.left))

\* One DATA frame, behind the staged HEADERS if there are any; whatever is at
\* the front of h2_frame_buf is what goes out as those HEADERS.
SendChunk ==
    /\ pc = "body"
    /\ LET a     == Top
           k     == Chunk(a)
           end   == k = a.left
           w     == IF a.staged THEN SendHeaders(wire, frameBuf, FALSE) ELSE wire
           given == IF broken THEN 0 ELSE k
       IN  /\ k > 0 \/ a.left = 0
           /\ frameBuf' = IF a.staged THEN frameBuf ELSE 0
           /\ \E res \in WriteResults :
                \/ /\ res = "ok"
                   /\ wire' = SendData(w, a.id, k, end)
                   /\ connWindow' = connWindow - k
                   /\ window' = [window EXCEPT ![a.slot] = @ - k]
                   /\ credit' = [credit EXCEPT ![a.id] = @ - given]
                   /\ connCredit' = connCredit - given
                   /\ stack' = Push([a EXCEPT !.left = @ - k, !.staged = FALSE], Tail(stack))
                   /\ pc' = IF end THEN "done" ELSE "body"
                \/ /\ res = "failed"
                   /\ pc' = "fail"
                   /\ UNCHANGED <<wire, connWindow, window, credit, connCredit, stack>>
    /\ UNCHANGED <<ids, sid, state, serving, used, closed, lastId, iws, goaway, request,
                   broken, resets>>

\* No credit and body left: flush the staged HEADERS, then read a frame.
AwaitCredit ==
    /\ pc = "body"
    /\ LET a == Top
       IN  /\ Chunk(a) = 0 /\ a.left > 0
           /\ \E res \in IF a.staged THEN WriteResults ELSE {"ok"} :
                \/ /\ res = "ok"
                   /\ wire' = IF a.staged THEN SendHeaders(wire, frameBuf, FALSE) ELSE wire
                   /\ stack' = Push([a EXCEPT !.staged = FALSE], Tail(stack))
                   /\ pc' = "read"
                \/ /\ res = "failed"
                   /\ pc' = "fail"
                   /\ UNCHANGED <<wire, stack>>
    /\ UNCHANGED <<tableVars, iws, connWindow, goaway, request, frameBuf,
                   broken, credit, connCredit, resets>>

\* h2_process_request's .Lh2pr_500: a HEADERS frame with END_STREAM.
Reply500 ==
    /\ pc = "fail"
    /\ wire' = SendHeaders(wire, Top.id, TRUE)
    /\ frameBuf' = Top.id
    /\ pc' = "done"
    /\ UNCHANGED <<tableVars, iws, connWindow, goaway, request, stack,
                   broken, credit, connCredit, resets>>

\* h2_process_request's .Lh2pr_done, and the return to its caller.
Finish ==
    /\ pc = "done"
    /\ CloseServed(Top.slot, Top.id)
    /\ stack' = Tail(stack)
    /\ pc' = Resume(Tail(stack))
    /\ UNCHANGED <<iws, connWindow, goaway, request, frameBuf, broken,
                   ghostVars>>

\* The connection is over; the process exits.
Closed == pc = "closed" /\ UNCHANGED vars

Respond == Serve \/ SendChunk \/ AwaitCredit \/ Reply500 \/ Finish

Server == Preface \/ ReadFail \/ Respond

Next == ReadFrame \/ Server \/ PeerGone \/ Closed

Spec == Init /\ [][Next]_vars

-----------------------------------------------------------------------------
(***************************************************************************)
(* What the engine promises.                                               *)
(***************************************************************************)

\* H2S_FLAG_SERVING marks exactly the streams that have an activation of
\* h2_process_request, no stream has two, and an activation whose stream is
\* still in the table holds the slot it is in: the recursion never re-enters
\* a stream already being served (defs.S on H2S_FLAG_SERVING).
ServingIsOnStack ==
    /\ \A i \in Slots : serving[i] <=> \E k \in DOMAIN stack :
                             stack[k].id = sid[i] /\ (pc = "serve" => k > 1)
    /\ \A k, l \in DOMAIN stack : stack[k].id = stack[l].id => k = l
    /\ \A k \in DOMAIN stack, i \in Slots : stack[k].id = sid[i] => stack[k].slot = i

\* Whenever the engine is about to read a frame, in the loop or nested in a
\* writer, every complete request already has its response under way: none
\* "would sit decoded and unanswered until the connection timed out".
NoRequestLeftBehind ==
    pc \in {"read", "body"} =>
        \A i \in Slots : state[i] = "HALF_CLOSED_REMOTE" => serving[i]

\* No stream is closed behind the client's back: an entry is CLOSED only once
\* the client has END_STREAM or has itself reset the stream, even when the slot
\* changed hands while the stream was being served (h2_process_request's
\* re-check at .Lh2pr_done).
ClosedMeansEnded ==
    ~ broken => \A i \in Slots : state[i] = "CLOSED" =>
                    sid[i] \in resets \/ (sid[i] \in StreamIds /\ wire[sid[i]].end)

\* On every stream the HEADERS of the response come before its DATA, although
\* they sit staged in the shared h2_frame_buf while nested responses may be
\* encoded into it, and nothing follows END_STREAM: no second response, no 500
\* behind a finished one, no DATA from a writer that outlived its stream.
ResponseFraming ==
    [][\A s \in StreamIds :
          /\ wire[s].end => wire'[s] = wire[s]
          /\ wire'[s].data > 0 \/ wire'[s].end => wire'[s].hdrs > 0]_vars

\* DATA never exceeds what the client has granted the connection, nor, on a
\* stream it has not reset, what it has granted that stream -- across
\* retroactive SETTINGS shifts, negative windows, recycled slots and nesting.
WithinCredit ==
    [][\A s \in StreamIds : wire'[s].data > wire[s].data =>
          /\ wire'[s].data - wire[s].data <= connCredit
          /\ s \notin resets => wire'[s].data - wire[s].data <= credit[s]]_vars

-----------------------------------------------------------------------------
(***************************************************************************)
(* What the comments of the source say and the code does not do.           *)
(***************************************************************************)

\* h2_connection_loop.S hands h2_process_request the stream a frame completed;
\* the request struct it then answers from is that stream's.
OwnRequest == pc = "serve" => request.id = Top.id

=============================================================================
