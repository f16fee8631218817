----------------------------- MODULE Http1Conn -----------------------------
(***************************************************************************)
(* One plaintext HTTP/1 connection (src/sarm/child.S and src/http1): the   *)
(* read loop, the search for the end of the header, the checks a request   *)
(* goes through, the answer, and the keep-alive loop that moves pipelined  *)
(* bytes to the front of `buf` and starts over.                            *)
(*                                                                         *)
(* Bytes are cells <<r, k>>, the k-th of request r of the client's script; *)
(* the last cell of a request stands for its "\r\n\r\n".  A request is a   *)
(* record of what the code tells apart:                                    *)
(*   method   GET, HEAD, OPTIONS, POST, or PRI for the HTTP/2 preface      *)
(*   target   a file, a missing one, "*", one that fails a path check, or  *)
(*            one too long for filename_buf                                *)
(*   version  "1.1", "1.0", another after "HTTP/", or none                 *)
(*   fields   the header fields present and well formed                    *)
(*   traps    the fields whose lookup meets a malformed line first and     *)
(*            branches to reply_status(400) from wherever it is            *)
(*   conn     the value of Connection                                      *)
(*   len      its length in cells                                          *)
(*   inBody   it is part of the body of the request before it              *)
(***************************************************************************)
EXTENDS Integers, SequencesExt

CONSTANTS
    Requests,    \* the requests clients send
    BufSize,     \* BUF_SIZE, in cells
    Budget,      \* HTTP1_KEEPALIVE_BUDGET
    PrefaceLen,  \* H2_PREFACE_LEN, in cells
    MaxSent      \* bound: the requests of one connection

ASSUME Http1Assumption ==
    /\ BufSize \in Nat \ {0}
    /\ Budget \in Nat \ {0}
    /\ PrefaceLen \in Nat \ {0}
    /\ MaxSent \in Nat

\* Every request has the blank line that ends its header.
ASSUME RequestShape ==
    \A r \in Requests : r.len \in Nat \ {0} /\ r.inBody \in BOOLEAN

VARIABLES
    script,      \* what the client has sent
    sock,        \* cells on the socket
    shut,        \* the client has sent its FIN
    buf,         \* the first x7 bytes of `buf`
    got,         \* x22: bytes the last read() returned
    decided,     \* x25: the protocol is known to be HTTP/1
    pc,          \* where the process is: "closed" is its own close, "lost" a
                 \* connection that failed, "killed" one past its deadline
    headerLen,   \* request_header_len
    totalLen,    \* request_total_len
    budget,      \* request_budget
    method,      \* REQ_METHOD of the request struct
    keep,        \* keep_alive_decision
    answers      \* the responses written: the request each one is to (0 for
                 \* none), its status and its Connection header

vars == <<script, sock, shut, buf, got, decided, pc, headerLen, totalLen, budget,
          method, keep, answers>>

requestVars == <<headerLen, totalLen, budget, method, keep, answers>>

Init ==
    /\ script = <<>>
    /\ sock = <<>>
    /\ shut = FALSE
    /\ buf = <<>>
    /\ got = 0
    /\ decided = FALSE
    /\ pc = "first"
    /\ headerLen = 0
    /\ totalLen = 0
    /\ budget = Budget
    /\ method = "GET"   \* GET_ID is 0, what .bss and http1_reset_request leave
    /\ keep = FALSE
    /\ answers = <<>>

Cells(r, len) == [k \in 1..len |-> <<r, k>>]
RequestAt(cell) == script[cell[1]]
EndsHeader(cell) == cell[2] = RequestAt(cell).len

-----------------------------------------------------------------------------
(* The client.                                                             *)

\* A request; only one that announces a body is followed by one.
Send(r) ==
    /\ ~ shut
    /\ Len(script) < MaxSent
    /\ r.inBody => /\ script # <<>>
                   /\ LET b == Last(script) IN b.inBody \/ "Content-Length" \in b.fields
    /\ script' = Append(script, r)
    /\ sock' = sock \o Cells(Len(script) + 1, r.len)
    /\ UNCHANGED <<shut, buf, got, decided, pc, requestVars>>

Shut ==
    /\ ~ shut
    /\ shut' = TRUE
    /\ UNCHANGED <<script, sock, buf, got, decided, pc, requestVars>>

-----------------------------------------------------------------------------
(* What a request is answered.                                             *)

\* The statuses after which the parser has lost its place.
LostSync == {400, 408, 413, 431, 500}

\* get_header_field: the field is there, is not, or its lookup never returns.
Lookup(r, f) ==
    CASE f \in r.traps  -> "escapes"
      [] f \in r.fields -> "found"
      [] OTHER          -> "absent"

\* Mutant: the method, the status and a body do not matter.
ShouldKeepAliveAnyway(r, m, status) ==
    IF \E f \in {"Content-Length", "Connection"} : Lookup(r, f) = "escapes" THEN "escapes"
    ELSE IF r.version = "1.0" THEN (IF r.conn = "keep-alive" THEN "keep" ELSE "close")
    ELSE IF r.conn = "close" THEN "close" ELSE "keep"

\* http1_should_keep_alive, in the order of its checks; Content-Length stands
\* for Transfer-Encoding too.
ShouldKeepAlive(r, m, status) ==
    CASE m \notin {"GET", "HEAD", "OPTIONS"} \/ status \in LostSync -> "close"
      [] Lookup(r, "Content-Length") = "escapes" -> "escapes"
      [] Lookup(r, "Content-Length") = "found" -> "close"
      [] Lookup(r, "Connection") = "escapes" -> "escapes"
      [] r.conn = "close" -> "close"
      [] r.version = "1.0" /\ r.conn # "keep-alive" -> "close"
      [] OTHER -> "keep"

\* verify_http_version: 0 when the request passes.
VersionStatus(r) ==
    CASE r.version = "none"  -> 400
      [] r.version = "other" -> 505
      [] r.version = "1.1" /\ Lookup(r, "Host") # "found" -> 400
      [] OTHER -> 0

\* parse_request of a request with a known version: 0 when it passes.
ParseStatus(r) ==
    CASE r.method \notin {"GET", "HEAD", "OPTIONS"} -> 0
      [] r.target = "long" -> 414
      [] r.target = "bad" \/ Lookup(r, "Host") = "escapes" -> 400
      [] OTHER -> 0

\* get_setup, then parse_range for GET.
ResourceStatus(r) ==
    CASE r.target = "*" -> 400
      [] r.target = "missing" -> 404
      [] r.method = "GET" /\ Lookup(r, "Range") = "escapes" -> 400
      [] OTHER -> 200

\* The dispatch on the method.
DispatchStatus(r) ==
    CASE r.method = "OPTIONS" -> IF r.target = "missing" THEN 404 ELSE 204
      [] r.method \in {"GET", "HEAD"} -> ResourceStatus(r)
      [] OTHER -> 501

\* The status before the answer is encoded.
Status(r) ==
    IF VersionStatus(r) # 0 THEN VersionStatus(r)
    ELSE IF ParseStatus(r) # 0 THEN ParseStatus(r)
    ELSE DispatchStatus(r)

\* REQ_METHOD when the answer is encoded: parse_request has not run on a
\* request whose version was refused.
MethodOf(r) == IF VersionStatus(r) # 0 THEN method ELSE r.method

\* The answer to r: http1_write_response asks http1_should_keep_alive, whose
\* lookups may turn the answer into a 400.
AnswerTo(i) ==
    LET r == script[i]
        status == Status(r)
        verdict == ShouldKeepAlive(r, MethodOf(r), status)
    IN  IF verdict = "escapes"
        THEN [to |-> i, status |-> 400, keep |-> FALSE]
        ELSE [to |-> i, status |-> status, keep |-> verdict = "keep" /\ budget > 1]

\* An answer to no request, from the read loop: all of its statuses close.
ReplyAndClose(status) ==
    /\ answers' = Append(answers, [to |-> 0, status |-> status, keep |-> FALSE])
    /\ keep' = FALSE
    /\ pc' = "closed"
    /\ UNCHANGED <<headerLen, totalLen, budget, method>>

-----------------------------------------------------------------------------
(* The read loop.                                                          *)

\* parse_header_end: the length of the first whole header, 0 if there is none.
HeaderEnd(b) ==
    LET ends == {k \in DOMAIN b : EndsHeader(b[k])}
    IN  IF ends = {} THEN 0 ELSE Min(ends)

\* h2_probe: what has been read is a prefix of the preface, or starts with it.
\* A method that starts with P shares its first cell.
h2_probe(b) ==
    /\ b # <<>>
    /\ \A k \in 1..Min({Len(b), PrefaceLen}) :
          LET m == RequestAt(b[k]).method
          IN  b[k][2] = k /\ (m = "PRI" \/ (m = "POST" /\ k = 1))

\* main.S reads once to tell TLS from plaintext; what it got is handed to
\* child_with_data.
FirstRead ==
    /\ pc = "first"
    /\ \E n \in 1..Min({Len(sock), BufSize}) :
          /\ buf' = SubSeq(sock, 1, n)
          /\ got' = n
          /\ sock' = SubSeq(sock, n + 1, Len(sock))
    /\ pc' = "gotdata"
    /\ UNCHANGED <<script, shut, decided, requestVars>>

\* read_loop: read() fills what is free.
Read ==
    /\ pc = "read"
    /\ sock # <<>>
    /\ \E n \in 1..Min({Len(sock), BufSize - Len(buf)}) :
          /\ buf' = buf \o SubSeq(sock, 1, n)
          /\ got' = n
          /\ sock' = SubSeq(sock, n + 1, Len(sock))
    /\ pc' = "gotdata"
    /\ UNCHANGED <<script, shut, decided, requestVars>>

\* read() returns 0; main.S closes at once if nothing had come.
ReadEof ==
    /\ pc \in {"first", "read"}
    /\ sock = <<>>
    /\ shut
    /\ pc' = IF pc = "first" THEN "closed" ELSE "gotdata"
    /\ got' = 0
    /\ UNCHANGED <<script, sock, shut, buf, decided, requestVars>>

\* read_failed: the receive timeout, which finds nothing to read, answers 408,
\* an errno it does not list 500; a reset or a network that is gone closes
\* silently.  main.S closes silently on all three.
ReadFails ==
    /\ pc \in {"first", "read"}
    /\ \/ pc = "read" /\ sock = <<>> /\ ReplyAndClose(408)
       \/ pc = "read" /\ ReplyAndClose(500)
       \/ /\ pc' = IF pc = "first" THEN "closed" ELSE "lost"
          /\ UNCHANGED requestVars
    /\ UNCHANGED <<script, sock, shut, buf, got, decided>>

\* Lread_got_data up to Lno_header: the first data decides the protocol; then
\* a whole header is served, an end of file without one is answered 400 (or
\* nothing, if nothing was sent), a full buffer 431, and else more is read.
GotData ==
    /\ pc = "gotdata"
    /\ decided' = TRUE
    /\ \/ /\ ~ decided /\ h2_probe(buf)
          /\ pc' = "h2"
          /\ UNCHANGED requestVars
       \/ /\ decided \/ ~ h2_probe(buf)
          /\ \/ HeaderEnd(buf) # 0 /\ pc' = "found" /\ UNCHANGED requestVars
             \/ HeaderEnd(buf) = 0 /\ got = 0 /\ buf = <<>> /\ pc' = "closed"
                                   /\ UNCHANGED requestVars
             \/ HeaderEnd(buf) = 0 /\ got = 0 /\ buf # <<>> /\ ReplyAndClose(400)
             \/ HeaderEnd(buf) = 0 /\ got # 0 /\ Len(buf) >= BufSize /\ ReplyAndClose(431)
             \/ HeaderEnd(buf) = 0 /\ got # 0 /\ Len(buf) < BufSize /\ pc' = "read"
                                   /\ UNCHANGED requestVars
    /\ UNCHANGED <<script, sock, shut, buf, got>>

\* Lcheck_leftover.
CheckLeftover ==
    /\ pc = "leftover"
    /\ \/ HeaderEnd(buf) # 0 /\ pc' = "found" /\ UNCHANGED requestVars
       \/ HeaderEnd(buf) = 0 /\ Len(buf) >= BufSize /\ ReplyAndClose(431)
       \/ HeaderEnd(buf) = 0 /\ Len(buf) < BufSize /\ pc' = "read" /\ UNCHANGED requestVars
    /\ UNCHANGED <<script, sock, shut, buf, got, decided>>

-----------------------------------------------------------------------------
(* Serving, and going on.                                                  *)

\* Lheader_found to the written response.
Serve ==
    /\ pc = "found"
    /\ LET i == buf[1][1]
           a == AnswerTo(i)
       IN  /\ answers' = Append(answers, a)
           /\ keep' = a.keep
           /\ method' = MethodOf(script[i])
    /\ headerLen' = HeaderEnd(buf)
    /\ totalLen' = Len(buf)
    /\ budget' = budget - 1
    /\ pc' = "answered"
    /\ UNCHANGED <<script, sock, shut, buf, got, decided>>

\* The bytes behind the request, moved to the front of `buf`.
Leftover == IF totalLen > headerLen THEN SubSeq(buf, headerLen + 1, totalLen) ELSE <<>>

\* Mutant: on to read() without a look at what is left.
ContinueReading ==
    /\ pc = "answered"
    /\ pc' = IF keep THEN "read" ELSE "closed"
    /\ IF keep THEN buf' = Leftover /\ method' = "GET" ELSE UNCHANGED <<buf, method>>
    /\ UNCHANGED <<script, sock, shut, got, decided, headerLen, totalLen, budget, keep,
                   answers>>

\* Mutant: the budget is looked at again, off by one.
ContinueRechecks ==
    /\ pc = "answered"
    /\ pc' = IF keep /\ budget > 1 THEN "leftover" ELSE "closed"
    /\ IF keep THEN buf' = Leftover /\ method' = "GET" ELSE UNCHANGED <<buf, method>>
    /\ UNCHANGED <<script, sock, shut, got, decided, headerLen, totalLen, budget, keep,
                   answers>>

\* http1_keepalive_continue, with http1_reset_request.
Continue ==
    /\ pc = "answered"
    /\ pc' = IF keep THEN "leftover" ELSE "closed"
    /\ IF keep THEN buf' = Leftover /\ method' = "GET" ELSE UNCHANGED <<buf, method>>
    /\ UNCHANGED <<script, sock, shut, got, decided, headerLen, totalLen, budget, keep,
                   answers>>

\* The SIGALRM that Lmain_child arms: the process dies wherever it is.
Deadline ==
    /\ pc \notin {"h2", "closed", "lost", "killed"}
    /\ pc' = "killed"
    /\ UNCHANGED <<script, sock, shut, buf, got, decided, requestVars>>

Next ==
    \/ \E r \in Requests : Send(r)
    \/ Shut
    \/ FirstRead \/ Read \/ ReadEof \/ ReadFails
    \/ GotData \/ CheckLeftover \/ Serve \/ Continue \/ Deadline

Spec == Init /\ [][Next]_vars

-----------------------------------------------------------------------------
(* Properties.                                                             *)

\* Pipelined requests, however the reads cut them, are answered one by one in
\* the order they were sent, each from its own bytes, and nothing that is part
\* of a body is ever taken for a request (keep_alive.S: "a body left in the
\* socket would be misparsed as the next request").
AnswersInOrder ==
    /\ pc = "found" => buf[1] = <<Len(answers) + 1, 1>>
    /\ \A k \in DOMAIN answers : answers[k].to # 0 =>
          /\ answers[k].to = k
          /\ ~ script[k].inBody

\* What the Connection header said is what happens: after a "close" nothing
\* more is sent, and after a "keep-alive" the server does not close without
\* another answer unless the client has shut down (child.S: the decision
\* "always agrees with the Connection: header the client just received").  Only
\* a connection that is reset, or runs into its deadline, ends otherwise.
PromiseKept ==
    /\ \A k \in DOMAIN answers : k < Len(answers) => answers[k].keep
    /\ pc = "closed" /\ ~ shut /\ answers # <<>> => ~ Last(answers).keep
    /\ pc \in {"read", "leftover"} /\ answers # <<>> => Last(answers).keep

\* The server never waits in read() for a request it already has
\* (Lcheck_leftover).
NeverWaitsForWhatItHas == pc = "read" => HeaderEnd(buf) = 0

=============================================================================
