----------------------------- MODULE Transport -----------------------------
(***************************************************************************)
(* The write side of the transport seam (src/transport), over the life of  *)
(* one connection: transport_write and transport_writev stage bytes while  *)
(* transport_write_buffering is on, transport_flush puts the stage on the  *)
(* wire, transport_read flushes before it blocks, and the connection's end *)
(* (h2_connection_loop, main.S, child_end) flushes, turns buffering off,   *)
(* returns the mode to PLAIN and closes.                                   *)
(*                                                                         *)
(* The process is single-threaded; what is nondeterministic is the caller  *)
(* (which calls, of which sizes), the kernel (how much of each write it    *)
(* takes, and when it fails one) and the peer.  EINTR is retried with      *)
(* nothing changed, so it is a stuttering step.  A failed write may be     *)
(* followed by one that succeeds: the code does not remember the failure.  *)
(*                                                                         *)
(* The wire carries cells <<record, length, byte>>.  A plaintext byte b is *)
(* the cell <<0, 0, b>>.  A TLS record number r that seals the bytes p is  *)
(* an opaque run of Len(p) + 1 cells: <<r, Len(p), 0>> for its header and  *)
(* tag, then one cell per byte; the peer can read nothing of it before all *)
(* of it has arrived, nor if an earlier record has not.                    *)
(***************************************************************************)
EXTENDS Integers, Sequences

CONSTANTS
    StageSize,    \* WRITE_STAGE_SIZE
    MaxPlain,     \* TLS_MAX_PLAINTEXT
    MaxPart,      \* bound: the longest header or body one call passes
    MaxBytes      \* bound: the bytes written in one connection

ASSUME TransportAssumption ==
    /\ StageSize \in Nat \ {0}
    /\ MaxPlain \in Nat \ {0}
    /\ MaxPart \in Nat
    /\ MaxBytes \in Nat

Links == {"http1", "h2c", "h2tls"}

VARIABLES
    link,        \* the kind of connection this is
    mode,        \* transport_mode
    buffering,   \* transport_write_buffering
    stage,       \* write_stage_buf, up to write_stage_len
    pc,          \* "caller", in a socket write ("send"), "blocked", "closed"
    after,       \* what goes on when the socket write in progress is done
    args,        \* the parts of the call that waits for its flush
    plain,       \* plaintext of the write in progress not yet sealed
    iov,         \* what the raw write in progress still has to send
    sealSeq,     \* records sealed so far
    peer,        \* the other end: records opened, cells of the next one,
                 \*   bytes read, whether anything arrived in the clear
    accepted,    \* how many bytes callers have written; they are 1..accepted
    broken       \* a write to the socket has failed

call == <<pc, after, args, plain, iov>>
vars == <<link, mode, buffering, stage, call, sealSeq, peer, accepted, broken>>

Bytes(n, k) == [i \in 1..k |-> n + i]

Init ==
    /\ link \in Links
    /\ mode = IF link = "h2tls" THEN "TLS" ELSE "PLAIN"
    /\ buffering = FALSE
    /\ stage = <<>>
    /\ pc = "caller"
    /\ after = "return"
    /\ args = <<>>
    /\ plain = <<>>
    /\ iov = <<>>
    /\ sealSeq = 0
    /\ peer = [opened |-> 0, part |-> <<>>, read |-> <<>>, clear |-> FALSE]
    /\ accepted = 0
    /\ broken = FALSE

-----------------------------------------------------------------------------
(* The raw socket writes.                                                  *)

\* Mutant: empty entries are handed to the kernel.
SkipEmptyNot(v) == v

\* raw_writev_all drops the empty entries at the head of the array before
\* every writev; raw_write_all stops when its one buffer is empty.
SkipEmpty(v) ==
    LET full == {i \in DOMAIN v : v[i] # <<>>}
    IN  IF full = {} THEN <<>>
        ELSE SubSeq(v, CHOOSE i \in full : \A j \in full : i <= j, Len(v))

Total(v) == IF v = <<>> THEN 0
            ELSE IF Len(v) = 1 THEN Len(v[1]) ELSE Len(v[1]) + Len(v[2])

Joined(v) == IF v = <<>> THEN <<>>
             ELSE IF Len(v) = 1 THEN v[1] ELSE v[1] \o v[2]

\* The array after the kernel took n of its bytes: entries covered whole are
\* dropped, the one it stopped in is advanced in place.
Consume(v, n) ==
    IF n < Len(v[1]) THEN <<SubSeq(v[1], n + 1, Len(v[1]))>> \o Tail(v)
    ELSE IF Len(v) = 1 THEN <<>>
    ELSE <<SubSeq(v[2], n - Len(v[1]) + 1, Len(v[2]))>>

PlainCells(p) == [i \in DOMAIN p |-> <<0, 0, p[i]>>]

Seal(r, p) ==
    <<<<r, Len(p), 0>>>> \o [i \in DOMAIN p |-> <<r, Len(p), p[i]>>]

ChunkLen(p) == IF Len(p) < MaxPlain THEN Len(p) ELSE MaxPlain

\* transport_write_now on one buffer, or raw_writev_all on two: in PLAIN mode
\* the parts go to the kernel as they are; in TLS mode the first chunk is
\* sealed and the rest waits until that record is on the wire.
StartNow(parts, next) ==
    /\ pc' = "send"
    /\ after' = next
    /\ IF mode = "PLAIN"
       THEN /\ iov' = [i \in DOMAIN parts |-> PlainCells(parts[i])]
            /\ plain' = <<>>
            /\ UNCHANGED sealSeq
       ELSE LET p == Joined(parts)
            IN  IF p = <<>>
                THEN iov' = <<>> /\ plain' = <<>> /\ UNCHANGED sealSeq
                ELSE /\ iov' = <<Seal(sealSeq + 1, SubSeq(p, 1, ChunkLen(p)))>>
                     /\ plain' = SubSeq(p, ChunkLen(p) + 1, Len(p))
                     /\ sealSeq' = sealSeq + 1

\* transport_flush: the stage is emptied before the write, not after it.
Flush(next) ==
    /\ stage' = <<>>
    /\ StartNow(<<stage>>, next)

-----------------------------------------------------------------------------
(* The calls.                                                              *)

\* transport_write of one buffer.  With buffering on: append when it fits,
\* otherwise flush first and reconsider ("write").
WriteOne(buf) ==
    \/ /\ ~buffering
       /\ args' = <<>>
       /\ StartNow(<<buf>>, "return")
       /\ UNCHANGED stage
    \/ /\ buffering
       /\ Len(stage) + Len(buf) <= StageSize
       /\ stage' = stage \o buf
       /\ UNCHANGED <<call, sealSeq>>
    \/ /\ buffering
       /\ Len(stage) + Len(buf) > StageSize
       /\ args' = <<buf>>
       /\ Flush("write")

\* The caller is running: an HTTP/1 connection, or an HTTP/2 one in its loop.
Running == pc = "caller" /\ (buffering \/ link = "http1")

TransportWrite(n) ==
    /\ Running
    /\ accepted + n <= MaxBytes
    /\ accepted' = accepted + n
    /\ WriteOne(Bytes(accepted, n))
    /\ UNCHANGED <<link, mode, buffering, peer, broken>>

\* transport_writev of a header and a body.  TLS joins them and writes one
\* buffer; PLAIN stages both when they fit, and otherwise flushes and hands
\* both to one writev.
TransportWritev(h, b) ==
    LET hdr == Bytes(accepted, h)
        body == Bytes(accepted + h, b)
    IN  /\ Running
        /\ accepted + h + b <= MaxBytes
        /\ accepted' = accepted + h + b
        /\ \/ mode = "TLS" /\ WriteOne(hdr \o body)
           \/ /\ mode = "PLAIN"
              /\ ~buffering
              /\ args' = <<>>
              /\ StartNow(<<hdr, body>>, "return")
              /\ UNCHANGED stage
           \/ /\ mode = "PLAIN"
              /\ buffering
              /\ Len(stage) + h + b <= StageSize
              /\ stage' = stage \o hdr \o body
              /\ UNCHANGED <<call, sealSeq>>
           \/ /\ mode = "PLAIN"
              /\ buffering
              /\ Len(stage) + h + b > StageSize
              /\ args' = <<hdr, body>>
              /\ Flush("writev")
        /\ UNCHANGED <<link, mode, buffering, peer, broken>>

\* Mutant: the refill read without the flush in front of it.
TransportReadUnflushed ==
    /\ pc = "caller"
    /\ buffering
    /\ pc' = "blocked"
    /\ UNCHANGED <<after, args, plain, iov, sealSeq, stage, link, mode,
                   buffering, peer, accepted, broken>>

\* transport_read that finds its stage empty: flush, then block in read().
TransportRead ==
    /\ pc = "caller"
    /\ buffering
    /\ Flush("read")
    /\ args' = <<>>
    /\ UNCHANGED <<link, mode, buffering, peer, accepted, broken>>

\* HTTP/1 reads the socket itself (read_loop), with nothing flushed first.
DirectRead ==
    /\ pc = "caller"
    /\ link = "http1"
    /\ pc' = "blocked"
    /\ UNCHANGED <<after, args, plain, iov, sealSeq, stage, link, mode,
                   buffering, peer, accepted, broken>>

\* The peer sends, closes, or the receive timeout expires.
ReadReturns ==
    /\ pc = "blocked"
    /\ pc' = "caller"
    /\ UNCHANGED <<after, args, plain, iov, sealSeq, stage, link, mode,
                   buffering, peer, accepted, broken>>

\* h2_connection_loop: the stage is reset and buffering turned on.
LoopStart ==
    /\ pc = "caller"
    /\ link # "http1"
    /\ ~buffering
    /\ stage' = <<>>
    /\ buffering' = TRUE
    /\ UNCHANGED <<link, mode, call, sealSeq, peer, accepted, broken>>

\* .Lh2cl_end: flush, whose result is not looked at, then buffering off.
LoopEnd ==
    /\ pc = "caller"
    /\ buffering
    /\ Flush("loopend")
    /\ args' = <<>>
    /\ UNCHANGED <<link, mode, buffering, peer, accepted, broken>>

\* A connection that ends outside the HTTP/2 loop: a TLS one returns the mode
\* to PLAIN (Lmain_tls_close), then child_end flushes and closes.
End ==
    /\ pc = "caller"
    /\ ~buffering
    /\ mode' = "PLAIN"
    /\ pc' = "send"
    /\ after' = "close"
    /\ iov' = <<PlainCells(stage)>>
    /\ stage' = <<>>
    /\ UNCHANGED <<link, buffering, args, plain, sealSeq, peer, accepted, broken>>

-----------------------------------------------------------------------------
(* The peer, the kernel, and what follows a write.                         *)

Payload(cells) == [i \in DOMAIN cells |-> cells[i][3]]

\* As many cells as the header says, all of the record that comes next.
Complete(part) ==
    /\ Len(part) = part[1][2] + 1
    /\ \A i \in DOMAIN part : part[i][1] = peer.opened + 1

\* Plaintext is read as it comes; the cells of a record are kept until it is
\* complete.  After a record cut short there is never a complete one again.
Receives(cells) ==
    LET part == peer.part \o cells
    IN  IF cells[1][1] = 0
        THEN [peer EXCEPT !.read = @ \o Payload(cells), !.clear = TRUE]
        ELSE IF Complete(part)
        THEN [peer EXCEPT !.opened = @ + 1, !.part = <<>>,
                          !.read = @ \o Payload(Tail(part))]
        ELSE [peer EXCEPT !.part = part]

\* write(2) or writev(2) takes n cells of what is left.
KernelTakes(n) ==
    LET v == SkipEmpty(iov)
    IN  /\ pc = "send"
        /\ v # <<>>
        /\ n \in 1..Total(v)
        /\ iov' = Consume(v, n)
        /\ peer' = Receives(SubSeq(Joined(v), 1, n))
        /\ UNCHANGED <<link, mode, buffering, stage, pc, after, args, plain,
                       sealSeq, accepted, broken>>

\* The next chunk of a TLS write is sealed once the record before it is out.
SealNext ==
    /\ pc = "send"
    /\ SkipEmpty(iov) = <<>>
    /\ plain # <<>>
    /\ StartNow(<<plain>>, after)
    /\ UNCHANGED <<link, mode, buffering, stage, args, peer, accepted, broken>>

\* Back in transport_write after its flush: with an empty stage, a buffer
\* larger than the stage goes straight out and any other is staged at 0.
Reconsider(buf) ==
    IF Len(buf) > StageSize
    THEN StartNow(<<buf>>, "return") /\ UNCHANGED stage
    ELSE /\ stage' = buf
         /\ pc' = "caller"
         /\ UNCHANGED <<after, plain, iov, sealSeq>>

ReturnToCaller ==
    /\ pc' = "caller"
    /\ UNCHANGED <<after, plain, iov, sealSeq, stage>>

\* The loop is over: buffering off, the mode back to PLAIN, and child_end's
\* own flush of whatever is staged.
LeaveLoop(staged) ==
    /\ buffering' = FALSE
    /\ mode' = "PLAIN"
    /\ stage' = <<>>
    /\ pc' = "send"
    /\ after' = "close"
    /\ iov' = <<PlainCells(staged)>>

SendDone ==
    /\ pc = "send"
    /\ SkipEmpty(iov) = <<>>
    /\ plain = <<>>
    /\ args' = <<>>
    /\ \/ after = "return" /\ ReturnToCaller /\ UNCHANGED <<mode, buffering>>
       \/ after = "write" /\ Reconsider(args[1]) /\ UNCHANGED <<mode, buffering>>
       \/ /\ after = "writev"
          /\ StartNow(args, "return")
          /\ UNCHANGED <<stage, mode, buffering>>
       \/ /\ after = "read"
          /\ pc' = "blocked"
          /\ UNCHANGED <<after, plain, iov, sealSeq, stage, mode, buffering>>
       \/ after = "loopend" /\ LeaveLoop(stage) /\ UNCHANGED <<plain, sealSeq>>
       \/ /\ after = "close"
          /\ pc' = "closed"
          /\ UNCHANGED <<after, plain, iov, sealSeq, stage, mode, buffering>>
    /\ UNCHANGED <<link, peer, accepted, broken>>

\* What is staged after a failed write: the flush took everything out first.
StageAfterFailure == stage

\* Mutant: a record that failed gives its number back.
SeqRolledBack == IF mode = "TLS" THEN sealSeq - 1 ELSE sealSeq

\* A record number is used up when the record is sealed, sent or not.
SeqAfterFailure == sealSeq

\* The write fails: its caller gets the error and the rest of the call, the
\* flushed stage included, is gone.
SendFails ==
    /\ pc = "send"
    /\ SkipEmpty(iov) # <<>>
    /\ broken' = TRUE
    /\ args' = <<>>
    /\ plain' = <<>>
    /\ sealSeq' = SeqAfterFailure
    /\ \/ /\ after \in {"return", "write", "writev", "read"}
          /\ stage' = StageAfterFailure
          /\ pc' = "caller"
          /\ iov' = <<>>
          /\ UNCHANGED <<after, mode, buffering>>
       \/ after = "loopend" /\ LeaveLoop(StageAfterFailure)
       \/ /\ after = "close"
          /\ pc' = "closed"
          /\ iov' = <<>>
          /\ UNCHANGED <<after, stage, mode, buffering>>
    /\ UNCHANGED <<link, peer, accepted>>

Next ==
    \/ \E n \in 1..MaxPart : TransportWrite(n)
    \/ \E h \in 1..MaxPart, b \in 0..MaxPart : TransportWritev(h, b)
    \/ TransportRead \/ DirectRead \/ ReadReturns
    \/ LoopStart \/ LoopEnd \/ End
    \/ \E n \in 1..(2 * MaxPart + StageSize + 1) : KernelTakes(n)
    \/ SealNext \/ SendDone \/ SendFails

Spec == Init /\ [][Next]_vars

\* The process itself never stops: a write in progress goes on (the kernel
\* takes something of every write it does not fail), and a connection that
\* stops writing comes back to its read.
Fairness ==
    /\ WF_vars(\E n \in 1..(2 * MaxPart + StageSize + 1) : KernelTakes(n))
    /\ WF_vars(SealNext \/ SendDone)
    /\ WF_vars(TransportRead)

FairSpec == Spec /\ Fairness

-----------------------------------------------------------------------------
(* Properties.                                                             *)

\* The seam implements the abstract byte stream: everything written arrives
\* once and in order, nothing is still staged when the connection blocks on
\* the peer or closes, whatever mix of staged, direct and vectored writes the
\* callers make and however the kernel splits them (transport_write's ORDERING
\* and DEADLOCK notes).
Stream == INSTANCE Channel WITH
    promised <- accepted,
    delivered <- peer.read,
    phase <- IF pc \in {"caller", "send"} THEN "run" ELSE pc,
    broken <- broken

ImplementsChannel == Stream!ChSpec

\* On an encrypted connection nothing leaves in the clear, although the mode
\* goes back to PLAIN before child_end's last flush (main.S:1063,
\* child_end.S:40), and the peer reads an unbroken prefix of what was written,
\* even when writes failed and later ones went through: a record number is
\* never used again.
SealedPrefix ==
    link = "h2tls" => ~peer.clear /\ peer.read = Bytes(0, Len(peer.read))

\* Every byte a caller wrote reaches the peer, unless a write failed: no byte
\* stays staged for good and no raw write spins on what it cannot send.
EverythingDelivered ==
    \A b \in 1..MaxBytes :
        (accepted >= b) ~> (broken \/ Len(peer.read) >= b)

=============================================================================
