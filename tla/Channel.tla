------------------------------ MODULE Channel ------------------------------
(***************************************************************************)
(* What the transport seam promises its callers: one ordered byte stream   *)
(* to the peer.  Bytes are numbered in the order the callers wrote them.   *)
(* A write is accepted at once and delivered later; the connection never   *)
(* blocks on the peer, and is never closed, with an accepted byte still    *)
(* undelivered, unless a write to the socket has failed.  After a failure  *)
(* bytes may be missing, but what does arrive is still in order, and on an *)
(* encrypted link nothing more arrives at all.                             *)
(***************************************************************************)
EXTENDS Integers, Sequences

VARIABLES
    promised,    \* how many bytes the callers have written
    delivered,   \* the bytes the peer has been able to read, in order
    phase,       \* "run", "blocked" on the peer, or "closed"
    broken       \* a write to the socket has failed

chVars == <<promised, delivered, phase, broken>>

ChInit ==
    /\ promised = 0
    /\ delivered = <<>>
    /\ phase = "run"
    /\ broken = FALSE

AllDelivered == delivered = [i \in 1..promised |-> i]

\* A caller writes; the channel takes every byte.
Accept ==
    /\ phase = "run"
    /\ promised' > promised
    /\ UNCHANGED <<delivered, phase, broken>>

\* Bytes arrive: a later piece of the stream, without a gap on a sound link.
Deliver ==
    /\ phase = "run"
    /\ Len(delivered') > Len(delivered)
    /\ \A i \in DOMAIN delivered : delivered'[i] = delivered[i]
    /\ \A i \in DOMAIN delivered' : delivered'[i] \in 1..promised
    /\ \A i, j \in DOMAIN delivered' : i < j => delivered'[i] < delivered'[j]
    /\ ~broken => delivered' = [i \in 1..Len(delivered') |-> i]
    /\ UNCHANGED <<promised, phase, broken>>

Break ==
    /\ phase = "run"
    /\ broken' = TRUE
    /\ phase' \in {"run", "closed"}
    /\ UNCHANGED <<promised, delivered>>

Block ==
    /\ phase = "run"
    /\ broken \/ AllDelivered
    /\ phase' = "blocked"
    /\ UNCHANGED <<promised, delivered, broken>>

Wake ==
    /\ phase = "blocked"
    /\ phase' = "run"
    /\ UNCHANGED <<promised, delivered, broken>>

Close ==
    /\ phase = "run"
    /\ broken \/ AllDelivered
    /\ phase' = "closed"
    /\ UNCHANGED <<promised, delivered, broken>>

ChNext == Accept \/ Deliver \/ Break \/ Block \/ Wake \/ Close

ChSpec == ChInit /\ [][ChNext]_chVars

=============================================================================
