----------------------------- MODULE H2Streams -----------------------------
(***************************************************************************)
(* The fixed HTTP/2 stream table of one connection (src/h2/data.S) and the *)
(* operations on it: lookup (h2_stream_find), find-or-create with slot     *)
(* recycling (h2_stream_create), the receive-side state machine            *)
(* (h2_stream_event), and the close at the end of a response               *)
(* (h2_process_request).  The table is kept four times over: the entries,  *)
(* the packed id index the lookups scan, and the `used' and `closed'       *)
(* bitmaps the allocator reads; nothing but the discipline of the writers  *)
(* keeps the four in step.                                                 *)
(*                                                                         *)
(* This module holds the table's state, the operators that read it, and    *)
(* the (multi-variable) writes; H2Conn composes them into the frame        *)
(* handlers.                                                               *)
(***************************************************************************)
EXTENDS Integers, FiniteSets

CONSTANTS
    H2_MAX_STREAMS,          \* slots of the table (32 in defs.S)
    MAX_CONCURRENT_STREAMS   \* streams a client may hold open (32 in defs.S)

ASSUME TableSize == H2_MAX_STREAMS \in Nat \ {0}

\* defs.S: the quota "matches the fixed stream table size, so the table can
\* always hold a full quota of open streams".
ASSUME QuotaFits == MAX_CONCURRENT_STREAMS \in 1..H2_MAX_STREAMS

VARIABLES
    ids,       \* h2_stream_ids: the packed id index, one u32 per slot
    sid,       \* H2S_STREAM_ID of each entry; 0 marks a free slot
    state,     \* H2S_STATE of each entry
    serving,   \* the H2S_FLAG_SERVING bit of H2S_FLAGS
    window,    \* H2S_WINDOW: the stream's send window, signed
    used,      \* h2_stream_used, as the set of slots whose bit is set
    closed,    \* h2_stream_closed, likewise
    lastId     \* H2C_LAST_STREAM_ID: the high-water mark of client streams

tableVars == <<ids, sid, state, serving, window, used, closed, lastId>>

Slots == 0 .. H2_MAX_STREAMS - 1

States == {"IDLE", "OPEN", "HALF_CLOSED_REMOTE", "HALF_CLOSED_LOCAL", "CLOSED"}

(***************************************************************************)
(* h2_stream_transitions: a pair that is not listed is 0xff, invalid.      *)
(***************************************************************************)
Invalid == "0xff"

Transition(st, ev) ==
    CASE st = "IDLE" /\ ev = "RECV_HEADERS"                       -> "OPEN"
      [] st = "OPEN" /\ ev \in {"RECV_HEADERS", "RECV_DATA"}      -> "OPEN"
      [] st = "OPEN" /\ ev = "RECV_END_STREAM"                    -> "HALF_CLOSED_REMOTE"
      [] st = "HALF_CLOSED_LOCAL" /\ ev = "RECV_END_STREAM"       -> "CLOSED"
      [] st # "IDLE" /\ ev = "RECV_RST_STREAM"                    -> "CLOSED"
      [] OTHER                                                    -> Invalid

\* The error h2_stream_event returns for an invalid transition.
EventError(st) == IF st = "IDLE" THEN "PROTOCOL_ERROR" ELSE "STREAM_CLOSED"

(***************************************************************************)
(* h2_stream_find: the lowest slot of the packed index that matches.  Id 0 *)
(* matches every free slot, as in the NEON scan.                           *)
(***************************************************************************)
Found(id) == \E i \in Slots : ids[i] = id

SlotOf(id) == CHOOSE i \in Slots :
                 /\ ids[i] = id
                 /\ \A j \in Slots : ids[j] = id => i <= j

(***************************************************************************)
(* h2_stream_create's two allocation questions, both answered from the     *)
(* bitmaps and the packed index, never from the entries.                   *)
(***************************************************************************)
FreeSlots == Slots \ used

LowestFree == CHOOSE i \in FreeSlots : \A j \in FreeSlots : i <= j

\* Mutant: the recycler scans every used slot.
OldestUsed == CHOOSE i \in used : \A j \in used : ids[i] <= ids[j]

\* The CLOSED slot with the smallest id; strictly-lower wins, lowest slot first.
OldestClosed == CHOOSE i \in closed :
                   \A j \in closed : ids[i] < ids[j] \/ (ids[i] = ids[j] /\ i <= j)

CanAllocate == FreeSlots # {} \/ closed # {}

AllocSlot == IF FreeSlots # {} THEN LowestFree ELSE OldestClosed

\* The streams h2_handle_headers counts against the quota, read from the entries.
OpenSlots == {i \in Slots : state[i] \notin {"IDLE", "CLOSED"}}

\* Mutant: an off-by-one in the quota.
QuotaPassed == Cardinality(OpenSlots) > MAX_CONCURRENT_STREAMS

QuotaReached == Cardinality(OpenSlots) >= MAX_CONCURRENT_STREAMS

-----------------------------------------------------------------------------
(***************************************************************************)
(* Writes.                                                                 *)
(***************************************************************************)

\* Mutant: the closed bitmap is left behind.
StoreStateOnly(i, st) == state' = [state EXCEPT ![i] = st] /\ UNCHANGED closed

\* h2_stream_event storing a valid transition: the state and, with it, the
\* slot's bit of the closed bitmap.
StoreState(i, st) ==
    /\ state' = [state EXCEPT ![i] = st]
    /\ closed' = IF st = "CLOSED" THEN closed \cup {i} ELSE closed \ {i}

\* h2_stream_create's .Lh2_create_init for a new stream id, followed by the
\* transitions its only caller then drives it through, which end in st.
InitSlot(i, id, win, st) ==
    /\ ids' = [ids EXCEPT ![i] = id]
    /\ sid' = [sid EXCEPT ![i] = id]
    /\ used' = used \cup {i}
    /\ StoreState(i, st)
    /\ serving' = [serving EXCEPT ![i] = FALSE]
    /\ window' = [window EXCEPT ![i] = win]
    /\ lastId' = id

\* h2_process_request's entry: H2S_FLAG_SERVING goes up.
MarkServing(i) ==
    /\ serving' = [serving EXCEPT ![i] = TRUE]
    /\ UNCHANGED <<ids, sid, state, window, used, closed, lastId>>

\* Mutants: the slot is not re-checked; the state is left alone.
CloseServedUnchecked(i, id) ==
    /\ state' = [state EXCEPT ![i] = "CLOSED"]
    /\ closed' = closed \cup {i}
    /\ serving' = [serving EXCEPT ![i] = FALSE]
    /\ UNCHANGED <<ids, sid, window, used, lastId>>

CloseServedNot(i, id) ==
    /\ serving' = [serving EXCEPT ![i] = FALSE]
    /\ UNCHANGED <<ids, sid, state, window, used, closed, lastId>>

\* h2_process_request's .Lh2pr_done: the entry is closed only if it still
\* belongs to the stream that was served.
CloseServed(i, id) ==
    IF sid[i] = id
    THEN /\ state' = [state EXCEPT ![i] = "CLOSED"]
         /\ closed' = closed \cup {i}
         /\ serving' = [serving EXCEPT ![i] = FALSE]
         /\ UNCHANGED <<ids, sid, window, used, lastId>>
    ELSE UNCHANGED tableVars

\* h2_connection_loop's per-connection reset.
InitTable ==
    /\ ids = [i \in Slots |-> 0]
    /\ sid = [i \in Slots |-> 0]
    /\ state = [i \in Slots |-> "IDLE"]
    /\ serving = [i \in Slots |-> FALSE]
    /\ window = [i \in Slots |-> 0]
    /\ used = {}
    /\ closed = {}
    /\ lastId = 0

TableTypeOK ==
    /\ ids \in [Slots -> Nat]
    /\ sid \in [Slots -> Nat]
    /\ state \in [Slots -> States]
    /\ serving \in [Slots -> BOOLEAN]
    /\ window \in [Slots -> Int]
    /\ used \subseteq Slots
    /\ closed \subseteq Slots
    /\ lastId \in Nat

-----------------------------------------------------------------------------
(***************************************************************************)
(* What the writers must preserve.                                         *)
(***************************************************************************)

\* The packed index and the two bitmaps say what the entries say (data.S:
\* "Slot i here and entry i there are the same stream"; `used' and `closed').
TableInStep ==
    /\ ids = sid
    /\ used = {i \in Slots : sid[i] # 0}
    /\ closed = {i \in Slots : state[i] = "CLOSED"}

\* No two slots hold the same stream, every held id is an odd client id at or
\* below the high-water mark, and a slot is IDLE exactly when it is free (a
\* stream is never left behind in IDLE by a handler).
SlotsDistinct ==
    /\ \A i, j \in Slots : sid[i] # 0 /\ sid[i] = sid[j] => i = j
    /\ \A i \in Slots : sid[i] <= lastId
    /\ \A i \in Slots : sid[i] # 0 => sid[i] % 2 = 1
    /\ \A i \in Slots : state[i] = "IDLE" <=> sid[i] = 0

\* h2_stream_create is never asked for a slot it does not have: below the
\* quota there is a free slot or a CLOSED one, so its REFUSED_STREAM exit is
\* dead code behind h2_handle_headers' count.
SlotForEveryQuota == ~ QuotaReached => CanAllocate

\* A slot changes hands only when it was free or its stream was CLOSED
\* (h2_stream_event.S: a stale bitmap would "offer a LIVE stream up for
\* recycling, which would answer a later frame with someone else's entry"),
\* and always to a larger id.
RecycleOnlyClosed ==
    [][\A i \in Slots : sid'[i] # sid[i] =>
          /\ sid[i] = 0 \/ state[i] = "CLOSED"
          /\ sid'[i] > sid[i]]_tableVars
=============================================================================
