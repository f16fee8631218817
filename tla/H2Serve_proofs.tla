--------------------------- MODULE H2Serve_proofs ---------------------------
(***************************************************************************)
(* What the engine promises its client, for every table size, every set of *)
(* stream ids and every alphabet of frames: the recursion of writers never *)
(* re-enters a stream, no complete request is left behind, a response is   *)
(* framed and never resumed after its end, and DATA stays within the       *)
(* credit.  IInv of H2Conn_proofs gives the types and the table.           *)
(***************************************************************************)
EXTENDS H2Conn_proofs, FiniteSetTheorems

-----------------------------------------------------------------------------
(***************************************************************************)
(* The inductive invariant.                                                *)
(***************************************************************************)

\* Every stream in the table is one of the client's.
Known == \A i \in Slots : sid[i] # 0 => sid[i] \in StreamIds

\* No stream has two activations.
Distinct == \A k, l \in DOMAIN stack : stack[k].id = stack[l].id => k = l

\* An activation holds its stream's slot until the client resets the stream;
\* a reset stream may have lost the slot to another.
Held ==
    \A k \in DOMAIN stack :
        /\ stack[k].id <= lastId
        /\ \A i \in Slots : sid[i] = stack[k].id =>
              stack[k].slot = i /\ state[i] \in {"HALF_CLOSED_REMOTE", "CLOSED"}
        /\ stack[k].id \notin resets =>
              /\ sid[stack[k].slot] = stack[k].id
              /\ state[stack[k].slot] = "HALF_CLOSED_REMOTE"

\* H2S_FLAG_SERVING is up for the streams on the stack, except for the one
\* h2_process_request is being entered for.
Flagged ==
    /\ \A i \in Slots : serving[i] <=> \E k \in DOMAIN stack :
                             stack[k].id = sid[i] /\ (pc = "serve" => k > 1)
    /\ pc = "serve" => stack[1].id \notin resets

\* Every complete request is being served, or is about to be.
Complete ==
    \A i \in Slots : state[i] = "HALF_CLOSED_REMOTE" =>
        serving[i] \/ (pc = "serve" /\ sid[i] = stack[1].id)

\* END_STREAM has gone out only on streams that are finished, or finishing.
Unsent ==
    /\ \A k \in DOMAIN stack : wire[stack[k].id].end => k = 1 /\ pc = "done"
    /\ \A i \in Slots : Live(i) => sid[i] \notin resets
    /\ \A i \in Slots : Live(i) /\ wire[sid[i]].end => pc = "done" /\ sid[i] = stack[1].id
    /\ \A s \in StreamIds : s > lastId => ~ wire[s].end /\ s \notin resets

\* Only the innermost activation has HEADERS staged, and h2_frame_buf is its
\* own; every other one has sent them.  There is none before the preface.
Framed ==
    /\ pc = "preface" => stack = <<>>
    /\ \A s \in StreamIds : wire[s].data > 0 \/ wire[s].end => wire[s].hdrs > 0
    /\ \A k \in DOMAIN stack : stack[k].staged => k = 1 /\ pc \in {"body", "fail", "done"}
    /\ pc = "body" /\ stack[1].staged => frameBuf = stack[1].id
    /\ ~ broken => \A k \in DOMAIN stack :
          ~ stack[k].staged /\ (k > 1 \/ pc \in {"body", "read"}) => wire[stack[k].id].hdrs > 0

Ended ==
    /\ ~ broken /\ pc = "done" => wire[stack[1].id].end
    /\ ClosedMeansEnded

\* The server's window of a live stream is at most the client's account of it.
Granted ==
    /\ iws <= MaxFlowWindow
    /\ \A i \in Slots : Live(i) => window[i] <= MaxFlowWindow /\ window[i] <= credit[sid[i]]

SInv ==
    /\ Known /\ Distinct /\ Held /\ Flagged /\ Complete
    /\ Unsent /\ Framed /\ Ended /\ Granted

-----------------------------------------------------------------------------
(***************************************************************************)
(* The stack, index by index.                                              *)
(***************************************************************************)

\* Entering h2_process_request moves every activation one place down.
LEMMA PushAt ==
    ASSUME NEW a \in Activation, NEW st \in Seq(Activation)
    PROVE  /\ DOMAIN Push(a, st) = 1..(Len(st) + 1)
           /\ Push(a, st)[1] = a
           /\ \A k \in DOMAIN st : k + 1 \in DOMAIN Push(a, st) /\ Push(a, st)[k + 1] = st[k]
           /\ \A k \in DOMAIN Push(a, st) : k # 1 =>
                 k - 1 \in DOMAIN st /\ Push(a, st)[k] = st[k - 1]
<1>1. <<a>> \in Seq(Activation) /\ Len(<<a>>) = 1 /\ <<a>>[1] = a
    OBVIOUS
<1>2. /\ Len(<<a>> \o st) = 1 + Len(st)
      /\ \A k \in 1..(1 + Len(st)) : (<<a>> \o st)[k] = IF k <= 1 THEN a ELSE st[k - 1]
      /\ <<a>> \o st \in Seq(Activation)
    BY <1>1
<1> QED BY <1>2 DEF Push

\* A writer that goes on replaces the innermost activation and no other.
LEMMA ReplaceTop ==
    ASSUME NEW a \in Activation, stack \in Seq(Activation), stack # <<>>
    PROVE  /\ DOMAIN Push(a, Tail(stack)) = DOMAIN stack
           /\ 1 \in DOMAIN stack
           /\ Top = stack[1]
           /\ Push(a, Tail(stack))[1] = a
           /\ \A k \in DOMAIN stack : k # 1 => k > 1 /\ Push(a, Tail(stack))[k] = stack[k]
<1> DEFINE t == Tail(stack)
           p == Push(a, t)
<1>1. /\ t \in Seq(Activation) /\ Len(t) = Len(stack) - 1
      /\ \A k \in 1..Len(t) : t[k] = stack[k + 1]
      /\ Len(stack) \in Nat /\ Len(stack) > 0
      /\ DOMAIN t = 1..Len(t) /\ DOMAIN stack = 1..Len(stack)
    OBVIOUS
<1>2. /\ DOMAIN p = 1..(Len(t) + 1) /\ p[1] = a
      /\ \A k \in DOMAIN p : k # 1 => k - 1 \in DOMAIN t /\ p[k] = t[k - 1]
    <2> HIDE DEF t
    <2> QED BY <1>1, PushAt
<1> HIDE DEF t, p
<1>3. DOMAIN p = DOMAIN stack
    BY <1>1, <1>2
<1>4. ASSUME NEW k \in DOMAIN stack, k # 1
      PROVE  k > 1 /\ p[k] = stack[k]
    BY <1>1, <1>2, <1>3, <1>4
<1>5. 1 \in DOMAIN stack /\ Top = stack[1]
    BY <1>1 DEF Top
<1> QED BY <1>2, <1>3, <1>4, <1>5 DEF p, t

\* What an activation holds.
LEMMA ActivationAt ==
    ASSUME stack \in Seq(Activation), NEW k \in DOMAIN stack
    PROVE  /\ k \in Nat /\ k >= 1
           /\ stack[k].id \in StreamIds /\ stack[k].id \in Nat /\ stack[k].id # 0
           /\ stack[k].slot \in Slots /\ stack[k].staged \in BOOLEAN
<1>1. k \in Nat /\ k >= 1 /\ stack[k] \in Activation
    OBVIOUS
<1>2. /\ stack[k].id \in StreamIds
      /\ stack[k].slot \in Slots /\ stack[k].staged \in BOOLEAN
    BY <1>1 DEF Activation
<1>3. \A s \in StreamIds : s \in Nat /\ s # 0
    BY ClientIds
<1> QED BY <1>1, <1>2, <1>3

\* A return from h2_process_request uncovers the activation below.
LEMMA PopAt ==
    ASSUME stack \in Seq(Activation), stack # <<>>
    PROVE  /\ 1 \in DOMAIN stack /\ Top = stack[1]
           /\ \A k \in DOMAIN Tail(stack) : /\ k + 1 \in DOMAIN stack /\ k + 1 > 1
                                            /\ Tail(stack)[k] = stack[k + 1]
           /\ \A k \in DOMAIN stack : k # 1 =>
                 k - 1 \in DOMAIN Tail(stack) /\ Tail(stack)[k - 1] = stack[k]
BY DEF Top

-----------------------------------------------------------------------------
(***************************************************************************)
(* Frames.                                                                 *)
(***************************************************************************)

\* What a handler leaves behind for the code after h2_dispatch_frame: the
\* table and the accounts in order, and the frame's own stream the only one
\* that may have become complete.
Dispatched(f, e) ==
    /\ pc = "read"
    /\ Known'
    /\ \A k \in DOMAIN stack :
        /\ stack[k].id <= lastId'
        /\ \A i \in Slots : sid'[i] = stack[k].id =>
              stack[k].slot = i /\ state'[i] \in {"HALF_CLOSED_REMOTE", "CLOSED"}
        /\ stack[k].id \notin resets' =>
              /\ sid'[stack[k].slot] = stack[k].id
              /\ state'[stack[k].slot] = "HALF_CLOSED_REMOTE"
    /\ \A i \in Slots : serving'[i] <=> \E k \in DOMAIN stack : stack[k].id = sid'[i]
    /\ \A i \in Slots : state'[i] = "HALF_CLOSED_REMOTE" =>
          serving'[i] \/ (sid'[i] = f.id /\ e = "NO_ERROR")
    /\ \A i \in Slots : sid'[i] # 0 /\ state'[i] # "CLOSED" =>
          sid'[i] \notin resets' /\ ~ wire[sid'[i]].end
    /\ \A s \in StreamIds : s > lastId' => ~ wire[s].end /\ s \notin resets'
    /\ ClosedMeansEnded'
    /\ Granted'

\* The hook of both loops: it enters h2_process_request for the frame's stream
\* exactly when that stream's request is complete and not yet being served.
LEMMA FrameServes ==
    ASSUME IInv, IInv', SInv, NEW f \in Frames, NEW e, Outcome(f, e),
           Dispatched(f, e), UNCHANGED <<frameBuf, broken, wire>>
    PROVE  SInv'
<1>1. f.id \in Nat
    BY Alphabet DEF FrameSpace
<1>2. stack \in Seq(Activation) /\ stack' \in Seq(Activation) /\ pc = "read"
    BY DEF IInv, ConnTypeOK, Dispatched
<1>3. /\ \A i, j \in Slots : sid'[i] # 0 /\ sid'[i] = sid'[j] => i = j
      /\ \A i \in Slots : /\ sid'[i] <= lastId' /\ ids'[i] = sid'[i]
                          /\ state'[i] = "IDLE" <=> sid'[i] = 0
    BY DEF IInv, TableOK, SlotsDistinct, TableInStep
<1>4. \A k \in DOMAIN stack : ~ stack[k].staged /\ ~ wire[stack[k].id].end
    BY <1>2 DEF SInv, Unsent, Framed
<1>5. CASE Hook(f, e)
  <2> DEFINE a == [id |-> f.id, slot |-> SlotOf(f.id)', left |-> 0, staged |-> FALSE]
             i == SlotOf(f.id)'
  <2>1. /\ e = "NO_ERROR" /\ f.id # 0 /\ Found(f.id)'
        /\ state'[i] = "HALF_CLOSED_REMOTE" /\ ~ serving'[i]
    BY <1>5 DEF Hook, ReadyToServe
  <2>2. i \in Slots /\ ids'[i] = f.id
    BY <2>1, SlotOfFoundNext DEF IInv, TableOK, TableTypeOK
  <2>3. sid'[i] = f.id /\ f.id \in StreamIds
    BY <1>1, <1>3, <2>1, <2>2, Alphabet DEF IInv, TableOK, SlotsDistinct
  <2>4. a \in Activation
    BY <2>2, <2>3 DEF Activation
  <2>5. stack' = Push(a, stack) /\ pc' = "serve"
    BY <1>5, <2>1 DEF Outcome
  <2>6. /\ 1 \in DOMAIN stack' /\ stack'[1] = a
        /\ \A k \in DOMAIN stack : k + 1 \in DOMAIN stack' /\ k + 1 > 1 /\ stack'[k + 1] = stack[k]
        /\ \A k \in DOMAIN stack' : k # 1 =>
              k > 1 /\ k - 1 \in DOMAIN stack /\ stack'[k] = stack[k - 1]
    <3> HIDE DEF a
    <3>1. \A k \in DOMAIN stack : k \in Nat /\ k + 1 > 1
        BY <1>2
    <3>2. \A k \in DOMAIN stack' : k \in Nat /\ k >= 1
        BY <1>2
    <3>3. /\ DOMAIN stack' = 1..(Len(stack) + 1) /\ Len(stack) \in Nat /\ stack'[1] = a
          /\ \A k \in DOMAIN stack : k + 1 \in DOMAIN stack' /\ stack'[k + 1] = stack[k]
          /\ \A k \in DOMAIN stack' : k # 1 => k - 1 \in DOMAIN stack /\ stack'[k] = stack[k - 1]
        BY <1>2, <2>4, <2>5, PushAt
    <3> QED BY <3>1, <3>2, <3>3
  <2>7. a.id = f.id /\ a.slot = i /\ ~ a.staged
    OBVIOUS
  <2> HIDE DEF a, i
  <2>8. \A k \in DOMAIN stack : stack[k].id # f.id
    BY <2>1, <2>2, <2>3 DEF Dispatched
  <2>9. Distinct'
    <3> SUFFICES ASSUME NEW k \in DOMAIN stack', NEW l \in DOMAIN stack', stack'[k].id = stack'[l].id
                 PROVE  k = l
        BY DEF Distinct
    <3>1. CASE k = 1 \/ l = 1
        BY <2>6, <2>7, <2>8, <3>1
    <3>2. CASE k # 1 /\ l # 1
      <4>1. k - 1 = l - 1
        BY <2>6, <3>2 DEF SInv, Distinct
      <4>2. k \in Nat /\ l \in Nat
        BY <1>2
      <4> QED BY <4>1, <4>2
    <3> QED BY <3>1, <3>2
  <2>10. f.id \notin resets' /\ f.id <= lastId'
    BY <1>3, <2>1, <2>2, <2>3 DEF Dispatched
  <2>11. Held'
    <3> SUFFICES ASSUME NEW k \in DOMAIN stack'
                 PROVE  /\ stack'[k].id <= lastId'
                        /\ \A j \in Slots : sid'[j] = stack'[k].id =>
                              stack'[k].slot = j /\ state'[j] \in {"HALF_CLOSED_REMOTE", "CLOSED"}
                        /\ stack'[k].id \notin resets' =>
                              /\ sid'[stack'[k].slot] = stack'[k].id
                              /\ state'[stack'[k].slot] = "HALF_CLOSED_REMOTE"
        BY DEF Held
    <3>1. CASE k = 1
        BY <1>3, <2>1, <2>2, <2>3, <2>6, <2>7, <2>10, <3>1
    <3>2. CASE k # 1
        BY <2>6, <3>2 DEF Dispatched
    <3> QED BY <3>1, <3>2
  <2>12. Flagged'
    BY <2>5, <2>6, <2>7, <2>10 DEF Dispatched, Flagged
  <2>13. Complete'
    BY <2>5, <2>6, <2>7 DEF Dispatched, Complete
  <2>14. Unsent'
    <3>1. ~ wire[f.id].end
        BY <1>3, <2>1, <2>2, <2>3 DEF Dispatched
    <3>2. \A k \in DOMAIN stack' : ~ wire'[stack'[k].id].end
        BY <1>4, <2>6, <2>7, <3>1
    <3> QED BY <3>2 DEF Dispatched, Unsent, Live
  <2>15. Framed'
    <3>1. \A k \in DOMAIN stack' : ~ stack'[k].staged
        BY <1>4, <2>6, <2>7
    <3>2. ~ broken => \A k \in DOMAIN stack : wire[stack[k].id].hdrs > 0
        BY <1>2, <1>4 DEF SInv, Framed
    <3> QED BY <2>5, <2>6, <3>1, <3>2 DEF SInv, Framed
  <2> QED BY <2>5, <2>9, <2>11, <2>12, <2>13, <2>14, <2>15 DEF SInv, Ended, Dispatched
<1>6. CASE ~ Hook(f, e)
  <2>1. stack' = stack /\ pc' \in {"read", "body", "fail", "closed"}
    BY <1>6 DEF Outcome, Resume
  <2>2. Complete'
    <3> SUFFICES ASSUME NEW i \in Slots, state'[i] = "HALF_CLOSED_REMOTE", ~ serving'[i]
                 PROVE  FALSE
        BY DEF Complete
    <3>1. sid'[i] = f.id /\ e = "NO_ERROR" /\ f.id # 0
        BY <1>3 DEF Dispatched
    <3>2. Found(f.id)'
        BY <1>3, <3>1 DEF Found
    <3>3. SlotOf(f.id)' = i
        BY <1>3, <3>1, <3>2, SlotOfFoundNext DEF IInv, TableOK, TableTypeOK
    <3> QED BY <1>6, <3>1, <3>2, <3>3 DEF Hook, ReadyToServe
  <2>3. Distinct' /\ Held'
    BY <2>1 DEF SInv, Distinct, Held, Dispatched
  <2>4. Flagged'
    BY <2>1 DEF Flagged, Dispatched
  <2>5. Unsent'
    BY <1>4, <2>1 DEF Unsent, Dispatched, Live
  <2>6. Framed'
    <3>1. pc' = "body" => 1 \in DOMAIN stack
        BY <1>2, <2>1 DEF IInv, PcStack
    <3> QED BY <1>2, <1>4, <2>1, <3>1 DEF SInv, Framed
  <2> QED BY <2>1, <2>2, <2>3, <2>4, <2>5, <2>6 DEF SInv, Ended, Dispatched
<1> QED BY <1>5, <1>6

\* A frame that leaves the table and the accounts alone.
LEMMA QuietDispatched ==
    ASSUME IInv, SInv, pc = "read", NEW f, NEW e,
           UNCHANGED <<tableVars, iws, broken, wire, credit, resets>>
    PROVE  Dispatched(f, e)
BY DEF IInv, TableOK, SlotsDistinct, SInv, Known, Held, Flagged, Complete, Unsent, Ended,
       ClosedMeansEnded, Granted, Live, Dispatched, tableVars

\* A DATA frame, or a further HEADERS frame, that an OPEN stream accepts: st is
\* the state it leaves the stream in.  No writer is at work on an OPEN stream.
LEMMA AcceptedDispatched ==
    ASSUME IInv, SInv, pc = "read", NEW f, NEW e, NEW i \in Slots, NEW st,
           sid[i] = f.id, state[i] = "OPEN", StoreState(i, st),
           st = "OPEN" \/ (st = "HALF_CLOSED_REMOTE" /\ e = "NO_ERROR"),
           serving' = serving \/ serving' = [serving EXCEPT ![i] = FALSE],
           UNCHANGED <<sid, window, lastId, iws, broken, wire, credit, resets>>
    PROVE  Dispatched(f, e)
<1>1. /\ state \in [Slots -> States] /\ serving \in [Slots -> BOOLEAN]
      /\ state' = [state EXCEPT ![i] = st] /\ sid[i] # 0
    BY DEF IInv, TableOK, TableTypeOK, SlotsDistinct, StoreState
<1>2. \A k \in DOMAIN stack : stack[k].id # sid[i] /\ (stack[k].id \notin resets => stack[k].slot # i)
    BY DEF SInv, Held
<1>3. ~ serving[i]
    BY <1>2 DEF SInv, Flagged
<1>4. serving' = serving
    BY <1>1, <1>3
<1>5. \A k \in DOMAIN stack :
        /\ stack[k].id <= lastId'
        /\ \A j \in Slots : sid'[j] = stack[k].id =>
              stack[k].slot = j /\ state'[j] \in {"HALF_CLOSED_REMOTE", "CLOSED"}
        /\ stack[k].id \notin resets' =>
              /\ sid'[stack[k].slot] = stack[k].id
              /\ state'[stack[k].slot] = "HALF_CLOSED_REMOTE"
  <2>1. \A k \in DOMAIN stack : stack[k].slot \in Slots
    BY ActivationAt DEF IInv, ConnTypeOK
  <2> QED BY <1>1, <1>2, <2>1 DEF SInv, Held
<1>6. \A j \in Slots : serving'[j] <=> \E k \in DOMAIN stack : stack[k].id = sid'[j]
    BY <1>4 DEF SInv, Flagged
<1>7. \A j \in Slots : state'[j] = "HALF_CLOSED_REMOTE" =>
          serving'[j] \/ (sid'[j] = f.id /\ e = "NO_ERROR")
    BY <1>1, <1>4 DEF SInv, Complete
<1>8. \A j \in Slots : sid'[j] # 0 /\ state'[j] # "CLOSED" => Live(j)
    BY <1>1 DEF Live
<1>9. /\ \A j \in Slots : sid'[j] # 0 /\ state'[j] # "CLOSED" =>
          sid'[j] \notin resets' /\ ~ wire[sid'[j]].end
      /\ \A s \in StreamIds : s > lastId' => ~ wire[s].end /\ s \notin resets'
    BY <1>8 DEF SInv, Unsent
<1>10. Granted'
    BY <1>8 DEF SInv, Granted, Live
<1>11. ClosedMeansEnded'
    BY <1>1 DEF SInv, Ended, ClosedMeansEnded
<1>12. Known'
    BY DEF SInv, Known
<1> QED BY <1>5, <1>6, <1>7, <1>9, <1>10, <1>11, <1>12 DEF Dispatched

\* A HEADERS frame that opens a stream: the slot it gets is no writer's, unless
\* that writer's stream has been reset.
LEMMA OpenedDispatched ==
    ASSUME IInv, SInv, pc = "read", NEW f, NEW e, NEW i \in Slots, NEW st,
           f.id \in StreamIds, f.id > lastId, sid[i] = 0 \/ state[i] = "CLOSED",
           st = "OPEN" \/ (st = "HALF_CLOSED_REMOTE" /\ e = "NO_ERROR"),
           InitSlot(i, f.id, iws, st), credit' = [credit EXCEPT ![f.id] = iws],
           UNCHANGED <<iws, broken, wire, resets>>
    PROVE  Dispatched(f, e)
<1>1. /\ sid' = [sid EXCEPT ![i] = f.id] /\ state' = [state EXCEPT ![i] = st]
      /\ serving' = [serving EXCEPT ![i] = FALSE] /\ window' = [window EXCEPT ![i] = iws]
      /\ lastId' = f.id
    BY DEF InitSlot, StoreState
<1>2. /\ sid \in [Slots -> Nat] /\ state \in [Slots -> States]
      /\ serving \in [Slots -> BOOLEAN] /\ window \in [Slots -> Int]
      /\ lastId \in Nat /\ iws \in Nat /\ credit \in [StreamIds -> Int]
      /\ StreamIds \subseteq Nat /\ f.id \in Nat
    BY ClientIds DEF IInv, TableOK, TableTypeOK, ConnTypeOK, ObserverTypeOK
<1>3. \A j \in Slots : sid[j] # f.id /\ sid[j] <= lastId
    BY <1>2 DEF IInv, TableOK, SlotsDistinct
<1>4. \A k \in DOMAIN stack :
        stack[k].slot \in Slots /\ stack[k].id \in Nat /\ stack[k].id # 0
    BY ActivationAt DEF IInv, ConnTypeOK
<1>5. \A k \in DOMAIN stack :
        /\ stack[k].id # f.id /\ stack[k].id <= lastId'
        /\ stack[k].id \notin resets => stack[k].slot # i
  <2> SUFFICES ASSUME NEW k \in DOMAIN stack
               PROVE  /\ stack[k].id # f.id /\ stack[k].id <= lastId'
                      /\ stack[k].id \notin resets => stack[k].slot # i
    OBVIOUS
  <2>1. stack[k].id <= lastId /\ stack[k].id \in Nat /\ stack[k].id # 0
    BY <1>4 DEF SInv, Held
  <2>2. stack[k].id \notin resets => stack[k].slot # i
    BY <1>4, <2>1 DEF SInv, Held
  <2> QED BY <1>1, <1>2, <2>1, <2>2
<1>6. \A k \in DOMAIN stack :
        /\ \A j \in Slots : sid'[j] = stack[k].id =>
              stack[k].slot = j /\ state'[j] \in {"HALF_CLOSED_REMOTE", "CLOSED"}
        /\ stack[k].id \notin resets' =>
              /\ sid'[stack[k].slot] = stack[k].id
              /\ state'[stack[k].slot] = "HALF_CLOSED_REMOTE"
    BY <1>1, <1>2, <1>4, <1>5 DEF SInv, Held
<1>7. \A j \in Slots : serving'[j] <=> \E k \in DOMAIN stack : stack[k].id = sid'[j]
    BY <1>1, <1>2, <1>5 DEF SInv, Flagged
<1>8. \A j \in Slots : state'[j] = "HALF_CLOSED_REMOTE" =>
          serving'[j] \/ (sid'[j] = f.id /\ e = "NO_ERROR")
    BY <1>1, <1>2 DEF SInv, Complete
<1>9. \A j \in Slots : j # i /\ sid'[j] # 0 /\ state'[j] # "CLOSED" => Live(j)
    BY <1>1, <1>2 DEF Live
<1>10. ~ wire[f.id].end /\ f.id \notin resets
    BY DEF SInv, Unsent
<1>11. /\ \A j \in Slots : sid'[j] # 0 /\ state'[j] # "CLOSED" =>
              sid'[j] \notin resets' /\ ~ wire[sid'[j]].end
       /\ \A s \in StreamIds : s > lastId' => ~ wire[s].end /\ s \notin resets'
  <2>1. \A j \in Slots : j # i => sid'[j] = sid[j]
    BY <1>1, <1>2
  <2>2. sid'[i] = f.id
    BY <1>1, <1>2
  <2>3. \A j \in Slots : Live(j) => sid[j] \notin resets /\ ~ wire[sid[j]].end
    BY DEF SInv, Unsent
  <2>4. \A s \in StreamIds : s > lastId' => s > lastId
    BY <1>1, <1>2
  <2> QED BY <1>9, <1>10, <2>1, <2>2, <2>3, <2>4 DEF SInv, Unsent
<1>12. Granted'
  <2>1. ASSUME NEW j \in Slots, sid'[j] # 0 /\ state'[j] # "CLOSED"
        PROVE  window'[j] <= MaxFlowWindow /\ window'[j] <= credit'[sid'[j]]
    <3>1. CASE j = i
        BY <1>1, <1>2, <3>1 DEF SInv, Granted
    <3>2. CASE j # i
      <4>1. window'[j] = window[j] /\ sid'[j] = sid[j] /\ sid[j] # f.id
        BY <1>1, <1>2, <1>3, <3>2
      <4>2. credit'[sid[j]] = credit[sid[j]]
        <5>1. sid[j] \in StreamIds => credit'[sid[j]] = credit[sid[j]]
            BY <1>2, <4>1
        <5>2. sid[j] \in StreamIds
            BY <2>1, <4>1 DEF SInv, Known
        <5> QED BY <5>1, <5>2
      <4> QED BY <1>9, <2>1, <3>2, <4>1, <4>2 DEF SInv, Granted
    <3> QED BY <3>1, <3>2
  <2> QED BY <2>1 DEF SInv, Granted, Live
<1>13. ClosedMeansEnded'
    BY <1>1, <1>2 DEF SInv, Ended, ClosedMeansEnded
<1>14. Known'
    BY <1>1, <1>2 DEF SInv, Known
<1> QED BY <1>5, <1>6, <1>7, <1>8, <1>11, <1>12, <1>13, <1>14 DEF Dispatched

\* RST_STREAM: the stream is closed under whatever writer it has.
LEMMA ResetDispatched ==
    ASSUME IInv, SInv, pc = "read", NEW f, NEW e, NEW i \in Slots,
           f.id # 0, sid[i] = f.id, StoreState(i, "CLOSED"), resets' = resets \cup {f.id},
           UNCHANGED <<sid, serving, window, lastId, iws, broken, wire, credit>>
    PROVE  Dispatched(f, e)
<1>1. /\ state \in [Slots -> States] /\ state' = [state EXCEPT ![i] = "CLOSED"]
      /\ lastId \in Nat /\ f.id \in Nat /\ f.id <= lastId
    BY DEF IInv, TableOK, TableTypeOK, SlotsDistinct, StoreState
<1>2. \A k \in DOMAIN stack : stack[k].slot \in Slots
    BY ActivationAt DEF IInv, ConnTypeOK
<1>3. \A k \in DOMAIN stack :
        /\ stack[k].id <= lastId'
        /\ \A j \in Slots : sid'[j] = stack[k].id =>
              stack[k].slot = j /\ state'[j] \in {"HALF_CLOSED_REMOTE", "CLOSED"}
        /\ stack[k].id \notin resets' =>
              /\ sid'[stack[k].slot] = stack[k].id
              /\ state'[stack[k].slot] = "HALF_CLOSED_REMOTE"
    BY <1>1, <1>2 DEF SInv, Held
<1>4. \A j \in Slots : serving'[j] <=> \E k \in DOMAIN stack : stack[k].id = sid'[j]
    BY DEF SInv, Flagged
<1>5. \A j \in Slots : state'[j] = "HALF_CLOSED_REMOTE" => serving'[j]
    BY <1>1 DEF SInv, Complete
<1>6. \A j \in Slots : sid'[j] # 0 /\ state'[j] # "CLOSED" => Live(j) /\ sid[j] # f.id
    BY <1>1 DEF Live, IInv, TableOK, SlotsDistinct
<1>7. \A j \in Slots : sid'[j] # 0 /\ state'[j] # "CLOSED" =>
          sid'[j] \notin resets' /\ ~ wire[sid'[j]].end
    BY <1>6 DEF SInv, Unsent
<1>8. \A s \in StreamIds : s > lastId' => ~ wire[s].end /\ s \notin resets'
    BY <1>1 DEF SInv, Unsent
<1>9. Granted' /\ Known'
    BY <1>6 DEF SInv, Granted, Live, Known
<1>10. ClosedMeansEnded'
    BY <1>1 DEF SInv, Ended, ClosedMeansEnded
<1> QED BY <1>3, <1>4, <1>5, <1>7, <1>8, <1>9, <1>10 DEF Dispatched

\* A frame that changes nothing but windows and accounts.
LEMMA WindowsDispatched ==
    ASSUME IInv, SInv, pc = "read", NEW f, NEW e, Granted',
           UNCHANGED <<sid, state, serving, lastId, broken, wire, resets>>
    PROVE  Dispatched(f, e)
BY DEF SInv, Known, Held, Flagged, Complete, Unsent, Ended, ClosedMeansEnded, Live, Dispatched

\* A stream with an entry that is not CLOSED is one the client keeps an account
\* of, whenever the engine reads a frame.
LEMMA LiveAccounted ==
    ASSUME IInv, SInv, pc = "read", NEW i \in Slots, Live(i)
    PROVE  /\ sid[i] \in StreamIds /\ Accounted(sid[i])
           /\ window[i] \in Int /\ credit[sid[i]] \in Int
           /\ window[i] <= MaxFlowWindow /\ window[i] <= credit[sid[i]]
<1>1. sid[i] \in StreamIds
    BY DEF SInv, Known, Live
<1>2. sid[i] \notin resets /\ ~ wire[sid[i]].end
    BY DEF SInv, Unsent
<1> QED BY <1>1, <1>2 DEF Accounted, SInv, Granted, IInv, TableOK, TableTypeOK, SlotsDistinct,
                          ObserverTypeOK

\* A change of SETTINGS_INITIAL_WINDOW_SIZE moves every live window with the
\* client's account of it, or stops short only when the change is upwards.
LEMMA SettingsGranted ==
    ASSUME IInv, SInv, NEW f \in Frames, HandleSettings(f)
    PROVE  Granted'
<1> DEFINE applied == SettingsRejected(f) = "NO_ERROR" /\ ~ f.bit0 /\ f.n # NoEntry
           delta   == f.n - iws
<1>1. /\ iws' = IF applied THEN f.n ELSE iws
      /\ window' = IF applied THEN ShiftedWindow(delta) ELSE window
      /\ credit' = [s \in StreamIds |-> IF applied /\ Accounted(s)
                                        THEN credit[s] + delta ELSE credit[s]]
      /\ UNCHANGED <<sid, state>> /\ pc = "read"
    BY DEF HandleSettings, Reads
<1>2. /\ f.n \in Int /\ iws \in Nat /\ MaxFlowWindow \in Nat /\ iws <= MaxFlowWindow
      /\ delta \in Int
    BY Alphabet, Windows DEF FrameSpace, IInv, ConnTypeOK, SInv, Granted
<1>3. iws' <= MaxFlowWindow
    BY <1>1, <1>2 DEF SettingsRejected
<1>4. ASSUME NEW i \in Slots, Live(i)'
      PROVE  window'[i] <= MaxFlowWindow /\ window'[i] <= credit'[sid'[i]]
  <2>1. Live(i) /\ sid'[i] = sid[i]
    BY <1>1, <1>4 DEF Live
  <2>2. /\ sid[i] \in StreamIds /\ Accounted(sid[i])
        /\ window[i] \in Int /\ credit[sid[i]] \in Int
        /\ window[i] <= MaxFlowWindow /\ window[i] <= credit[sid[i]]
    BY <1>1, <2>1, LiveAccounted
  <2>3. CASE ~ applied
    BY <1>1, <2>1, <2>2, <2>3
  <2>4. CASE applied
    <3>1. credit'[sid'[i]] = credit[sid[i]] + delta
        BY <1>1, <2>1, <2>2, <2>4
    <3>2. window'[i] = IF Live(i) /\ \A j \in 0..i : ~ Overflows(j, delta)
                       THEN window[i] + delta ELSE window[i]
        BY <1>1, <2>4 DEF ShiftedWindow
    <3> HIDE DEF applied, delta
    <3>3. CASE \A j \in 0..i : ~ Overflows(j, delta)
      <4>1. i \in 0..i
        BY TableSize DEF Slots
      <4>2. window[i] + delta <= MaxFlowWindow
        BY <1>2, <2>1, <2>2, <3>3, <4>1 DEF Overflows
      <4> QED BY <1>2, <2>1, <2>2, <3>1, <3>2, <3>3, <4>2
    <3>4. CASE \E j \in 0..i : Overflows(j, delta)
      <4>1. PICK j \in 0..i : Overflows(j, delta)
        BY <3>4
      <4>2. j \in Slots
        BY TableSize DEF Slots
      <4>3. Live(j) /\ window[j] + delta > MaxFlowWindow
        BY <4>1 DEF Overflows
      <4>4. window[j] \in Int /\ window[j] <= MaxFlowWindow
        BY <1>1, <4>2, <4>3, LiveAccounted
      <4>5. delta > 0
        BY <1>2, <4>3, <4>4
      <4> QED BY <1>2, <2>2, <3>1, <3>2, <3>4, <4>5
    <3> QED BY <3>3, <3>4
  <2> QED BY <2>3, <2>4
<1> QED BY <1>3, <1>4 DEF Granted

LEMMA WindowUpdateGranted ==
    ASSUME IInv, SInv, NEW f \in Frames, HandleWindowUpdate(f)
    PROVE  Granted'
<1> DEFINE ok == WindowUpdateVerdict(f) = "NO_ERROR"
           i  == SlotOf(f.id)
<1>1. UNCHANGED <<sid, state, iws>> /\ pc = "read"
    BY DEF HandleWindowUpdate, Reads
<1>2. f.n \in Nat /\ f.id \in Nat
    BY Alphabet DEF FrameSpace, HandleWindowUpdate, Reads
<1>3. \A j \in Slots : Live(j)' <=> Live(j)
    BY <1>1 DEF Live
<1>4. CASE ok /\ f.id # 0 /\ Found(f.id) /\ Live(i)
  <2>1. /\ window' = [window EXCEPT ![i] = @ + f.n]
        /\ credit' = [credit EXCEPT ![f.id] = @ + f.n]
    BY <1>4 DEF HandleWindowUpdate
  <2>2. i \in Slots /\ sid[i] = f.id
    BY <1>2, <1>4, FoundEntry DEF IInv
  <2>3. ~ AboveLimit(window[i] + f.n)
    BY <1>4 DEF WindowUpdateVerdict
  <2> HIDE DEF i
  <2>4. ASSUME NEW j \in Slots, Live(j)
        PROVE  window'[j] <= MaxFlowWindow /\ window'[j] <= credit'[sid[j]]
    <3>1. /\ sid[j] \in StreamIds
          /\ window[j] \in Int /\ credit[sid[j]] \in Int
          /\ window[j] <= MaxFlowWindow /\ window[j] <= credit[sid[j]]
        BY <1>1, <2>4, LiveAccounted
    <3>2. window \in [Slots -> Int] /\ credit \in [StreamIds -> Int] /\ MaxFlowWindow \in Nat
        BY Windows DEF IInv, TableOK, TableTypeOK, ObserverTypeOK
    <3>3. CASE j = i
        BY <1>2, <2>1, <2>2, <2>3, <3>1, <3>2, <3>3 DEF AboveLimit
    <3>4. CASE j # i
      <4>1. sid[j] # f.id
        BY <1>4, <2>2, <3>4 DEF IInv, TableOK, SlotsDistinct
      <4> QED BY <2>1, <2>2, <3>1, <3>2, <3>4, <4>1
    <3> QED BY <3>3, <3>4
  <2> QED BY <1>1, <1>3, <2>4 DEF SInv, Granted
<1>5. CASE ~ (ok /\ f.id # 0 /\ Found(f.id) /\ Live(i))
  <2>1. UNCHANGED <<window, credit>>
    BY <1>5 DEF HandleWindowUpdate
  <2> QED BY <1>1, <1>3, <2>1 DEF SInv, Granted
<1> QED BY <1>4, <1>5

LEMMA HeadersServes ==
    ASSUME IInv, SInv, NEW f \in Frames, HandleHeaders(f)
    PROVE  SInv'
<1> DEFINE v  == HeadersVerdict(f.id)
           ok == f.fault = "NO_ERROR"
           st == AfterFrame(ok /\ f.bit0)
           e  == IF v # "NO_ERROR" THEN v ELSE FaultCode(f.fault)
<1>1. /\ Outcome(f, e) /\ pc = "read"
      /\ UNCHANGED <<iws, frameBuf, broken, wire, resets>>
    BY DEF HandleHeaders, Reads
<1>2. f.id \in Nat
    BY Alphabet DEF FrameSpace
<1>3. v = "NO_ERROR" => f.id \in StreamIds /\ f.id # 0
    BY <1>2, Alphabet DEF HeadersVerdict
<1>4. v = "NO_ERROR" => st = "OPEN" \/ (st = "HALF_CLOSED_REMOTE" /\ e = "NO_ERROR")
    BY DEF AfterFrame, Transition, FaultCode
<1>5. Dispatched(f, e)
  <2>1. CASE v # "NO_ERROR"
    <3>1. UNCHANGED <<tableVars, request, credit>>
        BY <2>1 DEF HandleHeaders
    <3> HIDE DEF e
    <3> QED BY <1>1, <3>1, QuietDispatched
  <2>2. CASE v = "NO_ERROR" /\ Found(f.id)
    <3> DEFINE i == SlotOf(f.id)
    <3>1. /\ StoreState(i, st)
          /\ serving' = [serving EXCEPT ![i] = FALSE]
          /\ UNCHANGED <<ids, sid, window, used, lastId, credit>>
        BY <2>2 DEF HandleHeaders
    <3>2. i \in Slots /\ sid[i] = f.id /\ state[i] # "IDLE"
        BY <1>2, <1>3, <2>2, FoundEntry DEF IInv
    <3>3. state[i] = "OPEN"
        BY <1>2, <2>2, <3>2 DEF HeadersVerdict, KnownVerdict, Transition, EventError
    <3> HIDE DEF i, st, e
    <3> QED BY <1>1, <1>4, <2>2, <3>1, <3>2, <3>3, AcceptedDispatched
  <2>3. CASE v = "NO_ERROR" /\ ~ Found(f.id)
    <3>1. InitSlot(AllocSlot, f.id, iws, st) /\ credit' = [credit EXCEPT ![f.id] = iws]
        BY <2>3 DEF HandleHeaders
    <3>2. f.id > lastId /\ CanAllocate
        BY <1>2, <2>3 DEF HeadersVerdict, OpenVerdict, IInv, TableOK, TableTypeOK
    <3>3. AllocSlot \in Slots /\ (sid[AllocSlot] = 0 \/ state[AllocSlot] = "CLOSED")
        BY <3>2, AllocSlotFound DEF IInv, TableOK, TableInStep, FreeSlots
    <3> HIDE DEF st, e
    <3> QED BY <1>1, <1>3, <1>4, <2>3, <3>1, <3>2, <3>3, OpenedDispatched
  <2> QED BY <2>1, <2>2, <2>3
<1>6. IInv'
    BY HeadersOK
<1> HIDE DEF e
<1> QED BY <1>1, <1>5, <1>6, FrameServes

LEMMA DataServes ==
    ASSUME IInv, SInv, NEW f \in Frames, HandleData(f)
    PROVE  SInv'
<1> DEFINE e == DataVerdict(f.id)
           i == SlotOf(f.id)
<1>1. /\ Outcome(f, e) /\ pc = "read"
      /\ UNCHANGED <<iws, frameBuf, broken, wire, credit, resets>>
    BY DEF HandleData, Reads
<1>2. Dispatched(f, e)
  <2>1. CASE e # "NO_ERROR"
    <3>1. UNCHANGED tableVars
        BY <2>1 DEF HandleData
    <3> QED BY <1>1, <3>1, QuietDispatched
  <2>2. CASE e = "NO_ERROR"
    <3>1. Found(f.id) /\ state[i] = "OPEN"
        BY <2>2 DEF DataVerdict, EventError, Transition
    <3>2. i \in Slots /\ sid[i] = f.id
        BY <3>1, SlotOfFound DEF IInv, TableOK, TableTypeOK, TableInStep
    <3>3. /\ StoreState(i, AfterFrame(f.bit0))
          /\ UNCHANGED <<ids, sid, serving, window, used, lastId>>
        BY <2>2 DEF HandleData
    <3>4. AfterFrame(f.bit0) \in {"OPEN", "HALF_CLOSED_REMOTE"}
        BY DEF AfterFrame, Transition
    <3> HIDE DEF i, e
    <3> QED BY <1>1, <2>2, <3>1, <3>2, <3>3, <3>4, AcceptedDispatched
  <2> QED BY <2>1, <2>2
<1>3. IInv'
    BY DataOK
<1> QED BY <1>1, <1>2, <1>3, FrameServes

LEMMA RstStreamServes ==
    ASSUME IInv, SInv, NEW f \in Frames, HandleRstStream(f)
    PROVE  SInv'
<1> DEFINE e == RstVerdict(f)
           i == SlotOf(f.id)
<1>1. /\ Outcome(f, e) /\ pc = "read"
      /\ UNCHANGED <<iws, frameBuf, broken, wire, credit>>
    BY DEF HandleRstStream, Reads
<1>2. Dispatched(f, e)
  <2>1. CASE e # "NO_ERROR"
    <3>1. UNCHANGED <<tableVars, resets>>
        BY <2>1 DEF HandleRstStream
    <3> QED BY <1>1, <3>1, QuietDispatched
  <2>2. CASE e = "NO_ERROR"
    <3>1. Found(f.id) /\ f.id \in Nat /\ f.id # 0
        BY <2>2, Alphabet DEF RstVerdict, FrameSpace
    <3>2. i \in Slots /\ sid[i] = f.id
        BY <3>1, FoundEntry DEF IInv
    <3>3. /\ StoreState(i, "CLOSED") /\ resets' = resets \cup {f.id}
          /\ UNCHANGED <<ids, sid, serving, window, used, lastId>>
        BY <2>2 DEF HandleRstStream
    <3> HIDE DEF i, e
    <3> QED BY <1>1, <3>1, <3>2, <3>3, ResetDispatched
  <2> QED BY <2>1, <2>2
<1>3. IInv'
    BY RstStreamOK
<1> QED BY <1>1, <1>2, <1>3, FrameServes

LEMMA SettingsServes ==
    ASSUME IInv, SInv, NEW f \in Frames, HandleSettings(f)
    PROVE  SInv'
<1>1. /\ pc = "read"
      /\ UNCHANGED <<sid, state, serving, lastId, frameBuf, broken, wire, resets>>
    BY DEF HandleSettings, Reads
<1>2. PICK e : Outcome(f, e)
    BY DEF HandleSettings
<1>3. Granted' /\ IInv'
    BY SettingsGranted, SettingsOK
<1>4. Dispatched(f, e)
    BY <1>1, <1>3, WindowsDispatched
<1> QED BY <1>1, <1>2, <1>3, <1>4, FrameServes

LEMMA WindowUpdateServes ==
    ASSUME IInv, SInv, NEW f \in Frames, HandleWindowUpdate(f)
    PROVE  SInv'
<1>1. /\ pc = "read" /\ Outcome(f, WindowUpdateVerdict(f))
      /\ UNCHANGED <<sid, state, serving, lastId, frameBuf, broken, wire, resets>>
    BY DEF HandleWindowUpdate, Reads
<1>2. Granted' /\ IInv'
    BY WindowUpdateGranted, WindowUpdateOK
<1>3. Dispatched(f, WindowUpdateVerdict(f))
    BY <1>1, <1>2, WindowsDispatched
<1> QED BY <1>1, <1>2, <1>3, FrameServes

LEMMA QuietFrameServes ==
    ASSUME IInv, SInv, NEW f \in Frames,
           HandlePing(f) \/ HandleGoaway(f) \/ HandleOther(f) \/ OversizeFrame(f)
    PROVE  SInv'
<1>1. /\ pc = "read"
      /\ UNCHANGED <<tableVars, iws, frameBuf, broken, wire, credit, resets>>
    BY DEF HandlePing, HandleGoaway, HandleOther, OversizeFrame, Reads
<1>2. PICK e : Outcome(f, e)
    BY DEF HandlePing, HandleGoaway, HandleOther, OversizeFrame
<1>3. IInv'
    BY QuietFrameOK
<1>4. Dispatched(f, e)
    BY <1>1, QuietDispatched
<1> QED BY <1>1, <1>2, <1>3, <1>4, FrameServes

-----------------------------------------------------------------------------
(***************************************************************************)
(* Writers.                                                                *)
(***************************************************************************)

\* A HEADERS frame on stream s, and what it leaves of the wire w.
Sent(w, s, v, end) ==
    /\ broken => v = w
    /\ ~ broken => /\ v[s].hdrs = w[s].hdrs + 1 /\ v[s].hdrs > 0
                   /\ v[s].data = w[s].data
                   /\ v[s].end <=> w[s].end \/ end
    /\ \A t \in StreamIds : t # s => v[t] = w[t]

LEMMA HeadersSent ==
    ASSUME NEW w \in WireType, NEW s \in StreamIds, NEW v
    PROVE  /\ v = SendHeaders(w, s, TRUE) => Sent(w, s, v, TRUE)
           /\ v = SendHeaders(w, s, FALSE) => Sent(w, s, v, FALSE)
<1>1. ASSUME NEW end \in BOOLEAN, v = SendHeaders(w, s, end)
      PROVE  Sent(w, s, v, end)
    BY <1>1 DEF SendHeaders, WireType, Sent
<1> QED BY <1>1, Zenon

\* The stack as a writer leaves it: the innermost activation may have moved on.
SameWriters ==
    /\ DOMAIN stack' = DOMAIN stack
    /\ \A k \in DOMAIN stack : /\ stack'[k].id = stack[k].id /\ stack'[k].slot = stack[k].slot
                               /\ k # 1 => k > 1 /\ stack'[k] = stack[k]

LEMMA WritersSame ==
    ASSUME stack \in Seq(Activation), stack # <<>>, NEW a \in Activation,
           a.id = Top.id, a.slot = Top.slot, stack' = Push(a, Tail(stack))
    PROVE  SameWriters /\ stack'[1] = a
<1>1. /\ DOMAIN stack' = DOMAIN stack /\ 1 \in DOMAIN stack
      /\ Top = stack[1] /\ stack'[1] = a
      /\ \A k \in DOMAIN stack : k # 1 => k > 1 /\ stack'[k] = stack[k]
    BY ReplaceTop
<1> QED BY <1>1 DEF SameWriters

\* A step of a writer that sends on its own stream only, ends it only when it
\* is done, and keeps its HEADERS staged in its own h2_frame_buf or sends them.
LEMMA WriterServes ==
    ASSUME IInv, SInv, SameWriters, 1 \in DOMAIN stack,
           pc \in {"serve", "body", "fail"}, pc' \in {"body", "read", "fail", "done"},
           UNCHANGED <<sid, state, lastId, iws, broken, resets>>,
           \A s \in StreamIds : s # stack[1].id => wire'[s] = wire[s],
           wire'[stack[1].id].data > 0 \/ wire'[stack[1].id].end => wire'[stack[1].id].hdrs > 0,
           wire'[stack[1].id].end => pc' = "done",
           ~ broken /\ pc' = "done" => wire'[stack[1].id].end,
           stack'[1].staged => pc' # "read",
           pc' = "body" /\ stack'[1].staged => frameBuf' = stack[1].id,
           ~ broken /\ ~ stack'[1].staged /\ pc' \in {"body", "read"} => wire'[stack[1].id].hdrs > 0,
           Flagged', Complete', Granted'
    PROVE  SInv'
<1>1. stack \in Seq(Activation)
    BY DEF IInv, ConnTypeOK
<1>2. \A k \in DOMAIN stack : k \in Nat /\ stack[k].id \in StreamIds
    BY <1>1, ActivationAt
<1>3. Known' /\ Distinct' /\ Held'
    BY DEF SInv, Known, Distinct, Held, SameWriters
<1>4. \A k \in DOMAIN stack : k # 1 =>
         k > 1 /\ wire'[stack[k].id] = wire[stack[k].id] /\ stack'[k] = stack[k]
    BY <1>2 DEF SInv, Distinct, SameWriters
<1>5. \A k \in DOMAIN stack : ~ wire[stack[k].id].end
    BY DEF SInv, Unsent
<1>6. \A s \in StreamIds : wire[s].end => wire'[s] = wire[s]
    BY <1>5
<1>7. Unsent'
  <2>1. \A k \in DOMAIN stack' : wire'[stack'[k].id].end => k = 1 /\ pc' = "done"
    BY <1>4, <1>5 DEF SameWriters
  <2>2. \A i \in Slots : Live(i)' => Live(i) /\ sid[i] \in StreamIds
    BY DEF Live, SInv, Known
  <2>3. \A i \in Slots : Live(i)' /\ wire'[sid'[i]].end => pc' = "done" /\ sid'[i] = stack'[1].id
    BY <2>2 DEF SInv, Unsent, SameWriters
  <2>4. \A s \in StreamIds : s > lastId' => ~ wire'[s].end /\ s \notin resets'
    <3>1. stack[1].id <= lastId /\ stack[1].id \in Nat /\ lastId \in Nat
        BY <1>1, ActivationAt DEF SInv, Held, IInv, TableOK, TableTypeOK
    <3> QED BY <3>1 DEF SInv, Unsent
  <2> QED BY <2>1, <2>2, <2>3, <2>4 DEF SInv, Unsent
<1>8. Framed'
  <2>1. \A s \in StreamIds : wire'[s].data > 0 \/ wire'[s].end => wire'[s].hdrs > 0
    BY DEF SInv, Framed
  <2>2. \A k \in DOMAIN stack' : stack'[k].staged => k = 1 /\ pc' \in {"body", "fail", "done"}
    BY <1>4 DEF SInv, Framed, SameWriters
  <2>3. stack'[1].id = stack[1].id
    BY DEF SameWriters
  <2>4. ~ broken' => \A k \in DOMAIN stack' :
          ~ stack'[k].staged /\ (k > 1 \/ pc' \in {"body", "read"}) => wire'[stack'[k].id].hdrs > 0
    BY <1>4, <2>3 DEF SInv, Framed, SameWriters
  <2> QED BY <2>1, <2>2, <2>3, <2>4 DEF Framed
<1>9. Ended'
  <2>1. ClosedMeansEnded'
    BY <1>6 DEF SInv, Ended, ClosedMeansEnded
  <2> QED BY <2>1 DEF Ended, SameWriters
<1> QED BY <1>3, <1>7, <1>8, <1>9 DEF SInv

\* Past its entry a writer leaves the flags and the states alone.
LEMMA FlagsKept ==
    ASSUME SInv, SameWriters, pc # "serve", pc' # "serve", UNCHANGED <<sid, state, serving>>
    PROVE  Flagged' /\ Complete'
BY DEF SInv, Flagged, Complete, SameWriters

\* What holds of the innermost activation.
LEMMA Innermost ==
    ASSUME IInv, SInv, pc \in {"serve", "body", "fail", "done"}
    PROVE  /\ stack \in Seq(Activation) /\ stack # <<>> /\ 1 \in DOMAIN stack
           /\ Top = stack[1] /\ Top \in Activation
           /\ Top.id \in StreamIds /\ Top.slot \in Slots /\ Top.left \in Nat /\ Top.staged \in BOOLEAN
           /\ wire \in WireType
           /\ pc # "done" => ~ wire[Top.id].end
           /\ pc = "body" /\ Top.staged => frameBuf = Top.id
<1>1. stack \in Seq(Activation) /\ stack # <<>>
    BY DEF IInv, ConnTypeOK, PcStack
<1>2. 1 \in DOMAIN stack /\ Top = stack[1] /\ Top \in Activation
    BY <1>1, TopType, PopAt
<1>3. Top.id \in StreamIds /\ Top.slot \in Slots /\ Top.left \in Nat /\ Top.staged \in BOOLEAN
    BY <1>2 DEF Activation
<1> QED BY <1>1, <1>2, <1>3 DEF IInv, ObserverTypeOK, WireType, SInv, Unsent, Framed

LEMMA ServeServes ==
    ASSUME IInv, SInv, Serve
    PROVE  SInv'
<1> DEFINE t == Top
           n == BodyLen[request.req]
           a == [t EXCEPT !.left = n, !.staged = TRUE]
           b == [t EXCEPT !.left = n]
<1>1. /\ stack \in Seq(Activation) /\ stack # <<>> /\ 1 \in DOMAIN stack
      /\ t = stack[1] /\ t \in Activation
      /\ t.id \in StreamIds /\ t.slot \in Slots /\ t.staged \in BOOLEAN
      /\ wire \in WireType /\ ~ wire[t.id].end /\ pc = "serve"
    BY Innermost DEF Serve
<1>2. /\ serving' = [serving EXCEPT ![t.slot] = TRUE] /\ frameBuf' = t.id
      /\ UNCHANGED <<sid, state, window, lastId, iws, broken, credit, resets>>
    BY DEF Serve, MarkServing
<1>3. \/ /\ wire' = SendHeaders(wire, t.id, TRUE) /\ stack' = stack
         /\ pc' \in {"done", "fail"} /\ (pc' = "fail" => broken)
      \/ /\ n # HeadersOnly /\ stack' = Push(a, Tail(stack))
         /\ wire' = wire /\ pc' = "body"
      \/ /\ n # HeadersOnly /\ stack' = Push(b, Tail(stack))
         /\ wire' = SendHeaders(wire, t.id, FALSE)
         /\ pc' \in {"body", "fail"}
    BY DEF Serve, WriteResults
<1>4. n # HeadersOnly => n \in Nat
    BY Bodies DEF IInv, ConnTypeOK
<1>5. ~ t.staged
    BY <1>1 DEF SInv, Framed
<1>6. n # HeadersOnly =>
        /\ a \in Activation /\ a.id = t.id /\ a.slot = t.slot /\ a.staged
        /\ b \in Activation /\ b.id = t.id /\ b.slot = t.slot /\ ~ b.staged
    BY <1>1, <1>4, <1>5 DEF Activation
<1>7. /\ wire' = SendHeaders(wire, t.id, TRUE) => Sent(wire, t.id, wire', TRUE)
      /\ wire' = SendHeaders(wire, t.id, FALSE) => Sent(wire, t.id, wire', FALSE)
    <2> HIDE DEF t
    <2> QED BY <1>1, HeadersSent
<1>8. wire[t.id].data > 0 => wire[t.id].hdrs > 0
    BY <1>1 DEF SInv, Framed
<1> HIDE DEF a, b, t, n
<1>9. /\ SameWriters /\ pc' \in {"body", "fail", "done"}
      /\ stack'[1].staged => pc' = "body"
      /\ \A s \in StreamIds : s # t.id => wire'[s] = wire[s]
      /\ wire'[t.id].data > 0 \/ wire'[t.id].end => wire'[t.id].hdrs > 0
      /\ wire'[t.id].end => pc' = "done"
      /\ ~ broken /\ pc' = "done" => wire'[t.id].end
      /\ ~ broken /\ ~ stack'[1].staged /\ pc' = "body" => wire'[t.id].hdrs > 0
  <2>1. CASE /\ Sent(wire, t.id, wire', TRUE) /\ stack' = stack
             /\ pc' \in {"done", "fail"} /\ (pc' = "fail" => broken)
    <3>1. SameWriters
        BY <1>1, <2>1 DEF SameWriters
    <3> QED BY <1>1, <1>5, <1>8, <2>1, <3>1 DEF Sent
  <2>2. CASE n # HeadersOnly /\ stack' = Push(a, Tail(stack)) /\ wire' = wire /\ pc' = "body"
    <3>1. SameWriters /\ stack'[1] = a
        BY <1>1, <1>6, <2>2, WritersSame DEF t
    <3> QED BY <1>1, <1>6, <1>8, <2>2, <3>1
  <2>3. CASE /\ n # HeadersOnly /\ stack' = Push(b, Tail(stack))
             /\ Sent(wire, t.id, wire', FALSE) /\ pc' \in {"body", "fail"}
    <3>1. SameWriters /\ stack'[1] = b
        BY <1>1, <1>6, <2>3, WritersSame DEF t
    <3> QED BY <1>1, <1>6, <1>8, <2>3, <3>1 DEF Sent
  <2> QED BY <1>3, <1>7, <2>1, <2>2, <2>3
<1>10. t.id = stack[1].id
    BY <1>1
<1>11. t.id \notin resets /\ sid[t.slot] = t.id
    BY <1>1 DEF SInv, Flagged, Held
<1>12. serving \in [Slots -> BOOLEAN]
    BY DEF IInv, TableOK, TableTypeOK
<1>13. Flagged'
  <2>1. \A i \in Slots : stack[1].id = sid[i] => i = t.slot
    BY <1>1 DEF SInv, Held
  <2> QED BY <1>1, <1>2, <1>9, <1>11, <1>12, <2>1 DEF SInv, Flagged, SameWriters
<1>14. Complete'
  <2>1. \A i \in Slots : stack[1].id = sid[i] => i = t.slot
    BY <1>1 DEF SInv, Held
  <2> QED BY <1>1, <1>2, <1>9, <1>12, <2>1 DEF SInv, Complete
<1>15. Granted'
    BY <1>2 DEF SInv, Granted, Live
<1> QED BY <1>1, <1>2, <1>9, <1>10, <1>13, <1>14, <1>15, WriterServes

LEMMA SendChunkServes ==
    ASSUME IInv, SInv, SendChunk
    PROVE  SInv'
<1> DEFINE t     == Top
           k     == Chunk(t)
           end   == k = t.left
           w     == IF t.staged THEN SendHeaders(wire, frameBuf, FALSE) ELSE wire
           given == IF broken THEN 0 ELSE k
           a     == [t EXCEPT !.left = @ - k, !.staged = FALSE]
<1>1. /\ stack \in Seq(Activation) /\ stack # <<>> /\ 1 \in DOMAIN stack
      /\ t = stack[1] /\ t \in Activation
      /\ t.id \in StreamIds /\ t.slot \in Slots /\ t.left \in Nat /\ t.staged \in BOOLEAN
      /\ wire \in WireType /\ ~ wire[t.id].end /\ pc = "body"
      /\ t.staged => frameBuf = t.id
    BY Innermost DEF SendChunk
<1>2. /\ UNCHANGED <<sid, state, serving, lastId, iws, broken, resets>>
      /\ frameBuf' = IF t.staged THEN frameBuf ELSE 0
    BY DEF SendChunk
<1>3. \/ /\ wire' = SendData(w, t.id, k, end)
         /\ window' = [window EXCEPT ![t.slot] = @ - k]
         /\ credit' = [credit EXCEPT ![t.id] = @ - given]
         /\ stack' = Push(a, Tail(stack))
         /\ pc' = IF end THEN "done" ELSE "body"
      \/ /\ broken /\ pc' = "fail"
         /\ UNCHANGED <<wire, window, credit, stack>>
    BY DEF SendChunk, WriteResults
<1>4. k \in Nat /\ k <= t.left
    BY <1>1, ChunkBounds
<1>5. a \in Activation /\ a.id = t.id /\ a.slot = t.slot /\ ~ a.staged
  <2>1. t.left - k \in Nat
    BY <1>1, <1>4
  <2> QED BY <1>1, <2>1 DEF Activation
<1>6. CASE /\ broken /\ pc' = "fail"
           /\ UNCHANGED <<wire, window, credit, stack>>
  <2>1. SameWriters
    BY <1>1, <1>6 DEF SameWriters
  <2>2. Flagged' /\ Complete'
    BY <1>1, <1>2, <1>6, <2>1, FlagsKept
  <2>3. Granted'
    BY <1>2, <1>6 DEF SInv, Granted, Live
  <2>4. wire[t.id].data > 0 \/ wire[t.id].end => wire[t.id].hdrs > 0
    BY <1>1 DEF SInv, Framed
  <2> QED BY <1>1, <1>2, <1>6, <2>1, <2>2, <2>3, <2>4, WriterServes
<1>7. CASE /\ wire' = SendData(w, t.id, k, end)
           /\ window' = [window EXCEPT ![t.slot] = @ - k]
           /\ credit' = [credit EXCEPT ![t.id] = @ - given]
           /\ stack' = Push(a, Tail(stack))
           /\ pc' = IF end THEN "done" ELSE "body"
  <2>1. SameWriters /\ stack'[1] = a
    <3> HIDE DEF a
    <3> QED BY <1>1, <1>5, <1>7, WritersSame DEF t
  <2>2. Flagged' /\ Complete'
    BY <1>1, <1>2, <1>7, <2>1, FlagsKept
  <2>3. /\ w \in WireType
        /\ \A s \in StreamIds : s # t.id => w[s] = wire[s]
        /\ ~ w[t.id].end
        /\ w[t.id].data > 0 => w[t.id].hdrs > 0
        /\ ~ broken => w[t.id].hdrs > 0
    <3>1. wire[t.id].data > 0 => wire[t.id].hdrs > 0
        BY <1>1 DEF SInv, Framed
    <3>2. CASE ~ t.staged
      <4>1. w = wire
        BY <3>2
      <4>2. ~ broken => wire[t.id].hdrs > 0
        BY <1>1, <3>2 DEF SInv, Framed
      <4> QED BY <1>1, <3>1, <4>1, <4>2
    <3>3. CASE t.staged
      <4>1. w = SendHeaders(wire, t.id, FALSE)
        BY <1>1, <3>3
      <4>2. w \in WireType
        BY <1>1, <4>1, SendHeadersType
      <4> HIDE DEF t
      <4> HIDE DEF w
      <4>3. Sent(wire, t.id, w, FALSE)
        BY <1>1, <4>1, HeadersSent
      <4> QED BY <1>1, <3>1, <4>2, <4>3 DEF Sent
    <3> QED BY <1>1, <3>2, <3>3
  <2>4. /\ broken => wire' = w
        /\ ~ broken => /\ wire'[t.id].hdrs = w[t.id].hdrs
                       /\ wire'[t.id].end <=> end
        /\ \A s \in StreamIds : s # t.id => wire'[s] = w[s]
    <3> HIDE DEF w, k, end, t
    <3>1. CASE broken
        BY <1>7, <2>3, <3>1 DEF SendData
    <3>2. CASE ~ broken
      <4>1. wire' = [w EXCEPT ![t.id].data = @ + k, ![t.id].end = @ \/ end]
        BY <1>7, <3>2 DEF SendData
      <4>2. w \in [StreamIds -> [hdrs : Nat, data : Nat, end : BOOLEAN]]
        BY <2>3 DEF WireType
      <4> QED BY <1>1, <2>3, <3>2, <4>1, <4>2
    <3> QED BY <3>1, <3>2
  <2>5. Granted'
    <3>1. /\ window \in [Slots -> Int] /\ credit \in [StreamIds -> Int] /\ MaxFlowWindow \in Nat
        BY Windows DEF IInv, TableOK, TableTypeOK, ObserverTypeOK
    <3>2. ASSUME NEW i \in Slots, Live(i)'
          PROVE  window'[i] <= MaxFlowWindow /\ window'[i] <= credit'[sid'[i]]
      <4>1. /\ Live(i) /\ sid[i] \in StreamIds
            /\ window[i] <= MaxFlowWindow /\ window[i] <= credit[sid[i]]
        BY <1>2, <3>2 DEF Live, SInv, Known, Granted
      <4>2. given \in Nat /\ given <= k
        BY <1>4
      <4>3. sid[i] = t.id => i = t.slot
        BY <1>1 DEF SInv, Held
      <4> HIDE DEF k, given, t
      <4>4. window'[i] = IF i = t.slot THEN window[i] - k ELSE window[i]
        BY <1>1, <1>7, <3>1
      <4>5. credit'[sid[i]] = IF sid[i] = t.id THEN credit[sid[i]] - given ELSE credit[sid[i]]
        BY <1>1, <1>7, <3>1, <4>1
      <4> QED BY <1>2, <1>4, <3>1, <4>1, <4>2, <4>3, <4>4, <4>5
    <3> QED BY <1>2, <3>2 DEF SInv, Granted
  <2>6. /\ wire'[t.id].data > 0 \/ wire'[t.id].end => wire'[t.id].hdrs > 0
        /\ wire'[t.id].end => pc' = "done"
        /\ ~ broken /\ pc' = "done" => wire'[t.id].end
        /\ ~ broken => wire'[t.id].hdrs > 0
    <3> HIDE DEF w
    <3> QED BY <1>7, <2>3, <2>4
  <2> HIDE DEF w, a, k
  <2> QED BY <1>1, <1>2, <1>5, <1>7, <2>1, <2>2, <2>3, <2>4, <2>5, <2>6, WriterServes
<1> QED BY <1>3, <1>6, <1>7

LEMMA AwaitCreditServes ==
    ASSUME IInv, SInv, AwaitCredit
    PROVE  SInv'
<1> DEFINE t == Top
           a == [t EXCEPT !.staged = FALSE]
<1>1. /\ stack \in Seq(Activation) /\ stack # <<>> /\ 1 \in DOMAIN stack
      /\ t = stack[1] /\ t \in Activation
      /\ t.id \in StreamIds /\ t.staged \in BOOLEAN
      /\ wire \in WireType /\ ~ wire[t.id].end /\ pc = "body"
      /\ t.staged => frameBuf = t.id
    BY Innermost DEF AwaitCredit
<1>2. UNCHANGED <<sid, state, serving, window, lastId, iws, broken, frameBuf, credit, resets>>
    BY DEF AwaitCredit, tableVars
<1>3. \/ /\ wire' = IF t.staged THEN SendHeaders(wire, frameBuf, FALSE) ELSE wire
         /\ stack' = Push(a, Tail(stack)) /\ pc' = "read"
      \/ broken /\ wire' = wire /\ stack' = stack /\ pc' = "fail"
    BY DEF AwaitCredit, WriteResults
<1>4. a \in Activation /\ a.id = t.id /\ a.slot = t.slot /\ ~ a.staged
    BY <1>1 DEF Activation
<1>5. /\ wire[t.id].data > 0 => wire[t.id].hdrs > 0
      /\ ~ broken /\ ~ t.staged => wire[t.id].hdrs > 0
    BY <1>1 DEF SInv, Framed
<1>6. t.staged /\ wire' = SendHeaders(wire, frameBuf, FALSE) => Sent(wire, t.id, wire', FALSE)
    <2> HIDE DEF t
    <2> QED BY <1>1, HeadersSent
<1> HIDE DEF a, t
<1>7. /\ SameWriters /\ pc' \in {"read", "fail"}
      /\ stack'[1].staged => pc' # "read"
      /\ \A s \in StreamIds : s # t.id => wire'[s] = wire[s]
      /\ wire'[t.id].data > 0 \/ wire'[t.id].end => wire'[t.id].hdrs > 0
      /\ ~ wire'[t.id].end
      /\ ~ broken /\ pc' = "read" => wire'[t.id].hdrs > 0
  <2>1. CASE broken /\ wire' = wire /\ stack' = stack /\ pc' = "fail"
    <3>1. SameWriters
        BY <1>1, <2>1 DEF SameWriters
    <3> QED BY <1>1, <1>5, <2>1, <3>1
  <2>2. CASE /\ Sent(wire, t.id, wire', FALSE) \/ (~ t.staged /\ wire' = wire)
             /\ stack' = Push(a, Tail(stack)) /\ pc' = "read"
    <3>1. SameWriters /\ stack'[1] = a
        BY <1>1, <1>4, <2>2, WritersSame DEF t
    <3>2. CASE Sent(wire, t.id, wire', FALSE)
        BY <1>1, <1>4, <1>5, <2>2, <3>1, <3>2 DEF Sent
    <3>3. CASE ~ t.staged /\ wire' = wire
        BY <1>1, <1>4, <1>5, <2>2, <3>1, <3>3
    <3> QED BY <2>2, <3>2, <3>3
  <2> QED BY <1>1, <1>3, <1>6, <2>1, <2>2
<1>8. Flagged' /\ Complete'
    BY <1>1, <1>2, <1>7, FlagsKept
<1>9. Granted'
    BY <1>2 DEF SInv, Granted, Live
<1>10. t.id = stack[1].id
    BY <1>1
<1> QED BY <1>1, <1>2, <1>7, <1>8, <1>9, <1>10, WriterServes

LEMMA Reply500Serves ==
    ASSUME IInv, SInv, Reply500
    PROVE  SInv'
<1> DEFINE t == Top
<1>1. /\ 1 \in DOMAIN stack /\ stack \in Seq(Activation)
      /\ t = stack[1] /\ t.id \in StreamIds
      /\ wire \in WireType /\ ~ wire[t.id].end /\ pc = "fail"
    BY Innermost DEF Reply500
<1>2. /\ UNCHANGED <<sid, state, serving, window, lastId, iws, broken, credit, resets, stack>>
      /\ pc' = "done" /\ wire' = SendHeaders(wire, t.id, TRUE)
    BY DEF Reply500, tableVars
<1>3. wire[t.id].data > 0 => wire[t.id].hdrs > 0
    BY <1>1 DEF SInv, Framed
<1> HIDE DEF t
<1>4. Sent(wire, t.id, wire', TRUE)
    BY <1>1, <1>2, HeadersSent
<1>5. /\ \A s \in StreamIds : s # t.id => wire'[s] = wire[s]
      /\ wire'[t.id].data > 0 \/ wire'[t.id].end => wire'[t.id].hdrs > 0
      /\ ~ broken => wire'[t.id].end
    BY <1>1, <1>3, <1>4 DEF Sent
<1>6. SameWriters
    BY <1>1, <1>2 DEF SameWriters
<1>7. Flagged' /\ Complete'
    BY <1>1, <1>2, <1>6, FlagsKept
<1>8. Granted'
    BY <1>2 DEF SInv, Granted, Live
<1> QED BY <1>1, <1>2, <1>5, <1>6, <1>7, <1>8, WriterServes

\* The return from h2_process_request: the slot is closed if it is still the
\* stream's own, and then the client has its END_STREAM.
LEMMA FinishServes ==
    ASSUME IInv, SInv, Finish
    PROVE  SInv'
<1> DEFINE t  == Top
           st == Tail(stack)
<1>1. /\ stack \in Seq(Activation) /\ stack # <<>> /\ 1 \in DOMAIN stack
      /\ t = stack[1] /\ t.id \in StreamIds /\ t.slot \in Slots /\ pc = "done"
    BY Innermost DEF Finish
<1>2. /\ stack' = st /\ pc' \in {"read", "body"}
      /\ UNCHANGED <<sid, lastId, window, iws, broken, wire, credit, resets>>
    BY DEF Finish, CloseServed, Resume, ghostVars, tableVars
<1>3. IF sid[t.slot] = t.id
      THEN /\ state' = [state EXCEPT ![t.slot] = "CLOSED"]
           /\ serving' = [serving EXCEPT ![t.slot] = FALSE]
      ELSE UNCHANGED <<state, serving>>
    BY DEF Finish, CloseServed, tableVars
<1>4. /\ \A k \in DOMAIN st : k \in Nat /\ k + 1 \in DOMAIN stack /\ k + 1 > 1 /\ st[k] = stack[k + 1]
      /\ \A k \in DOMAIN stack : k # 1 => k - 1 \in DOMAIN st /\ st[k - 1] = stack[k]
    BY <1>1, PopAt
<1> HIDE DEF t, st
<1>5. /\ state \in [Slots -> States] /\ serving \in [Slots -> BOOLEAN]
      /\ \A k \in DOMAIN stack : k \in Nat /\ stack[k].slot \in Slots
    BY <1>1, ActivationAt DEF IInv, TableOK, TableTypeOK
<1>6. \A k \in DOMAIN stack : k # 1 => stack[k].id # t.id
    BY <1>1 DEF SInv, Distinct
<1>7. \A i \in Slots : sid[i] = t.id => i = t.slot
    BY <1>1 DEF SInv, Held
<1>8. Known'
    BY <1>2 DEF SInv, Known
<1>9. Distinct'
  <2> SUFFICES ASSUME NEW k \in DOMAIN st, NEW l \in DOMAIN st, st[k].id = st[l].id
               PROVE  k = l
    BY <1>2 DEF Distinct
  <2>1. k + 1 = l + 1
    BY <1>4 DEF SInv, Distinct
  <2> QED BY <1>4, <2>1
<1>10. Held'
  <2> SUFFICES ASSUME NEW m \in DOMAIN st
               PROVE  /\ st[m].id <= lastId
                      /\ \A i \in Slots : sid[i] = st[m].id =>
                            st[m].slot = i /\ state'[i] \in {"HALF_CLOSED_REMOTE", "CLOSED"}
                      /\ st[m].id \notin resets =>
                            /\ sid[st[m].slot] = st[m].id
                            /\ state'[st[m].slot] = "HALF_CLOSED_REMOTE"
    BY <1>2 DEF Held
  <2>1. PICK k \in DOMAIN stack : st[m] = stack[k] /\ stack[k].id # t.id
    <3>1. m + 1 \in DOMAIN stack /\ st[m] = stack[m + 1] /\ m + 1 # 1
        BY <1>4
    <3> QED BY <1>6, <3>1
  <2> QED BY <1>1, <1>3, <1>5, <2>1 DEF SInv, Held
<1>11. Flagged'
  <2>1. ASSUME NEW i \in Slots
        PROVE  serving'[i] <=> \E k \in DOMAIN st : st[k].id = sid[i]
    <3>1. serving[i] <=> \E k \in DOMAIN stack : stack[k].id = sid[i]
        BY <1>1 DEF SInv, Flagged
    <3>2. CASE sid[i] = t.id
      <4>1. ~ serving'[i]
        BY <1>1, <1>3, <1>5, <1>7, <3>2
      <4>2. \A k \in DOMAIN st : st[k].id # sid[i]
        <5>1. \A k \in DOMAIN st : k + 1 \in DOMAIN stack /\ k + 1 # 1 /\ st[k] = stack[k + 1]
            BY <1>4
        <5> QED BY <1>6, <3>2, <5>1
      <4> QED BY <4>1, <4>2
    <3>3. CASE sid[i] # t.id
      <4>1. serving'[i] = serving[i]
        BY <1>1, <1>3, <1>5, <3>3
      <4>2. (\E k \in DOMAIN stack : stack[k].id = sid[i]) <=> (\E k \in DOMAIN st : st[k].id = sid[i])
        <5>1. ASSUME NEW k \in DOMAIN stack, stack[k].id = sid[i]
              PROVE  \E l \in DOMAIN st : st[l].id = sid[i]
            BY <1>1, <1>4, <3>3, <5>1
        <5>2. ASSUME NEW k \in DOMAIN st, st[k].id = sid[i]
              PROVE  \E l \in DOMAIN stack : stack[l].id = sid[i]
            BY <1>4, <5>2
        <5> QED BY <5>1, <5>2
      <4> QED BY <3>1, <4>1, <4>2
    <3> QED BY <3>2, <3>3
  <2> QED BY <1>2, <2>1 DEF Flagged
<1>12. Complete'
  <2>1. ASSUME NEW i \in Slots, state'[i] = "HALF_CLOSED_REMOTE"
        PROVE  serving'[i]
    BY <1>1, <1>3, <1>5, <2>1 DEF SInv, Complete
  <2> QED BY <2>1 DEF Complete
<1>13. \A i \in Slots : Live(i)' => Live(i) /\ ~ wire[sid[i]].end
  <2> SUFFICES ASSUME NEW i \in Slots, Live(i)'
               PROVE  Live(i) /\ ~ wire[sid[i]].end
    OBVIOUS
  <2>1. Live(i) /\ sid[i] # t.id
    BY <1>1, <1>2, <1>3, <1>5, <1>7 DEF Live
  <2> QED BY <1>1, <2>1 DEF SInv, Unsent
<1>14. \A k \in DOMAIN st : ~ wire[st[k].id].end /\ ~ st[k].staged /\ (~ broken => wire[st[k].id].hdrs > 0)
  <2> SUFFICES ASSUME NEW m \in DOMAIN st
               PROVE  ~ wire[st[m].id].end /\ ~ st[m].staged /\ (~ broken => wire[st[m].id].hdrs > 0)
    OBVIOUS
  <2>1. PICK k \in DOMAIN stack : st[m] = stack[k] /\ k > 1 /\ k # 1
    <3>1. m + 1 \in DOMAIN stack /\ st[m] = stack[m + 1] /\ m + 1 # 1 /\ m + 1 > 1
        BY <1>4
    <3> QED BY <3>1
  <2> QED BY <2>1 DEF SInv, Unsent, Framed
<1>15. Unsent'
    BY <1>2, <1>13, <1>14 DEF SInv, Unsent
<1>16. Framed'
  <2>1. pc' = "body" => 1 \in DOMAIN st \/ st = <<>>
    BY <1>1 DEF st
  <2> QED BY <1>2, <1>14, <2>1, FinishOK DEF SInv, Framed, IInv, PcStack
<1>17. Ended'
  <2>1. ~ broken => wire[t.id].end
    BY <1>1 DEF SInv, Ended
  <2>2. ClosedMeansEnded'
    BY <1>1, <1>2, <1>3, <1>5, <2>1 DEF SInv, Ended, ClosedMeansEnded
  <2> QED BY <1>2, <2>2 DEF Ended
<1>18. Granted'
    BY <1>2, <1>13 DEF SInv, Granted
<1> QED BY <1>8, <1>9, <1>10, <1>11, <1>12, <1>15, <1>16, <1>17, <1>18 DEF SInv

-----------------------------------------------------------------------------
(***************************************************************************)
(* The theorems.                                                           *)
(***************************************************************************)
LEMMA InitServes == Init => SInv
<1> SUFFICES ASSUME Init PROVE SInv
    OBVIOUS
<1>1. /\ sid = [i \in Slots |-> 0] /\ state = [i \in Slots |-> "IDLE"]
      /\ serving = [i \in Slots |-> FALSE] /\ iws = DefaultWindow
      /\ pc = "preface" /\ stack = <<>> /\ DOMAIN stack = {} /\ resets = {}
      /\ wire = [s \in StreamIds |-> [hdrs |-> 0, data |-> 0, end |-> FALSE]]
    BY DEF Init, InitTable
<1>2. Known /\ Distinct /\ Held /\ Flagged /\ Complete
    BY <1>1 DEF Known, Distinct, Held, Flagged, Complete
<1>3. Unsent /\ Framed
    BY <1>1 DEF Unsent, Framed, Live
<1>4. Ended /\ Granted
    BY <1>1, Windows DEF Ended, ClosedMeansEnded, Granted, Live
<1> QED BY <1>2, <1>3, <1>4 DEF SInv

\* Every step of the engine and every stutter preserves the invariant.
LEMMA NextServes == IInv /\ SInv /\ [Next]_vars => SInv'
<1> SUFFICES ASSUME IInv, SInv, [Next]_vars PROVE SInv'
    OBVIOUS
<1>1. CASE ReadFrame
  <2>1. PICK f \in Frames :
            \/ HandleHeaders(f) \/ HandleData(f) \/ HandleRstStream(f) \/ HandleSettings(f)
            \/ HandleWindowUpdate(f) \/ HandlePing(f) \/ HandleGoaway(f) \/ HandleOther(f)
            \/ OversizeFrame(f)
    BY <1>1 DEF ReadFrame
  <2> QED BY <2>1, HeadersServes, DataServes, RstStreamServes, SettingsServes,
             WindowUpdateServes, QuietFrameServes
<1>2. CASE Respond
    BY <1>2, ServeServes, SendChunkServes, AwaitCreditServes, Reply500Serves, FinishServes
        DEF Respond
<1>3. CASE Preface \/ ReadFail \/ PeerGone \/ UNCHANGED vars
  <2>1. /\ UNCHANGED <<tableVars, iws, frameBuf, stack, ghostVars>>
        /\ \/ pc' = pc /\ (broken' = broken \/ (~ broken /\ broken'))
           \/ /\ broken' = broken /\ pc' \in {"read", "closed", "fail"}
              /\ pc = "preface" \/ (pc = "read" /\ pc' \in {"closed", "fail"})
    BY <1>3 DEF Preface, ReadFail, PeerGone, vars, connVars, ghostVars, tableVars
  <2>2. /\ UNCHANGED <<sid, state, serving, window, lastId>>
        /\ UNCHANGED <<wire, credit, resets>>
        /\ stack' = stack /\ iws' = iws /\ frameBuf' = frameBuf
    BY <2>1 DEF tableVars, ghostVars
  <2>3. Known' /\ Distinct' /\ Held'
    BY <2>2 DEF SInv, Known, Distinct, Held
  <2>4. pc' = "serve" => pc = "serve"
    BY <2>1
  <2>5. pc = "serve" => pc' = "serve"
    BY <2>1
  <2>6. Flagged' /\ Complete'
    BY <2>2, <2>4, <2>5 DEF SInv, Flagged, Complete
  <2>7. pc' = "done" <=> pc = "done"
    BY <2>1
  <2>8. Unsent'
    BY <2>2, <2>7 DEF SInv, Unsent, Live
  <2>9. Ended' /\ Granted'
    BY <2>1, <2>2, <2>7 DEF SInv, Ended, ClosedMeansEnded, Granted, Live
  <2>10. Framed'
    <3>1. CASE pc' = pc
        BY <2>1, <2>2, <3>1 DEF SInv, Framed
    <3>2. CASE pc = "preface" /\ pc' \in {"read", "closed", "fail"}
      <4>1. DOMAIN stack = {}
        BY <3>2 DEF SInv, Framed
      <4> QED BY <2>2, <3>2, <4>1 DEF SInv, Framed
    <3>3. CASE pc = "read" /\ pc' \in {"closed", "fail"} /\ broken' = broken
        BY <2>2, <3>3 DEF SInv, Framed
    <3> QED BY <2>1, <3>1, <3>2, <3>3
  <2> QED BY <2>3, <2>6, <2>8, <2>9, <2>10 DEF SInv
<1> QED BY <1>1, <1>2, <1>3 DEF Next, Server, Closed

\* The invariant holds of every reachable state.
THEOREM Service == Spec => [](IInv /\ SInv)
<1>1. Init => IInv /\ SInv
    BY InitIInv, InitServes
<1>2. IInv /\ SInv /\ [Next]_vars => IInv' /\ SInv'
    BY NextIInv, NextServes
<1> QED BY <1>1, <1>2, PTL DEF Spec

\* H2S_FLAG_SERVING marks exactly the streams with an activation of
\* h2_process_request, no stream has two, and an activation whose stream is
\* in the table holds its slot: the recursion never re-enters a stream.
THEOREM ServingCorrect == Spec => []ServingIsOnStack
<1>1. SInv => ServingIsOnStack
    BY DEF SInv, Distinct, Held, Flagged, ServingIsOnStack
<1> QED BY <1>1, Service, PTL

\* Whenever the engine reads a frame, at any depth of nesting, every complete
\* request has its response under way.
THEOREM NoneLeftBehind == Spec => []NoRequestLeftBehind
<1>1. SInv => NoRequestLeftBehind
    BY DEF SInv, Complete, NoRequestLeftBehind
<1> QED BY <1>1, Service, PTL

\* An entry is CLOSED only once the client has END_STREAM or has reset the
\* stream, even when the slot changed hands under a writer.
THEOREM ClosedCorrect == Spec => []ClosedMeansEnded
<1>1. SInv => ClosedMeansEnded
    BY DEF SInv, Ended
<1> QED BY <1>1, Service, PTL

\* Below the quota there is always a slot: with none free and none CLOSED
\* every slot counts against it, and the table is no smaller than the quota.
THEOREM QuotaCorrect == Spec => []SlotForEveryQuota
<1>1. IInv => SlotForEveryQuota
  <2> SUFFICES ASSUME IInv, FreeSlots = {}, closed = {}
               PROVE  QuotaReached
    BY DEF SlotForEveryQuota, CanAllocate
  <2>1. OpenSlots = Slots
    BY DEF OpenSlots, FreeSlots, IInv, TableOK, TableInStep, SlotsDistinct
  <2>2. Cardinality(0..(H2_MAX_STREAMS - 1)) = H2_MAX_STREAMS
    <3>1. 0 \in Int /\ H2_MAX_STREAMS - 1 \in Int /\ H2_MAX_STREAMS \in Nat \ {0}
        BY TableSize
    <3>2. Cardinality(0..(H2_MAX_STREAMS - 1)) =
            IF 0 > H2_MAX_STREAMS - 1 THEN 0 ELSE (H2_MAX_STREAMS - 1) - 0 + 1
        BY <3>1, FS_Interval
    <3> QED BY <3>1, <3>2
  <2> QED BY <2>1, <2>2, QuotaFits, TableSize DEF QuotaReached, Slots
<1> QED BY <1>1, Invariance, PTL

\* A step writes on one stream, the innermost activation's, and that one has
\* not been ended; only h2_write_body adds DATA, and no more than a chunk.
LEMMA WireStep ==
    ASSUME IInv, SInv, [Next]_vars, NEW s \in StreamIds, wire'[s] # wire[s]
    PROVE  /\ ~ wire[s].end
           /\ \/ wire'[s].data = wire[s].data
              \/ SendChunk /\ s = Top.id /\ wire'[s].data = wire[s].data + Chunk(Top)
<1>1. wire' # wire
    OBVIOUS
<1>2. Serve \/ SendChunk \/ AwaitCredit \/ Reply500
    BY <1>1 DEF Next, Server, Respond, ReadFrame, HandleHeaders, HandleData, HandleRstStream,
                HandleSettings, HandleWindowUpdate, HandlePing, HandleGoaway, HandleOther,
                OversizeFrame, Preface, ReadFail, Finish, PeerGone, Closed, vars, ghostVars
<1> DEFINE t == Top
           k == Chunk(t)
           w == IF t.staged THEN SendHeaders(wire, frameBuf, FALSE) ELSE wire
<1>3. /\ t.id \in StreamIds /\ t \in Activation
      /\ wire \in WireType /\ ~ wire[t.id].end
      /\ pc = "body" /\ t.staged => frameBuf = t.id
    BY <1>2, Innermost DEF Serve, SendChunk, AwaitCredit, Reply500
<1>4. k \in Nat
    BY <1>3, ChunkBounds
<1>5. CASE Serve \/ AwaitCredit \/ Reply500
  <2>1. wire' = SendHeaders(wire, t.id, TRUE) \/ wire' = SendHeaders(wire, t.id, FALSE)
    BY <1>1, <1>3, <1>5 DEF Serve, AwaitCredit, Reply500
  <2> HIDE DEF t
  <2>2. Sent(wire, t.id, wire', TRUE) \/ Sent(wire, t.id, wire', FALSE)
    BY <1>3, <2>1, HeadersSent
  <2> QED BY <1>3, <2>2 DEF Sent
<1>6. CASE SendChunk
  <2>1. wire' = SendData(w, t.id, k, k = t.left) /\ pc = "body"
    BY <1>1, <1>6 DEF SendChunk
  <2>2. /\ w \in WireType /\ w[t.id].data = wire[t.id].data
        /\ \A r \in StreamIds : r # t.id => w[r] = wire[r]
    <3>1. CASE ~ t.staged
        BY <1>3, <3>1
    <3>2. CASE t.staged
      <4>1. w = SendHeaders(wire, t.id, FALSE)
        BY <1>3, <2>1, <3>2
      <4>2. w \in WireType
        BY <1>3, <4>1, SendHeadersType
      <4> HIDE DEF w, t
      <4>3. Sent(wire, t.id, w, FALSE)
        BY <1>3, <4>1, HeadersSent
      <4> QED BY <1>3, <4>2, <4>3 DEF Sent
    <3> QED BY <3>1, <3>2
  <2>3. /\ \A r \in StreamIds : r # t.id => wire'[r] = w[r]
        /\ wire'[t.id].data \in {w[t.id].data, w[t.id].data + k}
    <3> DEFINE end == k = t.left
    <3> HIDE DEF w, k, t, end
    <3>1. CASE broken
        BY <2>1, <3>1 DEF SendData
    <3>2. CASE ~ broken
      <4>1. wire' = [w EXCEPT ![t.id].data = @ + k, ![t.id].end = @ \/ end]
        BY <2>1, <3>2 DEF SendData, end
      <4>2. w \in [StreamIds -> [hdrs : Nat, data : Nat, end : BOOLEAN]]
        BY <2>2 DEF WireType
      <4> QED BY <1>3, <1>4, <4>1, <4>2
    <3> QED BY <3>1, <3>2
  <2>4. s = t.id
    BY <2>2, <2>3
  <2> QED BY <1>3, <1>6, <2>2, <2>3, <2>4
<1> QED BY <1>2, <1>5, <1>6

\* HEADERS before DATA and nothing after END_STREAM, on every stream.
THEOREM FramingCorrect == Spec => ResponseFraming
<1> DEFINE A == \A s \in StreamIds :
                  /\ wire[s].end => wire'[s] = wire[s]
                  /\ wire'[s].data > 0 \/ wire'[s].end => wire'[s].hdrs > 0
<1>1. IInv /\ SInv /\ [Next]_vars => [A]_vars
  <2> SUFFICES ASSUME IInv, SInv, [Next]_vars PROVE A
    OBVIOUS
  <2>1. \A s \in StreamIds : wire[s].end => wire'[s] = wire[s]
    BY WireStep
  <2>2. \A s \in StreamIds : wire'[s].data > 0 \/ wire'[s].end => wire'[s].hdrs > 0
    BY NextServes DEF SInv, Framed
  <2> QED BY <2>1, <2>2
<1> QED BY <1>1, Service, PTL DEF Spec, ResponseFraming

\* A step never sends more DATA than the client has granted the connection,
\* nor more than it has granted the stream unless it has reset it.
THEOREM CreditCorrect == Spec => WithinCredit
<1> DEFINE A == \A s \in StreamIds : wire'[s].data > wire[s].data =>
                  /\ wire'[s].data - wire[s].data <= connCredit
                  /\ s \notin resets => wire'[s].data - wire[s].data <= credit[s]
<1>1. IInv /\ SInv /\ [Next]_vars => [A]_vars
  <2> SUFFICES ASSUME IInv, SInv, [Next]_vars, NEW s \in StreamIds,
                      wire'[s].data > wire[s].data
               PROVE  /\ wire'[s].data - wire[s].data <= connCredit
                      /\ s \notin resets => wire'[s].data - wire[s].data <= credit[s]
    OBVIOUS
  <2> DEFINE t == Top
             k == Chunk(t)
  <2>1. wire[s].data \in Nat
    BY DEF IInv, ObserverTypeOK
  <2>2. wire'[s] # wire[s] /\ wire'[s].data # wire[s].data
    BY <2>1
  <2>3. SendChunk /\ s = t.id /\ wire'[s].data = wire[s].data + k
    BY <2>2, WireStep
  <2>4. /\ t = stack[1] /\ 1 \in DOMAIN stack /\ t \in Activation
        /\ t.id \in StreamIds /\ t.slot \in Slots
    BY <2>3, Innermost DEF SendChunk
  <2>5. k \in Nat /\ k <= connWindow /\ (k > 0 => k <= window[t.slot])
    BY <2>4, ChunkBounds
  <2> HIDE DEF k, t
  <2>6. wire'[s].data - wire[s].data = k /\ k > 0
    BY <2>1, <2>3, <2>5
  <2>7. k <= connCredit
    BY <2>5 DEF IInv, ConnTypeOK, ObserverTypeOK
  <2>8. s \notin resets => k <= credit[s]
    <3> SUFFICES ASSUME s \notin resets PROVE k <= credit[s]
        OBVIOUS
    <3>1. sid[t.slot] = s /\ state[t.slot] = "HALF_CLOSED_REMOTE"
        BY <2>3, <2>4 DEF SInv, Held
    <3>2. s # 0
        BY ClientIds
    <3>3. window[t.slot] <= credit[s]
        BY <2>4, <3>1, <3>2 DEF SInv, Granted, Live
    <3>4. window[t.slot] \in Int /\ credit[s] \in Int
        BY <2>4 DEF IInv, TableOK, TableTypeOK, ObserverTypeOK
    <3> QED BY <2>5, <2>6, <3>3, <3>4
  <2> QED BY <2>6, <2>7, <2>8
<1> QED BY <1>1, Service, PTL DEF Spec, WithinCredit

=============================================================================
