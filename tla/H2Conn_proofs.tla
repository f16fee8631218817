--------------------------- MODULE H2Conn_proofs ---------------------------
(***************************************************************************)
(* Theorems about the HTTP/2 engine, for every table size, every set of    *)
(* stream ids and every alphabet of frames.                                *)
(***************************************************************************)
EXTENDS H2Conn, TLAPS, WellFoundedInduction, SequenceTheorems

-----------------------------------------------------------------------------
(***************************************************************************)
(* Choosing a slot.                                                        *)
(***************************************************************************)

\* Every non-empty set of naturals has a least element: the scans that stop at
\* the first match all return something.
LEMMA LeastNat ==
    ASSUME NEW T, T \subseteq Nat, T # {}
    PROVE  \E m \in T : \A n \in T : m <= n
<1>1. PICK m \in T : \A n \in T : ~ (<<n, m>> \in OpToRel(<, Nat))
    BY NatLessThanWellFounded, WFMin
<1>2. ASSUME NEW n \in T, NEW m0 \in T, n < m0
      PROVE  <<n, m0>> \in OpToRel(<, Nat)
    BY <1>2, Zenon DEF OpToRel
<1>3. \A n \in T : ~ (n < m)
    BY <1>1, <1>2, Zenon
<1>4. \A n \in T : m <= n
    BY <1>3, SMT
<1> QED BY <1>4

\* h2_stream_find's scan of an index g finds a matching slot if there is one.
LEMMA LeastSlot ==
    ASSUME NEW g \in [Slots -> Nat], NEW id, \E i \in Slots : g[i] = id
    PROVE  \E i \in Slots : g[i] = id /\ \A j \in Slots : g[j] = id => i <= j
<1> DEFINE T == {i \in Slots : g[i] = id}
<1>1. T \subseteq Nat /\ T # {}
    BY TableSize DEF Slots
<1>2. PICK m \in T : \A n \in T : m <= n
    BY <1>1, LeastNat
<1> QED BY <1>2

LEMMA SlotOfFound ==
    ASSUME NEW id, ids \in [Slots -> Nat], Found(id)
    PROVE  SlotOf(id) \in Slots /\ ids[SlotOf(id)] = id
<1>1. \E i \in Slots : ids[i] = id /\ \A j \in Slots : ids[j] = id => i <= j
    BY LeastSlot DEF Found
<1> QED BY <1>1 DEF SlotOf

LEMMA SlotOfFoundNext ==
    ASSUME NEW id, ids' \in [Slots -> Nat], Found(id)'
    PROVE  SlotOf(id)' \in Slots /\ ids'[SlotOf(id)'] = id
<1>1. \E i \in Slots : ids'[i] = id /\ \A j \in Slots : ids'[j] = id => i <= j
    BY LeastSlot DEF Found
<1> QED BY <1>1 DEF SlotOf

\* h2_stream_create takes a free slot, or a CLOSED one when none is free.
LEMMA AllocSlotFound ==
    ASSUME TableTypeOK, CanAllocate
    PROVE  AllocSlot \in Slots /\ (AllocSlot \in FreeSlots \/ AllocSlot \in closed)
<1>1. CASE FreeSlots # {}
  <2>1. FreeSlots \subseteq Nat
    BY TableSize DEF FreeSlots, Slots
  <2>2. \E i \in FreeSlots : \A j \in FreeSlots : i <= j
    BY <1>1, <2>1, LeastNat
  <2>3. LowestFree \in FreeSlots
    BY <2>2 DEF LowestFree
  <2> QED BY <1>1, <2>3 DEF AllocSlot, FreeSlots
<1>2. CASE FreeSlots = {}
  <2> DEFINE V == {ids[i] : i \in closed}
  <2>1. closed # {} /\ closed \subseteq Slots
    BY <1>2 DEF CanAllocate, TableTypeOK
  <2>2. V \subseteq Nat /\ V # {}
    BY <2>1 DEF TableTypeOK
  <2>3. PICK v \in V : \A n \in V : v <= n
    BY <2>2, LeastNat
  <2> DEFINE T == {i \in closed : ids[i] = v}
  <2>4. T \subseteq Nat /\ T # {}
    <3>1. \E i \in closed : ids[i] = v
        BY <2>3
    <3>2. Slots \subseteq Nat
        BY TableSize DEF Slots
    <3> QED BY <2>1, <3>1, <3>2
  <2>5. PICK m \in T : \A n \in T : m <= n
    BY <2>4, LeastNat
  <2>6. \A j \in closed : ids[m] < ids[j] \/ (ids[m] = ids[j] /\ m <= j)
    <3> SUFFICES ASSUME NEW j \in closed
                 PROVE  ids[m] < ids[j] \/ (ids[m] = ids[j] /\ m <= j)
        OBVIOUS
    <3>1. ids[m] = v /\ v <= ids[j] /\ ids[j] \in Nat /\ v \in Nat
        BY <2>2, <2>3
    <3>2. ids[j] = v => m <= j
        BY <2>5
    <3> QED BY <3>1, <3>2
  <2>7. OldestClosed \in closed
    BY <2>6 DEF OldestClosed
  <2> QED BY <1>2, <2>1, <2>7 DEF AllocSlot
<1> QED BY <1>1, <1>2

-----------------------------------------------------------------------------
(***************************************************************************)
(* The table: its type, its four copies in step, its slots distinct.       *)
(***************************************************************************)
TableOK == TableTypeOK /\ TableInStep /\ SlotsDistinct

\* h2_stream_event keeps a table consistent.
LEMMA StoreStateOK ==
    ASSUME TableOK, NEW i \in Slots, NEW st \in States,
           sid[i] # 0, st # "IDLE", StoreState(i, st),
           UNCHANGED <<ids, sid, used, lastId>>,
           serving' \in [Slots -> BOOLEAN], window' \in [Slots -> Int]
    PROVE  TableOK'
<1>1. TableTypeOK'
    BY DEF TableOK, TableTypeOK, StoreState
<1>2. TableInStep'
    BY DEF TableOK, TableTypeOK, TableInStep, StoreState
<1>3. SlotsDistinct'
    BY DEF TableOK, TableTypeOK, SlotsDistinct, StoreState
<1> QED BY <1>1, <1>2, <1>3 DEF TableOK

\* h2_stream_create hands a slot to a new, larger, odd id.
LEMMA InitSlotOK ==
    ASSUME TableOK, NEW i \in Slots, NEW id \in Nat, NEW win \in Int, NEW st \in States,
           st # "IDLE", id % 2 = 1, id > lastId, InitSlot(i, id, win, st)
    PROVE  TableOK'
<1>1. TableTypeOK'
    BY DEF TableOK, TableTypeOK, InitSlot, StoreState
<1>2. TableInStep'
    BY DEF TableOK, TableTypeOK, TableInStep, InitSlot, StoreState
<1>3. SlotsDistinct'
    BY DEF TableOK, TableTypeOK, SlotsDistinct, InitSlot, StoreState
<1> QED BY <1>1, <1>2, <1>3 DEF TableOK

\* A step that leaves ids, states, bitmaps and the high-water mark alone.
LEMMA SameTableOK ==
    ASSUME TableOK, UNCHANGED <<ids, sid, state, used, closed, lastId>>,
           serving' \in [Slots -> BOOLEAN], window' \in [Slots -> Int]
    PROVE  TableOK'
BY DEF TableOK, TableTypeOK, TableInStep, SlotsDistinct

\* h2_process_request's close.
LEMMA CloseServedOK ==
    ASSUME TableOK, NEW i \in Slots, NEW id \in Nat, id # 0, CloseServed(i, id)
    PROVE  TableOK'
<1>1. CASE sid[i] = id
  <2>1. StoreState(i, "CLOSED") /\ "CLOSED" \in States /\ "CLOSED" # "IDLE"
    BY <1>1 DEF CloseServed, StoreState, States
  <2>2. /\ UNCHANGED <<ids, sid, used, lastId>>
        /\ serving' \in [Slots -> BOOLEAN] /\ window' \in [Slots -> Int]
    BY <1>1 DEF CloseServed, TableOK, TableTypeOK
  <2> QED BY <1>1, <2>1, <2>2, StoreStateOK
<1>2. CASE sid[i] # id
    BY <1>2, SameTableOK DEF CloseServed, tableVars, TableOK, TableTypeOK
<1> QED BY <1>1, <1>2

-----------------------------------------------------------------------------
(***************************************************************************)
(* The stack of activations.                                               *)
(***************************************************************************)
LEMMA PushType ==
    ASSUME NEW a \in Activation, NEW st \in Seq(Activation)
    PROVE  Push(a, st) \in Seq(Activation) /\ Push(a, st) # <<>>
<1>1. <<a>> \in Seq(Activation) /\ Len(<<a>>) = 1
    OBVIOUS
<1>2. Push(a, st) \in Seq(Activation) /\ Len(Push(a, st)) = 1 + Len(st)
    BY <1>1 DEF Push
<1> QED BY <1>2

LEMMA TopType ==
    ASSUME stack \in Seq(Activation), stack # <<>>
    PROVE  Top \in Activation /\ Tail(stack) \in Seq(Activation)
BY HeadTailProperties DEF Top

-----------------------------------------------------------------------------
(***************************************************************************)
(* The inductive invariant.  TypeOK alone is not inductive: that the       *)
(* connection window stays in Nat needs the chunk to be bounded by it, that*)
(* a served stream is one of StreamIds needs the ids in the table to be    *)
(* odd and the index to agree with the entries, and that there is an       *)
(* activation to go on with needs the stack non-empty where one is used.   *)
(***************************************************************************)
PcStack == pc \in {"serve", "body", "fail", "done"} => stack # <<>>

IInv ==
    /\ TableOK
    /\ ConnTypeOK
    /\ ObserverTypeOK
    /\ PcStack
    /\ connWindow <= connCredit

LEMMA InitIInv == Init => IInv
<1> SUFFICES ASSUME Init PROVE IInv
    OBVIOUS
<1>1. TableOK
    BY TableSize DEF Init, InitTable, TableOK, TableTypeOK, TableInStep, SlotsDistinct, States
<1>2. ConnTypeOK
  <2>1. request \in [req : Requests, id : StreamIds \cup {0}]
    BY DEF Init
  <2>2. stack \in Seq(Activation)
    BY DEF Init
  <2>3. iws \in Nat /\ connWindow \in Nat
    BY Windows DEF Init
  <2> QED BY <2>1, <2>2, <2>3 DEF Init, ConnTypeOK, PCs
<1>3. ObserverTypeOK
  <2>1. wire \in [StreamIds -> [hdrs : Nat, data : Nat, end : BOOLEAN]]
    BY DEF Init
  <2>2. credit \in [StreamIds -> Int] /\ connCredit \in Nat /\ resets \subseteq StreamIds
    BY Windows DEF Init
  <2> QED BY <2>1, <2>2 DEF Init, ObserverTypeOK
<1>4. PcStack /\ connWindow <= connCredit
    BY Windows DEF Init, PcStack
<1> QED BY <1>1, <1>2, <1>3, <1>4 DEF IInv

\* What follows a dispatched frame leaves the stack and the program counter
\* well-typed, provided the handler has left the table consistent.
LEMMA OutcomeOK ==
    ASSUME NEW f \in Frames, NEW e, ConnTypeOK, ObserverTypeOK, TableOK', Outcome(f, e)
    PROVE  stack' \in Seq(Activation) /\ pc' \in PCs /\ PcStack'
<1>2. CASE Hook(f, e)
  <2> DEFINE a == [id |-> f.id, slot |-> SlotOf(f.id)', left |-> 0, staged |-> FALSE]
  <2>1. f.id # 0 /\ Found(f.id)' /\ f.id \in Nat
    BY <1>2, Alphabet DEF Hook, ReadyToServe, FrameSpace
  <2>2. SlotOf(f.id)' \in Slots /\ ids'[SlotOf(f.id)'] = f.id
    BY <2>1, SlotOfFoundNext DEF TableOK, TableTypeOK
  <2>3. f.id % 2 = 1
    BY <2>1, <2>2 DEF TableOK, TableInStep, SlotsDistinct
  <2>4. a \in Activation
    BY <2>2, <2>3, Alphabet DEF Activation
  <2>5. stack' = Push(a, stack) /\ pc' = "serve"
    <3>1. e = "NO_ERROR"
        BY <1>2 DEF Hook
    <3> QED BY <1>2, <3>1 DEF Outcome
  <2>6. stack' \in Seq(Activation) /\ stack' # <<>>
    BY <2>4, <2>5, PushType DEF ConnTypeOK
  <2> QED BY <2>5, <2>6 DEF PCs, PcStack
<1>3. CASE ~ Hook(f, e)
    BY <1>3 DEF Outcome, ConnTypeOK, PCs, PcStack, Resume, Nested
<1> QED BY <1>2, <1>3

\* What every frame handler owes: the table, and the variables it writes.
LEMMA FrameStepOK ==
    ASSUME IInv, NEW f \in Frames, NEW e, Outcome(f, e), TableOK',
           iws' \in Nat, connWindow' \in Nat, goaway' \in BOOLEAN,
           request' \in [req : Requests, id : StreamIds \cup {0}],
           UNCHANGED <<frameBuf, broken, wire>>,
           credit' \in [StreamIds -> Int], connCredit' \in Nat,
           resets' \subseteq StreamIds, connWindow' <= connCredit'
    PROVE  IInv'
<1>1. stack' \in Seq(Activation) /\ pc' \in PCs /\ PcStack'
    BY OutcomeOK DEF IInv
<1>2. ConnTypeOK'
    BY <1>1 DEF IInv, ConnTypeOK
<1>3. ObserverTypeOK'
    BY <1>1 DEF IInv, ObserverTypeOK
<1> QED BY <1>1, <1>2, <1>3 DEF IInv

\* An entry found under a client's id is that stream's, and not free.
LEMMA FoundEntry ==
    ASSUME TableOK, NEW id \in Nat, id # 0, Found(id)
    PROVE  /\ SlotOf(id) \in Slots /\ sid[SlotOf(id)] = id /\ id % 2 = 1
           /\ state[SlotOf(id)] # "IDLE"
<1>1. SlotOf(id) \in Slots /\ ids[SlotOf(id)] = id
    BY SlotOfFound DEF TableOK, TableTypeOK
<1> QED BY <1>1 DEF TableOK, TableInStep, SlotsDistinct

LEMMA AfterFrameState ==
    ASSUME NEW b
    PROVE  AfterFrame(b) \in States /\ AfterFrame(b) # "IDLE"
BY DEF AfterFrame, Transition, States

LEMMA HeadersOK ==
    ASSUME IInv, NEW f \in Frames, HandleHeaders(f)
    PROVE  IInv'
<1> DEFINE e  == HeadersVerdict(f.id)
           ok == f.fault = "NO_ERROR"
           st == AfterFrame(ok /\ f.bit0)
           r  == IF e # "NO_ERROR" THEN e ELSE FaultCode(f.fault)
<1>1. f.id \in Nat /\ f.req \in Requests
    BY Alphabet DEF FrameSpace
<1>2. st \in States /\ st # "IDLE"
    BY AfterFrameState
<1>3. /\ Outcome(f, r)
      /\ UNCHANGED <<iws, connWindow, goaway, frameBuf, broken, wire, connCredit, resets>>
    BY DEF HandleHeaders
<1>4. e = "NO_ERROR" => f.id % 2 = 1 /\ f.id \in StreamIds
    BY <1>1, Alphabet DEF HeadersVerdict
<1>5. /\ TableOK'
      /\ request' \in [req : Requests, id : StreamIds \cup {0}]
      /\ credit' \in [StreamIds -> Int]
  <2>1. CASE e # "NO_ERROR"
    <3>1. UNCHANGED <<tableVars, request, credit>>
        BY <2>1 DEF HandleHeaders
    <3>2. TableOK'
        BY <3>1, SameTableOK DEF IInv, TableOK, TableTypeOK, tableVars
    <3> QED BY <3>1, <3>2 DEF IInv, ConnTypeOK, ObserverTypeOK
  <2>2. CASE e = "NO_ERROR" /\ Found(f.id)
    <3> DEFINE i == SlotOf(f.id)
    <3>1. /\ StoreState(i, st)
          /\ serving' = [serving EXCEPT ![i] = FALSE]
          /\ UNCHANGED <<ids, sid, window, used, lastId, credit>>
          /\ request' = IF ok THEN [req |-> f.req, id |-> f.id] ELSE request
        BY <2>2 DEF HandleHeaders
    <3>2. i \in Slots /\ sid[i] # 0
        BY <1>1, <1>4, <2>2, FoundEntry DEF IInv
    <3>3. serving' \in [Slots -> BOOLEAN] /\ window' \in [Slots -> Int]
        BY <3>1 DEF IInv, TableOK, TableTypeOK
    <3>4. TableOK'
        BY <1>2, <3>1, <3>2, <3>3, StoreStateOK DEF IInv
    <3> QED BY <1>1, <1>4, <2>2, <3>1, <3>4 DEF IInv, ConnTypeOK, ObserverTypeOK
  <2>3. CASE e = "NO_ERROR" /\ ~ Found(f.id)
    <3>1. /\ InitSlot(AllocSlot, f.id, iws, st)
          /\ credit' = [credit EXCEPT ![f.id] = iws]
          /\ request' = IF ok THEN [req |-> f.req, id |-> f.id] ELSE request
        BY <2>3 DEF HandleHeaders
    <3>2. f.id > lastId /\ CanAllocate
        BY <1>1, <2>3 DEF HeadersVerdict, OpenVerdict, IInv, TableOK, TableTypeOK
    <3>3. AllocSlot \in Slots
        BY <3>2, AllocSlotFound DEF IInv, TableOK
    <3>4. iws \in Int
        BY DEF IInv, ConnTypeOK
    <3>5. TableOK'
        BY <1>1, <1>2, <1>4, <2>3, <3>1, <3>2, <3>3, <3>4, InitSlotOK DEF IInv
    <3> QED BY <1>1, <1>4, <2>3, <3>1, <3>4, <3>5 DEF IInv, ConnTypeOK, ObserverTypeOK
  <2> QED BY <2>1, <2>2, <2>3
<1>6. /\ iws' \in Nat /\ connWindow' \in Nat /\ goaway' \in BOOLEAN
      /\ connCredit' \in Nat /\ resets' \subseteq StreamIds /\ connWindow' <= connCredit'
    BY <1>3 DEF IInv, ConnTypeOK, ObserverTypeOK
<1> QED BY <1>3, <1>5, <1>6, FrameStepOK

LEMMA DataOK ==
    ASSUME IInv, NEW f \in Frames, HandleData(f)
    PROVE  IInv'
<1>1. f.id \in Nat
    BY Alphabet DEF FrameSpace
<1>2. /\ Outcome(f, DataVerdict(f.id))
      /\ UNCHANGED <<iws, connWindow, goaway, request, frameBuf, broken, wire, credit,
                     connCredit, resets>>
    BY DEF HandleData
<1>3. TableOK'
  <2>1. CASE DataVerdict(f.id) = "NO_ERROR"
    <3>1. Found(f.id) /\ Transition(state[SlotOf(f.id)], "RECV_DATA") # Invalid
        BY <2>1 DEF DataVerdict, EventError
    <3>2. SlotOf(f.id) \in Slots /\ ids[SlotOf(f.id)] = f.id
        BY <3>1, SlotOfFound DEF IInv, TableOK, TableTypeOK
    <3>3. state[SlotOf(f.id)] # "IDLE"
        BY <3>1 DEF Transition
    <3>4. sid[SlotOf(f.id)] # 0
        BY <3>2, <3>3 DEF IInv, TableOK, SlotsDistinct
    <3>5. /\ StoreState(SlotOf(f.id), AfterFrame(f.bit0))
          /\ UNCHANGED <<ids, sid, serving, window, used, lastId>>
        BY <2>1 DEF HandleData
    <3> QED BY <3>2, <3>4, <3>5, AfterFrameState, StoreStateOK DEF IInv, TableOK, TableTypeOK
  <2>2. CASE DataVerdict(f.id) # "NO_ERROR"
    BY <2>2, SameTableOK DEF HandleData, IInv, TableOK, TableTypeOK, tableVars
  <2> QED BY <2>1, <2>2
<1> QED BY <1>2, <1>3, FrameStepOK DEF IInv, ConnTypeOK, ObserverTypeOK

LEMMA RstStreamOK ==
    ASSUME IInv, NEW f \in Frames, HandleRstStream(f)
    PROVE  IInv'
<1>1. f.id \in Nat
    BY Alphabet DEF FrameSpace
<1>2. /\ Outcome(f, RstVerdict(f))
      /\ UNCHANGED <<iws, connWindow, goaway, request, frameBuf, broken, wire, credit,
                     connCredit>>
    BY DEF HandleRstStream
<1>3. TableOK' /\ resets' \subseteq StreamIds
  <2>1. CASE RstVerdict(f) = "NO_ERROR"
    <3>1. Found(f.id) /\ f.id % 2 # 0
        BY <2>1 DEF RstVerdict
    <3>2. SlotOf(f.id) \in Slots /\ sid[SlotOf(f.id)] = f.id /\ f.id % 2 = 1 /\ f.id # 0
        BY <1>1, <3>1, FoundEntry DEF IInv
    <3>3. /\ StoreState(SlotOf(f.id), "CLOSED")
          /\ resets' = resets \cup {f.id}
          /\ UNCHANGED <<ids, sid, serving, window, used, lastId>>
        BY <2>1 DEF HandleRstStream
    <3>4. TableOK'
        BY <3>2, <3>3, StoreStateOK DEF IInv, TableOK, TableTypeOK, States
    <3> QED BY <3>2, <3>3, <3>4, Alphabet DEF IInv, ObserverTypeOK
  <2>2. CASE RstVerdict(f) # "NO_ERROR"
    BY <2>2, SameTableOK
        DEF HandleRstStream, IInv, TableOK, TableTypeOK, ObserverTypeOK, tableVars
  <2> QED BY <2>1, <2>2
<1> QED BY <1>2, <1>3, FrameStepOK DEF IInv, ConnTypeOK, ObserverTypeOK

LEMMA SettingsOK ==
    ASSUME IInv, NEW f \in Frames, HandleSettings(f)
    PROVE  IInv'
<1> DEFINE e       == SettingsRejected(f)
           applied == e = "NO_ERROR" /\ ~ f.bit0 /\ f.n # NoEntry
           delta   == f.n - iws
           r       == IF e # "NO_ERROR" THEN e
                      ELSE IF applied /\ \E i \in Slots : Overflows(i, delta)
                      THEN "FLOW_CONTROL_ERROR"
                      ELSE FaultCode(f.fault)
<1>1. f.n \in Int /\ f.n >= NoEntry /\ iws \in Nat
    BY Alphabet DEF FrameSpace, HandleSettings, Reads, IInv, ConnTypeOK
<1>2. /\ Outcome(f, r)
      /\ UNCHANGED <<ids, sid, state, serving, used, closed, lastId, connWindow,
                     goaway, request, frameBuf, broken, wire, connCredit, resets>>
    BY DEF HandleSettings
<1>3. iws' \in Nat
    BY <1>1 DEF HandleSettings, NoEntry
<1>4. window' \in [Slots -> Int]
  <2>1. ShiftedWindow(delta) \in [Slots -> Int]
    BY <1>1 DEF ShiftedWindow, IInv, TableOK, TableTypeOK
  <2>2. window' = IF applied THEN ShiftedWindow(delta) ELSE window
    BY DEF HandleSettings
  <2> QED BY <2>1, <2>2 DEF IInv, TableOK, TableTypeOK
<1>5. credit' \in [StreamIds -> Int]
  <2>1. credit' = [s \in StreamIds |-> IF applied /\ Accounted(s)
                                       THEN credit[s] + delta ELSE credit[s]]
    BY DEF HandleSettings
  <2> QED BY <1>1, <2>1 DEF IInv, ObserverTypeOK
<1>6. TableOK'
    BY <1>2, <1>4, SameTableOK DEF IInv, TableOK, TableTypeOK
<1> QED BY <1>2, <1>3, <1>5, <1>6, FrameStepOK DEF IInv, ConnTypeOK, ObserverTypeOK

LEMMA WindowUpdateOK ==
    ASSUME IInv, NEW f \in Frames, HandleWindowUpdate(f)
    PROVE  IInv'
<1> DEFINE ok == WindowUpdateVerdict(f) = "NO_ERROR"
<1>1. f.n \in Nat /\ f.id \in Nat
    BY Alphabet DEF FrameSpace, HandleWindowUpdate, Reads
<1>2. /\ Outcome(f, WindowUpdateVerdict(f))
      /\ UNCHANGED <<ids, sid, state, serving, used, closed, lastId, iws, goaway, request,
                     frameBuf, broken, wire, resets>>
    BY DEF HandleWindowUpdate
<1>3. /\ window' \in [Slots -> Int] /\ credit' \in [StreamIds -> Int]
      /\ connWindow' \in Nat /\ connCredit' \in Nat /\ connWindow' <= connCredit'
  <2>1. CASE ok /\ f.id = 0
    BY <1>1, <2>1 DEF HandleWindowUpdate, IInv, TableOK, TableTypeOK, ConnTypeOK, ObserverTypeOK
  <2>2. CASE ok /\ f.id # 0 /\ Found(f.id) /\ Live(SlotOf(f.id))
    <3>1. /\ window' = [window EXCEPT ![SlotOf(f.id)] = @ + f.n]
          /\ credit' = [credit EXCEPT ![f.id] = @ + f.n]
          /\ UNCHANGED <<connWindow, connCredit>>
        BY <2>2 DEF HandleWindowUpdate
    <3>2. SlotOf(f.id) \in Slots /\ f.id \in StreamIds
        BY <1>1, <2>2, FoundEntry, Alphabet DEF IInv
    <3>3. window' \in [Slots -> Int]
        BY <1>1, <3>1, <3>2 DEF IInv, TableOK, TableTypeOK
    <3>4. credit' \in [StreamIds -> Int]
        BY <1>1, <3>1, <3>2 DEF IInv, ObserverTypeOK
    <3> QED BY <3>1, <3>3, <3>4 DEF IInv, ConnTypeOK, ObserverTypeOK
  <2>3. CASE ~ (ok /\ f.id = 0) /\ ~ (ok /\ f.id # 0 /\ Found(f.id) /\ Live(SlotOf(f.id)))
    <3>1. UNCHANGED <<window, credit, connWindow, connCredit>>
        BY <2>3 DEF HandleWindowUpdate
    <3> QED BY <3>1 DEF IInv, TableOK, TableTypeOK, ConnTypeOK, ObserverTypeOK
  <2> QED BY <2>1, <2>2, <2>3
<1>4. TableOK'
    BY <1>2, <1>3, SameTableOK DEF IInv, TableOK, TableTypeOK
<1> QED BY <1>2, <1>3, <1>4, FrameStepOK DEF IInv, ConnTypeOK, ObserverTypeOK

\* The handlers that touch neither the table nor the windows.
LEMMA QuietFrameOK ==
    ASSUME IInv, NEW f \in Frames,
           HandlePing(f) \/ HandleGoaway(f) \/ HandleOther(f) \/ OversizeFrame(f)
    PROVE  IInv'
<1>1. /\ UNCHANGED <<tableVars, iws, connWindow, request, frameBuf, broken, wire, credit,
                     connCredit, resets>>
      /\ goaway' \in BOOLEAN
    BY DEF HandlePing, HandleGoaway, HandleOther, OversizeFrame, IInv, ConnTypeOK
<1>2. TableOK'
    BY <1>1, SameTableOK DEF IInv, TableOK, TableTypeOK, tableVars
<1>3. \E e : Outcome(f, e)
    BY DEF HandlePing, HandleGoaway, HandleOther, OversizeFrame
<1> QED BY <1>1, <1>2, <1>3, FrameStepOK DEF IInv, ConnTypeOK, ObserverTypeOK

-----------------------------------------------------------------------------
(***************************************************************************)
(* The response path.                                                      *)
(***************************************************************************)
WireType == [StreamIds -> [hdrs : Nat, data : Nat, end : BOOLEAN]]

LEMMA SendHeadersType ==
    ASSUME NEW w \in WireType, NEW s, NEW end \in BOOLEAN
    PROVE  SendHeaders(w, s, end) \in WireType
<1>1. CASE broken
    BY <1>1 DEF SendHeaders
<1>2. CASE ~ broken /\ s \notin StreamIds
    BY <1>2 DEF SendHeaders, WireType
<1>3. CASE ~ broken /\ s \in StreamIds
  <2>1. w[s].hdrs + 1 \in Nat /\ (w[s].end \/ end) \in BOOLEAN
    BY <1>3 DEF WireType
  <2> QED BY <1>3, <2>1 DEF SendHeaders, WireType
<1> QED BY <1>1, <1>2, <1>3

LEMMA SendDataType ==
    ASSUME NEW w \in WireType, NEW s, NEW k \in Nat, NEW end \in BOOLEAN
    PROVE  SendData(w, s, k, end) \in WireType
<1>1. CASE broken
    BY <1>1 DEF SendData
<1>2. CASE ~ broken /\ s \notin StreamIds
    BY <1>2 DEF SendData, WireType
<1>3. CASE ~ broken /\ s \in StreamIds
  <2>1. w[s].data + k \in Nat /\ (w[s].end \/ end) \in BOOLEAN
    BY <1>3 DEF WireType
  <2> QED BY <1>3, <2>1 DEF SendData, WireType
<1> QED BY <1>1, <1>2, <1>3

\* A chunk is a natural number bounded by the connection window, by the
\* stream's window and by what is left.
LEMMA ChunkBounds ==
    ASSUME IInv, NEW a \in Activation
    PROVE  /\ Chunk(a) \in Nat /\ Chunk(a) <= connWindow /\ Chunk(a) <= a.left
           /\ Chunk(a) > 0 => Chunk(a) <= window[a.slot]
<1>1. /\ connWindow \in Nat /\ a.left \in Nat /\ window[a.slot] \in Int
      /\ MaxFrameSize \in Nat
    BY Windows DEF IInv, ConnTypeOK, TableOK, TableTypeOK, Activation
<1> QED BY <1>1 DEF Chunk, LesserOf, StreamCredit

LEMMA ServeOK ==
    ASSUME IInv, Serve
    PROVE  IInv'
<1>1. stack \in Seq(Activation) /\ stack # <<>>
    BY DEF IInv, ConnTypeOK, PcStack, Serve
<1>2. Top \in Activation /\ Tail(stack) \in Seq(Activation)
    BY <1>1, TopType
<1>3. /\ Top.id \in StreamIds /\ Top.slot \in Slots
      /\ request.req \in Requests
    BY <1>2 DEF Activation, IInv, ConnTypeOK
<1>4. TableOK'
    BY <1>3, SameTableOK DEF Serve, MarkServing, IInv, TableOK, TableTypeOK
<1>5. stack' \in Seq(Activation) /\ PcStack' /\ pc' \in PCs
  <2>1. CASE BodyLen[request.req] = HeadersOnly
    BY <1>1, <2>1 DEF Serve, PCs, PcStack
  <2>2. CASE BodyLen[request.req] # HeadersOnly
    <3> DEFINE a == [Top EXCEPT !.left = BodyLen[request.req], !.staged = TRUE]
               b == [Top EXCEPT !.left = BodyLen[request.req]]
    <3>1. BodyLen[request.req] \in Nat
        BY <1>3, <2>2, Bodies
    <3>2. a \in Activation /\ b \in Activation
        BY <1>2, <3>1 DEF Activation
    <3>3. stack' = Push(a, Tail(stack)) \/ stack' = Push(b, Tail(stack))
        BY <2>2 DEF Serve
    <3>4. pc' \in {"body", "fail"}
        BY <2>2 DEF Serve
    <3> QED BY <1>2, <3>2, <3>3, <3>4, PushType DEF PCs, PcStack
  <2> QED BY <2>1, <2>2
<1>6. wire' \in WireType
  <2>1. wire \in WireType
    BY DEF IInv, ObserverTypeOK, WireType
  <2>2. \/ wire' = wire
        \/ wire' = SendHeaders(wire, Top.id, TRUE)
        \/ wire' = SendHeaders(wire, Top.id, FALSE)
    BY DEF Serve
  <2> QED BY <2>1, <2>2, SendHeadersType
<1>7. /\ frameBuf' \in StreamIds
      /\ UNCHANGED <<iws, connWindow, goaway, request, broken, credit, connCredit, resets>>
    BY <1>3 DEF Serve
<1>8. ConnTypeOK'
    BY <1>5, <1>7 DEF IInv, ConnTypeOK
<1>9. ObserverTypeOK'
    BY <1>6, <1>7 DEF IInv, ObserverTypeOK, WireType
<1> QED BY <1>4, <1>5, <1>7, <1>8, <1>9 DEF IInv

LEMMA SendChunkOK ==
    ASSUME IInv, SendChunk
    PROVE  IInv'
<1> DEFINE k     == Chunk(Top)
           end   == k = Top.left
           w     == IF Top.staged THEN SendHeaders(wire, frameBuf, FALSE) ELSE wire
           given == IF broken THEN 0 ELSE k
           a     == [Top EXCEPT !.left = @ - k, !.staged = FALSE]
<1>1. stack \in Seq(Activation) /\ stack # <<>>
    BY DEF IInv, ConnTypeOK, PcStack, SendChunk
<1>2. Top \in Activation /\ Tail(stack) \in Seq(Activation)
    BY <1>1, TopType
<1>3. /\ k \in Nat /\ k <= connWindow /\ k <= Top.left
      /\ given \in Nat /\ given <= k
    BY <1>2, ChunkBounds
<1>4. /\ UNCHANGED <<ids, sid, state, serving, used, closed, lastId, iws, goaway, request,
                     broken, resets>>
      /\ frameBuf' = IF Top.staged THEN frameBuf ELSE 0
    BY DEF SendChunk
<1>5. CASE UNCHANGED <<wire, connWindow, window, credit, connCredit, stack>> /\ pc' = "fail"
  <2>1. TableOK'
    BY <1>4, <1>5, SameTableOK DEF IInv, TableOK, TableTypeOK
  <2>2. ConnTypeOK' /\ ObserverTypeOK'
    BY <1>4, <1>5 DEF IInv, ConnTypeOK, ObserverTypeOK, PCs
  <2> QED BY <1>1, <1>5, <2>1, <2>2 DEF IInv, PcStack
<1>6. CASE /\ wire' = SendData(w, Top.id, k, end)
           /\ connWindow' = connWindow - k
           /\ window' = [window EXCEPT ![Top.slot] = @ - k]
           /\ credit' = [credit EXCEPT ![Top.id] = @ - given]
           /\ connCredit' = connCredit - given
           /\ stack' = Push(a, Tail(stack))
           /\ pc' = IF end THEN "done" ELSE "body"
  <2>1. Top.id \in StreamIds /\ Top.slot \in Slots /\ Top.left \in Nat
    BY <1>2 DEF Activation
  <2>2. window' \in [Slots -> Int]
    BY <1>3, <1>6, <2>1 DEF IInv, TableOK, TableTypeOK
  <2>3. credit' \in [StreamIds -> Int]
    BY <1>3, <1>6, <2>1 DEF IInv, ObserverTypeOK
  <2>4. TableOK'
    BY <1>4, <2>2, SameTableOK DEF IInv, TableOK, TableTypeOK
  <2>5. connWindow' \in Nat /\ connCredit' \in Nat /\ connWindow' <= connCredit'
    BY <1>3, <1>6 DEF IInv, ConnTypeOK, ObserverTypeOK
  <2>6. Top.left - k \in Nat
    BY <1>3, <2>1
  <2>7. a \in Activation
    BY <1>2, <2>6 DEF Activation
  <2>8. stack' \in Seq(Activation) /\ stack' # <<>>
    BY <1>2, <1>6, <2>7, PushType
  <2>9. wire' \in WireType
    <3>1. w \in WireType
        BY SendHeadersType DEF IInv, ObserverTypeOK, WireType
    <3> QED BY <1>3, <1>6, <3>1, SendDataType
  <2>10. ConnTypeOK'
    BY <1>4, <1>6, <2>5, <2>8 DEF IInv, ConnTypeOK, PCs
  <2>11. ObserverTypeOK'
    BY <1>4, <2>3, <2>5, <2>9 DEF IInv, ObserverTypeOK, WireType
  <2> QED BY <2>4, <2>5, <2>8, <2>10, <2>11 DEF IInv, PcStack
<1> QED BY <1>5, <1>6 DEF SendChunk

LEMMA AwaitCreditOK ==
    ASSUME IInv, AwaitCredit
    PROVE  IInv'
<1> DEFINE a == [Top EXCEPT !.staged = FALSE]
<1>1. stack \in Seq(Activation) /\ stack # <<>>
    BY DEF IInv, ConnTypeOK, PcStack, AwaitCredit
<1>2. Top \in Activation /\ Tail(stack) \in Seq(Activation)
    BY <1>1, TopType
<1>3. a \in Activation
    BY <1>2 DEF Activation
<1>4. /\ UNCHANGED <<tableVars, iws, connWindow, goaway, request, frameBuf,
                     broken, credit, connCredit, resets>>
      /\ \/ /\ wire' = IF Top.staged THEN SendHeaders(wire, frameBuf, FALSE) ELSE wire
            /\ stack' = Push(a, Tail(stack)) /\ pc' = "read"
         \/ wire' = wire /\ stack' = stack /\ pc' = "fail"
    BY DEF AwaitCredit
<1>5. stack' \in Seq(Activation) /\ stack' # <<>> /\ pc' \in PCs
    BY <1>1, <1>2, <1>3, <1>4, PushType DEF PCs
<1>6. wire' \in WireType
  <2>1. wire \in WireType
    BY DEF IInv, ObserverTypeOK, WireType
  <2>2. SendHeaders(wire, frameBuf, FALSE) \in WireType
    BY <2>1, SendHeadersType
  <2> QED BY <1>4, <2>1, <2>2
<1>7. TableOK'
    BY <1>4, SameTableOK DEF IInv, TableOK, TableTypeOK, tableVars
<1>8. ConnTypeOK' /\ ObserverTypeOK'
    BY <1>4, <1>5, <1>6 DEF IInv, ConnTypeOK, ObserverTypeOK, WireType
<1> QED BY <1>4, <1>5, <1>7, <1>8 DEF IInv, PcStack

LEMMA Reply500OK ==
    ASSUME IInv, Reply500
    PROVE  IInv'
<1>1. stack \in Seq(Activation) /\ stack # <<>>
    BY DEF IInv, ConnTypeOK, PcStack, Reply500
<1>2. Top.id \in StreamIds
    BY <1>1, TopType DEF Activation
<1>3. wire' \in WireType
  <2>1. wire \in WireType
    BY DEF IInv, ObserverTypeOK, WireType
  <2>2. SendHeaders(wire, Top.id, TRUE) \in WireType
    BY <2>1, SendHeadersType
  <2> QED BY <2>2 DEF Reply500
<1>4. TableOK'
    BY SameTableOK DEF Reply500, IInv, TableOK, TableTypeOK, tableVars
<1>5. ConnTypeOK' /\ ObserverTypeOK'
    BY <1>2, <1>3 DEF Reply500, IInv, ConnTypeOK, ObserverTypeOK, WireType, PCs
<1> QED BY <1>1, <1>4, <1>5 DEF Reply500, IInv, PcStack

LEMMA FinishOK ==
    ASSUME IInv, Finish
    PROVE  IInv'
<1>1. stack \in Seq(Activation) /\ stack # <<>>
    BY DEF IInv, ConnTypeOK, PcStack, Finish
<1>2. /\ Top \in Activation /\ Tail(stack) \in Seq(Activation)
      /\ Top.id \in Nat /\ Top.id # 0 /\ Top.slot \in Slots
  <2>1. Top \in Activation /\ Tail(stack) \in Seq(Activation)
    BY <1>1, TopType
  <2>2. Top.id \in StreamIds /\ Top.slot \in Slots
    BY <2>1 DEF Activation
  <2>3. Top.id \in Nat /\ Top.id % 2 = 1
    BY <2>2, ClientIds
  <2> QED BY <2>1, <2>2, <2>3
<1>3. TableOK'
    BY <1>2, CloseServedOK DEF Finish, IInv
<1>4. stack' \in Seq(Activation) /\ pc' \in PCs /\ PcStack'
    BY <1>2 DEF Finish, Resume, PCs, PcStack
<1>5. ConnTypeOK' /\ ObserverTypeOK'
    BY <1>4 DEF Finish, IInv, ConnTypeOK, ObserverTypeOK, ghostVars
<1> QED BY <1>3, <1>4, <1>5 DEF Finish, IInv, ghostVars

-----------------------------------------------------------------------------
(***************************************************************************)
(* The theorems.                                                           *)
(***************************************************************************)

\* Every step of the engine and every stutter preserves the invariant.
LEMMA NextIInv == IInv /\ [Next]_vars => IInv'
<1> SUFFICES ASSUME IInv, [Next]_vars PROVE IInv'
    OBVIOUS
<1>1. CASE ReadFrame
  <2>1. PICK f \in Frames :
            \/ HandleHeaders(f) \/ HandleData(f) \/ HandleRstStream(f) \/ HandleSettings(f)
            \/ HandleWindowUpdate(f) \/ HandlePing(f) \/ HandleGoaway(f) \/ HandleOther(f)
            \/ OversizeFrame(f)
    BY <1>1 DEF ReadFrame
  <2> QED BY <2>1, HeadersOK, DataOK, RstStreamOK, SettingsOK, WindowUpdateOK, QuietFrameOK
<1>2. CASE Preface
  <2>1. TableOK'
    BY <1>2, SameTableOK DEF Preface, IInv, TableOK, TableTypeOK, tableVars
  <2> QED BY <1>2, <2>1 DEF Preface, IInv, ConnTypeOK, ObserverTypeOK, PCs, PcStack, ghostVars
<1>3. CASE ReadFail
  <2>1. TableOK'
    BY <1>3, SameTableOK DEF ReadFail, IInv, TableOK, TableTypeOK, tableVars
  <2> QED BY <1>3, <2>1
        DEF ReadFail, Nested, IInv, ConnTypeOK, ObserverTypeOK, PCs, PcStack, ghostVars
<1>4. CASE Respond
    BY <1>4, ServeOK, SendChunkOK, AwaitCreditOK, Reply500OK, FinishOK DEF Respond
<1>5. CASE PeerGone
  <2>1. TableOK'
    BY <1>5, SameTableOK DEF PeerGone, IInv, TableOK, TableTypeOK, tableVars
  <2> QED BY <1>5, <2>1 DEF PeerGone, IInv, ConnTypeOK, ObserverTypeOK, PcStack, ghostVars
<1>6. CASE UNCHANGED vars
  <2>1. TableOK'
    BY <1>6, SameTableOK DEF vars, IInv, TableOK, TableTypeOK, tableVars
  <2> QED BY <1>6, <2>1
        DEF vars, connVars, ghostVars, IInv, ConnTypeOK, ObserverTypeOK, PcStack
<1> QED BY <1>1, <1>2, <1>3, <1>4, <1>5, <1>6 DEF Next, Server, Closed

\* The inductive invariant holds of every reachable state.
THEOREM Invariance == Spec => []IInv
<1>1. Init => IInv
    BY InitIInv
<1>2. IInv /\ [Next]_vars => IInv'
    BY NextIInv
<1> QED BY <1>1, <1>2, PTL DEF Spec

\* Type correctness: no frame and no sequence of frames takes a variable out
\* of its range; the connection window in particular never goes below zero.
THEOREM TypeCorrect == Spec => []TypeOK
<1>1. IInv => TypeOK
    BY DEF IInv, TableOK, TypeOK
<1> QED BY <1>1, Invariance, PTL

\* The packed index and both bitmaps agree with the stream entries.
THEOREM TableCorrect == Spec => []TableInStep
<1>1. IInv => TableInStep
    BY DEF IInv, TableOK
<1> QED BY <1>1, Invariance, PTL

\* No two slots hold the same stream; every held id is odd, and at most the
\* high-water mark; a slot is IDLE exactly when it is free.
THEOREM SlotsCorrect == Spec => []SlotsDistinct
<1>1. IInv => SlotsDistinct
    BY DEF IInv, TableOK
<1> QED BY <1>1, Invariance, PTL

\* A step changes the stream in a slot only by handing a free or CLOSED slot
\* to a larger id: no live stream is ever recycled.
THEOREM RecycleCorrect == Spec => RecycleOnlyClosed
<1> DEFINE A == \A i \in Slots : sid'[i] # sid[i] =>
                    /\ sid[i] = 0 \/ state[i] = "CLOSED"
                    /\ sid'[i] > sid[i]
<1>1. IInv /\ [Next]_vars => [A]_tableVars
  <2> SUFFICES ASSUME IInv, [Next]_vars PROVE [A]_tableVars
    OBVIOUS
  <2>1. CASE ReadFrame
    <3>1. PICK f \in Frames :
            \/ HandleHeaders(f) \/ HandleData(f) \/ HandleRstStream(f) \/ HandleSettings(f)
            \/ HandleWindowUpdate(f) \/ HandlePing(f) \/ HandleGoaway(f) \/ HandleOther(f)
            \/ OversizeFrame(f)
        BY <2>1 DEF ReadFrame
    <3>2. CASE HandleHeaders(f)
      <4> DEFINE e  == HeadersVerdict(f.id)
                 st == AfterFrame(f.fault = "NO_ERROR" /\ f.bit0)
      <4>1. CASE e = "NO_ERROR" /\ ~ Found(f.id)
        <5>1. InitSlot(AllocSlot, f.id, iws, st)
            BY <3>2, <4>1 DEF HandleHeaders
        <5>2. f.id \in Nat /\ f.id > lastId /\ CanAllocate
            BY <4>1, Alphabet DEF FrameSpace, HeadersVerdict, OpenVerdict,
                                  IInv, TableOK, TableTypeOK
        <5>3. AllocSlot \in Slots /\ (AllocSlot \in FreeSlots \/ AllocSlot \in closed)
            BY <5>2, AllocSlotFound DEF IInv, TableOK
        <5>4. sid[AllocSlot] = 0 \/ state[AllocSlot] = "CLOSED"
            BY <5>3 DEF IInv, TableOK, TableInStep, FreeSlots
        <5>5. \A i \in Slots : sid[i] <= lastId /\ sid[i] \in Nat /\ lastId \in Nat
            BY DEF IInv, TableOK, TableTypeOK, SlotsDistinct
        <5>6. sid' = [sid EXCEPT ![AllocSlot] = f.id] /\ sid \in [Slots -> Nat]
            BY <5>1 DEF InitSlot, IInv, TableOK, TableTypeOK
        <5> QED BY <5>2, <5>3, <5>4, <5>5, <5>6
      <4>2. CASE ~ (e = "NO_ERROR" /\ ~ Found(f.id))
        <5>1. sid' = sid
            BY <3>2, <4>2 DEF HandleHeaders, tableVars
        <5> QED BY <5>1
      <4> QED BY <4>1, <4>2
    <3>3. CASE ~ HandleHeaders(f)
      <4>1. sid' = sid
        BY <3>1, <3>3 DEF HandleData, HandleRstStream, HandleSettings, HandleWindowUpdate,
                          HandlePing, HandleGoaway, HandleOther, OversizeFrame, tableVars
      <4> QED BY <4>1
    <3> QED BY <3>2, <3>3
  <2>2. CASE Server \/ PeerGone \/ Closed \/ UNCHANGED vars
    <3>1. sid' = sid
        BY <2>2 DEF Server, Preface, ReadFail, Respond, Serve, MarkServing, SendChunk,
                    AwaitCredit, Reply500, Finish, CloseServed, PeerGone, Closed, vars, tableVars
    <3> QED BY <3>1
  <2> QED BY <2>1, <2>2 DEF Next
<1> QED BY <1>1, Invariance, PTL DEF Spec, RecycleOnlyClosed

=============================================================================
