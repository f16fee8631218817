--------------------------- MODULE Server_proofs ---------------------------
(***************************************************************************)
(* The graceful stop, for every number of processes, workers and           *)
(* connections: no process that serves a connection dies of the stop.      *)
(***************************************************************************)
EXTENDS Server, TLAPS

-----------------------------------------------------------------------------
(***************************************************************************)
(* The inductive invariant.  That no connection is killed says nothing of  *)
(* the signals under way; what keeps them from the connections is that     *)
(* they are addressed to the original process, which is in its accept loop *)
(* until it is signalled, and to pids of worker_pids, which no connection  *)
(* has unless the pid was given out again.                                 *)
(***************************************************************************)
ProcStates == Accepting \cup ConnStates \cup {"free", "zombie", "shutdown"}

\* The part of the types the argument needs.
ProcTypeOK ==
    /\ st \in [Pids -> ProcStates]
    /\ workerPids \in Seq(Pids)
    /\ toKill \in [Pids -> Seq(Pids)]
    /\ pending \subseteq Alive

\* Until the operator signals, nothing is pending, nobody is shutting down and
\* the original process is in its accept loop.
Undisturbed ==
    signalled = "no" =>
        /\ pending = {} /\ killed = {}
        /\ st[Main] \in Accepting
        /\ \A p \in Pids : st[p] # "shutdown"

\* A pid of worker_pids is a worker's, or nobody's, unless it was given out again.
WorkersOwn == reborn = {} => \A w \in Workers : st[w] \notin ConnStates

\* A stop of the original process reaches no connection, and neither do the
\* signals it still has to send.
SparesConns ==
    signalled = "main" /\ reborn = {} =>
        /\ killed = {}
        /\ \A p \in pending : st[p] \notin ConnStates
        /\ \A p \in Pids : st[p] = "shutdown" =>
              \A i \in DOMAIN toKill[p] : toKill[p][i] \in Workers

StopInv == ProcTypeOK /\ Undisturbed /\ WorkersOwn /\ SparesConns

LEMMA StatesApart ==
    /\ Accepting \cap ConnStates = {}
    /\ \A s \in Accepting \cup ConnStates : s \notin {"free", "zombie", "shutdown"}
BY DEF Accepting, ConnStates

LEMMA InitStop == Init => StopInv
<1> SUFFICES ASSUME Init PROVE StopInv
    OBVIOUS
<1>1. ProcTypeOK
    BY DEF Init, ProcTypeOK, ProcStates, Accepting
<1>2. Workers = {}
    BY DEF Init, Workers
<1>3. Undisturbed
    BY ServerAssumption DEF Init, Undisturbed, Accepting
<1> QED BY <1>1, <1>2, <1>3 DEF Init, StopInv, WorkersOwn, SparesConns

-----------------------------------------------------------------------------
(***************************************************************************)
(* Steps.                                                                  *)
(***************************************************************************)

\* One process goes on from one place to another in its loop; signals, the
\* list of workers and the other processes are left alone.
LEMMA MovesOn ==
    ASSUME StopInv, NEW p \in Pids, NEW s \in Accepting \cup ConnStates,
           st[p] \in Accepting \cup ConnStates,
           s \in ConnStates <=> st[p] \in ConnStates,
           st' = [st EXCEPT ![p] = s],
           UNCHANGED <<workerPids, toKill, pending, signalled, reborn, killed>>
    PROVE  StopInv'
<1>1. /\ st \in [Pids -> ProcStates] /\ st' \in [Pids -> ProcStates]
      /\ \A q \in Pids : /\ st'[q] \in ConnStates <=> st[q] \in ConnStates
                         /\ st'[q] = "shutdown" <=> st[q] = "shutdown"
                         /\ st'[q] \in {"free", "zombie"} <=> st[q] \in {"free", "zombie"}
                         /\ st[q] \in Accepting => st'[q] \in Accepting
    BY StatesApart DEF StopInv, ProcTypeOK, ProcStates
<1>2. Workers' = Workers /\ Workers \subseteq Pids
    BY DEF Workers, StopInv, ProcTypeOK
<1>3. pending \subseteq Pids
    BY DEF StopInv, ProcTypeOK, Alive
<1>4. ProcTypeOK'
    BY <1>1 DEF StopInv, ProcTypeOK, Alive
<1>5. Undisturbed'
    BY <1>1, ServerAssumption DEF StopInv, Undisturbed
<1>6. WorkersOwn'
    BY <1>1, <1>2 DEF StopInv, WorkersOwn
<1>7. SparesConns'
    BY <1>1, <1>2, <1>3 DEF StopInv, SparesConns
<1> QED BY <1>4, <1>5, <1>6, <1>7 DEF StopInv

\* A process that is not the original one, or has been signalled, is gone.
LEMMA ExitStops ==
    ASSUME StopInv, NEW p \in Pids, p # Main \/ signalled # "no", Exit(p), killed' = killed
    PROVE  StopInv'
<1>1. /\ st \in [Pids -> ProcStates] /\ st' \in [Pids -> ProcStates]
      /\ st'[p] \in {"free", "zombie"}
      /\ \A q \in Pids : q # p => st'[q] = st[q]
    BY DEF StopInv, ProcTypeOK, Exit, ProcStates
<1>2. /\ toKill \in [Pids -> Seq(Pids)] /\ toKill' \in [Pids -> Seq(Pids)]
      /\ \A q \in Pids : q # p => toKill'[q] = toKill[q]
    BY DEF StopInv, ProcTypeOK, Exit
<1>3. pending' = pending \ {p} /\ UNCHANGED <<workerPids, signalled, reborn>>
    BY DEF Exit
<1>4. Workers' = Workers /\ Workers \subseteq Pids
    BY <1>3 DEF Workers, StopInv, ProcTypeOK
<1>5. ProcTypeOK'
    BY <1>1, <1>2, <1>3 DEF StopInv, ProcTypeOK, Alive
<1>6. Undisturbed'
    BY <1>1, <1>3, ServerAssumption DEF StopInv, Undisturbed
<1>7. WorkersOwn'
    BY <1>1, <1>3, <1>4, StatesApart DEF StopInv, WorkersOwn
<1>8. SparesConns'
  <2>1. \A q \in pending' : q \in Pids /\ q # p /\ q \in pending
    BY <1>3 DEF StopInv, ProcTypeOK, Alive
  <2> QED BY <1>1, <1>2, <1>3, <1>4, <2>1 DEF StopInv, SparesConns
<1> QED BY <1>5, <1>6, <1>7, <1>8 DEF StopInv

LEMMA SpawnStops ==
    ASSUME StopInv, NEW q \in Pids, SpawnWorker(q)
    PROVE  StopInv'
<1>1. /\ st[q] = "free" /\ workerPids' = Append(workerPids, q)
      /\ st' = [st EXCEPT ![q] = "forkedworker"]
      /\ reborn' = IF q \in Workers THEN reborn \cup {q} ELSE reborn
      /\ UNCHANGED <<toKill, pending, signalled, killed>>
    BY DEF SpawnWorker, Fork, FreePids
<1>2. /\ st \in [Pids -> ProcStates] /\ st' \in [Pids -> ProcStates]
      /\ st'[q] = "forkedworker"
      /\ \A r \in Pids : r # q => st'[r] = st[r]
    BY <1>1 DEF StopInv, ProcTypeOK, ProcStates, Accepting
<1>3. workerPids \in Seq(Pids) /\ workerPids' \in Seq(Pids)
    BY <1>1 DEF StopInv, ProcTypeOK
<1>4. Workers' = Workers \cup {q} /\ Workers \subseteq Pids
  <2>1. /\ DOMAIN workerPids' = 1..(Len(workerPids) + 1)
        /\ DOMAIN workerPids = 1..Len(workerPids) /\ Len(workerPids) \in Nat
        /\ workerPids'[Len(workerPids) + 1] = q
        /\ \A i \in 1..Len(workerPids) : workerPids'[i] = workerPids[i]
    BY <1>1, <1>3
  <2>2. \A i \in DOMAIN workerPids' : i \in DOMAIN workerPids \/ i = Len(workerPids) + 1
    BY <2>1
  <2> QED BY <1>3, <2>1, <2>2 DEF Workers
<1>5. ProcTypeOK'
    BY <1>1, <1>2, <1>3 DEF StopInv, ProcTypeOK, Alive
<1>6. Undisturbed'
    BY <1>1, <1>2, StatesApart, ServerAssumption DEF StopInv, Undisturbed, Accepting
<1>7. WorkersOwn'
    BY <1>1, <1>2, <1>4 DEF StopInv, WorkersOwn, ConnStates
<1>8. SparesConns'
    BY <1>1, <1>2, <1>4 DEF StopInv, SparesConns, ProcTypeOK, Alive, ConnStates
<1> QED BY <1>5, <1>6, <1>7, <1>8 DEF StopInv

\* A connection's process takes a free pid; if that is a worker's it counts as
\* given out again.
LEMMA ForkConnStops ==
    ASSUME StopInv, NEW p \in Pids, NEW q \in Pids, ForkConn(p, q)
    PROVE  StopInv'
<1>1. /\ st[q] = "free" /\ st[p] = "got"
      /\ st' = [st EXCEPT ![p] = "handover", ![q] = "connstart"]
      /\ reborn' = IF q \in Workers THEN reborn \cup {q} ELSE reborn
      /\ UNCHANGED <<workerPids, toKill, pending, signalled, killed>>
    BY DEF ForkConn, Fork, FreePids
<1>2. /\ st \in [Pids -> ProcStates] /\ st' \in [Pids -> ProcStates]
      /\ p # q /\ st'[p] = "handover" /\ st'[q] = "connstart"
      /\ \A r \in Pids : r # q /\ r # p => st'[r] = st[r]
    BY <1>1 DEF StopInv, ProcTypeOK, ProcStates, Accepting, ConnStates
<1>3. Workers' = Workers /\ Workers \subseteq Pids
    BY <1>1 DEF Workers, StopInv, ProcTypeOK
<1>4. q \notin pending /\ pending \subseteq Pids
    BY <1>1 DEF StopInv, ProcTypeOK, Alive
<1>5. ProcTypeOK'
    BY <1>1, <1>2, <1>4 DEF StopInv, ProcTypeOK, Alive
<1>6. Undisturbed'
    BY <1>1, <1>2, ServerAssumption DEF StopInv, Undisturbed, Accepting
<1>7. WorkersOwn'
    BY <1>1, <1>2, <1>3 DEF StopInv, WorkersOwn, ConnStates
<1>8. SparesConns'
    BY <1>1, <1>2, <1>3, <1>4 DEF StopInv, SparesConns, ConnStates
<1> QED BY <1>5, <1>6, <1>7, <1>8 DEF StopInv

-----------------------------------------------------------------------------
(***************************************************************************)
(* Signals.                                                                *)
(***************************************************************************)

LEMMA SignalStops ==
    ASSUME StopInv, Signal
    PROVE  StopInv'
<1>1. PICK whom, targets :
        /\ SignalTo(whom, targets) /\ whom # "no" /\ targets \subseteq Alive
        /\ whom = "main" => targets \subseteq {Main}
  <2>1. CASE SignalTo("main", {Main} \cap Alive)
    <3>1. "main" # "no" /\ {Main} \cap Alive \subseteq Alive /\ {Main} \cap Alive \subseteq {Main}
        OBVIOUS
    <3> QED BY <2>1, <3>1, Zenon
  <2>2. CASE SignalTo("group", Alive)
    <3>1. "group" # "no" /\ "group" # "main" /\ Alive \subseteq Alive
        OBVIOUS
    <3> QED BY <2>2, <3>1, Zenon
  <2>3. ASSUME NEW p \in Alive \ {Main}, SignalTo("one", {p})
        PROVE  \E whom, targets :
                  /\ SignalTo(whom, targets) /\ whom # "no" /\ targets \subseteq Alive
                  /\ whom = "main" => targets \subseteq {Main}
    <3>1. "one" # "no" /\ "one" # "main" /\ {p} \subseteq Alive
        OBVIOUS
    <3> QED BY <2>3, <3>1, Zenon
  <2> QED BY <2>1, <2>2, <2>3 DEF Signal
<1>2. /\ signalled = "no" /\ signalled' = whom /\ pending' = pending \cup targets
      /\ UNCHANGED <<st, workerPids, toKill, reborn, killed>>
    BY <1>1 DEF SignalTo
<1>3. Workers' = Workers
    BY <1>2 DEF Workers
<1>4. pending = {} /\ killed = {} /\ st[Main] \notin ConnStates /\ \A p \in Pids : st[p] # "shutdown"
    BY <1>2, StatesApart DEF StopInv, Undisturbed
<1>5. ProcTypeOK'
    BY <1>1, <1>2 DEF StopInv, ProcTypeOK, Alive
<1>6. Undisturbed' /\ WorkersOwn'
    BY <1>1, <1>2, <1>3 DEF StopInv, Undisturbed, WorkersOwn
<1>7. SparesConns'
    BY <1>1, <1>2, <1>4 DEF SparesConns
<1> QED BY <1>5, <1>6, <1>7 DEF StopInv

LEMMA DiesStops ==
    ASSUME StopInv, NEW p \in Pids, DiesOfSignal(p)
    PROVE  StopInv'
<1>1. p \in pending /\ Exit(p)
      /\ killed' = IF st[p] \in ConnStates THEN killed \cup {client[p]} ELSE killed
    BY DEF DiesOfSignal
<1>2. signalled # "no"
    BY <1>1 DEF StopInv, Undisturbed
<1>3. CASE signalled = "main" /\ reborn = {}
  <2>1. killed' = killed
    BY <1>1, <1>3 DEF StopInv, SparesConns
  <2> QED BY <1>1, <1>2, <2>1, ExitStops
<1>4. CASE ~ (signalled = "main" /\ reborn = {})
  <2>1. /\ st \in [Pids -> ProcStates] /\ st' \in [Pids -> ProcStates]
        /\ st'[p] \in {"free", "zombie"}
        /\ \A q \in Pids : q # p => st'[q] = st[q]
    BY <1>1 DEF StopInv, ProcTypeOK, Exit, ProcStates
  <2>2. /\ pending' = pending \ {p} /\ UNCHANGED <<workerPids, signalled, reborn>>
        /\ toKill' \in [Pids -> Seq(Pids)]
    BY <1>1 DEF StopInv, ProcTypeOK, Exit
  <2>3. Workers' = Workers /\ Workers \subseteq Pids
    BY <2>2 DEF Workers, StopInv, ProcTypeOK
  <2>4. ProcTypeOK'
    BY <2>1, <2>2 DEF StopInv, ProcTypeOK, Alive
  <2>5. Undisturbed' /\ SparesConns'
    BY <1>2, <1>4, <2>2 DEF Undisturbed, SparesConns
  <2>6. WorkersOwn'
    BY <2>1, <2>2, <2>3, StatesApart DEF StopInv, WorkersOwn
  <2> QED BY <2>4, <2>5, <2>6 DEF StopInv
<1> QED BY <1>3, <1>4

LEMMA ShutdownBeginsStops ==
    ASSUME StopInv, NEW p \in Pids, ShutdownBegins(p)
    PROVE  StopInv'
<1>1. /\ p \in pending /\ st' = [st EXCEPT ![p] = "shutdown"]
      /\ toKill' = [toKill EXCEPT ![p] = workerPids]
      /\ pending' = pending \ {p}
      /\ killed' = IF st[p] \in ConnStates THEN killed \cup {client[p]} ELSE killed
      /\ UNCHANGED <<workerPids, signalled, reborn>>
    BY DEF ShutdownBegins
<1>2. signalled # "no"
    BY <1>1 DEF StopInv, Undisturbed
<1>3. /\ st \in [Pids -> ProcStates] /\ st' \in [Pids -> ProcStates]
      /\ st'[p] = "shutdown" /\ "shutdown" \notin ConnStates
      /\ \A q \in Pids : q # p => st'[q] = st[q]
    BY <1>1 DEF StopInv, ProcTypeOK, ProcStates, ConnStates
<1>4. /\ toKill' \in [Pids -> Seq(Pids)] /\ toKill'[p] = workerPids
      /\ \A q \in Pids : q # p => toKill'[q] = toKill[q]
    BY <1>1 DEF StopInv, ProcTypeOK
<1>5. Workers' = Workers /\ Workers \subseteq Pids
    BY <1>1 DEF Workers, StopInv, ProcTypeOK
<1>6. ProcTypeOK'
    BY <1>1, <1>3, <1>4 DEF StopInv, ProcTypeOK, Alive
<1>7. Undisturbed'
    BY <1>1, <1>2 DEF Undisturbed
<1>8. WorkersOwn'
    BY <1>1, <1>3, <1>5 DEF StopInv, WorkersOwn
<1>9. SparesConns'
  <2> SUFFICES ASSUME signalled = "main", reborn = {}
               PROVE  /\ killed' = {}
                      /\ \A q \in pending' : st'[q] \notin ConnStates
                      /\ \A q \in Pids : st'[q] = "shutdown" =>
                            \A i \in DOMAIN toKill'[q] : toKill'[q][i] \in Workers'
    BY <1>1 DEF SparesConns
  <2>1. killed' = {}
    BY <1>1 DEF StopInv, SparesConns
  <2>2. \A q \in pending' : st'[q] \notin ConnStates
    BY <1>1, <1>3 DEF StopInv, SparesConns, ProcTypeOK, Alive
  <2>3. \A i \in DOMAIN workerPids : workerPids[i] \in Workers
    BY DEF Workers
  <2>4. \A q \in Pids : st'[q] = "shutdown" =>
            \A i \in DOMAIN toKill'[q] : toKill'[q][i] \in Workers'
    BY <1>3, <1>4, <1>5, <2>3 DEF StopInv, SparesConns
  <2> QED BY <2>1, <2>2, <2>4
<1> QED BY <1>6, <1>7, <1>8, <1>9 DEF StopInv

LEMMA ShutdownKillsStops ==
    ASSUME StopInv, NEW p \in Pids, ShutdownKills(p)
    PROVE  StopInv'
<1> DEFINE l == toKill[p]
           h == Head(l)
<1>1. /\ st[p] = "shutdown" /\ l # <<>>
      /\ toKill' = [toKill EXCEPT ![p] = Tail(l)]
      /\ pending' = pending \cup ({h} \cap Alive)
      /\ UNCHANGED <<st, workerPids, signalled, reborn, killed>>
    BY DEF ShutdownKills
<1>2. signalled # "no"
    BY <1>1 DEF StopInv, Undisturbed
<1>3. l \in Seq(Pids) /\ toKill \in [Pids -> Seq(Pids)]
    BY DEF StopInv, ProcTypeOK
<1>4. /\ Tail(l) \in Seq(Pids) /\ 1 \in DOMAIN l /\ h = l[1]
      /\ \A i \in DOMAIN Tail(l) : i + 1 \in DOMAIN l /\ Tail(l)[i] = l[i + 1]
    <2> HIDE DEF l
    <2> QED BY <1>1, <1>3 DEF h
<1>5. Workers' = Workers
    BY <1>1 DEF Workers
<1>6. toKill' \in [Pids -> Seq(Pids)] /\ toKill'[p] = Tail(l)
      /\ \A q \in Pids : q # p => toKill'[q] = toKill[q]
    <2> HIDE DEF l
    <2> QED BY <1>1, <1>3, <1>4
<1>7. ProcTypeOK'
    <2> HIDE DEF h
    <2> QED BY <1>1, <1>6 DEF StopInv, ProcTypeOK, Alive
<1>8. Undisturbed' /\ WorkersOwn'
    BY <1>1, <1>2, <1>5 DEF StopInv, Undisturbed, WorkersOwn
<1>9. SparesConns'
  <2> SUFFICES ASSUME signalled = "main", reborn = {}
               PROVE  /\ killed' = {}
                      /\ \A q \in pending' : st'[q] \notin ConnStates
                      /\ \A q \in Pids : st'[q] = "shutdown" =>
                            \A i \in DOMAIN toKill'[q] : toKill'[q][i] \in Workers'
    BY <1>1 DEF SparesConns
  <2>1. killed = {} /\ \A i \in DOMAIN l : l[i] \in Workers
    BY <1>1 DEF StopInv, SparesConns
  <2> HIDE DEF l, h
  <2>2. h \in Workers /\ st[h] \notin ConnStates
    BY <1>4, <2>1 DEF StopInv, WorkersOwn
  <2>3. \A q \in pending' : st'[q] \notin ConnStates
    BY <1>1, <2>2 DEF StopInv, SparesConns
  <2>4. \A i \in DOMAIN Tail(l) : Tail(l)[i] \in Workers
    BY <1>4, <2>1
  <2>5. \A q \in Pids : st'[q] = "shutdown" =>
            \A i \in DOMAIN toKill'[q] : toKill'[q][i] \in Workers'
    BY <1>1, <1>5, <1>6, <2>4 DEF StopInv, SparesConns
  <2> QED BY <1>1, <2>1, <2>3, <2>5
<1> QED BY <1>7, <1>8, <1>9 DEF StopInv

-----------------------------------------------------------------------------
(***************************************************************************)
(* The theorem.                                                            *)
(***************************************************************************)
LEMMA NextStops == StopInv /\ [Next]_vars => StopInv'
<1> SUFFICES ASSUME StopInv, [Next]_vars PROVE StopInv'
    OBVIOUS
<1>1. ASSUME NEW q \in Pids, SpawnWorker(q) PROVE StopInv'
    BY <1>1, SpawnStops
<1>2. CASE InstallShutdown
    BY <1>2, MovesOn, ServerAssumption, StatesApart DEF InstallShutdown, Accepting
<1>3. ASSUME NEW p \in Pids, WorkerStarts(p) PROVE StopInv'
    BY <1>3, MovesOn, StatesApart DEF WorkerStarts, Accepting
<1>4. ASSUME NEW c \in Conns, Connect(c) PROVE StopInv'
    BY <1>4 DEF Connect, StopInv, ProcTypeOK, Undisturbed, WorkersOwn, SparesConns, Alive, Workers
<1>5. ASSUME NEW p \in Pids, NEW c \in Conns, Accept(p, c) PROVE StopInv'
    BY <1>5, MovesOn, StatesApart DEF Accept, Accepting
<1>6. ASSUME NEW p \in Pids, NEW q \in Pids, ForkConn(p, q) PROVE StopInv'
    BY <1>6, ForkConnStops
<1>7. ASSUME NEW p \in Pids, Handover(p) \/ ForkFails(p) PROVE StopInv'
    BY <1>7, MovesOn, StatesApart DEF Handover, ForkFails, Accepting
<1>8. ASSUME NEW p \in Pids, ConnStarts(p) PROVE StopInv'
    BY <1>8, MovesOn, StatesApart DEF ConnStarts, ConnStates
<1>9. ASSUME NEW p \in Pids, ConnEnds(p) \/ Deadline(p) PROVE StopInv'
  <2>1. st[p] = "serving" /\ Exit(p) /\ killed' = killed
    BY <1>9 DEF ConnEnds, Deadline
  <2>2. p # Main \/ signalled # "no"
    BY <2>1 DEF StopInv, Undisturbed, Accepting
  <2> QED BY <2>1, <2>2, ExitStops
<1>10. CASE Signal
    BY <1>10, SignalStops
<1>11. ASSUME NEW p \in Pids, DiesOfSignal(p) \/ ShutdownBegins(p) PROVE StopInv'
    BY <1>11, DiesStops, ShutdownBeginsStops
<1>12. ASSUME NEW p \in Pids, ShutdownKills(p) PROVE StopInv'
    BY <1>12, ShutdownKillsStops
<1>13. ASSUME NEW p \in Pids, ShutdownExits(p) PROVE StopInv'
  <2>1. st[p] = "shutdown" /\ Exit(p) /\ killed' = killed
    BY <1>13 DEF ShutdownExits
  <2>2. signalled # "no"
    BY <2>1 DEF StopInv, Undisturbed
  <2> QED BY <2>1, <2>2, ExitStops
<1>14. ASSUME NEW p \in Pids, WorkerCrashes(p) PROVE StopInv'
    BY <1>14, ExitStops DEF WorkerCrashes
<1>15. CASE UNCHANGED vars
    BY <1>15 DEF vars, StopInv, ProcTypeOK, Undisturbed, WorkersOwn, SparesConns, Alive, Workers
<1> QED BY <1>1, <1>2, <1>3, <1>4, <1>5, <1>6, <1>7, <1>8, <1>9, <1>10, <1>11, <1>12, <1>13,
           <1>14, <1>15 DEF Next

\* The invariant holds of every reachable state.
THEOREM StopInvariance == Spec => []StopInv
<1>1. Init => StopInv
    BY InitStop
<1>2. StopInv /\ [Next]_vars => StopInv'
    BY NextStops
<1> QED BY <1>1, <1>2, PTL DEF Spec

\* A stop of the original process kills no process that serves a connection,
\* whatever the number of workers, of processes and of connections, and
\* whichever workers have crashed, as long as no pid of worker_pids has been
\* given out again.
THEOREM StopIsGraceful == Spec => []InFlightFinishes
<1>1. StopInv => InFlightFinishes
    BY DEF StopInv, SparesConns, InFlightFinishes
<1> QED BY <1>1, StopInvariance, PTL

=============================================================================
