------------------------------- MODULE Server -------------------------------
(***************************************************************************)
(* The processes of the server (src/sarm/main.S): the original process     *)
(* forks the accept workers, installs the shutdown handler and becomes the *)
(* last worker; every worker accepts on the one inherited listening socket *)
(* and forks a child for each connection; SIGTERM or SIGINT to the         *)
(* original process shuts the workers down and lets connections finish.    *)
(*                                                                         *)
(* The kernel's part (external): fork copies the descriptors, the signal   *)
(* dispositions and the memory, but not the auto-reap flag; an exited      *)
(* process is reaped at once if its parent auto-reaps or is gone, and is a *)
(* zombie otherwise; a pid is free again once its process is reaped.       *)
(***************************************************************************)
EXTENDS Integers, SequencesExt

CONSTANTS
    Pids,        \* process ids
    Main,        \* the original process
    NoPid,       \* no process: the parent of an orphan
    Conns,       \* client connections
    NoConn,      \* no connection
    WorkerCount, \* worker_count
    Crashes      \* may a worker die on its own?

ASSUME ServerAssumption ==
    /\ Main \in Pids
    /\ NoPid \notin Pids
    /\ NoConn \notin Conns
    /\ WorkerCount \in Nat \ {0}
    /\ Crashes \in BOOLEAN

VARIABLES
    st,          \* where each process is
    parent,      \* its parent
    listens,     \* the processes that hold the listening socket
    handler,     \* those whose SIGTERM disposition is worker_shutdown
    autoReap,    \* those with SIGCHLD ignored and SA_NOCLDWAIT set
    client,      \* the connection each process holds
    workerPids,  \* worker_pids of the original process
    toKill,      \* of a process in worker_shutdown: whom it still signals
    pending,     \* processes with a SIGTERM or SIGINT to be delivered
    signalled,   \* whom the operator has signalled: nobody ("no"), the
                 \* original process, the whole group, or one process
    reborn,      \* pids of worker_pids that now belong to another process
    conn,        \* what has become of each connection
    killed       \* connections whose process died of a signal

vars == <<st, parent, listens, handler, autoReap, client, workerPids, toKill,
          pending, signalled, reborn, conn, killed>>

Workers == {workerPids[i] : i \in DOMAIN workerPids}
Alive == {p \in Pids : st[p] \notin {"free", "zombie"}}
Accepting == {"spawn", "forkedworker", "accept", "got", "handover"}
ConnStates == {"connstart", "serving"}

Init ==
    /\ st = [p \in Pids |-> IF p = Main THEN "spawn" ELSE "free"]
    /\ parent = [p \in Pids |-> NoPid]
    /\ listens = {Main}
    /\ handler = {}
    /\ autoReap = {Main}
    /\ client = [p \in Pids |-> NoConn]
    /\ workerPids = <<>>
    /\ toKill = [p \in Pids |-> <<>>]
    /\ pending = {}
    /\ signalled = "no"
    /\ reborn = {}
    /\ conn = [c \in Conns |-> "none"]
    /\ killed = {}

-----------------------------------------------------------------------------
(* fork and exit.                                                          *)

FreePids == {q \in Pids : st[q] = "free"}

\* A child q of p: it has p's descriptors and dispositions.
Fork(p, q) ==
    /\ q \in FreePids
    /\ parent' = [parent EXCEPT ![q] = p]
    /\ listens' = IF p \in listens THEN listens \cup {q} ELSE listens \ {q}
    /\ handler' = IF p \in handler THEN handler \cup {q} ELSE handler \ {q}
    /\ autoReap' = autoReap \ {q}
    /\ reborn' = IF q \in Workers THEN reborn \cup {q} ELSE reborn

\* Process p is gone, its descriptors with it and its children orphans.
Exit(p) ==
    /\ st' = [st EXCEPT ![p] =
                IF parent[p] \in autoReap \cup {NoPid} THEN "free" ELSE "zombie"]
    /\ parent' = [q \in Pids |-> IF q = p \/ parent[q] = p THEN NoPid ELSE parent[q]]
    /\ listens' = listens \ {p}
    /\ handler' = handler \ {p}
    /\ autoReap' = autoReap \ {p}
    /\ client' = [client EXCEPT ![p] = NoConn]
    /\ toKill' = [toKill EXCEPT ![p] = <<>>]
    /\ pending' = pending \ {p}
    /\ UNCHANGED <<workerPids, signalled, reborn>>

\* What becomes of the connection of a process that is gone: it ends unless
\* the other side of a fork still holds it.
ConnAfter(p) ==
    IF client[p] = NoConn \/ \E q \in Pids \ {p} : client[q] = client[p] THEN conn
    ELSE [conn EXCEPT ![client[p]] = "ended"]

-----------------------------------------------------------------------------
(* Start-up.                                                               *)

\* Mutant: the child's pid is not recorded.
SpawnWorkerUnrecorded(q) ==
    /\ st[Main] = "spawn"
    /\ Len(workerPids) + 1 < WorkerCount
    /\ Fork(Main, q)
    /\ st' = [st EXCEPT ![q] = "forkedworker"]
    /\ UNCHANGED <<workerPids, client, toKill, pending, signalled, conn, killed>>

\* Lspawn_loop: one more worker, recorded in worker_pids.
SpawnWorker(q) ==
    /\ st[Main] = "spawn"
    /\ Len(workerPids) + 1 < WorkerCount
    /\ Fork(Main, q)
    /\ st' = [st EXCEPT ![q] = "forkedworker"]
    /\ workerPids' = Append(workerPids, q)
    /\ UNCHANGED <<client, toKill, pending, signalled, conn, killed>>

\* All are spawned, or a fork failed: install worker_shutdown for SIGTERM and
\* SIGINT and be the last worker.
InstallShutdown ==
    /\ st[Main] = "spawn"
    /\ st' = [st EXCEPT ![Main] = "accept"]
    /\ handler' = handler \cup {Main}
    /\ UNCHANGED <<parent, listens, autoReap, client, workerPids, toKill, pending,
                   signalled, reborn, conn, killed>>

\* SIGCHLD ignored with SA_NOCLDWAIT: the kernel reaps p's children.
install_sigchld(p) == autoReap' = autoReap \cup {p}

\* Lworker_child: install_sigchld again, then the accept loop.
WorkerStarts(p) ==
    /\ st[p] = "forkedworker"
    /\ st' = [st EXCEPT ![p] = "accept"]
    /\ install_sigchld(p)
    /\ UNCHANGED <<parent, listens, handler, client, workerPids, toKill, pending,
                   signalled, reborn, conn, killed>>

-----------------------------------------------------------------------------
(* The accept loop and the connection's process.                           *)

\* A client connects: the kernel queues it as long as the port is bound.
Connect(c) ==
    /\ conn[c] = "none"
    /\ listens # {}
    /\ conn' = [conn EXCEPT ![c] = "queued"]
    /\ UNCHANGED <<st, parent, listens, handler, autoReap, client, workerPids,
                   toKill, pending, signalled, reborn, killed>>

\* accept() gives the connection to one of the workers.
Accept(p, c) ==
    /\ st[p] = "accept"
    /\ p \in listens
    /\ conn[c] = "queued"
    /\ st' = [st EXCEPT ![p] = "got"]
    /\ client' = [client EXCEPT ![p] = c]
    /\ conn' = [conn EXCEPT ![c] = "accepted"]
    /\ UNCHANGED <<parent, listens, handler, autoReap, workerPids, toKill, pending,
                   signalled, reborn, killed>>

\* The child shares the connection with the worker that accepted it.
ForkConn(p, q) ==
    /\ st[p] = "got"
    /\ Fork(p, q)
    /\ st' = [st EXCEPT ![p] = "handover", ![q] = "connstart"]
    /\ client' = [client EXCEPT ![q] = client[p]]
    /\ UNCHANGED <<workerPids, toKill, pending, signalled, conn, killed>>

\* The parent closes its copy and goes back to accept().
Handover(p) ==
    /\ st[p] = "handover"
    /\ st' = [st EXCEPT ![p] = "accept"]
    /\ client' = [client EXCEPT ![p] = NoConn]
    /\ conn' = ConnAfter(p)
    /\ UNCHANGED <<parent, listens, handler, autoReap, workerPids, toKill, pending,
                   signalled, reborn, killed>>

\* Mutant: out of processes, the worker gives up.
ForkFailsExits(p) ==
    /\ st[p] = "got"
    /\ Exit(p)
    /\ conn' = ConnAfter(p)
    /\ UNCHANGED killed

\* Lmain_fork_failed: the connection is dropped.
ForkFails(p) ==
    /\ st[p] = "got"
    /\ st' = [st EXCEPT ![p] = "accept"]
    /\ client' = [client EXCEPT ![p] = NoConn]
    /\ conn' = ConnAfter(p)
    /\ UNCHANGED <<parent, listens, handler, autoReap, workerPids, toKill, pending,
                   signalled, reborn, killed>>

\* Lmain_child: close the listening socket, arm the connection deadline.
ConnStarts(p) ==
    /\ st[p] = "connstart"
    /\ st' = [st EXCEPT ![p] = "serving"]
    /\ listens' = listens \ {p}
    /\ UNCHANGED <<parent, handler, autoReap, client, workerPids, toKill, pending,
                   signalled, reborn, conn, killed>>

\* child_end: the connection is over and its process exits.
ConnEnds(p) ==
    /\ st[p] = "serving"
    /\ Exit(p)
    /\ conn' = ConnAfter(p)
    /\ UNCHANGED killed

\* Mutant: the timer is never armed.
DeadlineUnarmed(p) ==
    /\ FALSE
    /\ UNCHANGED vars

\* CONN_DEADLINE seconds have passed: SIGALRM, default disposition.
Deadline(p) ==
    /\ st[p] = "serving"
    /\ Exit(p)
    /\ conn' = ConnAfter(p)
    /\ UNCHANGED killed

-----------------------------------------------------------------------------
(* Signals.                                                                *)

\* The operator stops the server: a signal to the original process, to every
\* process of the group (Ctrl-C at a terminal), or to some one process.
SignalTo(whom, targets) ==
    /\ signalled = "no"
    /\ targets # {}
    /\ signalled' = whom
    /\ pending' = pending \cup targets
    /\ UNCHANGED <<st, parent, listens, handler, autoReap, client, workerPids,
                   toKill, reborn, conn, killed>>

Signal ==
    \/ SignalTo("main", {Main} \cap Alive)
    \/ SignalTo("group", Alive)
    \/ \E p \in Alive \ {Main} : SignalTo("one", {p})

\* Delivered to a process with the default disposition: it dies.
DiesOfSignal(p) ==
    /\ p \in pending
    /\ p \notin handler
    /\ st[p] # "shutdown"
    /\ Exit(p)
    /\ conn' = ConnAfter(p)
    /\ killed' = IF st[p] \in ConnStates THEN killed \cup {client[p]} ELSE killed

\* Mutant: the signal is passed on to every process of the group.
ShutdownBeginsAll(p) ==
    /\ p \in pending
    /\ p \in handler
    /\ st[p] # "shutdown"
    /\ st' = [st EXCEPT ![p] = "shutdown"]
    /\ listens' = listens \ {p}
    /\ toKill' = [toKill EXCEPT ![p] = SetToSeq(Alive \ {p})]
    /\ pending' = pending \ {p}
    /\ killed' = IF st[p] \in ConnStates THEN killed \cup {client[p]} ELSE killed
    /\ UNCHANGED <<parent, handler, autoReap, client, workerPids, signalled, reborn, conn>>

\* worker_shutdown, entered wherever the process was: close the listening
\* socket and start on the list of workers.
ShutdownBegins(p) ==
    /\ p \in pending
    /\ p \in handler
    /\ st[p] # "shutdown"
    /\ st' = [st EXCEPT ![p] = "shutdown"]
    /\ listens' = listens \ {p}
    /\ toKill' = [toKill EXCEPT ![p] = workerPids]
    /\ pending' = pending \ {p}
    /\ killed' = IF st[p] \in ConnStates THEN killed \cup {client[p]} ELSE killed
    /\ UNCHANGED <<parent, handler, autoReap, client, workerPids, signalled, reborn, conn>>

\* kill(worker_pids[i], SIGTERM): whoever has that pid now gets the signal.
ShutdownKills(p) ==
    /\ st[p] = "shutdown"
    /\ toKill[p] # <<>>
    /\ toKill' = [toKill EXCEPT ![p] = Tail(@)]
    /\ pending' = pending \cup ({Head(toKill[p])} \cap Alive)
    /\ UNCHANGED <<st, parent, listens, handler, autoReap, client, workerPids,
                   signalled, reborn, conn, killed>>

ShutdownExits(p) ==
    /\ st[p] = "shutdown"
    /\ toKill[p] = <<>>
    /\ Exit(p)
    /\ conn' = ConnAfter(p)
    /\ UNCHANGED killed

\* A forked worker dies on its own.
WorkerCrashes(p) ==
    /\ Crashes
    /\ p # Main
    /\ st[p] \in Accepting
    /\ Exit(p)
    /\ conn' = ConnAfter(p)
    /\ UNCHANGED killed

-----------------------------------------------------------------------------

Next ==
    \/ \E q \in Pids : SpawnWorker(q)
    \/ InstallShutdown
    \/ \E p \in Pids : WorkerStarts(p)
    \/ \E c \in Conns : Connect(c)
    \/ \E p \in Pids, c \in Conns : Accept(p, c)
    \/ \E p, q \in Pids : ForkConn(p, q)
    \/ \E p \in Pids : Handover(p) \/ ForkFails(p) \/ ConnStarts(p)
    \/ \E p \in Pids : ConnEnds(p)
    \/ \E p \in Pids : Deadline(p)
    \/ Signal
    \/ \E p \in Pids : DiesOfSignal(p) \/ ShutdownBegins(p)
    \/ \E p \in Pids : ShutdownKills(p) \/ ShutdownExits(p)
    \/ \E p \in Pids : WorkerCrashes(p)

Spec == Init /\ [][Next]_vars

\* Every process runs, signals are delivered, accept() serves a queue that is
\* not empty, and the connection timer fires.  Nothing is assumed of clients:
\* a connection need never end on its own.
Fairness ==
    /\ WF_vars(InstallShutdown)
    /\ WF_vars(\E p \in Pids, c \in Conns : Accept(p, c))
    /\ \A p \in Pids :
          /\ WF_vars(WorkerStarts(p))
          /\ WF_vars((\E q \in Pids : ForkConn(p, q)) \/ ForkFails(p))
          /\ WF_vars(Handover(p) \/ ConnStarts(p))
          /\ WF_vars(Deadline(p))
          /\ WF_vars(DiesOfSignal(p) \/ ShutdownBegins(p))
          /\ WF_vars(ShutdownKills(p) \/ ShutdownExits(p))

FairSpec == Spec /\ Fairness

-----------------------------------------------------------------------------
(* Properties.                                                             *)

\* A stop of the original process leaves the connections to finish: no
\* process that serves one dies of a signal (main.S:407: "an in-flight
\* response finishes"), whichever workers have died before, as long as no pid
\* of worker_pids has been given out again.
InFlightFinishes == signalled = "main" /\ reborn = {} => killed = {}

\* An accept loop always comes back to accept(): whatever the connections
\* already accepted do, and whether or not fork succeeds, a client in the
\* queue is accepted, as long as nobody stops the server.
QueueServed ==
    \A c \in Conns : (conn[c] = "queued") ~> (conn[c] # "queued" \/ signalled # "no")

\* No client holds a process for good: an accepted connection ends, by the
\* deadline if by nothing else (main.S:972).
ConnectionsEnd ==
    \A c \in Conns : (conn[c] = "accepted") ~> (conn[c] = "ended")

\* A stop releases the port: once worker_shutdown has begun in the original
\* process every holder of the listening socket lets go of it, and every
\* forked worker is gone.
StopReleasesPort ==
    (st[Main] = "shutdown") ~> (listens = {} /\ Alive \cap (Workers \ reborn) = {})
=============================================================================
