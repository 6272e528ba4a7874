---------------------------- MODULE WriteWorker ----------------------------
(***************************************************************************)
(* The threads of ThreadedServer2: start() and stop(), the listening       *)
(* thread that puts descriptors into readyToWriteSet, and the write queue  *)
(* worker that takes them out.  What the worker does with a descriptor is  *)
(* module SocketWrites; there it is shown to end.                          *)
(***************************************************************************)
EXTENDS Naturals, FiniteSets, FiniteSetsExt

CONSTANTS
    Fds,        \* descriptors of connections
    NoFd,       \* the worker has no descriptor
    MaxEvents   \* bound: events that make a descriptor ready to write

ASSUME WriteWorkerAssumption ==
    /\ IsFiniteSet(Fds) /\ Fds \subseteq Nat /\ NoFd \notin Fds
    /\ MaxEvents \in Nat

VARIABLES
    readyToWriteSet, stopServer, running,
    tpc,        \* the thread that calls start() and stop()
    lpc,        \* the listening thread
    wpc, fd,    \* the worker, the descriptor it took (NoFd if none)
    events,     \* events so far
    terminated  \* server.terminate() has been called

vars == <<readyToWriteSet, stopServer, running, tpc, lpc, wpc, fd, events, terminated>>

TypeOK ==
    /\ readyToWriteSet \subseteq Fds
    /\ stopServer \in BOOLEAN /\ running \in BOOLEAN /\ terminated \in BOOLEAN
    /\ tpc \in {"idle", "workerStarted", "started", "running", "stopping", "terminate",
                "terminating", "joinWorker", "stopped", "threw"}
    /\ lpc \in {"none", "setup", "loop", "notify", "callback", "end"}
    /\ wpc \in {"none", "top", "waiting", "woken", "drain", "end"}
    /\ fd \in Fds \cup {NoFd}
    /\ events \in 0 .. MaxEvents

Init ==
    /\ readyToWriteSet = {} /\ stopServer = FALSE /\ running = FALSE
    /\ tpc = "idle" /\ lpc = "none" /\ wpc = "none" /\ fd = NoFd
    /\ events = 0 /\ terminated = FALSE

\* readyToWriteCv.notify_one(): the worker is the only thread that waits
NotifyWorker == wpc' = IF wpc = "waiting" THEN "woken" ELSE wpc

TGoto(label) == tpc' = label
LGoto(label) == lpc' = label

-----------------------------------------------------------------------------
(* start() *)

StartWorker ==
    /\ tpc = "idle"
    /\ ~running
    /\ readyToWriteSet' = {}
    /\ wpc' = "top"
    /\ TGoto("workerStarted")
    /\ UNCHANGED <<stopServer, running, lpc, fd, events, terminated>>

\* The catch of start(): a thread that cannot be created is only logged, and
\* start() goes on.
StartWorkerFails ==
    /\ tpc = "idle"
    /\ ~running
    /\ readyToWriteSet' = {}
    /\ TGoto("workerStarted")
    /\ UNCHANGED <<stopServer, running, lpc, wpc, fd, events, terminated>>

StartListener ==
    /\ tpc = "workerStarted"
    /\ LGoto("setup")
    /\ TGoto("started")
    /\ UNCHANGED <<readyToWriteSet, stopServer, running, wpc, fd, events, terminated>>

\* No thread will ever listen, and start() waits for one.
StartListenerFails ==
    /\ tpc = "workerStarted"
    /\ TGoto("started")
    /\ UNCHANGED <<readyToWriteSet, stopServer, running, lpc, wpc, fd, events, terminated>>

\* server.wait_for_server_ready() returns
StartReady ==
    /\ tpc = "started"
    /\ lpc \notin {"none", "setup"}
    /\ running' = TRUE
    /\ TGoto("running")
    /\ UNCHANGED <<readyToWriteSet, stopServer, lpc, wpc, fd, events, terminated>>

-----------------------------------------------------------------------------
(* stop() *)

\* stopServer = true, under readyToWriteMutex
Stop ==
    /\ tpc = "running"
    /\ stopServer' = TRUE
    /\ TGoto("stopping")
    /\ UNCHANGED <<readyToWriteSet, running, lpc, wpc, fd, events, terminated>>

StopNotify ==
    /\ tpc = "stopping"
    /\ NotifyWorker
    /\ TGoto("terminate")
    /\ UNCHANGED <<readyToWriteSet, stopServer, running, lpc, fd, events, terminated>>

\* server.terminate(), which returns when listen() has closed its sockets
StopTerminate ==
    /\ tpc = "terminate"
    /\ terminated' = TRUE
    /\ TGoto("terminating")
    /\ UNCHANGED <<readyToWriteSet, stopServer, running, lpc, wpc, fd, events>>

StopNotifyAgain ==
    /\ tpc = "terminating"
    /\ lpc = "end"
    /\ NotifyWorker
    /\ TGoto("joinWorker")
    /\ UNCHANGED <<readyToWriteSet, stopServer, running, lpc, fd, events, terminated>>

\* both threads have been joined
StopJoined ==
    /\ tpc = "joinWorker"
    /\ wpc = "end"
    /\ running' = FALSE
    /\ TGoto("stopped")
    /\ UNCHANGED <<readyToWriteSet, stopServer, lpc, wpc, fd, events, terminated>>

\* join() of a thread that was never created throws: running stays true.
StopJoinThrows ==
    /\ tpc = "joinWorker"
    /\ wpc = "none"
    /\ TGoto("threw")
    /\ UNCHANGED <<readyToWriteSet, stopServer, running, lpc, wpc, fd, events, terminated>>

-----------------------------------------------------------------------------
(* listen_worker and internal_callback *)

ListenReady ==
    /\ lpc = "setup"
    /\ LGoto("loop")
    /\ UNCHANGED <<readyToWriteSet, stopServer, running, tpc, wpc, fd, events, terminated>>

\* AVAILABLE_FOR_WRITE or AVAILABLE_FOR_READ_AND_WRITE
InsertReady(f) ==
    /\ lpc = "loop"
    /\ events < MaxEvents
    /\ events' = events + 1
    /\ readyToWriteSet' = readyToWriteSet \cup {f}
    /\ LGoto("notify")
    /\ UNCHANGED <<stopServer, running, tpc, wpc, fd, terminated>>

\* Mutant: the worker is not notified.
NotifyReady_Silent(label) ==
    /\ lpc = "notify"
    /\ LGoto(label)
    /\ UNCHANGED <<readyToWriteSet, stopServer, running, tpc, wpc, fd, events, terminated>>

\* notify_one; an event for reading as well goes on to callback_function
NotifyReady(label) ==
    /\ lpc = "notify"
    /\ NotifyWorker
    /\ LGoto(label)
    /\ UNCHANGED <<readyToWriteSet, stopServer, running, tpc, fd, events, terminated>>

CallbackReturns ==
    /\ lpc = "callback"
    /\ LGoto("loop")
    /\ UNCHANGED <<readyToWriteSet, stopServer, running, tpc, wpc, fd, events, terminated>>

\* listen() returns
ListenEnd ==
    /\ lpc = "loop"
    /\ terminated
    /\ LGoto("end")
    /\ UNCHANGED <<readyToWriteSet, stopServer, running, tpc, wpc, fd, events, terminated>>

-----------------------------------------------------------------------------
(* write_queue_worker *)

\* Mutant: the set is emptied when one descriptor is taken.
WorkerTake_Clears ==
    /\ wpc \in {"top", "woken"}
    /\ ~stopServer
    /\ readyToWriteSet # {}
    /\ fd' = Min(readyToWriteSet)
    /\ readyToWriteSet' = {}
    /\ wpc' = "drain"
    /\ UNCHANGED <<stopServer, running, tpc, lpc, events, terminated>>

\* Under readyToWriteMutex: stop, take the lowest descriptor, or wait.
WorkerTake ==
    /\ wpc \in {"top", "woken"}
    /\ ~stopServer
    /\ readyToWriteSet # {}
    /\ fd' = Min(readyToWriteSet)
    /\ readyToWriteSet' = readyToWriteSet \ {Min(readyToWriteSet)}
    /\ wpc' = "drain"
    /\ UNCHANGED <<stopServer, running, tpc, lpc, events, terminated>>

WorkerWait ==
    /\ wpc \in {"top", "woken"}
    /\ ~stopServer
    /\ readyToWriteSet = {}
    /\ wpc' = "waiting"
    /\ UNCHANGED <<readyToWriteSet, stopServer, running, tpc, lpc, fd, events, terminated>>

\* Mutant: stopServer is not tested after the wait.
WorkerEnd_TopOnly ==
    /\ wpc = "top"
    /\ stopServer
    /\ wpc' = "end"
    /\ UNCHANGED <<readyToWriteSet, stopServer, running, tpc, lpc, fd, events, terminated>>

WorkerEnd ==
    /\ wpc \in {"top", "woken"}
    /\ stopServer
    /\ wpc' = "end"
    /\ UNCHANGED <<readyToWriteSet, stopServer, running, tpc, lpc, fd, events, terminated>>

SpuriousWakeup ==
    /\ wpc = "waiting"
    /\ wpc' = "woken"
    /\ UNCHANGED <<readyToWriteSet, stopServer, running, tpc, lpc, fd, events, terminated>>

\* sd.lock(), the drain of module SocketWrites, sd.release()
WorkerDrained ==
    /\ wpc = "drain"
    /\ fd' = NoFd
    /\ wpc' = "top"
    /\ UNCHANGED <<readyToWriteSet, stopServer, running, tpc, lpc, events, terminated>>

-----------------------------------------------------------------------------

OwnerStep ==
    \/ StartListener \/ StartReady
    \/ StopNotify \/ StopTerminate \/ StopNotifyAgain \/ StopJoined \/ StopJoinThrows
ListenerStep ==
    \/ ListenReady \/ CallbackReturns \/ ListenEnd
    \/ NotifyReady("loop") \/ NotifyReady("callback")
WorkerStep == WorkerTake \/ WorkerWait \/ WorkerEnd \/ WorkerDrained

Next ==
    \/ StartWorker \/ StartWorkerFails \/ StartListenerFails \/ Stop \/ OwnerStep
    \/ ListenerStep \/ \E f \in Fds : InsertReady(f)
    \/ WorkerStep \/ SpuriousWakeup

Spec == Init /\ [][Next]_vars

\* The three threads are scheduled; the callback returns.
FairSpec == Spec /\ WF_vars(OwnerStep) /\ WF_vars(ListenerStep) /\ WF_vars(WorkerStep)

-----------------------------------------------------------------------------
(* Properties *)

\* The worker never sleeps on a ready descriptor or through stop(), except in
\* the instant before the notify_one() that follows: setting stopServer under
\* readyToWriteMutex (ThreadedServer2.cpp:186-191) leaves no lost wakeup.
NoLostWakeup ==
    wpc = "waiting" =>
        /\ readyToWriteSet # {} => lpc = "notify"
        /\ stopServer => tpc = "stopping"

\* stop() returns with both threads ended; only when start() could not create
\* the worker does it end otherwise, by the exception of join().
StopReturns ==
    tpc = "stopping" ~>
        \/ tpc = "stopped" /\ lpc = "end" /\ wpc = "end"
        \/ tpc = "threw" /\ lpc = "end" /\ wpc = "none"

\* A descriptor that became ready is taken by the worker if there is one, or
\* the server stops.  As the lowest descriptor goes first this rests on the
\* bound MaxEvents: lower descriptors become ready finitely often.
ReadyServed ==
    \A f \in Fds : f \in readyToWriteSet /\ wpc # "none" ~> fd = f \/ stopServer

-----------------------------------------------------------------------------
(* A statement of the repository that the code does not satisfy *)

\* "return when server is ready i.e. listening for incoming
\* connections" (ThreadedServer2.cpp:171): start() returns.  When its listening
\* thread could not be created it waits for ever.
StartReturns == tpc = "workerStarted" ~> tpc = "running"

=============================================================================
