---------------------------- MODULE SocketWrites ----------------------------
(***************************************************************************)
(* What ThreadedServer2 does with one descriptor: write(fd) of application *)
(* threads, the write queue worker's drain, close(fd), and cleanup(fd)     *)
(* after a smart close, over the SocketData of that descriptor, which      *)
(* successive connections reuse.                                           *)
(*                                                                         *)
(* write() holds writeQueueMutex; the worker, close() and cleanup() hold   *)
(* the SocketData lock of module SocketData, whose actions are steps here. *)
(* write() works on a copy of the deque (auto, not auto &), so what it     *)
(* pushes is lost when it returns.                                         *)
(***************************************************************************)
EXTENDS SocketData, Sequences

CONSTANTS
    Writers,    \* application threads, each with one message to write
    Listener,   \* the Closer that calls cleanup(fd); the others call close(fd)
    MsgSize,    \* bytes in a message
    MaxConns    \* bound: connections that get the descriptor

ASSUME SocketWritesAssumption ==
    /\ NoThread \notin Writers
    /\ Listener \in Closers
    /\ MsgSize \in Nat \ {0} /\ MaxConns \in Nat \ {0}

VARIABLES
    conn,               \* connections so far; the last one is the current one
    fdOpen,             \* whether the descriptor is open
    is_IO, smart,       \* is_socket_IO[fd]; the listener found it false
    writeQueue,         \* SocketData::writeQueue, front first
    writeQueueMutex,    \* its owner, or NoThread
    wpc, rest,          \* each writer, and the bytes of its message to write
    aim,                \* history: the connection a writer's message is for
    work,               \* threads with work to do inside the SocketData lock
    draining,           \* the worker's local item: <<>> or <<item>>
    wire                \* bytes each connection has been sent

ioVars == <<is_IO, smart>>
queueVars == <<writeQueue, draining>>
writerVars == <<writeQueueMutex, wpc, rest, aim>>
swVars == <<conn, fdOpen, ioVars, queueVars, writerVars, work, wire>>
vars == <<sdVars, swVars>>

Byte == [msg : Writers, n : 1 .. MsgSize]
Message(w) == [n \in 1 .. MsgSize |-> [msg |-> w, n |-> n]]

TypeOK ==
    /\ SDTypeOK
    /\ conn \in 0 .. MaxConns
    /\ fdOpen \in BOOLEAN /\ is_IO \in BOOLEAN /\ smart \in BOOLEAN
    /\ writeQueue \in Seq(Seq(Byte)) /\ draining \in Seq(Seq(Byte))
    /\ writeQueueMutex \in Writers \cup {NoThread}
    /\ wpc \in [Writers -> {"idle", "entering", "writing", "queueing", "returned"}]
    /\ \A w \in Writers : writeQueueMutex = w <=> wpc[w] \in {"writing", "queueing"}
    /\ rest \in [Writers -> Seq(Byte)]
    /\ aim \in [Writers -> 0 .. MaxConns]
    /\ work \subseteq Threads
    /\ wire \in [1 .. MaxConns -> Seq(Byte)]

Init ==
    /\ SDInit
    /\ conn = 0 /\ fdOpen = FALSE /\ is_IO = FALSE /\ smart = FALSE
    /\ writeQueue = <<>> /\ draining = <<>>
    /\ writeQueueMutex = NoThread
    /\ wpc = [w \in Writers |-> "idle"]
    /\ rest = [w \in Writers |-> <<>>]
    /\ aim = [w \in Writers |-> 0]
    /\ work = {}
    /\ wire = [c \in 1 .. MaxConns |-> <<>>]

\* The listening thread, which does not run cleanup(fd) meanwhile, gets the
\* descriptor from accept4 for a new connection.
Accept ==
    /\ ~fdOpen
    /\ pc[Listener] = "idle" /\ ~smart
    /\ conn < MaxConns
    /\ conn' = conn + 1
    /\ fdOpen' = TRUE
    /\ UNCHANGED <<sdVars, ioVars, queueVars, writerVars, work, wire>>

\* ::write of data: the kernel takes the first n bytes, none at EAGAIN or when
\* the descriptor is closed.
KernelTakes(data) == IF fdOpen THEN 0 .. Len(data) ELSE {0}
Send(data, n) ==
    wire' = IF n = 0 THEN wire
            ELSE [wire EXCEPT ![conn] = @ \o SubSeq(data, 1, n)]
Left(data, n) == SubSeq(data, n + 1, Len(data))

-----------------------------------------------------------------------------
(* ThreadedServer2::write *)

WGoto(w, label) == wpc' = [wpc EXCEPT ![w] = label]

WriteCall(w) ==
    /\ wpc[w] = "idle"
    /\ fdOpen
    /\ aim' = [aim EXCEPT ![w] = conn]
    /\ rest' = [rest EXCEPT ![w] = Message(w)]
    /\ WGoto(w, "entering")
    /\ UNCHANGED <<sdVars, conn, fdOpen, ioVars, queueVars, writeQueueMutex, work, wire>>

\* Lock writeQueueMutex, copy the deque; buffers waiting go before this one.
\* IGenericServer::write begins with set_IO(fd).
WriteEnter(w) ==
    /\ wpc[w] = "entering"
    /\ writeQueueMutex = NoThread
    /\ writeQueueMutex' = w
    /\ WGoto(w, IF writeQueue = <<>> THEN "writing" ELSE "queueing")
    /\ is_IO' = (is_IO \/ writeQueue = <<>>)
    /\ UNCHANGED <<sdVars, conn, fdOpen, smart, queueVars, rest, aim, work, wire>>

\* Mutant: ::write is tried again while the send buffer is full.
WriteBytes_Spins(w) ==
    /\ wpc[w] = "writing"
    /\ \E n \in KernelTakes(rest[w]) :
         /\ Send(rest[w], n)
         /\ rest' = [rest EXCEPT ![w] = Left(@, n)]
         /\ WGoto(w, IF n = Len(rest[w]) THEN "returned" ELSE "writing")
         /\ writeQueueMutex' = IF n = Len(rest[w]) THEN NoThread ELSE w
    /\ UNCHANGED <<sdVars, conn, fdOpen, ioVars, queueVars, aim, work>>

\* One ::write of the loop in IGenericServer::write: everything is written and
\* write() returns, a part is and the loop goes on, or nothing is.
WriteBytes(w) ==
    /\ wpc[w] = "writing"
    /\ \E n \in KernelTakes(rest[w]) :
         /\ Send(rest[w], n)
         /\ rest' = [rest EXCEPT ![w] = Left(@, n)]
         /\ WGoto(w, IF n = Len(rest[w]) THEN "returned"
                     ELSE IF n = 0 THEN "queueing" ELSE "writing")
         /\ writeQueueMutex' = IF n = Len(rest[w]) THEN NoThread ELSE w
    /\ UNCHANGED <<sdVars, conn, fdOpen, ioVars, queueVars, aim, work>>

\* Mutant: the deque itself is pushed to; the worker does not hold its mutex.
PushFront_Shared(data) == writeQueue' = <<data>> \o writeQueue

\* writeQueue.push_front(wi), on the local copy
PushFront(data) == UNCHANGED writeQueue

WriteQueue(w) ==
    /\ wpc[w] = "queueing"
    /\ PushFront(rest[w])
    /\ writeQueueMutex' = NoThread
    /\ WGoto(w, "returned")
    /\ UNCHANGED <<sdVars, conn, fdOpen, ioVars, draining, rest, aim, work, wire>>

WriterStep(w) == WriteEnter(w) \/ WriteBytes(w) \/ WriteQueue(w)

-----------------------------------------------------------------------------
(* The SocketData lock: its callers, and its own steps *)

\* The worker has taken fd from readyToWriteSet.
WorkerCall(t) ==
    /\ t \in Workers
    /\ LockCall(t)
    /\ work' = work \cup {t}
    /\ UNCHANGED <<conn, fdOpen, ioVars, queueVars, writerVars, wire>>

\* close(fd), by the callback for CLOSE_SOCKET
CloseCall(t) ==
    /\ t \in Closers \ {Listener}
    /\ fdOpen
    /\ LockCall(t)
    /\ work' = work \cup {t}
    /\ UNCHANGED <<conn, fdOpen, ioVars, queueVars, writerVars, wire>>

\* A hang-up: the listening thread finds that there was no I/O on fd.
SmartCheck ==
    /\ fdOpen
    /\ pc[Listener] = "idle"
    /\ ~is_IO /\ ~smart
    /\ smart' = TRUE
    /\ UNCHANGED <<sdVars, conn, fdOpen, is_IO, queueVars, writerVars, work, wire>>

\* Mutant: cleanup(fd) does not call sd.lock().
CleanupCall_NoLock ==
    /\ smart
    /\ pc[Listener] = "idle"
    /\ Goto(Listener, "inside")
    /\ fdOpen' = FALSE
    /\ smart' = FALSE
    /\ UNCHANGED <<uses, usesMutex, reg, calls, cleanups, conn, is_IO, queueVars,
                   writerVars, work, wire>>

\* IGenericServer::close by the listening thread, then cleanup(fd)
CleanupCall ==
    /\ smart
    /\ LockCall(Listener)
    /\ fdOpen' = FALSE
    /\ smart' = FALSE
    /\ UNCHANGED <<conn, is_IO, queueVars, writerVars, work, wire>>

LockStep(t) ==
    /\ LockWait(t) \/ LockLoad(t) \/ LockStore(t) \/ ReleaseStore(t) \/ ReleaseNotify(t)
    /\ UNCHANGED swVars

Spurious(t) == SpuriousWakeup(t) /\ UNCHANGED swVars

\* release(), once the work inside the lock is done
Release(t) ==
    /\ t \notin work
    /\ ReleaseLoad(t)
    /\ UNCHANGED swVars

\* _cleanup(): uses = 0 and writeQueue.clear()
CleanupQueue(t) ==
    /\ Cleanup(t)
    /\ writeQueue' = <<>>
    /\ UNCHANGED <<conn, fdOpen, ioVars, draining, writerVars, work, wire>>

\* server.close(fd), while sd is locked
CloseFd(t) ==
    /\ t \in Closers \cap work
    /\ pc[t] = "cleaned"
    /\ fdOpen' = FALSE
    /\ work' = work \ {t}
    /\ UNCHANGED <<sdVars, conn, ioVars, queueVars, writerVars, wire>>

-----------------------------------------------------------------------------
(* The drain of write_queue_worker *)

DrainPop(t) ==
    /\ draining' = <<writeQueue[Len(writeQueue)]>>
    /\ writeQueue' = SubSeq(writeQueue, 1, Len(writeQueue) - 1)
    /\ UNCHANGED <<is_IO, work, wire>>

\* write_holding_lock: what is not written goes to the back, and the drain ends
DrainWrite(t) ==
    \E n \in KernelTakes(draining[1]) :
        /\ Send(draining[1], n)
        /\ is_IO' = TRUE
        /\ draining' = <<>>
        /\ writeQueue' = IF n = Len(draining[1]) THEN writeQueue
                         ELSE Append(writeQueue, Left(draining[1], n))
        /\ work' = IF n = Len(draining[1]) THEN work ELSE work \ {t}

WorkerDrain(t) ==
    /\ t \in Workers \cap work
    /\ pc[t] = "inside"
    /\ IF draining # <<>> THEN DrainWrite(t)
       ELSE IF writeQueue # <<>> THEN DrainPop(t)
       ELSE work' = work \ {t} /\ UNCHANGED <<is_IO, queueVars, wire>>
    /\ UNCHANGED <<sdVars, conn, fdOpen, smart, writerVars>>

HolderStep(t) ==
    LockStep(t) \/ Release(t) \/ CleanupQueue(t) \/ CloseFd(t) \/ WorkerDrain(t)

-----------------------------------------------------------------------------

Next ==
    \/ Accept \/ SmartCheck \/ CleanupCall
    \/ \E w \in Writers : WriteCall(w) \/ WriterStep(w)
    \/ \E t \in Threads : WorkerCall(t) \/ CloseCall(t) \/ HolderStep(t) \/ Spurious(t)

Spec == Init /\ [][Next]_vars

\* Threads that can run are run; the kernel may refuse bytes for ever.
FairSpec ==
    /\ Spec
    /\ \A w \in Writers : WF_vars(WriterStep(w))
    /\ \A t \in Threads : WF_vars(HolderStep(t))

-----------------------------------------------------------------------------
(* Properties *)

\* The use ThreadedServer2 makes of lock(), cleanup() and release() is the one
\* module SocketData describes: its results apply to every descriptor.
UsesSocketDataLock == SDSpec

\* Two messages written to one connection at the same time are not mixed: on
\* its wire the bytes of a message for it follow each other, in order, from the
\* first.  (A message for an earlier connection of the descriptor may end there.)
WritesContiguous ==
    \A c \in 1 .. MaxConns : \A i \in 1 .. Len(wire[c]) :
        wire[c][i].n > 1 /\ aim[wire[c][i].msg] = c =>
            i > 1 /\ wire[c][i - 1] = [wire[c][i] EXCEPT !.n = @ - 1]

\* write() and close() return: neither waits for the other's lock for ever.
CallsReturn ==
    /\ \A w \in Writers : wpc[w] = "entering" ~> wpc[w] = "returned"
    /\ \A t \in Threads : pc[t] # "idle" ~> pc[t] = "idle"

-----------------------------------------------------------------------------
(* Statements of the repository that the code does not satisfy *)

\* ThreadedServer2.cpp:216-222, "if write is partially successful, add remaining
\* data to write queue": after write() the bytes are on the wire or queued, as
\* long as the connection they were for is open.
AcceptedIsKept ==
    \A w \in Writers :
        wpc[w] = "returned" /\ rest[w] # <<>> /\ fdOpen /\ aim[w] = conn =>
            \E q \in 1 .. Len(writeQueue \o draining) : (writeQueue \o draining)[q] = rest[w]

\* ThreadedServer2.cpp:320, "we need to be sure that no other thread is working
\* with fd while we remove and destroy the internal data associated to fd": no
\* write() is between its first and its last ::write when close() closes fd.
CloseExcludesWrite ==
    [][(\E t \in Threads : CloseFd(t)) => \A w \in Writers : wpc[w] # "writing"]_vars

=============================================================================
