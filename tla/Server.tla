------------------------------- MODULE Server -------------------------------
(***************************************************************************)
(* A ThreadedServer with clients: the event loop and the echo listener of  *)
(* EchoServer run inside the listen() of ServerLifecycle, which one thread *)
(* starts and stops.  The two components share stop_server and the         *)
(* listening thread; a step of that thread that both of them describe is   *)
(* one step here.                                                          *)
(***************************************************************************)
EXTENDS EchoServer

CONSTANTS Owner, MaxStarts

ASSUME ServerAssumption == MaxStarts \in Nat

VARIABLES
    is_listening, listen_sock, epollfd, pipeFull,   \* as in ServerLifecycle
    spc,            \* the listening thread in ServerLifecycle
    polledPipe, pc, joinable, starts, requested, pipeDelivered

L == INSTANCE ServerLifecycle WITH
    lpc <- spc, Terminators <- {}, Waiters <- {}

lifecycleVars == <<is_listening, listen_sock, epollfd, pipeFull, spc, polledPipe, pc,
                   joinable, starts, requested, pipeDelivered>>
serverModelVars == <<elVars, lifecycleVars>>

ServerTypeOK == TypeOK /\ L!TypeOK

ServerInit == Init /\ L!Init

-----------------------------------------------------------------------------
(* The listening thread *)

LoopIdle == UNCHANGED <<kernelVars, serverVars, loopVars>>

\* listen() before its loop, and closeSockets() after the connections
EnterOrLeave ==
    /\ \/ L!ListenEntry \/ L!ListenSetup \/ L!ListenPublish \/ L!ListenReadyNotify
       \/ L!CloseEpoll \/ L!CloseListen \/ L!CloseClear \/ L!CloseNotify
    /\ LoopIdle

TopOfLoop ==
    /\ L!ListenLoop
    /\ IF stop_server THEN LoopStop ELSE LoopIdle

PollConnections == L!ListenPollOther /\ EpollWait

\* epoll_wait reports an event of f
PollReports(f) == PollConnections /\ \E e \in batch' : e.fd = f

\* The events of connections that are reported with the pipe's are not
\* handled: the loop ends.
PollPipe ==
    /\ L!ListenPollPipe
    /\ lpc = "poll" /\ Goto("polled")
    /\ UNCHANGED <<kernelVars, serverVars, batch, conn_sock, call>>

AfterPoll ==
    /\ L!ListenPolled
    /\ IF stop_server THEN LoopStop ELSE Polled

\* One event or callback; the process ends if the loop throws or by a signal.
HandleEvent ==
    /\ spc = "handle"
    /\ \/ AcceptInsert \/ AcceptAdd \/ SmartCloseDecrement \/ AppStep
       \/ \E e \in batch :
            \/ AcceptNone(e) \/ AcceptThrows(e) \/ Accept(e)
            \/ SmartClose(e) \/ Dispatch(e)
    /\ IF lpc' = "dead" THEN L!ListenThrows ELSE UNCHANGED lifecycleVars

Handled == L!ListenHandled /\ BatchDone

CloseConnections == L!CloseConns /\ CloseSockets

Throws ==
    /\ L!ListenThrows
    /\ IF spc = "setup"
       THEN Goto("dead") /\ UNCHANGED <<kernelVars, serverVars, batch, conn_sock, call>>
       ELSE LoopThrows

-----------------------------------------------------------------------------
(* The owner and the clients *)

\* inside start() or stop()
OwnerStep == L!CallerStep(Owner) /\ LoopIdle

OwnerWakes == L!SpuriousWakeup(Owner) /\ LoopIdle

\* A start() that ends the process ends the listening thread.
OwnerCalls ==
    /\ L!Start \/ L!StartNoThread \/ L!Stop
    /\ IF spc' = "dead" THEN Goto("dead") ELSE UNCHANGED lpc
    /\ UNCHANGED <<kernelVars, serverVars, batch, conn_sock, call>>

\* Connections are possible from ::listen until listen_sock is closed.
ClientStep ==
    /\ \E c \in Conns :
         \/ Connect(c) /\ listen_sock /\ spc \notin {"none", "entry", "setup"}
         \/ BacklogDrop(c) \/ ClientAct(c)
    /\ UNCHANGED lifecycleVars

ThreadStep ==
    \/ EnterOrLeave \/ TopOfLoop \/ PollConnections \/ PollPipe \/ AfterPoll
    \/ HandleEvent \/ Handled \/ CloseConnections

ServerNext == ThreadStep \/ Throws \/ OwnerStep \/ OwnerWakes \/ OwnerCalls \/ ClientStep

ServerSpec == ServerInit /\ [][ServerNext]_serverModelVars

\* Both threads run whenever they can, and epoll_wait, which serves its ready
\* list in turn, does not pass over the same descriptor for ever.  Nothing is
\* assumed of clients, of failures, of spurious wakeups or of new calls.
ServerFairSpec ==
    /\ ServerSpec
    /\ WF_serverModelVars(ThreadStep)
    /\ WF_serverModelVars(OwnerStep)
    /\ \A f \in Fds \cup {ListenFd} : SF_serverModelVars(PollReports(f))

-----------------------------------------------------------------------------
(* Properties *)

ended == lpc = "dead"

\* When the terminate() of a stop() has returned, no callback runs or will run
\* and no connection is open, whatever events were being handled meanwhile.
QuietAfterStop ==
    pc[Owner] \in {"unstop", "unlisten", "join"} /\ joinable => lpc = "stopped" /\ Open = {}

\* A stop() returns although clients go on connecting and sending, as long as
\* they read: no number of events keeps the loop from seeing stop_server and the
\* pipe.
StopReturnsUnderLoad == ClientsRead => (pc[Owner] = "read" ~> pc[Owner] = "idle" \/ ended)

\* If clients read, every client that has connected is accepted, unless the
\* kernel drops it or the server is stopped: one accept per event, and one event
\* per epoll_wait, do not leave one behind.
BacklogServed ==
    ClientsRead =>
        \A c \in Followed :
            phase[c] = "backlog"
                ~> phase[c] # "backlog" \/ stop_server \/ lpc = "stopped" \/ ended

-----------------------------------------------------------------------------
(* A statement of the repository that the code does not satisfy *)

\* ThreadedServer.h:50, "terminate server instance and waits for thread to
\* stop": a stop() returns whatever clients do.
StopReturnsAnyway == pc[Owner] = "read" ~> pc[Owner] = "idle" \/ ended

=============================================================================
