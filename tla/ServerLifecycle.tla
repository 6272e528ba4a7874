-------------------------- MODULE ServerLifecycle --------------------------
(***************************************************************************)
(* Starting and stopping a server: IGenericServer::listen, terminate,      *)
(* wait_for_server_ready and closeSockets, and the ThreadedServer start    *)
(* and stop built on them.                                                 *)
(*                                                                         *)
(* One listening thread runs listen().  Owner alternates start() and       *)
(* stop(); Terminators call terminate() and Waiters call                   *)
(* wait_for_server_ready() on the same server, once each and at any time.  *)
(* All of them meet on is_listening and on the one condition variable cv,  *)
(* which is always signalled with notify_one.                              *)
(*                                                                         *)
(* A read or write of is_listening is one step, so mtx is not a variable:  *)
(* every section it guards is one step, and the unguarded write at the end *)
(* of terminate() is a step of its own.  Connections are in EventLoop.     *)
(***************************************************************************)
EXTENDS Naturals, FiniteSets

CONSTANTS
    Owner,          \* the thread that calls start() and stop()
    Terminators,    \* threads that call terminate() once
    Waiters,        \* threads that call wait_for_server_ready() once
    MaxStarts       \* bound: start() calls of Owner

Callers == {Owner} \cup Terminators \cup Waiters

ASSUME LifecycleAssumption ==
    /\ Owner \notin Terminators \cup Waiters
    /\ Terminators \cap Waiters = {}
    /\ MaxStarts \in Nat

VARIABLES
    stop_server,    \* IGenericServer::stop_server
    is_listening,   \* IGenericServer::is_listening
    listen_sock,    \* TRUE: open
    epollfd,        \* TRUE: open
    pipeFull,       \* commandPipe holds a byte; nothing ever reads it
    lpc,            \* the listening thread
    polledPipe,     \* the last epoll_wait reported the read end of the pipe
    pc,             \* the callers
    joinable,       \* ThreadedServer::workerThread.joinable()
    starts,         \* start() calls made
    requested,      \* history: some terminate() has set stop_server
    pipeDelivered   \* history: callback_function was given the pipe's fd

serverVars == <<stop_server, is_listening, listen_sock, epollfd, pipeFull>>
listenerVars == <<lpc, polledPipe, pipeDelivered>>
callerVars == <<pc, joinable, starts, requested>>
vars == <<serverVars, listenerVars, callerVars>>

\* listen() before is_listening is set, in its loop, and in closeSockets().
Starting == {"entry", "setup", "publish"}
Serving  == {"readyNotify", "loop", "poll", "polled", "handle"}
Closing  == {"closeConns", "closeEpoll", "closeListen", "clear", "doneNotify"}
CallerLabels == {"idle", "ready", "readyWait", "read", "stop", "wake", "drain",
                 "drainWait", "unstop", "unlisten", "join", "returned", "dead"}

TypeOK ==
    /\ stop_server \in BOOLEAN /\ is_listening \in BOOLEAN
    /\ listen_sock \in BOOLEAN /\ epollfd \in BOOLEAN /\ pipeFull \in BOOLEAN
    /\ lpc \in {"none", "done", "dead"} \cup Starting \cup Serving \cup Closing
    /\ polledPipe \in BOOLEAN
    /\ pc \in [Callers -> CallerLabels]
    /\ joinable \in BOOLEAN
    /\ starts \in 0 .. MaxStarts
    /\ requested \in BOOLEAN /\ pipeDelivered \in BOOLEAN

Init ==
    /\ stop_server = FALSE /\ is_listening = FALSE
    /\ listen_sock = TRUE       \* setup() ran in the server's constructor
    /\ epollfd = FALSE /\ pipeFull = FALSE
    /\ lpc = "none"
    /\ polledPipe = FALSE
    /\ pc = [c \in Callers |-> "idle"]
    /\ joinable = FALSE
    /\ starts = 0
    /\ requested = FALSE /\ pipeDelivered = FALSE

LGoto(label) == lpc' = label
Goto(c, label) == pc' = [pc EXCEPT ![c] = label]

\* std::terminate() ends the process, every thread included.
Abort ==
    /\ lpc' = "dead"
    /\ pc' = [c \in Callers |-> "dead"]

aborted == lpc = "dead"

\* Threads blocked in cv.wait(), for either of its two predicates.
cv == {c \in Callers : pc[c] \in {"readyWait", "drainWait"}}

\* A woken thread tests its loop condition again.
Woken(c) == [pc EXCEPT ![c] = IF @ = "readyWait" THEN "ready" ELSE "drain"]

\* cv.notify_one()
NotifyOne ==
    \/ cv = {} /\ UNCHANGED pc
    \/ \E c \in cv : pc' = Woken(c)

-----------------------------------------------------------------------------
(* The listening thread: IGenericServer::listen *)

\* A closed listening socket makes listen() throw in a thread nobody catches
\* in, which ends the process.
ListenEntry ==
    /\ lpc = "entry"
    /\ IF listen_sock THEN LGoto("setup") /\ UNCHANGED pc ELSE Abort
    /\ UNCHANGED <<serverVars, polledPipe, pipeDelivered, joinable, starts, requested>>

\* ::listen, epoll_create1 and the two epoll_ctl calls
ListenSetup ==
    /\ lpc = "setup"
    /\ epollfd' = TRUE
    /\ LGoto("publish")
    /\ UNCHANGED <<stop_server, is_listening, listen_sock, pipeFull, polledPipe,
                   pipeDelivered, callerVars>>

ListenPublish ==
    /\ lpc = "publish"
    /\ is_listening' = TRUE
    /\ LGoto("readyNotify")
    /\ UNCHANGED <<stop_server, listen_sock, epollfd, pipeFull, polledPipe,
                   pipeDelivered, callerVars>>

\* Mutant: listen() does not notify when it is ready.
ListenReadyNotify_Silent ==
    /\ lpc = "readyNotify"
    /\ LGoto("loop")
    /\ UNCHANGED <<serverVars, polledPipe, pipeDelivered, callerVars>>

ListenReadyNotify ==
    /\ lpc = "readyNotify"
    /\ NotifyOne
    /\ LGoto("loop")
    /\ UNCHANGED <<serverVars, polledPipe, pipeDelivered, joinable, starts,
                   requested>>

\* Mutant: the loop also ends when is_listening is false.
ListenLoop_Listening ==
    /\ lpc = "loop"
    /\ LGoto(IF stop_server \/ ~is_listening THEN "closeConns" ELSE "poll")
    /\ UNCHANGED <<serverVars, polledPipe, pipeDelivered, callerVars>>

\* while (!stop_server.load())
ListenLoop ==
    /\ lpc = "loop"
    /\ LGoto(IF stop_server THEN "closeConns" ELSE "poll")
    /\ UNCHANGED <<serverVars, polledPipe, pipeDelivered, callerVars>>

\* epoll_wait returns: with the pipe, which is level-triggered, while it holds
\* a byte; or without it, with EINTR or with up to MAX_EVENTS other events.
ListenPollPipe ==
    /\ lpc = "poll"
    /\ pipeFull
    /\ polledPipe' = TRUE
    /\ LGoto("polled")
    /\ UNCHANGED <<serverVars, pipeDelivered, callerVars>>

ListenPollOther ==
    /\ lpc = "poll"
    /\ polledPipe' = FALSE
    /\ LGoto("polled")
    /\ UNCHANGED <<serverVars, pipeDelivered, callerVars>>

\* Mutant: stop_server is tested at the top of the loop only.
ListenPolled_NoTest ==
    /\ lpc = "polled"
    /\ LGoto("handle")
    /\ pipeDelivered' = (pipeDelivered \/ polledPipe)
    /\ UNCHANGED <<serverVars, polledPipe, callerVars>>

\* stop_server is tested before any event is handled; the pipe's event, if it
\* is handled, goes to callback_function like that of a connection.
ListenPolled ==
    /\ lpc = "polled"
    /\ IF stop_server
       THEN LGoto("closeConns") /\ UNCHANGED pipeDelivered
       ELSE LGoto("handle") /\ pipeDelivered' = (pipeDelivered \/ polledPipe)
    /\ UNCHANGED <<serverVars, polledPipe, callerVars>>

\* The events have been handled (see EventLoop).
ListenHandled ==
    /\ lpc = "handle"
    /\ LGoto("loop")
    /\ UNCHANGED <<serverVars, polledPipe, pipeDelivered, callerVars>>

\* A failing system call throws out of the listening thread, or the callback
\* ends the process.
ListenThrows ==
    /\ lpc \in {"setup", "poll", "handle"}
    /\ Abort
    /\ UNCHANGED <<serverVars, polledPipe, pipeDelivered, joinable, starts, requested>>

-----------------------------------------------------------------------------
(* closeSockets(), run by RunOnReturn *)

CloseConns ==
    /\ lpc = "closeConns"
    /\ LGoto("closeEpoll")
    /\ UNCHANGED <<serverVars, polledPipe, pipeDelivered, callerVars>>

CloseEpoll ==
    /\ lpc = "closeEpoll"
    /\ epollfd' = FALSE
    /\ LGoto("closeListen")
    /\ UNCHANGED <<stop_server, is_listening, listen_sock, pipeFull, polledPipe,
                   pipeDelivered, callerVars>>

\* Mutant: closeSockets() leaves the listening socket open.
CloseListen_Skipped ==
    /\ lpc = "closeListen"
    /\ LGoto("clear")
    /\ UNCHANGED <<serverVars, polledPipe, pipeDelivered, callerVars>>

CloseListen ==
    /\ lpc = "closeListen"
    /\ listen_sock' = FALSE
    /\ LGoto("clear")
    /\ UNCHANGED <<stop_server, is_listening, epollfd, pipeFull, polledPipe,
                   pipeDelivered, callerVars>>

CloseClear ==
    /\ lpc = "clear"
    /\ is_listening' = FALSE
    /\ LGoto("doneNotify")
    /\ UNCHANGED <<stop_server, listen_sock, epollfd, pipeFull, polledPipe,
                   pipeDelivered, callerVars>>

CloseNotify ==
    /\ lpc = "doneNotify"
    /\ NotifyOne
    /\ LGoto("done")
    /\ UNCHANGED <<serverVars, polledPipe, pipeDelivered, joinable, starts,
                   requested>>

-----------------------------------------------------------------------------
(* wait_for_server_ready() *)

WaitCall(c) ==
    /\ c \in Waiters
    /\ pc[c] = "idle"
    /\ Goto(c, "ready")
    /\ UNCHANGED <<serverVars, listenerVars, joinable, starts, requested>>

\* Mutant: wait_for_server_ready() does not test is_listening.
WaitReady_NoTest(c) ==
    /\ pc[c] = "ready"
    /\ Goto(c, IF c = Owner THEN "idle" ELSE "returned")
    /\ UNCHANGED <<serverVars, listenerVars, joinable, starts, requested>>

\* while (!is_listening) cv.wait(lk)
WaitReady(c) ==
    /\ pc[c] = "ready"
    /\ Goto(c, IF ~is_listening THEN "readyWait"
               ELSE IF c = Owner THEN "idle" ELSE "returned")
    /\ UNCHANGED <<serverVars, listenerVars, joinable, starts, requested>>

-----------------------------------------------------------------------------
(* terminate() *)

TerminateCall(c) ==
    /\ c \in Terminators
    /\ pc[c] = "idle"
    /\ Goto(c, "read")
    /\ UNCHANGED <<serverVars, listenerVars, joinable, starts, requested>>

\* _is_listening = is_listening; if it is false: goto end
TerminateRead(c) ==
    /\ pc[c] = "read"
    /\ Goto(c, IF is_listening THEN "stop" ELSE "unstop")
    /\ UNCHANGED <<serverVars, listenerVars, joinable, starts, requested>>

TerminateStop(c) ==
    /\ pc[c] = "stop"
    /\ stop_server' = TRUE
    /\ requested' = TRUE
    /\ Goto(c, "wake")
    /\ UNCHANGED <<is_listening, listen_sock, epollfd, pipeFull, listenerVars,
                   joinable, starts>>

\* Mutant: terminate() does not write to the pipe.
TerminateWake_Silent(c) ==
    /\ pc[c] = "wake"
    /\ Goto(c, "drain")
    /\ UNCHANGED <<serverVars, listenerVars, joinable, starts, requested>>

\* commandPipe.write('.')
TerminateWake(c) ==
    /\ pc[c] = "wake"
    /\ pipeFull' = TRUE
    /\ Goto(c, "drain")
    /\ UNCHANGED <<stop_server, is_listening, listen_sock, epollfd, listenerVars,
                   joinable, starts, requested>>

\* Mutant: terminate() does not wait for the listening thread.
TerminateDrain_NoWait(c) ==
    /\ pc[c] = "drain"
    /\ Goto(c, "unstop")
    /\ UNCHANGED <<serverVars, listenerVars, joinable, starts, requested>>

\* while (is_listening) cv.wait(lk)
TerminateDrain(c) ==
    /\ pc[c] = "drain"
    /\ Goto(c, IF is_listening THEN "drainWait" ELSE "unstop")
    /\ UNCHANGED <<serverVars, listenerVars, joinable, starts, requested>>

\* end: stop_server.store(false); is_listening = false, without mtx
TerminateUnstop(c) ==
    /\ pc[c] = "unstop"
    /\ stop_server' = FALSE
    /\ Goto(c, "unlisten")
    /\ UNCHANGED <<is_listening, listen_sock, epollfd, pipeFull, listenerVars,
                   joinable, starts, requested>>

TerminateReturn(c) ==
    /\ pc[c] = "unlisten"
    /\ is_listening' = FALSE
    /\ Goto(c, IF c = Owner THEN "join" ELSE "returned")
    /\ UNCHANGED <<stop_server, listen_sock, epollfd, pipeFull, listenerVars,
                   joinable, starts, requested>>

-----------------------------------------------------------------------------
(* ThreadedServer::start and stop *)

\* start() tests the is_listening of the decorator itself, not that of the
\* server it wraps; nothing ever sets it.
decorator_is_listening == FALSE

\* workerThread = std::thread{listen_worker}: assigning to a joinable
\* std::thread calls std::terminate().
Start ==
    /\ pc[Owner] = "idle"
    /\ starts < MaxStarts
    /\ ~decorator_is_listening
    /\ starts' = starts + 1
    /\ IF joinable
       THEN Abort /\ UNCHANGED joinable
       ELSE joinable' = TRUE /\ LGoto("entry") /\ Goto(Owner, "ready")
    /\ UNCHANGED <<serverVars, polledPipe, pipeDelivered, requested>>

\* The thread cannot be created: start() logs the exception it catches, leaves
\* workerThread as it was, and waits all the same.
StartNoThread ==
    /\ pc[Owner] = "idle"
    /\ starts < MaxStarts
    /\ ~decorator_is_listening
    /\ starts' = starts + 1
    /\ Goto(Owner, "ready")
    /\ UNCHANGED <<serverVars, listenerVars, joinable, requested>>

Stop ==
    /\ pc[Owner] = "idle"
    /\ Goto(Owner, "read")
    /\ UNCHANGED <<serverVars, listenerVars, joinable, starts, requested>>

\* workerThread.join(): throws std::system_error to the caller of stop() if
\* there is no thread to join.
StopJoin ==
    /\ pc[Owner] = "join"
    /\ joinable => lpc = "done"
    /\ joinable' = FALSE
    /\ Goto(Owner, "idle")
    /\ UNCHANGED <<serverVars, listenerVars, starts, requested>>

-----------------------------------------------------------------------------

SpuriousWakeup(c) ==
    /\ c \in cv
    /\ pc' = Woken(c)
    /\ UNCHANGED <<serverVars, listenerVars, joinable, starts, requested>>

\* What the listening thread does without an event from outside.
ListenerStep ==
    \/ ListenEntry \/ ListenSetup \/ ListenPublish \/ ListenReadyNotify
    \/ ListenLoop
    \/ ListenPollPipe \/ ListenPolled \/ ListenHandled
    \/ CloseConns \/ CloseEpoll \/ CloseListen \/ CloseClear \/ CloseNotify

\* What a caller does once it has made its call.
CallerStep(c) ==
    \/ WaitReady(c)
    \/ TerminateRead(c) \/ TerminateStop(c) \/ TerminateWake(c)
    \/ TerminateDrain(c) \/ TerminateUnstop(c) \/ TerminateReturn(c)
    \/ c = Owner /\ StopJoin

Next ==
    \/ ListenerStep \/ ListenPollOther \/ ListenThrows
    \/ Start \/ StartNoThread \/ Stop
    \/ \E c \in Callers :
         CallerStep(c) \/ WaitCall(c) \/ TerminateCall(c) \/ SpuriousWakeup(c)

Spec == Init /\ [][Next]_vars

\* Every thread that can run is run.  Nothing is assumed of the arrival of
\* events, of failures, of spurious wakeups or of new calls.
Fairness ==
    /\ WF_vars(ListenerStep)
    /\ \A c \in Callers : WF_vars(CallerStep(c))

FairSpec == Spec /\ Fairness

-----------------------------------------------------------------------------
(* Properties *)

\* No thread but Owner has called terminate() or wait_for_server_ready().
Alone == \A c \in Terminators \cup Waiters : pc[c] = "idle"

Stopped == lpc \in {"none", "doneNotify", "done"} /\ ~epollfd

\* IGenericServer.h:140, "when the method returns, the server has terminated
\* operations": the terminate() of a stop() returns with the listening thread
\* past closeSockets() and its descriptors closed, if nobody else interferes.
TerminateMeansTerminated == [][Alone /\ TerminateReturn(Owner) => Stopped]_vars

\* When start() has returned, the server listens on open descriptors until
\* somebody calls stop() or terminate().
StartMeansListening ==
    Alone /\ pc[Owner] = "idle" /\ joinable
        => is_listening /\ epollfd /\ listen_sock /\ lpc \in Serving

\* IGenericServer.h:129, listen() "returns only when another thread calls
\* terminate method": closeSockets() runs only after a terminate() that found
\* the server listening, whatever other callers do.
ReturnsOnlyOnTerminate == lpc \in Closing \cup {"done"} => requested

\* callback_function is never given the command pipe's descriptor: a stop
\* request is seen by the flag before the pipe's event is handled.  (A second
\* terminate() may clear the flag in between.)
PipeNotDelivered == Alone => ~pipeDelivered

\* A listen() that has returned has left no descriptor open and the server not
\* listening, whatever the callers did to the shared flags meanwhile.
DoneMeansClosed ==
    lpc \in {"doneNotify", "done"} => ~listen_sock /\ ~epollfd /\ ~is_listening

\* A stop() gets through terminate() and join(), if nobody else interferes.
StopReturns ==
    pc[Owner] \in {"read", "join"} ~> (pc[Owner] = "idle" \/ aborted \/ ~Alone)

\* A start() that has a listening thread returns, or the process has ended, if
\* nobody else interferes.
StartReturns ==
    pc[Owner] = "ready" /\ joinable ~> (pc[Owner] = "idle" \/ aborted \/ ~Alone)

-----------------------------------------------------------------------------
(* Statements of the repository that the code does not satisfy *)

\* ThreadedServer.h:50, "terminate server instance and waits for thread to
\* stop": a stop() returns also when another thread calls terminate().
StopAlwaysReturns == pc[Owner] \in {"read", "join"} ~> (pc[Owner] = "idle" \/ aborted)

\* ThreadedServer.cpp:56, "return when server is ready i.e. listening for
\* incoming connections": a start() returns also when its thread could not be
\* created.
StartAlwaysReturns == pc[Owner] = "ready" ~> (pc[Owner] = "idle" \/ aborted \/ ~Alone)

\* IGenericServer.h:140, as TerminateMeansTerminated, for every caller.
TerminateAlwaysTerminates == [][\A c \in Callers : TerminateReturn(c) => Stopped]_vars

\* IGenericServer.h:146, "wait for server to be ready i.e. listening to
\* incoming connections": a thread that waits returns once the server is ready.
ReadyReturns ==
    \A c \in Callers : pc[c] = "readyWait" /\ lpc = "loop"
        ~> (pc[c] # "readyWait" \/ ~is_listening \/ aborted)

\* IGenericServer.cpp:89, "restore state so server can be started again":
\* after a stop(), the next listen() finds its listening socket open.
RestartPossible == lpc = "entry" => listen_sock

\* ThreadedServer.cpp:40-43, a start() on a listening server throws "server is
\* already listening"; it does not end the process.
SecondStartThrows == [][Start => lpc' # "dead"]_vars

=============================================================================
