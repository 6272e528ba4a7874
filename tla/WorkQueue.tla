----------------------------- MODULE WorkQueue -----------------------------
(***************************************************************************)
(* WorkQueue.cpp: the listening thread pushes events on a deque, consumer  *)
(* threads pop and handle them, stop() ends the consumers, close(fd)       *)
(* unmarks queued items and closes the socket.                             *)
(*                                                                         *)
(* The listening thread is EventLoop's, seen from the queue: it accepts    *)
(* connections, gets batches of events of watched descriptors, closes      *)
(* sockets without I/O by itself, and closes everything when it stops.     *)
(* Connections are numbered; an item carries, as history, its own number   *)
(* and the connection its event was about.  The consumers' callback is     *)
(* that of test/testlibnbuss/workqueue_test.cpp.                           *)
(***************************************************************************)
EXTENDS Integers, Sequences, FiniteSets

CONSTANTS
    Consumers,      \* consumer threads
    Fds,            \* descriptors of connections
    MaxConns,       \* bound: connections accepted
    MaxEvents,      \* bound: items pushed
    MayStop         \* whether the owner calls stop()

ASSUME WorkQueueAssumption ==
    /\ IsFiniteSet(Consumers) /\ Consumers # {}
    /\ MaxConns \in Nat /\ MaxEvents \in Nat
    /\ MayStop \in BOOLEAN

VARIABLES
    deque,          \* front first: push_front at 1, back at Len
    consumers_must_terminate,
    fdConn,         \* connection behind a descriptor, 0: closed
    accepted,       \* connections accepted so far
    watched,        \* descriptors in epollfd's interest list
    is_socket_IO, activeConnections,
    hungUp,         \* connections reported with EPOLLHUP or EPOLLRDHUP
    lpc, batch, pushing,    \* the listening thread, its events, its next item
    pushed,         \* history: items pushed so far
    cpc, item, stale,       \* each consumer, its item, whether its slot may be reused
    popped,         \* history: number of the last item popped
    closedConns,    \* history: connections whose WorkQueue::close has returned
    opc, toNotify   \* the thread that calls stop(), notify_one() calls left

fdVars == <<fdConn, accepted, watched, is_socket_IO, activeConnections, hungUp>>
listenerVars == <<lpc, batch, pushing, pushed>>
consumerVars == <<cpc, item, stale, popped, closedConns>>
ownerVars == <<opc, toNotify, consumers_must_terminate>>
vars == <<deque, fdVars, listenerVars, consumerVars, ownerVars>>

QueueJobs == {"NEW_SOCKET", "AVAILABLE_FOR_READ", "CLOSE_SOCKET", "SOCKET_IS_CLOSED"}
ItemType == [fd : Fds, job : QueueJobs, process : BOOLEAN,
             conn : 1 .. MaxConns, id : 0 .. MaxEvents]
NoItem == [id |-> 0]
NewConnection == [kind |-> "ACCEPT"]    \* listen_sock is readable

TypeOK ==
    /\ deque \in Seq(ItemType)
    /\ fdConn \in [Fds -> 0 .. MaxConns]
    /\ accepted \in 0 .. MaxConns
    /\ watched \subseteq Fds
    /\ is_socket_IO \in [Fds -> BOOLEAN]
    /\ activeConnections \in Int
    /\ hungUp \subseteq 1 .. MaxConns
    /\ lpc \in {"poll", "polled", "dispatch", "add", "push", "notify", "done", "dead"}
    /\ batch \subseteq [fd : Fds, conn : 1 .. MaxConns, kind : {"IN", "HUP", "ERR"}]
                         \cup {NewConnection}
    /\ pushing \in ItemType \cup {NoItem}
    /\ pushed \in 0 .. MaxEvents
    /\ cpc \in [Consumers -> {"check", "lock", "waiting", "woken", "handle", "read",
                              "mark", "unwatch", "close", "decr", "end", "dead"}]
    /\ item \in [Consumers -> ItemType \cup {NoItem}]
    /\ stale \in [Consumers -> BOOLEAN]
    /\ popped \in 0 .. MaxEvents
    /\ closedConns \subseteq 1 .. MaxConns
    /\ opc \in {"running", "server", "terminating", "notify", "stopped", "dead"}
    /\ toNotify \in 0 .. Cardinality(Consumers)
    /\ consumers_must_terminate \in BOOLEAN

Init ==
    /\ deque = <<>>
    /\ fdConn = [f \in Fds |-> 0] /\ accepted = 0 /\ watched = {}
    /\ is_socket_IO = [f \in Fds |-> FALSE] /\ activeConnections = 0 /\ hungUp = {}
    /\ lpc = "poll" /\ batch = {} /\ pushing = NoItem /\ pushed = 0
    /\ cpc = [c \in Consumers |-> "check"]
    /\ item = [c \in Consumers |-> NoItem]
    /\ stale = [c \in Consumers |-> FALSE]
    /\ popped = 0 /\ closedConns = {}
    /\ opc = "running" /\ toNotify = 0 /\ consumers_must_terminate = FALSE

deque_cv == {c \in Consumers : cpc[c] = "waiting"}

\* deque_cv.notify_one()
NotifyOne ==
    \/ deque_cv = {} /\ UNCHANGED cpc
    \/ \E c \in deque_cv : cpc' = [cpc EXCEPT ![c] = "woken"]

-----------------------------------------------------------------------------
(* The listening thread: EventLoop, ThreadedServer2::internal_callback and *)
(* WorkQueue::producer_callback                                            *)

LGoto(label) == lpc' = label
OGoto(label) == opc' = label

\* The process ends: an exception leaves a thread, or a signal.
Die ==
    /\ LGoto("dead") /\ OGoto("dead")
    /\ cpc' = [d \in Consumers |-> "dead"]

\* set by the terminate() of stop(), and cleared when listen() has returned
stop_server == opc = "terminating"

\* the item producer_callback is given next
Producing(fd, conn, job) ==
    pushing' = [fd |-> fd, job |-> job, process |-> TRUE, conn |-> conn, id |-> pushed + 1]

Produce(fd, conn, job) == Producing(fd, conn, job) /\ LGoto("push")

\* while (!stop_server), and epoll_wait: any edges on the descriptors of F, and perhaps a new connection.
\* A hung-up connection has more edges (the other direction is shut down, sent
\* data is acknowledged) and each reports the hang-up again.
EpollWait ==
    /\ lpc = "poll"
    /\ ~stop_server
    /\ \E F \in SUBSET watched, new \in SUBSET {NewConnection} :
       \E kind \in [F -> {"IN", "HUP", "ERR"}] :
         /\ Cardinality(F) + Cardinality(new) \in 1 .. MaxEvents - pushed
         /\ new # {} => accepted < MaxConns
         /\ \A f \in F : fdConn[f] \in hungUp => kind[f] = "HUP"
         /\ batch' = new \cup {[fd |-> f, conn |-> fdConn[f], kind |-> kind[f]] : f \in F}
         /\ hungUp' = hungUp \cup {fdConn[f] : f \in {g \in F : kind[g] = "HUP"}}
    /\ LGoto("polled")
    /\ UNCHANGED <<deque, fdConn, accepted, watched, is_socket_IO, activeConnections,
                   pushing, pushed, consumerVars, ownerVars>>

\* stop_server is tested again before the first event is handled
Polled ==
    /\ lpc = "polled"
    /\ ~stop_server
    /\ LGoto("dispatch")
    /\ UNCHANGED <<deque, fdVars, batch, pushing, pushed, consumerVars, ownerVars>>

\* accept4 returns EAGAIN
AcceptNone ==
    /\ lpc = "dispatch"
    /\ NewConnection \in batch
    /\ batch' = batch \ {NewConnection}
    /\ LGoto(IF batch' = {} THEN "poll" ELSE "dispatch")
    /\ UNCHANGED <<deque, fdVars, pushing, pushed, consumerVars, ownerVars>>

\* accept4; the new descriptor may be one that a consumer is about to close
Accept(f) ==
    /\ lpc = "dispatch"
    /\ NewConnection \in batch
    /\ fdConn[f] = 0
    /\ batch' = batch \ {NewConnection}
    /\ accepted' = accepted + 1
    /\ fdConn' = [fdConn EXCEPT ![f] = accepted + 1]
    /\ Producing(f, accepted + 1, "NEW_SOCKET")
    /\ LGoto("add")
    /\ UNCHANGED <<deque, watched, is_socket_IO, activeConnections, hungUp, pushed,
                   consumerVars, ownerVars>>

\* epoll_ctl ADD, then activeConnections++ and NEW_SOCKET
AcceptAdd ==
    /\ lpc = "add"
    /\ fdConn[pushing.fd] # 0
    /\ watched' = watched \cup {pushing.fd}
    /\ activeConnections' = activeConnections + 1
    /\ LGoto("push")
    /\ UNCHANGED <<deque, fdConn, accepted, is_socket_IO, hungUp, batch, pushing, pushed,
                   consumerVars, ownerVars>>

\* A consumer has closed the descriptor meanwhile: epoll_ctl fails and listen()
\* throws in a thread without a handler.
AcceptAddClosed ==
    /\ lpc = "add"
    /\ fdConn[pushing.fd] = 0
    /\ Die
    /\ UNCHANGED <<deque, fdVars, batch, pushing, pushed, item, stale, popped, closedConns,
                   toNotify, consumers_must_terminate>>

\* epoll_wait, accept4 or epoll_ctl fails for another reason
ListenerThrows ==
    /\ lpc \in {"poll", "add"} \/ (lpc = "dispatch" /\ NewConnection \in batch)
    /\ Die
    /\ UNCHANGED <<deque, fdVars, batch, pushing, pushed, item, stale, popped, closedConns,
                   toNotify, consumers_must_terminate>>

Dispatch(e) ==
    /\ lpc = "dispatch"
    /\ e # NewConnection
    /\ e.kind = "HUP" => is_socket_IO[e.fd]
    /\ batch' = batch \ {e}
    /\ Produce(e.fd, e.conn, IF e.kind = "IN" THEN "AVAILABLE_FOR_READ" ELSE "CLOSE_SOCKET")
    /\ UNCHANGED <<deque, fdVars, pushed, consumerVars, ownerVars>>

\* A hang-up without I/O: IGenericServer::close, then SOCKET_IS_CLOSED
SmartClose(e) ==
    /\ lpc = "dispatch"
    /\ e.kind = "HUP" /\ ~is_socket_IO[e.fd]
    /\ batch' = batch \ {e}
    /\ fdConn' = [fdConn EXCEPT ![e.fd] = 0]
    /\ watched' = watched \ {e.fd}
    /\ activeConnections' = activeConnections - 1
    /\ Produce(e.fd, e.conn, "SOCKET_IS_CLOSED")
    /\ UNCHANGED <<deque, accepted, is_socket_IO, hungUp, pushed, consumerVars, ownerVars>>

\* producer_callback: push_front under deque_mutex, then notify_one
ProducerPush ==
    /\ lpc = "push"
    /\ deque' = <<pushing>> \o deque
    /\ pushed' = pushed + 1
    /\ LGoto("notify")
    /\ UNCHANGED <<fdVars, batch, pushing, consumerVars, ownerVars>>

\* Mutant: the producer does not notify.
ProducerNotify_Silent ==
    /\ lpc = "notify"
    /\ pushing' = NoItem
    /\ LGoto(IF batch = {} THEN "poll" ELSE "dispatch")
    /\ UNCHANGED <<deque, fdVars, batch, pushed, consumerVars, ownerVars>>

ProducerNotify ==
    /\ lpc = "notify"
    /\ NotifyOne
    /\ pushing' = NoItem
    /\ LGoto(IF batch = {} THEN "poll" ELSE "dispatch")
    /\ UNCHANGED <<deque, fdVars, batch, pushed, item, stale, popped, closedConns, ownerVars>>

\* stop_server is seen before or after epoll_wait, whose events are dropped;
\* closeSockets() closes everything
ListenerStop ==
    /\ lpc \in {"poll", "polled"}
    /\ stop_server
    /\ batch' = {}
    /\ fdConn' = [f \in Fds |-> 0]
    /\ watched' = {}
    /\ LGoto("done")
    /\ UNCHANGED <<deque, accepted, is_socket_IO, activeConnections, hungUp,
                   pushing, pushed, consumerVars, ownerVars>>

ListenerStep ==
    \/ Polled \/ AcceptNone \/ AcceptAdd \/ AcceptAddClosed \/ ProducerPush \/ ProducerNotify \/ ListenerStop
    \/ \E f \in Fds : Accept(f)
    \/ \E e \in batch : Dispatch(e) \/ SmartClose(e)

-----------------------------------------------------------------------------
(* WorkQueue::consumer *)

Goto(c, label) == cpc' = [cpc EXCEPT ![c] = label]

\* while (consumers_must_terminate == false), before deque_mutex is locked
ConsumerCheck(c) ==
    /\ cpc[c] = "check"
    /\ Goto(c, IF consumers_must_terminate THEN "end" ELSE "lock")
    /\ UNCHANGED <<deque, fdVars, listenerVars, item, stale, popped, closedConns, ownerVars>>

\* Mutant: a consumer waits without testing whether the deque is empty.
ConsumerWait_NoTest(c) ==
    /\ cpc[c] = "lock"
    /\ Goto(c, "waiting")
    /\ UNCHANGED <<deque, fdVars, listenerVars, item, stale, popped, closedConns, ownerVars>>

\* while (deque.size() == 0) deque_cv.wait(lk)
ConsumerWait(c) ==
    /\ cpc[c] = "lock"
    /\ deque = <<>>
    /\ Goto(c, "waiting")
    /\ UNCHANGED <<deque, fdVars, listenerVars, item, stale, popped, closedConns, ownerVars>>

ConsumerWoken(c) ==
    /\ cpc[c] = "woken"
    /\ Goto(c, IF consumers_must_terminate THEN "end" ELSE "lock")
    /\ UNCHANGED <<deque, fdVars, listenerVars, item, stale, popped, closedConns, ownerVars>>

SpuriousWakeup(c) ==
    /\ cpc[c] = "waiting"
    /\ Goto(c, "woken")
    /\ UNCHANGED <<deque, fdVars, listenerVars, item, stale, popped, closedConns, ownerVars>>

\* Mutant: the newest item is popped.
ConsumerPop_Front(c) ==
    /\ cpc[c] = "lock"
    /\ deque # <<>>
    /\ item' = [item EXCEPT ![c] = Head(deque)]
    /\ deque' = Tail(deque)
    /\ popped' = Head(deque).id
    /\ stale' = [d \in Consumers |-> d # c /\ (stale[d] \/ cpc[d] = "handle")]
    /\ Goto(c, "handle")
    /\ UNCHANGED <<fdVars, listenerVars, closedConns, ownerVars>>

\* Item &i = deque.back(); deque.pop_back(): i refers to a destroyed slot,
\* whose node the next pop_back, of another consumer, may free
ConsumerPop(c) ==
    /\ cpc[c] = "lock"
    /\ deque # <<>>
    /\ item' = [item EXCEPT ![c] = deque[Len(deque)]]
    /\ deque' = SubSeq(deque, 1, Len(deque) - 1)
    /\ popped' = deque[Len(deque)].id
    /\ stale' = [d \in Consumers |-> d # c /\ (stale[d] \/ cpc[d] = "handle")]
    /\ Goto(c, "handle")
    /\ UNCHANGED <<fdVars, listenerVars, closedConns, ownerVars>>

\* The reads through i: the popped item, or what a freed slot holds.
SlotContents(c) ==
    {[item[c] EXCEPT !.fd = f, !.job = j, !.process = p] :
        f \in IF stale[c] THEN Fds ELSE {item[c].fd},
        j \in IF stale[c] THEN QueueJobs ELSE {item[c].job},
        p \in IF stale[c] THEN BOOLEAN ELSE {item[c].process}}

\* if (i.process) callback_function(...)
ConsumerHandle(c) ==
    /\ cpc[c] = "handle"
    /\ \E i \in SlotContents(c) :
         /\ item' = [item EXCEPT ![c] = i]
         /\ Goto(c, IF ~i.process \/ i.job \in {"NEW_SOCKET", "SOCKET_IS_CLOSED"} THEN "check"
                    ELSE IF i.job = "AVAILABLE_FOR_READ" THEN "read" ELSE "mark")
    /\ stale' = [stale EXCEPT ![c] = FALSE]
    /\ UNCHANGED <<deque, fdVars, listenerVars, popped, closedConns, ownerVars>>

\* the callback reads from and writes to i.fd: set_IO
ConsumerRead(c) ==
    /\ cpc[c] = "read"
    /\ is_socket_IO' = [is_socket_IO EXCEPT ![item[c].fd] = TRUE]
    /\ Goto(c, "check")
    /\ UNCHANGED <<deque, fdConn, accepted, watched, activeConnections, hungUp,
                   listenerVars, item, stale, popped, closedConns, ownerVars>>

-----------------------------------------------------------------------------
(* WorkQueue::close, called by the callback on CLOSE_SOCKET *)

CloseMark(c) ==
    /\ cpc[c] = "mark"
    /\ deque' = [n \in 1 .. Len(deque) |->
                    [deque[n] EXCEPT !.process = @ /\ deque[n].fd # item[c].fd]]
    /\ Goto(c, "unwatch")
    /\ UNCHANGED <<fdVars, listenerVars, item, stale, popped, closedConns, ownerVars>>

\* ThreadedServer2::close: remove_from_epoll; once epollfd is closed it writes
\* to *_errno, which is null, and the process ends
CloseUnwatch(c) ==
    /\ cpc[c] = "unwatch"
    /\ lpc # "done"
    /\ watched' = watched \ {item[c].fd}
    /\ Goto(c, "close")
    /\ UNCHANGED <<deque, fdConn, accepted, is_socket_IO, activeConnections, hungUp,
                   listenerVars, item, stale, popped, closedConns, ownerVars>>

CloseNullErrno(c) ==
    /\ cpc[c] = "unwatch"
    /\ lpc = "done"
    /\ Die
    /\ UNCHANGED <<deque, fdVars, batch, pushing, pushed, item, stale, popped, closedConns,
                   toNotify, consumers_must_terminate>>

\* then, holding the SocketData lock, IGenericServer::close
CloseFd(c) ==
    /\ cpc[c] = "close"
    /\ fdConn' = [fdConn EXCEPT ![item[c].fd] = 0]
    /\ watched' = watched \ {item[c].fd}
    /\ Goto(c, "decr")
    /\ UNCHANGED <<deque, accepted, is_socket_IO, activeConnections, hungUp, listenerVars,
                   item, stale, popped, closedConns, ownerVars>>

CloseDecrement(c) ==
    /\ cpc[c] = "decr"
    /\ activeConnections' = activeConnections - 1
    /\ closedConns' = closedConns \cup {item[c].conn}
    /\ Goto(c, "check")
    /\ UNCHANGED <<deque, fdConn, accepted, watched, is_socket_IO, hungUp, listenerVars,
                   item, stale, popped, ownerVars>>

ConsumerStep(c) ==
    \/ ConsumerCheck(c) \/ ConsumerWait(c) \/ ConsumerWoken(c) \/ ConsumerPop(c)
    \/ ConsumerHandle(c) \/ ConsumerRead(c)
    \/ CloseMark(c) \/ CloseUnwatch(c) \/ CloseNullErrno(c) \/ CloseFd(c) \/ CloseDecrement(c)

-----------------------------------------------------------------------------
(* WorkQueue::stop *)

\* consumers_must_terminate = true, without deque_mutex
Stop ==
    /\ MayStop
    /\ opc = "running"
    /\ consumers_must_terminate' = TRUE
    /\ OGoto("server")
    /\ UNCHANGED <<deque, fdVars, listenerVars, consumerVars, toNotify>>

\* threaded_server.stop(): terminate() sets stop_server and wakes epoll_wait
StopTerminate ==
    /\ opc = "server"
    /\ OGoto("terminating")
    /\ UNCHANGED <<deque, fdVars, listenerVars, consumerVars, toNotify,
                   consumers_must_terminate>>

\* threaded_server.stop() returns when the listening thread has ended
StopServer ==
    /\ opc = "terminating"
    /\ lpc = "done"
    /\ toNotify' = Cardinality(Consumers)
    /\ OGoto("notify")
    /\ UNCHANGED <<deque, fdVars, listenerVars, consumerVars, consumers_must_terminate>>

StopNotify ==
    /\ opc = "notify"
    /\ toNotify > 0
    /\ NotifyOne
    /\ toNotify' = toNotify - 1
    /\ UNCHANGED <<deque, fdVars, listenerVars, item, stale, popped, closedConns, opc,
                   consumers_must_terminate>>

\* Mutant: the deque is not cleared.
StopJoin_NoClear ==
    /\ opc = "notify"
    /\ toNotify = 0
    /\ \A c \in Consumers : cpc[c] = "end"
    /\ OGoto("stopped")
    /\ UNCHANGED <<deque, fdVars, listenerVars, consumerVars, toNotify,
                   consumers_must_terminate>>

\* join() every consumer; deque.clear()
StopJoin ==
    /\ opc = "notify"
    /\ toNotify = 0
    /\ \A c \in Consumers : cpc[c] = "end"
    /\ deque' = <<>>
    /\ OGoto("stopped")
    /\ UNCHANGED <<fdVars, listenerVars, consumerVars, toNotify, consumers_must_terminate>>

StopStep == StopTerminate \/ StopServer \/ StopNotify \/ StopJoin

-----------------------------------------------------------------------------

Next ==
    \/ EpollWait \/ ListenerStep \/ ListenerThrows \/ Stop \/ StopStep
    \/ \E c \in Consumers : ConsumerStep(c) \/ SpuriousWakeup(c)

Spec == Init /\ [][Next]_vars

\* Every thread that can run is run; no assumption on events, failures or stop().
FairSpec ==
    /\ Spec
    /\ WF_vars(ListenerStep) /\ WF_vars(StopStep)
    /\ \A c \in Consumers : WF_vars(ConsumerStep(c))

-----------------------------------------------------------------------------
(* Properties *)

\* Events are popped in the order in which the listening thread pushed them,
\* each once: the deque holds exactly the numbers popped + 1 .. pushed, newest
\* in front.
PoppedInOrder ==
    opc # "stopped" =>
        /\ Len(deque) = pushed - popped
        /\ \A n \in 1 .. Len(deque) : deque[n].id = pushed - n + 1

\* An item never lies in the deque with every consumer asleep, except in the
\* instant before the producer's notify_one: no wakeup for an item is lost.
NoStrandedItem ==
    deque # <<>> /\ lpc # "notify" =>
        \E c \in Consumers : cpc[c] # "waiting"

\* A pushed item is popped, unless the queue is being stopped.
ItemsConsumed ==
    \A n \in 1 .. MaxEvents :
        pushed >= n ~> popped >= n \/ consumers_must_terminate \/ lpc = "dead"

\* When stop() has returned no consumer runs, no descriptor is open, the
\* listening thread has ended and nothing is queued.
StoppedIsQuiet ==
    opc = "stopped" =>
        /\ deque = <<>> /\ lpc = "done" /\ batch = {}
        /\ \A c \in Consumers : cpc[c] = "end"
        /\ \A f \in Fds : fdConn[f] = 0

-----------------------------------------------------------------------------
(* Statements of the repository that the code does not satisfy *)

\* WorkQueue.h:69, "stop server", and ThreadedServer2.h:87, "waits for thread to
\* stop": a stop() that was called returns.
StopReturns == opc = "server" ~> opc = "stopped" \/ lpc = "dead"

\* WorkQueue.h:72, "remove items from work queue belonging to socket and then
\* close it": no item of a connection whose close() has returned is processed.
CloseRemovesItems ==
    \A n \in 1 .. Len(deque) :
        deque[n].process /\ lpc # "dead" => deque[n].conn \notin closedConns

\* IGenericServer.h:200, "get number of active connections to server".
ActiveNonNegative == activeConnections >= 0

\* WorkQueue.h:25, "to be processed by one or more consumers": a consumer
\* handles the item it popped.
ItemIntact ==
    [][\A c \in Consumers : ConsumerHandle(c) => item'[c] = item[c]]_vars

\* IGenericServer.cpp:531, "if (_errno != nullptr) *_errno = errno": the errno
\* argument of remove_from_epoll may be left out, also while the server stops.
CloseSurvivesStop == [][\A c \in Consumers : ~CloseNullErrno(c)]_vars

=============================================================================
