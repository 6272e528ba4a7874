----------------------------- MODULE EventLoop -----------------------------
(***************************************************************************)
(* The loop of IGenericServer::listen: epoll_wait, accept, the choice of   *)
(* the job each event becomes, the smart close of sockets without I/O, and *)
(* closeSockets() at the end.  The callback itself is left to the module   *)
(* that composes this one: the loop stops at "callback" with the event in  *)
(* `call' and resumes at "dispatch".                                       *)
(*                                                                         *)
(* The kernel is external: a connection becomes a descriptor of Fds, which *)
(* are reused, and connections are watched edge-triggered.  Every event    *)
(* carries, as history, the connection it was reported for.                *)
(***************************************************************************)
EXTENDS Integers, FiniteSets

CONSTANTS
    Conns,              \* connections clients make, each once
    Fds,                \* descriptors accept4 can return
    ListenFd,           \* listen_sock.fd
    None,               \* no connection
    MAX_EVENTS,         \* configuration.h: events one epoll_wait returns at most
    use_smart_close,    \* IGenericServer::use_smart_close
    FailedBinds         \* addresses TcpServer::setup could not bind (see ServerSetup)

ASSUME EventLoopAssumption ==
    /\ IsFiniteSet(Fds)
    /\ ListenFd \notin Fds
    /\ None \notin Conns \cup Fds
    /\ MAX_EVENTS \in Nat \ {0}
    /\ use_smart_close \in BOOLEAN
    /\ FailedBinds \in Nat

VARIABLES
    phase,      \* of a connection: new, backlog, open, gone; dropped if not accepted
    ready,      \* its readiness: IN, OUT, HUP (RDHUP too), ERR
    edge,       \* connections with a readiness change not yet reported
    fdConn,     \* the connection behind an open descriptor
    watched,    \* descriptors in epollfd's interest list
    incoming_conn_fd, activeConnections, is_socket_IO, stop_server,
    ioDone,     \* history: connections the server has read from or written to
    lpc,        \* the listening thread
    batch,      \* the events of this epoll_wait not yet handled
    conn_sock,  \* local of listen(), None when it is not used any more
    call        \* the ListenEvent given to callback_function, and the buffers that
                \* the callback still has to write

kernelVars == <<phase, ready, edge, fdConn, watched>>
ioVars     == <<is_socket_IO, ioDone>>
serverVars == <<incoming_conn_fd, activeConnections, ioVars>>
loopVars   == <<lpc, batch, conn_sock, call>>
elVars == <<kernelVars, serverVars, stop_server, loopVars>>

Flags == {"IN", "OUT", "HUP", "ERR"}
Jobs == {"AVAILABLE_FOR_READ", "CLOSE_SOCKET", "AVAILABLE_FOR_WRITE", "NEW_SOCKET",
         "AVAILABLE_FOR_READ_AND_WRITE", "SOCKET_IS_CLOSED"}

EventType == [fd : Fds \cup {ListenFd}, conn : Conns \cup {None}, events : SUBSET Flags]
CallType == [fd : Fds, conn : Conns, job : Jobs, events : SUBSET Flags,
             buffers : Nat]
ListenEvent == [fd |-> ListenFd, conn |-> None, events |-> {"IN"}]

LoopLabels == {"poll", "polled", "dispatch", "insert", "add", "decr", "callback",
               "closing", "stopped", "dead"}

\* labels: the ones the composing module adds for its callback
ELTypeOK(labels) ==
    /\ phase \in [Conns -> {"new", "backlog", "dropped", "open", "gone"}]
    /\ ready \in [Conns -> SUBSET Flags]
    /\ edge \subseteq Conns
    /\ fdConn \in [Fds -> Conns \cup {None}]
    /\ watched \subseteq Fds
    /\ incoming_conn_fd \subseteq Fds
    /\ activeConnections \in Int
    /\ is_socket_IO \in [Fds \cup {ListenFd} -> BOOLEAN]
    /\ ioDone \subseteq Conns
    /\ stop_server \in BOOLEAN
    /\ lpc \in LoopLabels \cup labels
    /\ batch \subseteq EventType
    /\ conn_sock \in Fds \cup {None}
    /\ call \in CallType \cup {None}

ELInit ==
    /\ phase = [c \in Conns |-> "new"]
    /\ ready = [c \in Conns |-> {}]
    /\ edge = {} /\ watched = {}
    /\ fdConn = [f \in Fds |-> None]
    /\ incoming_conn_fd = {}
    /\ activeConnections = -FailedBinds    \* setup() calls close(sfd) for each
    /\ is_socket_IO = [f \in Fds \cup {ListenFd} |-> FALSE]
    /\ ioDone = {}
    /\ stop_server = FALSE
    /\ lpc = "poll" /\ batch = {} /\ conn_sock = None /\ call = None

Open == {f \in Fds : fdConn[f] # None}
Backlog == {c \in Conns : phase[c] = "backlog"}
Goto(label) == lpc' = label

-----------------------------------------------------------------------------
(* Clients and kernel (external) *)

\* Readiness of c grows, which is an edge even if the flag was set already;
\* before c is accepted there is nobody to report it to.
Signal(c, flag) ==
    /\ ready' = [ready EXCEPT ![c] = @ \cup {flag}]
    /\ edge' = edge \cup ({c} \cap {d \in Conns : phase[d] = "open"})

Connect(c) ==
    /\ phase[c] = "new"
    /\ lpc # "stopped"
    /\ phase' = [phase EXCEPT ![c] = "backlog"]
    /\ ready' = [ready EXCEPT ![c] = {"OUT"}]
    /\ UNCHANGED <<edge, fdConn, watched, serverVars, stop_server, loopVars>>

\* The kernel drops a connection nobody has accepted yet.
BacklogDrop(c) ==
    /\ phase[c] = "backlog"
    /\ phase' = [phase EXCEPT ![c] = "dropped"]
    /\ ready' = [ready EXCEPT ![c] = {}]
    /\ UNCHANGED <<edge, fdConn, watched, serverVars, stop_server, loopVars>>

\* The client sends, empties a full send buffer, closes; the socket fails.
ClientAct(c) ==
    /\ phase[c] \in {"backlog", "open"}
    /\ \/ "HUP" \notin ready[c] /\ Signal(c, "IN")
       \/ "OUT" \notin ready[c] /\ Signal(c, "OUT")
       \/ "HUP" \notin ready[c] /\ Signal(c, "HUP")
       \/ "ERR" \notin ready[c] /\ Signal(c, "ERR")
    /\ UNCHANGED <<phase, fdConn, watched, serverVars, stop_server, loopVars>>

\* terminate() sets stop_server and wakes the loop (see ServerLifecycle).
Terminate ==
    /\ ~stop_server
    /\ stop_server' = TRUE
    /\ UNCHANGED <<kernelVars, serverVars, loopVars>>

\* close(2) of the descriptors of F: they leave the interest list as well.
KernelClose(F) ==
    LET cs == {fdConn[f] : f \in F} \ {None}
    IN  /\ fdConn' = [f \in Fds |-> IF f \in F THEN None ELSE fdConn[f]]
        /\ phase' = [c \in Conns |-> IF c \in cs THEN "gone" ELSE phase[c]]
        /\ watched' = watched \ F
        /\ edge' = edge \ cs
        /\ ready' = [c \in Conns |-> IF c \in cs THEN {} ELSE ready[c]]

-----------------------------------------------------------------------------
(* IGenericServer::close, is_IO, set_IO *)

\* Mutant: close() does not extract fd from incoming_conn_fd.
CloseExtract_Kept(fd) ==
    /\ KernelClose({fd})
    /\ UNCHANGED incoming_conn_fd

\* ::close(fd) and incoming_conn_fd.extract(fd), under incoming_conn_fd_mtx
CloseExtract(fd) ==
    /\ KernelClose({fd})
    /\ incoming_conn_fd' = incoming_conn_fd \ {fd}

\* Mutant: close() does not count.
CloseDecrement_None == UNCHANGED activeConnections

\* activeConnections--, whatever ::close returned
CloseDecrement == activeConnections' = activeConnections - 1

\* Mutant: I/O on a descriptor is not recorded.
set_IO_None(fd) == UNCHANGED is_socket_IO

set_IO(fd) == is_socket_IO' = [is_socket_IO EXCEPT ![fd] = @ \/ use_smart_close]
unset_IO(fd) == is_socket_IO' = [is_socket_IO EXCEPT ![fd] = @ /\ ~use_smart_close]
is_IO(fd) == use_smart_close => is_socket_IO[fd]

-----------------------------------------------------------------------------
(* The loop *)

\* while (!stop_server.load()), tested before and after epoll_wait
LoopStop ==
    /\ lpc \in {"poll", "polled"}
    /\ stop_server
    /\ batch' = {}
    /\ Goto("closing")
    /\ UNCHANGED <<kernelVars, serverVars, stop_server, conn_sock, call>>

Pending == {f \in watched : fdConn[f] \in edge /\ ready[fdConn[f]] # {}}

\* Mutant: listen_sock is not in the interest list.
EpollWait_NoListen ==
    LET all == {[fd |-> f, conn |-> fdConn[f], events |-> ready[fdConn[f]]] : f \in Pending}
    IN  /\ lpc = "poll"
        /\ all # {} /\ Cardinality(all) <= MAX_EVENTS
        /\ batch' = all
        /\ edge' = edge \ {e.conn : e \in all}
        /\ Goto("polled")
        /\ UNCHANGED <<phase, ready, fdConn, watched, serverVars, stop_server, conn_sock, call>>

\* All that is ready is reported, or MAX_EVENTS of it and the rest stays ready.
EpollWait ==
    LET all == {[fd |-> f, conn |-> fdConn[f], events |-> ready[fdConn[f]]] : f \in Pending}
                 \cup {e \in {ListenEvent} : Backlog # {}}
    IN  /\ lpc = "poll"
        /\ \E events \in SUBSET all \ {{}} :
             /\ events = all \/ Cardinality(events) = MAX_EVENTS
             /\ Cardinality(events) <= MAX_EVENTS
             /\ batch' = events
             /\ edge' = edge \ {e.conn : e \in events}
        /\ Goto("polled")
        /\ UNCHANGED <<phase, ready, fdConn, watched, serverVars, stop_server, conn_sock, call>>

Polled ==
    /\ lpc = "polled"
    /\ ~stop_server
    /\ Goto("dispatch")
    /\ UNCHANGED <<kernelVars, serverVars, stop_server, batch, conn_sock, call>>

BatchDone ==
    /\ lpc = "dispatch"
    /\ batch = {}
    /\ Goto("poll")
    /\ UNCHANGED <<kernelVars, serverVars, stop_server, batch, conn_sock, call>>

\* Mutant: the `continue' of the hang-up branch does not advance n.
Take_Again(e) ==
    /\ lpc = "dispatch"
    /\ e \in batch
    /\ batch' = IF "HUP" \in e.events THEN batch ELSE batch \ {e}

\* The next events[n]; the kernel may have put them in any order.
Take(e) ==
    /\ lpc = "dispatch"
    /\ e \in batch
    /\ batch' = batch \ {e}

Callback(fd, conn, job, events) ==
    /\ call' = [fd |-> fd, conn |-> conn, job |-> job, events |-> events,
                 buffers |-> 0]
    /\ Goto("callback")

(* listen_sock is readable *)

\* accept4 returns EAGAIN
AcceptNone(e) ==
    /\ Take(e)
    /\ e.fd = ListenFd
    /\ Backlog = {}
    /\ UNCHANGED <<kernelVars, serverVars, stop_server, lpc, conn_sock, call>>

\* accept4 fails with anything but EAGAIN, at the latest when no descriptor is
\* free: listen() throws and the process ends
AcceptThrows(e) ==
    /\ Take(e)
    /\ e.fd = ListenFd
    /\ Goto("dead")
    /\ UNCHANGED <<kernelVars, serverVars, stop_server, conn_sock, call>>

Accept(e) ==
    /\ Take(e)
    /\ e.fd = ListenFd
    /\ \E c \in Backlog, f \in Fds \ Open :
         /\ fdConn' = [fdConn EXCEPT ![f] = c]
         /\ phase' = [phase EXCEPT ![c] = "open"]
         /\ conn_sock' = f
    /\ Goto("insert")
    /\ UNCHANGED <<ready, edge, watched, serverVars, stop_server, call>>

AcceptInsert ==
    /\ lpc = "insert"
    /\ incoming_conn_fd' = incoming_conn_fd \cup {conn_sock}
    /\ Goto("add")
    /\ UNCHANGED <<kernelVars, activeConnections, ioVars, stop_server, batch,
                   conn_sock, call>>

\* Mutant: NEW_SOCKET is reported for fd, the listening descriptor.
AcceptAdd_ListenFd ==
    /\ lpc = "add"
    /\ watched' = watched \cup {conn_sock}
    /\ edge' = edge \cup {fdConn[conn_sock]}
    /\ activeConnections' = activeConnections + 1
    /\ unset_IO(ListenFd)
    /\ Callback(ListenFd, fdConn[conn_sock], "NEW_SOCKET", {})
    /\ conn_sock' = None
    /\ UNCHANGED <<phase, ready, fdConn, incoming_conn_fd, ioDone, stop_server, batch>>

\* epoll_ctl ADD reports what is ready already; then activeConnections++ and
\* unset_IO(fd), where fd is the listening descriptor; then NEW_SOCKET
AcceptAdd ==
    /\ lpc = "add"
    /\ watched' = watched \cup {conn_sock}
    /\ edge' = edge \cup {fdConn[conn_sock]}
    /\ activeConnections' = activeConnections + 1
    /\ unset_IO(ListenFd)
    /\ Callback(conn_sock, fdConn[conn_sock], "NEW_SOCKET", {})
    /\ conn_sock' = None
    /\ UNCHANGED <<phase, ready, fdConn, incoming_conn_fd, ioDone, stop_server, batch>>

(* a connection has an event *)

SmartClose(e) ==
    /\ Take(e)
    /\ e.fd \in Fds
    /\ "HUP" \in e.events
    /\ use_smart_close /\ ~is_IO(e.fd)
    /\ CloseExtract(e.fd)
    /\ call' = [fd |-> e.fd, conn |-> e.conn, job |-> "SOCKET_IS_CLOSED", events |-> e.events,
                 buffers |-> 0]
    /\ Goto("decr")
    /\ UNCHANGED <<activeConnections, ioVars, stop_server, conn_sock>>

\* Mutant: SOCKET_IS_CLOSED is not reported.
SmartCloseDecrement_Silent ==
    /\ lpc = "decr"
    /\ CloseDecrement
    /\ call' = None
    /\ Goto("dispatch")
    /\ UNCHANGED <<kernelVars, incoming_conn_fd, ioVars, stop_server, batch, conn_sock>>

SmartCloseDecrement ==
    /\ lpc = "decr"
    /\ CloseDecrement
    /\ Goto("callback")
    /\ UNCHANGED <<kernelVars, incoming_conn_fd, ioVars, stop_server, batch,
                   conn_sock, call>>

\* the job of an event that is not a smart close
JobOf(events) ==
    IF {"HUP", "ERR"} \cap events # {} THEN "CLOSE_SOCKET"
    ELSE IF {"IN", "OUT"} \subseteq events THEN "AVAILABLE_FOR_READ_AND_WRITE"
    ELSE IF "OUT" \in events THEN "AVAILABLE_FOR_WRITE"
    ELSE "AVAILABLE_FOR_READ"

Dispatch(e) ==
    /\ Take(e)
    /\ e.fd \in Fds
    /\ use_smart_close /\ "HUP" \in e.events => is_IO(e.fd)
    /\ Callback(e.fd, e.conn, JobOf(e.events), e.events)
    /\ UNCHANGED <<kernelVars, serverVars, stop_server, conn_sock>>

-----------------------------------------------------------------------------

\* closeSockets(); activeConnections is left as it is
CloseSockets ==
    /\ lpc = "closing"
    /\ KernelClose(incoming_conn_fd)
    /\ incoming_conn_fd' = {}
    /\ Goto("stopped")
    /\ UNCHANGED <<activeConnections, ioVars, stop_server, batch, conn_sock, call>>

\* epoll_wait, or the epoll_ctl for a new connection, fails: listen() throws in
\* a thread without a handler and the process ends
LoopThrows ==
    /\ lpc \in {"poll", "add"}
    /\ Goto("dead")
    /\ UNCHANGED <<kernelVars, serverVars, stop_server, batch, conn_sock, call>>

EnvStep == Terminate \/ LoopThrows \/ \E c \in Conns : Connect(c) \/ BacklogDrop(c) \/ ClientAct(c)

LoopStep ==
    \/ LoopStop \/ EpollWait \/ Polled \/ BatchDone
    \/ AcceptInsert \/ AcceptAdd \/ SmartCloseDecrement \/ CloseSockets
    \/ \E e \in batch :
         \/ AcceptNone(e) \/ AcceptThrows(e) \/ Accept(e)
         \/ SmartClose(e) \/ Dispatch(e)

=============================================================================
