----------------------------- MODULE EchoServer -----------------------------
(***************************************************************************)
(* IGenericServer (or ThreadedServer) with the callback of the repository's*)
(* echo listeners, which runs in the listening thread: it closes on        *)
(* CLOSE_SOCKET, on the jobs of ReadJobs it reads all data and writes it   *)
(* back buffer by buffer, and it ignores the rest.  The listener of        *)
(* test/testlibnbuss/unixsocket_tests.cpp reads on both jobs with data and *)
(* writes a buffer again until it is taken, however long that lasts; the   *)
(* one of main/main.cpp, like the example of the repository's README,      *)
(* reads on AVAILABLE_FOR_READ only, and writes once.                      *)
(***************************************************************************)
EXTENDS EventLoop

CONSTANTS
    ReadJobs,   \* the jobs on which the listener reads
    Retries,    \* TRUE: the listener repeats a write that has failed
    MaxBuffers, \* bound: buffers one read returns
    Followed    \* connections that liveness properties follow: connections are
                \* interchangeable, so to follow one is to follow all

ASSUME EchoServerAssumption ==
    /\ ReadJobs \subseteq {"AVAILABLE_FOR_READ", "AVAILABLE_FOR_READ_AND_WRITE"}
    /\ Retries \in BOOLEAN /\ MaxBuffers \in Nat
    /\ Followed \subseteq Conns
    /\ None \notin [conn : Conns, job : Jobs]

TypeOK == ELTypeOK({"appWrite", "appSleep", "appDecr"})

Init == ELInit

AppIgnore ==
    /\ lpc = "callback"
    /\ call.job \notin ReadJobs \cup {"CLOSE_SOCKET"}
    /\ call' = None
    /\ Goto("dispatch")
    /\ UNCHANGED <<kernelVars, serverVars, stop_server, batch, conn_sock>>

\* srv->close(fd)
AppClose ==
    /\ lpc = "callback"
    /\ call.job = "CLOSE_SOCKET"
    /\ CloseExtract(call.fd)
    /\ Goto("appDecr")
    /\ UNCHANGED <<activeConnections, ioVars, stop_server, batch, conn_sock, call>>

AppCloseDecrement ==
    /\ lpc = "appDecr"
    /\ CloseDecrement
    /\ call' = None
    /\ Goto("dispatch")
    /\ UNCHANGED <<kernelVars, incoming_conn_fd, ioVars, stop_server, batch, conn_sock>>

\* the end of the callback when no buffer is left to write
Buffers(n) ==
    /\ call' = IF n = 0 THEN None ELSE [call EXCEPT !.buffers = n]
    /\ Goto(IF n = 0 THEN "dispatch" ELSE "appWrite")

\* Mutant: one read(2) that leaves data, instead of reading until EAGAIN.
AppRead_Once ==
    /\ lpc = "callback"
    /\ call.job \in ReadJobs
    /\ set_IO(call.fd)
    /\ ioDone' = ioDone \cup {fdConn[call.fd]}
    /\ Buffers(1)
    /\ UNCHANGED <<kernelVars, incoming_conn_fd, activeConnections, stop_server, batch,
                   conn_sock>>

\* srv->read(fd, ...): set_IO, then read(2) until EAGAIN or end of file
AppRead ==
    /\ lpc = "callback"
    /\ call.job \in ReadJobs
    /\ set_IO(call.fd)
    /\ ioDone' = ioDone \cup {fdConn[call.fd]}
    /\ ready' = [ready EXCEPT ![fdConn[call.fd]] = @ \ {"IN"}]
    /\ \E n \in 0 .. MaxBuffers : Buffers(n)
    /\ UNCHANGED <<phase, edge, fdConn, watched, incoming_conn_fd, activeConnections,
                   stop_server, batch, conn_sock>>

\* srv->write(fd, item) takes data, and may fill the send buffer; what does not
\* fit any more is lost (see IoLoops)
AppWrite ==
    /\ lpc = "appWrite"
    /\ "OUT" \in ready[fdConn[call.fd]]
    /\ set_IO(call.fd)
    /\ ready' \in {ready, [ready EXCEPT ![fdConn[call.fd]] = @ \ {"OUT"}]}
    /\ Buffers(call.buffers - 1)
    /\ UNCHANGED <<phase, edge, fdConn, watched, incoming_conn_fd, activeConnections,
                   stop_server, batch, conn_sock, ioDone>>

\* srv->write(fd, item) == -1: the send buffer is full, or an error
AppWriteFails ==
    /\ lpc = "appWrite"
    /\ "OUT" \notin ready[fdConn[call.fd]] \/ "ERR" \in ready[fdConn[call.fd]]
    /\ set_IO(call.fd)
    /\ IF Retries THEN Goto("appSleep") /\ UNCHANGED call ELSE Buffers(call.buffers - 1)
    /\ UNCHANGED <<kernelVars, incoming_conn_fd, activeConnections, stop_server, batch,
                   conn_sock, ioDone>>

\* nanosleep, then the same write again
AppSleep ==
    /\ lpc = "appSleep"
    /\ Goto("appWrite")
    /\ UNCHANGED <<kernelVars, serverVars, stop_server, batch, conn_sock, call>>

\* write(2) on a connection the peer has closed raises SIGPIPE; nothing in the
\* library changes its default action, which ends the process
AppWriteSignal ==
    /\ lpc = "appWrite"
    /\ "HUP" \in ready[fdConn[call.fd]]
    /\ set_IO(call.fd)
    /\ Goto("dead")
    /\ UNCHANGED <<kernelVars, incoming_conn_fd, activeConnections, stop_server,
                   batch, conn_sock, call, ioDone>>

AppStep ==
    \/ AppIgnore \/ AppClose \/ AppCloseDecrement
    \/ AppRead \/ AppWrite \/ AppWriteFails \/ AppSleep \/ AppWriteSignal

ListenerStep == LoopStep \/ AppStep

Next == EnvStep \/ ListenerStep

Spec == Init /\ [][Next]_elVars

\* The listening thread runs whenever it can.  Nothing is assumed of clients.
FairSpec == Spec /\ WF_elVars(ListenerStep)

-----------------------------------------------------------------------------
(* Refinement of ConnectionService *)

\* accepted, and not on the way from accept4 to NEW_SOCKET any more
Announced(c) ==
    /\ phase[c] \in {"open", "gone"}
    /\ conn_sock # None => fdConn[conn_sock] # c

ServiceConn ==
    [c \in Conns |->
        IF ~Announced(c) THEN "unseen"
        ELSE IF phase[c] = "open" THEN "open"
        ELSE IF lpc = "decr" /\ call.conn = c THEN "unreported" ELSE "closed"]

ServiceCurrent ==
    IF lpc \in {"callback", "appWrite", "appSleep", "appDecr"}
    THEN [conn |-> call.conn, job |-> call.job] ELSE None

Service == INSTANCE ConnectionService WITH
    conn <- ServiceConn,
    current <- ServiceCurrent,
    serving <- lpc \notin {"stopped", "dead"}

-----------------------------------------------------------------------------
(* Properties *)

\* incoming_conn_fd is exactly the set of open accepted descriptors, apart
\* from the one between accept4 and its insertion: closeSockets() neither
\* misses a connection nor closes a descriptor that is not the server's.
FdsTracked ==
    Open = incoming_conn_fd \cup {f \in {conn_sock} : lpc = "insert"}

\* While the loop runs, get_active_connections() is the number of open
\* connections, less the addresses setup() could not bind, apart from the steps
\* between an accept or a close and its count.
CountExact ==
    lpc \notin {"stopped", "dead"} =>
        activeConnections = Cardinality(Open) - FailedBinds
            + (IF lpc \in {"decr", "appDecr"} THEN 1 ELSE 0)
            - (IF lpc \in {"insert", "add"} THEN 1 ELSE 0)

\* An event is handled for the connection it was reported for: although
\* accept4 reuses the numbers of descriptors closed earlier in the same batch,
\* no event of the batch ever reaches the connection that took the number over.
EventsFresh ==
    /\ \A e \in batch : e.fd \in Fds => fdConn[e.fd] = e.conn
    /\ lpc \in {"callback", "appWrite", "appSleep"} /\ call.job # "SOCKET_IS_CLOSED"
         => fdConn[call.fd] = call.conn

\* The server keeps its promise to the callback: NEW_SOCKET first and once, no
\* job for a connection that is closed or not announced, no second close, no
\* callback after the end, although descriptors are reused within a batch.
ImplementsService == Service!Spec

\* What the echo listener needs of its clients: none leaves the send buffer of
\* its open connection full for ever, and a failed connection gets closed.
\* Without it the one thread of the server stays in the retries of one write.
ClientsRead ==
    \A c \in Conns :
        []<>(phase[c] = "open" => "OUT" \in ready[c] /\ "ERR" \notin ready[c])

\* If clients read, data on an open connection is read and a hang-up makes the
\* server close it: no edge of the edge-triggered watch is lost, whenever it
\* comes, and none of the events that one epoll_wait has no room for.  With the
\* listener of the README (README.md:15-16, "case AVAILABLE_FOR_READ: // read all data
\* from socket") it fails: IGenericServer.cpp:496 reports data on a writable
\* socket as AVAILABLE_FOR_READ_AND_WRITE.
ReadinessHandled ==
    ClientsRead =>
        \A c \in Followed : phase[c] = "open" /\ {"IN", "HUP"} \cap ready[c] # {}
            ~> {"IN", "HUP"} \cap ready[c] = {} \/ lpc = "dead"

\* The server closes a connection by itself, without asking the callback, only
\* if it has neither read from it nor written to it: although is_socket_IO goes
\* by descriptor number, reuse never makes a used connection look unused.
SmartCloseOnlyUnused ==
    lpc \in {"decr", "callback"} /\ call.job = "SOCKET_IS_CLOSED" => call.conn \notin ioDone

-----------------------------------------------------------------------------
(* Statements of the repository that the code does not satisfy *)

\* IGenericServer.h:107-109, "if the remote peer closes the connection after
\* opening it, with no i/o on the socket, then the server closes the
\* connection and then sends a SOCKET_IS_CLOSED event": a hang-up of a
\* connection the server has neither read from nor written to is not reported
\* by CLOSE_SOCKET.
SmartCloseHonoured ==
    lpc = "callback" /\ call.job = "CLOSE_SOCKET" /\ "HUP" \in call.events
        => ~use_smart_close \/ call.conn \in ioDone

\* IGenericServer.h:155, "return -1 if write fails": a write to a connection
\* whose peer has gone returns to the callback.
WriteReturns == [][lpc = "appWrite" => lpc' # "dead"]_elVars

\* IGenericServer.h:200, "get number of active connections to server": when
\* the server has stopped and closed every connection, there are none.
NoneActiveWhenStopped == lpc = "stopped" /\ Open = {} => activeConnections = 0

=============================================================================
