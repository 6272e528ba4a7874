-------------------------- MODULE EchoServerProofs --------------------------
(***************************************************************************)
(* Proofs about the event loop with an echo listener, for any connections, *)
(* descriptors and size of a batch.                                        *)
(*                                                                         *)
(* The heart of it is BatchOnce: the events of a batch are for different   *)
(* descriptors, and not for the one being handled.  So a descriptor closed *)
(* in a callback has no event left in the batch, accept4 can reuse it, and *)
(* EventsFresh survives.  CountExact and the refinement, which is proved   *)
(* in ServerProofs, rest on that.                                          *)
(***************************************************************************)
EXTENDS EchoServer, FiniteSetTheorems, TLAPS

InCall == {"callback", "appWrite", "appSleep", "decr", "appDecr"}
Accepting == {"insert", "add"}

\* What the listening thread's locals hold at each point of the loop.
Stages ==
    /\ lpc \in InCall => call \in CallType
    /\ lpc = "decr" => call.job = "SOCKET_IS_CLOSED" /\ phase[call.conn] = "gone"
    /\ lpc \in {"appWrite", "appSleep"} => call.job \in ReadJobs /\ call.buffers # 0
    /\ lpc \in Accepting => conn_sock \in Open
    /\ lpc \notin Accepting \cup {"dead"} => conn_sock = None

\* A connection is open exactly when some descriptor is its, and then only one.
OneFd ==
    /\ \A f, g \in Open : fdConn[f] = fdConn[g] => f = g
    /\ \A c \in Conns : phase[c] = "open" <=> \E f \in Open : fdConn[f] = c

\* A batch has at most one event of a descriptor, and none of the descriptor
\* that is being accepted or that the callback is called for.
BatchOnce ==
    /\ \A e \in batch : e.fd \in Fds => e.conn \in Conns
    /\ \A d, e \in batch : d.fd = e.fd => d = e
    /\ lpc = "closing" => batch = {}
    /\ lpc \in InCall => \A e \in batch : e.fd # call.fd
    /\ lpc \in Accepting => \A e \in batch : e.fd # conn_sock

\* A connection with I/O has been accepted, and its descriptor is marked.
IOMarked ==
    /\ \A c \in ioDone : phase[c] \in {"open", "gone"}
    /\ use_smart_close => \A f \in Open : fdConn[f] \in ioDone => is_socket_IO[f]

EchoInv ==
    /\ TypeOK /\ Stages /\ OneFd /\ BatchOnce /\ IOMarked
    /\ FdsTracked /\ CountExact /\ EventsFresh /\ SmartCloseOnlyUnused

\* What epoll_wait reports: events of open connections, one for a descriptor, and
\* the one of the listening socket.
LEMMA EpollEvents ==
    ASSUME EchoInv, EpollWait
    PROVE  /\ batch' \subseteq EventType
           /\ \A e \in batch' : e.fd \in Fds => e.conn \in Conns /\ fdConn[e.fd] = e.conn
           /\ \A d, e \in batch' : d.fd = e.fd => d = e
           /\ edge' \subseteq edge
<1> DEFINE ev(f) == [fd |-> f, conn |-> fdConn[f], events |-> ready[fdConn[f]]]
           all == {ev(f) : f \in Pending} \cup {e \in {ListenEvent} : Backlog # {}}
<1>1. batch' \in SUBSET all /\ edge' \subseteq edge
  BY DEF EpollWait
<1>2. \A f \in Pending : f \in Fds /\ fdConn[f] \in Conns /\ ready[fdConn[f]] \in SUBSET Flags
  BY DEF Pending, EchoInv, TypeOK, ELTypeOK
<1>3. \A f \in Pending : ev(f) \in EventType /\ ev(f).fd = f /\ ev(f).conn = fdConn[f]
  BY <1>2 DEF EventType
<1>4. ListenEvent \in EventType /\ ListenEvent.fd = ListenFd
  BY DEF ListenEvent, EventType, Flags
<1>5. ASSUME NEW e \in batch'
      PROVE  \/ e = ListenEvent
             \/ e.fd \in Pending /\ e = ev(e.fd)
  BY <1>1, <1>3
<1> HIDE DEF ev, all
<1> QED BY <1>1, <1>2, <1>3, <1>4, <1>5, EventLoopAssumption

\* The steps by which the callback reads and writes back.
Echoes == AppRead \/ AppWrite \/ AppWriteFails \/ AppSleep

\* With no buffer left the callback ends; otherwise its event stays the same.
LEMMA BuffersLeft ==
    ASSUME call \in CallType, NEW n \in Nat, Buffers(n)
    PROVE  \/ lpc' = "dispatch" /\ call' = None
           \/ /\ lpc' = "appWrite" /\ call' \in CallType /\ call'.buffers # 0
              /\ call'.fd = call.fd /\ call'.conn = call.conn /\ call'.job = call.job
<1>1. CASE n = 0
  BY <1>1 DEF Buffers, Goto
<1>2. CASE n # 0
  BY <1>2 DEF Buffers, Goto, CallType
<1> QED
  BY <1>1, <1>2

\* Reading and writing back goes on with the same event, or the callback ends.
LEMMA EchoCall ==
    ASSUME EchoInv, Echoes
    PROVE  /\ lpc \in {"callback", "appWrite", "appSleep"} /\ call \in CallType
           /\ call.job \in ReadJobs
           /\ \/ lpc' = "dispatch" /\ call' = None
              \/ /\ lpc' \in {"appWrite", "appSleep"} /\ call' \in CallType
                 /\ call'.buffers # 0
                 /\ call'.fd = call.fd /\ call'.conn = call.conn /\ call'.job = call.job
<1> USE DEF Goto, serverVars, ioVars
<1>1. lpc \in {"callback", "appWrite", "appSleep"} /\ call \in CallType /\ call.job \in ReadJobs
  BY Zenon DEF Echoes, AppRead, AppWrite, AppWriteFails, AppSleep, EchoInv, Stages, InCall
<1>2. lpc \in {"appWrite", "appSleep"} => call.buffers - 1 \in Nat
  BY <1>1 DEF EchoInv, Stages, CallType
<1>3. CASE AppRead
  <2>1. PICK n \in 0 .. MaxBuffers : Buffers(n)
    BY Zenon, <1>3 DEF AppRead
  <2>2. n \in Nat
    BY EchoServerAssumption
  <2> QED
    BY Zenon, <1>1, <2>1, <2>2, BuffersLeft
<1>4. CASE (AppWrite \/ AppWriteFails) /\ Buffers(call.buffers - 1)
  BY Zenon, <1>1, <1>2, <1>4, BuffersLeft DEF AppWrite, AppWriteFails
<1>5. CASE AppSleep \/ (AppWriteFails /\ Goto("appSleep") /\ UNCHANGED call)
  BY Zenon, <1>1, <1>5 DEF AppSleep, AppWriteFails, EchoInv, Stages
<1>6. AppWrite => Buffers(call.buffers - 1)
  BY Zenon DEF AppWrite
<1>7. AppWriteFails => Buffers(call.buffers - 1) \/ (Goto("appSleep") /\ UNCHANGED call)
  BY Zenon DEF AppWriteFails
<1> QED
  BY Zenon, <1>3, <1>4, <1>5, <1>6, <1>7 DEF Echoes

\* It is for an open connection, the one the event was reported for.
LEMMA EchoConn ==
    ASSUME EchoInv, Echoes
    PROVE  /\ call.fd \in Open /\ call.conn \in Conns
           /\ fdConn[call.fd] = call.conn /\ phase[call.conn] = "open"
<1>1. /\ lpc \in {"callback", "appWrite", "appSleep"} /\ call \in CallType
      /\ call.job # "SOCKET_IS_CLOSED"
  BY ZenonT(40), EchoCall, EchoServerAssumption
<1>2. call.fd \in Fds /\ call.conn \in Conns
  BY Zenon, <1>1 DEF CallType
<1>3. fdConn[call.fd] = call.conn
  BY Zenon, <1>1 DEF EchoInv, EventsFresh
<1>4. call.fd \in Open
  BY Zenon, <1>2, <1>3, EventLoopAssumption DEF Open
<1> QED
  BY Zenon, <1>2, <1>3, <1>4 DEF EchoInv, OneFd

\* All it changes is readiness and what is known of I/O.
LEMMA EchoChanges ==
    ASSUME EchoInv, Echoes
    PROVE  /\ UNCHANGED <<phase, edge, fdConn, watched, incoming_conn_fd, activeConnections,
                          stop_server, batch, conn_sock>>
           /\ ready' \in [Conns -> SUBSET Flags]
           /\ is_socket_IO' \in [Fds \cup {ListenFd} -> BOOLEAN]
           /\ \A f \in Fds : is_socket_IO[f] => is_socket_IO'[f]
           /\ ioDone' \in {ioDone, ioDone \cup {call.conn}}
           /\ ioDone' # ioDone => (use_smart_close => is_socket_IO'[call.fd])
<1> USE DEF kernelVars, serverVars, ioVars, loopVars, Echoes
<1>1. /\ UNCHANGED <<phase, edge, fdConn, watched, incoming_conn_fd, activeConnections,
                     stop_server, batch, conn_sock>>
  BY Zenon DEF AppRead, AppWrite, AppWriteFails, AppSleep
<1>2. /\ is_socket_IO \in [Fds \cup {ListenFd} -> BOOLEAN] /\ ready \in [Conns -> SUBSET Flags]
  BY Zenon DEF EchoInv, TypeOK, ELTypeOK
<1>3. ready' = ready \/ ready' = [ready EXCEPT ![fdConn[call.fd]] = @ \ {"IN"}]
        \/ ready' = [ready EXCEPT ![fdConn[call.fd]] = @ \ {"OUT"}]
  BY Zenon DEF AppRead, AppWrite, AppWriteFails, AppSleep
<1>4. ready' \in [Conns -> SUBSET Flags]
  BY <1>2, <1>3
<1>5. set_IO(call.fd) \/ (is_socket_IO' = is_socket_IO /\ ioDone' = ioDone)
  BY Zenon DEF AppRead, AppWrite, AppWriteFails, AppSleep
<1>6. /\ is_socket_IO' \in [Fds \cup {ListenFd} -> BOOLEAN]
      /\ \A f \in Fds : is_socket_IO[f] => is_socket_IO'[f]
  BY Zenon, <1>2, <1>5 DEF set_IO
<1>7. call.fd \in Fds /\ fdConn[call.fd] = call.conn
  BY Zenon, EchoConn DEF Open
<1>8. ioDone' \in {ioDone, ioDone \cup {call.conn}}
  BY Zenon, <1>7 DEF AppRead, AppWrite, AppWriteFails, AppSleep
<1>9. ioDone' # ioDone => (use_smart_close => is_socket_IO'[call.fd])
  BY Zenon, <1>2, <1>5, <1>7 DEF set_IO
<1> QED
  BY Zenon, <1>1, <1>4, <1>6, <1>8, <1>9

\* The fields keep their types.
LEMMA TypeStep ==
    ASSUME EchoInv, [Next]_elVars
    PROVE  TypeOK'
<1> USE EventLoopAssumption
    DEF EchoInv, TypeOK, ELTypeOK, LoopLabels, kernelVars, serverVars, ioVars,
        loopVars, Goto
<1>1. CASE EpollWait
  BY <1>1, EpollEvents DEF EpollWait, EventType
<1>2. CASE Terminate \/ LoopThrows \/ LoopStop \/ Polled \/ BatchDone
  BY Zenon, <1>2 DEF Terminate, LoopThrows, LoopStop, Polled, BatchDone
<1>3. ASSUME NEW c \in Conns, ClientAct(c) PROVE TypeOK'
  <2>1. PICK flag \in Flags : Signal(c, flag)
    BY <1>3 DEF ClientAct, Flags
  <2> QED BY <1>3, <2>1 DEF ClientAct, Signal
<1>4. ASSUME NEW c \in Conns, Connect(c) \/ BacklogDrop(c)
      PROVE  TypeOK'
  BY <1>4 DEF Connect, Flags, BacklogDrop
<1>5. CASE AcceptAdd
  <2>1. conn_sock \in Fds /\ fdConn[conn_sock] \in Conns
    BY <1>5 DEF AcceptAdd, Stages, Accepting, Open
  <2>2. call' \in CallType
    BY <1>5, <2>1 DEF AcceptAdd, Callback, CallType, Jobs
  <2>3. is_socket_IO' \in [Fds \cup {ListenFd} -> BOOLEAN]
    BY Zenon, <1>5 DEF AcceptAdd, unset_IO
  <2> QED BY <1>5, <2>1, <2>2, <2>3 DEF AcceptAdd, Callback
<1>6. CASE AcceptInsert \/ SmartCloseDecrement \/ CloseSockets
  BY <1>6 DEF AcceptInsert, Stages, Accepting, Open, SmartCloseDecrement, CloseDecrement,
           CloseSockets, KernelClose
<1>7. ASSUME NEW e \in batch, SmartClose(e) PROVE TypeOK'
  <2>1. call' \in CallType
    BY Zenon, <1>7 DEF SmartClose, CallType, Jobs, EventType, BatchOnce
  <2>2. /\ phase' \in [Conns -> {"new", "backlog", "dropped", "open", "gone"}]
        /\ ready' \in [Conns -> SUBSET Flags]
        /\ fdConn' \in [Fds -> Conns \cup {None}]
        /\ edge' \subseteq Conns /\ watched' \subseteq Fds /\ incoming_conn_fd' \subseteq Fds
    BY Zenon, <1>7 DEF SmartClose, CloseExtract, KernelClose
  <2> QED BY Zenon, <1>7, <2>1, <2>2 DEF SmartClose, Take
<1>8. ASSUME NEW e \in batch, Dispatch(e) PROVE TypeOK'
  <2>1. JobOf(e.events) \in Jobs
    BY DEF JobOf, Jobs
  <2>2. call' \in CallType
    BY Zenon, <1>8, <2>1 DEF Dispatch, Callback, CallType, EventType, BatchOnce
  <2> QED BY <1>8, <2>2 DEF Dispatch, Take, Callback
<1>9. ASSUME NEW e \in batch, AcceptNone(e) \/ AcceptThrows(e) \/ Accept(e)
      PROVE  TypeOK'
  BY <1>9 DEF AcceptNone, Take, AcceptThrows, Accept, Backlog
<1>10. CASE Echoes
  <2>1. ioDone' \subseteq Conns
    BY Zenon, <1>10, EchoChanges, EchoConn
  <2>2. lpc' \in LoopLabels \cup {"appWrite", "appSleep", "appDecr"} /\ call' \in CallType \cup {None}
    BY Zenon, <1>10, EchoCall
  <2> QED
    BY ZenonT(40), <1>10, <2>1, <2>2, EchoChanges
<1>12. CASE AppIgnore \/ AppClose \/ AppCloseDecrement \/ AppWriteSignal
  BY <1>12 DEF AppIgnore, AppClose, CloseExtract, KernelClose, AppCloseDecrement,
           CloseDecrement, AppWriteSignal, set_IO
<1>13. CASE UNCHANGED elVars
  BY Zenon, <1>13 DEF elVars
<1> QED BY Zenon, <1>1, <1>2, <1>3, <1>4, <1>5, <1>6, <1>7, <1>8, <1>9, <1>10, <1>12, <1>13
        DEF Next, EnvStep, ListenerStep, LoopStep, AppStep, Echoes

\* The locals fit the place the listening thread is at.
LEMMA StagesStep ==
    ASSUME EchoInv, [Next]_elVars
    PROVE  Stages'
<1> USE EventLoopAssumption
    DEF EchoInv, Stages, InCall, Accepting, Open, kernelVars, serverVars, ioVars,
        loopVars, Goto
<1>1. CASE Terminate \/ LoopThrows \/ LoopStop \/ EpollWait \/ Polled \/ BatchDone
  BY Zenon, <1>1 DEF Terminate, LoopThrows, LoopStop, EpollWait, Pending, Backlog, Polled,
           BatchDone
<1>2. ASSUME NEW c \in Conns, Connect(c) PROVE Stages'
  <2>1. UNCHANGED <<fdConn, lpc, call, conn_sock>>
    BY Zenon, <1>2 DEF Connect
  <2>2. \A d \in Conns : phase[d] = "gone" => phase'[d] = "gone"
    BY <1>2 DEF Connect, TypeOK, ELTypeOK
  <2>3. lpc = "decr" => call.conn \in Conns
    BY DEF CallType
  <2> QED BY <2>1, <2>2, <2>3
<1>3. ASSUME NEW c \in Conns, ClientAct(c) PROVE Stages'
  BY <1>3 DEF ClientAct, Signal
<1>4. ASSUME NEW c \in Conns, BacklogDrop(c) PROVE Stages'
  BY <1>4 DEF BacklogDrop
<1>5. CASE AcceptAdd
  <2>1. conn_sock \in Fds /\ fdConn[conn_sock] \in Conns
    BY Zenon, <1>5 DEF AcceptAdd, TypeOK, ELTypeOK
  <2>2. call' \in CallType
    BY <1>5, <2>1 DEF AcceptAdd, Callback, CallType, Jobs
  <2> QED BY <1>5, <2>2 DEF AcceptAdd, Callback
<1>6. CASE AcceptInsert \/ SmartCloseDecrement \/ CloseSockets
  BY Zenon, <1>6 DEF AcceptInsert, SmartCloseDecrement, CloseDecrement, CloseSockets,
           KernelClose
<1>7. ASSUME NEW e \in batch, Accept(e) PROVE Stages'
  <2>1. PICK c \in Backlog, f \in Fds \ Open :
          fdConn' = [fdConn EXCEPT ![f] = c] /\ conn_sock' = f
    BY Zenon, <1>7 DEF Accept
  <2>2. fdConn'[f] = c /\ c # None
    BY Zenon, <2>1 DEF TypeOK, ELTypeOK, Backlog
  <2> QED BY <1>7, <2>1, <2>2 DEF Accept
<1>8. ASSUME NEW e \in batch, SmartClose(e) PROVE Stages'
  <2>1. call' \in CallType /\ call'.conn = e.conn /\ call'.job = "SOCKET_IS_CLOSED"
    BY Zenon, <1>8 DEF SmartClose, CallType, Jobs, EventType, BatchOnce, TypeOK, ELTypeOK
  <2>2. e.conn \in Conns /\ e.conn # None /\ fdConn[e.fd] = e.conn
    BY Zenon, <1>8 DEF SmartClose, BatchOnce, EventsFresh
  <2>3. phase'[e.conn] = "gone"
    BY Zenon, <1>8, <2>2 DEF SmartClose, CloseExtract, KernelClose
  <2> QED BY Zenon, <1>8, <2>1, <2>3 DEF SmartClose, Take
<1>9. ASSUME NEW e \in batch, Dispatch(e) PROVE Stages'
  <2>1. JobOf(e.events) \in Jobs
    BY Zenon DEF JobOf, Jobs
  <2>2. call' \in CallType
    BY Zenon, <1>9, <2>1 DEF Dispatch, Callback, CallType, EventType, BatchOnce, TypeOK, ELTypeOK
  <2> QED BY <1>9, <2>2 DEF Dispatch, Take, Callback
<1>10. ASSUME NEW e \in batch, AcceptNone(e) \/ AcceptThrows(e)
      PROVE  Stages'
  BY Zenon, <1>10 DEF AcceptNone, Take, AcceptThrows
<1>11. CASE AppIgnore \/ AppClose \/ AppCloseDecrement \/ AppWriteSignal
  BY Zenon, <1>11 DEF AppIgnore, AppClose, CloseExtract, KernelClose, AppCloseDecrement,
           CloseDecrement, set_IO, AppWriteSignal
<1>13. CASE Echoes
  BY ZenonT(40), <1>13, EchoCall, EchoChanges
<1>12. CASE UNCHANGED elVars
  BY <1>12 DEF elVars
<1> QED BY Zenon, <1>1, <1>2, <1>3, <1>4, <1>5, <1>6, <1>7, <1>8, <1>9, <1>10, <1>11, <1>12,
           <1>13
        DEF Next, EnvStep, ListenerStep, LoopStep, AppStep, Echoes

\* What close(2) of some descriptors leaves of the others.
LEMMA Closed ==
    ASSUME TypeOK, NEW F \in SUBSET Fds, KernelClose(F)
    PROVE  /\ Open' = Open \ F
           /\ \A f \in Open' : fdConn'[f] = fdConn[f]
           /\ \A c \in Conns : phase'[c] = IF \E f \in F : fdConn[f] = c THEN "gone" ELSE phase[c]
<1>1. fdConn \in [Fds -> Conns \cup {None}] /\ None \notin Conns
  BY EventLoopAssumption DEF TypeOK, ELTypeOK
<1>2. fdConn' = [f \in Fds |-> IF f \in F THEN None ELSE fdConn[f]]
  BY DEF KernelClose
<1>3. \A c \in Conns : phase'[c] = IF c \in {fdConn[f] : f \in F} \ {None} THEN "gone" ELSE phase[c]
  BY DEF KernelClose
<1> QED BY <1>1, <1>2, <1>3 DEF Open

\* The same of one descriptor: its connection is gone, and no other.
LEMMA ClosedOne ==
    ASSUME TypeOK, NEW g \in Fds, KernelClose({g})
    PROVE  \A c \in Conns : phase'[c] = IF c = fdConn[g] THEN "gone" ELSE phase[c]
<1>1. {g} \in SUBSET Fds
  OBVIOUS
<1>2. \A c \in Conns : phase'[c] = IF \E f \in {g} : fdConn[f] = c THEN "gone" ELSE phase[c]
  BY Zenon, <1>1, Closed
<1> QED BY Zenon, <1>2

\* accept4 gives a free descriptor to a connection that had none.
LEMMA Accepted ==
    ASSUME TypeOK, NEW e, Accept(e)
    PROVE  \E c \in Conns, f \in Fds \ Open :
             /\ phase[c] = "backlog" /\ phase' = [phase EXCEPT ![c] = "open"]
             /\ conn_sock' = f /\ fdConn'[f] = c
             /\ Open' = Open \cup {f}
             /\ \A g \in Open : fdConn'[g] = fdConn[g]
<1>1. PICK c \in Conns, f \in Fds \ Open :
        /\ phase[c] = "backlog"
        /\ fdConn' = [fdConn EXCEPT ![f] = c]
        /\ phase' = [phase EXCEPT ![c] = "open"]
        /\ conn_sock' = f
  BY Zenon DEF Accept, Backlog
<1>2. c # None
  BY EventLoopAssumption
<1>3. fdConn \in [Fds -> Conns \cup {None}]
  BY DEF TypeOK, ELTypeOK
<1>4. fdConn'[f] = c /\ \A g \in Fds \ {f} : fdConn'[g] = fdConn[g]
  BY <1>1, <1>3
<1>5. Open' = Open \cup {f} /\ f \notin Open
  BY <1>1, <1>2, <1>4 DEF Open
<1> WITNESS c \in Conns, f \in Fds \ Open
<1> QED BY <1>1, <1>2, <1>4, <1>5

\* Closing descriptors keeps connections and descriptors one to one.
LEMMA ClosedOneFd ==
    ASSUME TypeOK, OneFd, NEW F \in SUBSET Fds, KernelClose(F)
    PROVE  OneFd'
<1>1. /\ Open' = Open \ F
      /\ \A f \in Open' : fdConn'[f] = fdConn[f]
      /\ \A c \in Conns : phase'[c] = IF \E f \in F : fdConn[f] = c THEN "gone" ELSE phase[c]
  BY Closed
<1>2. \A f \in F : fdConn[f] \in Conns => f \in Open
  BY EventLoopAssumption DEF Open
<1>3. \A f, g \in Open' : fdConn'[f] = fdConn'[g] => f = g
  BY <1>1 DEF OneFd
<1>4. ASSUME NEW c \in Conns
      PROVE  phase'[c] = "open" <=> \E f \in Open' : fdConn'[f] = c
  <2>1. CASE \E f \in F : fdConn[f] = c
    BY <1>1, <1>2, <2>1 DEF OneFd
  <2>2. CASE ~ \E f \in F : fdConn[f] = c
    BY <1>1, <2>2 DEF OneFd
  <2> QED BY <2>1, <2>2
<1> QED BY <1>3, <1>4 DEF OneFd

\* Open connections and descriptors correspond one to one.
LEMMA OneFdStep ==
    ASSUME EchoInv, [Next]_elVars
    PROVE  OneFd'
<1> USE EventLoopAssumption
    DEF EchoInv, kernelVars, serverVars, ioVars, loopVars, Goto
<1>1. CASE Terminate \/ LoopThrows \/ LoopStop \/ EpollWait \/ Polled \/ BatchDone
  <2>1. fdConn' = fdConn /\ phase' = phase
    BY Zenon, <1>1 DEF Terminate, LoopThrows, LoopStop, EpollWait, Polled, BatchDone
  <2> QED BY Zenon, <2>1 DEF OneFd, Open
<1>2. ASSUME NEW c \in Conns, Connect(c) \/ BacklogDrop(c) \/ ClientAct(c)
      PROVE  OneFd'
  <2>1. fdConn' = fdConn
    BY Zenon, <1>2 DEF Connect, BacklogDrop, ClientAct
  <2>2. \A d \in Conns : phase'[d] = "open" <=> phase[d] = "open"
    BY <1>2 DEF Connect, BacklogDrop, ClientAct, TypeOK, ELTypeOK
  <2> QED BY <2>1, <2>2 DEF OneFd, Open
<1>3. CASE CloseSockets
  <2>1. incoming_conn_fd \in SUBSET Fds /\ KernelClose(incoming_conn_fd)
    BY Zenon, <1>3 DEF CloseSockets, TypeOK, ELTypeOK
  <2> QED BY <2>1, ClosedOneFd
<1>4. CASE AcceptInsert \/ AcceptAdd \/ SmartCloseDecrement
  <2>1. fdConn' = fdConn /\ phase' = phase
    BY Zenon, <1>4 DEF AcceptInsert, AcceptAdd, SmartCloseDecrement
  <2> QED BY ZenonT(40), <2>1 DEF OneFd, Open
<1>5. ASSUME NEW e \in batch, Accept(e) PROVE OneFd'
  <2>1. PICK c \in Conns, f \in Fds \ Open :
          /\ phase[c] = "backlog" /\ phase' = [phase EXCEPT ![c] = "open"]
          /\ conn_sock' = f /\ fdConn'[f] = c
          /\ Open' = Open \cup {f}
          /\ \A g \in Open : fdConn'[g] = fdConn[g]
    BY Zenon, <1>5, Accepted DEF EchoInv
  <2>2. \A d \in Conns : phase'[d] = IF d = c THEN "open" ELSE phase[d]
    BY Zenon, <2>1 DEF TypeOK, ELTypeOK
  <2>3. \A g \in Open : fdConn[g] # c
    BY <2>1 DEF OneFd
  <2> QED BY <2>1, <2>2, <2>3 DEF OneFd
<1>6. ASSUME NEW e \in batch, SmartClose(e) PROVE OneFd'
  <2>1. {e.fd} \in SUBSET Fds /\ KernelClose({e.fd})
    BY Zenon, <1>6 DEF SmartClose, CloseExtract
  <2> QED BY Zenon, <2>1, ClosedOneFd
<1>7. ASSUME NEW e \in batch, AcceptNone(e) \/ AcceptThrows(e) \/ Dispatch(e)
      PROVE  OneFd'
  <2>1. fdConn' = fdConn /\ phase' = phase
    BY <1>7 DEF AcceptNone, AcceptThrows, Dispatch
  <2> QED BY Zenon, <2>1 DEF OneFd, Open
<1>8. CASE AppClose
  <2>1. {call.fd} \in SUBSET Fds /\ KernelClose({call.fd})
    BY Zenon, <1>8 DEF AppClose, CloseExtract, Stages, InCall, CallType
  <2> QED BY <2>1, ClosedOneFd
<1>9. CASE AppIgnore \/ AppCloseDecrement \/ Echoes \/ AppWriteSignal
  <2>1. fdConn' = fdConn /\ phase' = phase
    BY Zenon, <1>9, EchoChanges DEF AppIgnore, AppCloseDecrement, AppWriteSignal
  <2> QED BY <2>1 DEF OneFd, Open
<1>10. CASE UNCHANGED elVars
  <2>1. fdConn' = fdConn /\ phase' = phase
    BY Zenon, <1>10 DEF elVars
  <2> QED BY <2>1 DEF OneFd, Open
<1> QED BY Zenon, <1>1, <1>2, <1>3, <1>4, <1>5, <1>6, <1>7, <1>8, <1>9, <1>10
        DEF Next, EnvStep, ListenerStep, LoopStep, AppStep, Echoes

\* The events of a batch are for different descriptors, and not for the one
\* being handled.
LEMMA BatchOnceStep ==
    ASSUME EchoInv, [Next]_elVars
    PROVE  BatchOnce'
<1> USE EventLoopAssumption
    DEF EchoInv, BatchOnce, InCall, Accepting, kernelVars, serverVars, ioVars,
        loopVars, Goto
<1>1. CASE EpollWait
  BY Zenon, <1>1, EpollEvents DEF EpollWait
<1>2. CASE Terminate \/ LoopThrows \/ LoopStop \/ Polled \/ BatchDone
  BY Zenon, <1>2 DEF Terminate, LoopThrows, LoopStop, Polled, BatchDone
<1>3. ASSUME NEW c \in Conns, Connect(c) \/ BacklogDrop(c) \/ ClientAct(c)
      PROVE  BatchOnce'
  BY Zenon, <1>3 DEF Connect, BacklogDrop, ClientAct, Signal
<1>4. CASE AcceptInsert \/ AcceptAdd \/ SmartCloseDecrement \/ CloseSockets
  <2>1. CASE AcceptInsert
    BY Zenon, <2>1 DEF AcceptInsert
  <2>2. CASE AcceptAdd
    BY ZenonT(40), <2>2 DEF AcceptAdd, Callback
  <2>3. CASE SmartCloseDecrement
    BY <2>3 DEF SmartCloseDecrement
  <2>4. CASE CloseSockets
    BY Zenon, <2>4 DEF CloseSockets
  <2> QED BY Zenon, <1>4, <2>1, <2>2, <2>3, <2>4
<1>5. ASSUME NEW e \in batch, Accept(e) PROVE BatchOnce'
  <2>1. PICK c \in Conns, f \in Fds \ Open :
          /\ phase[c] = "backlog" /\ phase' = [phase EXCEPT ![c] = "open"]
          /\ conn_sock' = f /\ fdConn'[f] = c
          /\ Open' = Open \cup {f}
          /\ \A g \in Open : fdConn'[g] = fdConn[g]
    BY ZenonT(40), <1>5, Accepted DEF EchoInv
  <2>2. \A d \in batch : d.fd # f
    BY <2>1 DEF EventsFresh, Open
  <2> QED BY Zenon, <1>5, <2>1, <2>2 DEF Accept, Take
<1>6. ASSUME NEW e \in batch, AcceptNone(e) \/ AcceptThrows(e) \/ SmartClose(e) \/ Dispatch(e)
      PROVE  BatchOnce'
  <2>1. lpc = "dispatch" /\ batch' = batch \ {e} /\ lpc' \notin {"closing", "insert", "add"}
    BY ZenonT(40), <1>6 DEF AcceptNone, Take, AcceptThrows, SmartClose, Dispatch, Callback
  <2>2. lpc' \in InCall => call'.fd = e.fd
    BY SMTT(30), <1>6 DEF AcceptNone, Take, AcceptThrows, SmartClose, Dispatch, Callback
  <2> QED BY Zenon, <2>1, <2>2
<1>7. CASE AppIgnore \/ AppClose \/ AppCloseDecrement \/ AppWriteSignal
  BY <1>7 DEF AppIgnore, AppClose, AppCloseDecrement, CloseDecrement, set_IO, AppWriteSignal
<1>9. CASE Echoes
  BY ZenonT(40), <1>9, EchoCall, EchoChanges
<1>8. CASE UNCHANGED elVars
  BY Zenon, <1>8 DEF elVars
<1> QED BY Zenon, <1>1, <1>2, <1>3, <1>4, <1>5, <1>6, <1>7, <1>8, <1>9
        DEF Next, EnvStep, ListenerStep, LoopStep, AppStep, Echoes

\* No event reaches another connection than its own.
LEMMA EventsFreshStep ==
    ASSUME EchoInv, [Next]_elVars
    PROVE  EventsFresh'
<1> USE EventLoopAssumption
    DEF EchoInv, EventsFresh, kernelVars, serverVars, ioVars, loopVars, Goto
<1>1. CASE EpollWait
  BY Zenon, <1>1, EpollEvents DEF EpollWait
<1>2. CASE Terminate \/ LoopThrows \/ LoopStop \/ Polled \/ BatchDone
  BY Zenon, <1>2 DEF Terminate, LoopThrows, LoopStop, Polled, BatchDone
<1>3. ASSUME NEW c \in Conns, Connect(c) \/ BacklogDrop(c) \/ ClientAct(c)
      PROVE  EventsFresh'
  BY Zenon, <1>3 DEF Connect, BacklogDrop, ClientAct, Signal
<1>4. CASE AcceptInsert \/ AcceptAdd \/ SmartCloseDecrement \/ CloseSockets
  <2>1. CASE AcceptInsert
    BY Zenon, <2>1 DEF AcceptInsert
  <2>2. CASE AcceptAdd
    BY Zenon, <2>2 DEF AcceptAdd, Callback
  <2>3. CASE SmartCloseDecrement
    BY Zenon, <2>3 DEF SmartCloseDecrement, Stages
  <2>4. CASE CloseSockets
    BY Zenon, <2>4 DEF CloseSockets, BatchOnce
  <2> QED BY Zenon, <1>4, <2>1, <2>2, <2>3, <2>4
<1>5. ASSUME NEW e \in batch, Accept(e) PROVE EventsFresh'
  <2>1. PICK c \in Conns, f \in Fds \ Open :
          /\ phase[c] = "backlog" /\ phase' = [phase EXCEPT ![c] = "open"]
          /\ conn_sock' = f /\ fdConn'[f] = c
          /\ Open' = Open \cup {f}
          /\ \A g \in Open : fdConn'[g] = fdConn[g]
    BY Zenon, <1>5, Accepted DEF EchoInv
  <2>2. \A d \in batch : d.fd \in Fds => d.fd \in Open
    BY DEF BatchOnce, Open
  <2> QED BY Zenon, <1>5, <2>1, <2>2 DEF Accept, Take
<1>6. ASSUME NEW e \in batch, SmartClose(e) PROVE EventsFresh'
  <2>1. {e.fd} \in SUBSET Fds /\ KernelClose({e.fd})
    BY <1>6 DEF SmartClose, CloseExtract
  <2>2. \A d \in batch' : d.fd # e.fd /\ (d.fd \in Fds => d.fd \in Open)
    BY Zenon, <1>6 DEF SmartClose, Take, BatchOnce, Open
  <2>3. \A d \in batch' : d \in batch
    BY Zenon, <1>6 DEF SmartClose, Take
  <2>4. \A d \in batch' : d.fd \in Fds => fdConn'[d.fd] = fdConn[d.fd]
    BY <2>1, <2>2, Closed
  <2>5. lpc' = "decr"
    BY <1>6 DEF SmartClose
  <2> QED BY Zenon, <2>3, <2>4, <2>5
<1>7. ASSUME NEW e \in batch, AcceptNone(e) \/ AcceptThrows(e) \/ Dispatch(e)
      PROVE  EventsFresh'
  <2>1. fdConn' = fdConn /\ batch' \subseteq batch /\ lpc = "dispatch"
    BY ZenonT(40), <1>7 DEF AcceptNone, Take, AcceptThrows, Dispatch
  <2>2. lpc' = "callback" => e.fd \in Fds /\ call'.fd = e.fd /\ call'.conn = e.conn
    BY <1>7 DEF AcceptNone, Take, AcceptThrows, Dispatch, Callback
  <2>3. lpc' \notin {"appWrite", "appSleep"}
    BY Zenon, <1>7 DEF AcceptNone, Take, AcceptThrows, Dispatch, Callback
  <2> QED BY Zenon, <2>1, <2>2, <2>3
<1>8. CASE AppClose
  <2>1. {call.fd} \in SUBSET Fds /\ KernelClose({call.fd})
    BY <1>8 DEF AppClose, CloseExtract, Stages, InCall, CallType
  <2>2. \A d \in batch : d.fd # call.fd /\ (d.fd \in Fds => d.fd \in Open)
    BY Zenon, <1>8 DEF AppClose, BatchOnce, InCall, Open
  <2>3. \A d \in batch : d.fd \in Fds => fdConn'[d.fd] = fdConn[d.fd]
    <3>1. TypeOK
      OBVIOUS
    <3>2. Open' = Open \ {call.fd} /\ \A f \in Open' : fdConn'[f] = fdConn[f]
      BY Zenon, <2>1, <3>1, Closed
    <3> QED BY Zenon, <2>2, <3>2
  <2>4. batch' = batch /\ lpc' = "appDecr"
    BY <1>8 DEF AppClose
  <2> QED BY ZenonT(40), <2>3, <2>4
<1>9. CASE AppIgnore \/ AppCloseDecrement \/ AppWriteSignal
  BY Zenon, <1>9 DEF AppIgnore, AppCloseDecrement, CloseDecrement, AppWriteSignal, set_IO
<1>11. CASE Echoes
  <2>1. fdConn' = fdConn /\ batch' = batch
    BY Zenon, <1>11, EchoChanges
  <2>2. lpc' = "dispatch" \/ (call'.fd = call.fd /\ call'.conn = call.conn)
    BY Zenon, <1>11, EchoCall
  <2>3. fdConn[call.fd] = call.conn
    BY Zenon, <1>11, EchoConn
  <2> QED
    BY ZenonT(40), <2>1, <2>2, <2>3
<1>10. CASE UNCHANGED elVars
  BY Zenon, <1>10 DEF elVars
<1> QED BY Zenon, <1>1, <1>2, <1>3, <1>4, <1>5, <1>6, <1>7, <1>8, <1>9, <1>10, <1>11
        DEF Next, EnvStep, ListenerStep, LoopStep, AppStep, Echoes

\* incoming_conn_fd follows the open descriptors.
LEMMA FdsTrackedStep ==
    ASSUME EchoInv, [Next]_elVars
    PROVE  FdsTracked'
<1> USE EventLoopAssumption
    DEF EchoInv, FdsTracked, kernelVars, serverVars, ioVars, loopVars, Goto
<1>1. CASE Terminate \/ LoopThrows \/ LoopStop \/ EpollWait \/ Polled \/ BatchDone
  BY <1>1 DEF Terminate, Open, LoopThrows, LoopStop, EpollWait, Polled, BatchDone
<1>2. ASSUME NEW c \in Conns, Connect(c) \/ BacklogDrop(c) \/ ClientAct(c)
      PROVE  FdsTracked'
  BY Zenon, <1>2 DEF Connect, Open, BacklogDrop, ClientAct
<1>3. CASE CloseSockets
  <2>1. incoming_conn_fd \in SUBSET Fds /\ KernelClose(incoming_conn_fd)
    BY Zenon, <1>3 DEF CloseSockets, TypeOK, ELTypeOK
  <2>2. Open' = Open \ incoming_conn_fd
    BY <2>1, Closed
  <2> QED BY Zenon, <1>3, <2>2 DEF CloseSockets
<1>4. CASE AcceptInsert \/ AcceptAdd \/ SmartCloseDecrement
  BY Zenon, <1>4 DEF AcceptInsert, Open, AcceptAdd, Callback, SmartCloseDecrement
<1>5. ASSUME NEW e \in batch, Accept(e) PROVE FdsTracked'
  <2>1. PICK c \in Conns, f \in Fds \ Open :
          /\ phase[c] = "backlog" /\ phase' = [phase EXCEPT ![c] = "open"]
          /\ conn_sock' = f /\ fdConn'[f] = c
          /\ Open' = Open \cup {f}
          /\ \A g \in Open : fdConn'[g] = fdConn[g]
    BY <1>5, Accepted DEF EchoInv
  <2> QED BY Zenon, <1>5, <2>1 DEF Accept, Take
<1>6. ASSUME NEW e \in batch, SmartClose(e) PROVE FdsTracked'
  <2>1. {e.fd} \in SUBSET Fds /\ KernelClose({e.fd})
    BY Zenon, <1>6 DEF SmartClose, CloseExtract
  <2>2. Open' = Open \ {e.fd}
    BY ZenonT(40), <2>1, Closed
  <2> QED BY Zenon, <1>6, <2>2 DEF SmartClose, CloseExtract, Take
<1>7. ASSUME NEW e \in batch, AcceptNone(e) \/ AcceptThrows(e) \/ Dispatch(e)
      PROVE  FdsTracked'
  BY <1>7 DEF AcceptNone, Open, AcceptThrows, Take, Dispatch, Callback
<1>8. CASE AppClose
  <2>1. {call.fd} \in SUBSET Fds /\ KernelClose({call.fd})
    BY Zenon, <1>8 DEF AppClose, CloseExtract, Stages, InCall, CallType
  <2>2. Open' = Open \ {call.fd}
    BY <2>1, Closed
  <2> QED BY Zenon, <1>8, <2>2 DEF AppClose, CloseExtract
<1>9. CASE AppIgnore \/ AppCloseDecrement \/ AppWriteSignal
  BY Zenon, <1>9 DEF AppIgnore, Open, AppCloseDecrement, AppWriteSignal
<1>11. CASE Echoes
  <2>1. lpc # "insert" /\ lpc' # "insert"
    BY Zenon, <1>11, EchoCall
  <2> QED
    BY ZenonT(40), <1>11, <2>1, EchoChanges DEF Open
<1>10. CASE UNCHANGED elVars
  BY Zenon, <1>10 DEF elVars, Open
<1> QED BY ZenonT(40), <1>1, <1>2, <1>3, <1>4, <1>5, <1>6, <1>7, <1>8, <1>9, <1>10, <1>11
        DEF Next, EnvStep, ListenerStep, LoopStep, AppStep, Echoes

\* activeConnections follows the open connections.
LEMMA CountExactStep ==
    ASSUME EchoInv, [Next]_elVars
    PROVE  CountExact'
<1> USE EventLoopAssumption
    DEF EchoInv, CountExact, kernelVars, serverVars, ioVars, loopVars, Goto
<1> IsFiniteSet(Open) /\ Cardinality(Open) \in Nat
  <2>1. Open \subseteq Fds
    BY DEF Open
  <2> QED BY Zenon, <2>1, FS_Subset, FS_CardinalityType
<1> fdConn' = fdConn => Open' = Open
  BY DEF Open
<1>1. CASE Terminate \/ LoopThrows \/ LoopStop \/ EpollWait \/ Polled \/ BatchDone
  BY Zenon, <1>1 DEF Terminate, TypeOK, ELTypeOK, LoopThrows, LoopStop, EpollWait, Polled,
           BatchDone
<1>2. ASSUME NEW c \in Conns, Connect(c) \/ BacklogDrop(c) \/ ClientAct(c)
      PROVE  CountExact'
  BY Zenon, <1>2 DEF Connect, TypeOK, ELTypeOK, BacklogDrop, ClientAct
<1>3. CASE AcceptInsert \/ AcceptAdd \/ SmartCloseDecrement \/ CloseSockets
  <2>1. activeConnections \in Int
    BY DEF TypeOK, ELTypeOK
  <2>2. CASE AcceptInsert
    BY Zenon, <2>1, <2>2 DEF AcceptInsert
  <2>3. CASE AcceptAdd
    BY <2>1, <2>3 DEF AcceptAdd, Callback
  <2>4. CASE SmartCloseDecrement
    BY <2>1, <2>4 DEF SmartCloseDecrement, CloseDecrement
  <2>5. CASE CloseSockets
    BY <2>5 DEF CloseSockets
  <2> QED BY Zenon, <1>3, <2>2, <2>3, <2>4, <2>5
<1>4. ASSUME NEW e \in batch, Accept(e) PROVE CountExact'
  <2>1. PICK c \in Conns, f \in Fds \ Open :
          /\ phase[c] = "backlog" /\ phase' = [phase EXCEPT ![c] = "open"]
          /\ conn_sock' = f /\ fdConn'[f] = c
          /\ Open' = Open \cup {f}
          /\ \A g \in Open : fdConn'[g] = fdConn[g]
    BY <1>4, Accepted DEF EchoInv
  <2>2. Cardinality(Open') = Cardinality(Open) + 1
    BY Zenon, <2>1, FS_AddElement
  <2>3. activeConnections' = activeConnections /\ lpc = "dispatch" /\ lpc' = "insert"
    BY <1>4 DEF Accept, Take
  <2> QED BY <2>2, <2>3
<1>5. ASSUME NEW e \in batch, SmartClose(e) PROVE CountExact'
  <2>1. {e.fd} \in SUBSET Fds /\ KernelClose({e.fd})
    BY Zenon, <1>5 DEF SmartClose, CloseExtract
  <2>2. Open' = Open \ {e.fd}
    BY Zenon, <2>1, Closed
  <2>3. e.fd \in Open
    BY <2>1 DEF EventsFresh, BatchOnce, Open
  <2>4. Cardinality(Open') = Cardinality(Open) - 1
    BY Zenon, <2>2, <2>3, FS_RemoveElement
  <2>5. activeConnections' = activeConnections /\ lpc = "dispatch" /\ lpc' = "decr"
    BY <1>5 DEF SmartClose, Take
  <2> QED BY <2>4, <2>5
<1>6. ASSUME NEW e \in batch, AcceptNone(e) \/ AcceptThrows(e) \/ Dispatch(e)
      PROVE  CountExact'
  BY Zenon, <1>6 DEF AcceptNone, Take, TypeOK, ELTypeOK, AcceptThrows, Dispatch, Callback
<1>7. CASE AppClose
  <2>1. {call.fd} \in SUBSET Fds /\ KernelClose({call.fd})
    BY Zenon, <1>7 DEF AppClose, CloseExtract, Stages, InCall, CallType
  <2>2. Open' = Open \ {call.fd}
    BY ZenonT(40), <2>1, Closed
  <2>3. call.fd \in Open
    BY <1>7, <2>1 DEF AppClose, EventsFresh, Stages, InCall, CallType, Open
  <2>4. Cardinality(Open') = Cardinality(Open) - 1
    BY Zenon, <2>2, <2>3, FS_RemoveElement
  <2>5. activeConnections' = activeConnections /\ lpc = "callback" /\ lpc' = "appDecr"
    BY <1>7 DEF AppClose
  <2> QED BY <2>4, <2>5
<1>8. CASE AppIgnore \/ AppCloseDecrement \/ Echoes \/ AppWriteSignal
  <2>1. activeConnections \in Int
    BY DEF TypeOK, ELTypeOK
  <2>2. CASE AppCloseDecrement
    BY <2>1, <2>2 DEF AppCloseDecrement, CloseDecrement
  <2>3. CASE AppIgnore \/ AppWriteSignal
    BY Zenon, <2>3 DEF AppIgnore, AppWriteSignal
  <2>4. CASE Echoes
    <3>1. lpc \notin {"insert", "add", "decr", "appDecr", "stopped", "dead"}
          /\ lpc' \notin {"insert", "add", "decr", "appDecr"}
      BY Zenon, <2>4, EchoCall
    <3> QED
      BY ZenonT(40), <2>4, <3>1, EchoChanges
  <2> QED BY Zenon, <1>8, <2>2, <2>3, <2>4
<1>9. CASE UNCHANGED elVars
  BY <1>9 DEF elVars, Open
<1> QED BY Zenon, <1>1, <1>2, <1>3, <1>4, <1>5, <1>6, <1>7, <1>8, <1>9
        DEF Next, EnvStep, ListenerStep, LoopStep, AppStep, Echoes

\* is_socket_IO of an open connection with I/O is set.
LEMMA IOMarkedStep ==
    ASSUME EchoInv, [Next]_elVars
    PROVE  IOMarked'
<1> USE EventLoopAssumption
    DEF EchoInv, IOMarked, kernelVars, serverVars, ioVars, loopVars, Goto
<1>1. CASE Terminate \/ LoopThrows \/ LoopStop \/ EpollWait \/ Polled \/ BatchDone
  BY ZenonT(40), <1>1 DEF Terminate, Open, LoopThrows, LoopStop, EpollWait, Polled, BatchDone
<1>2. ASSUME NEW c \in Conns, Connect(c) \/ BacklogDrop(c) \/ ClientAct(c)
      PROVE  IOMarked'
  BY <1>2 DEF Connect, Open, TypeOK, ELTypeOK, BacklogDrop, ClientAct
<1>3. CASE AcceptAdd
  <2>1. \A f \in Fds : is_socket_IO'[f] = is_socket_IO[f]
    BY <1>3 DEF AcceptAdd, unset_IO, TypeOK, ELTypeOK
  <2> QED BY Zenon, <1>3, <2>1 DEF AcceptAdd, Open
<1>4. CASE CloseSockets
  <2>1. incoming_conn_fd \in SUBSET Fds /\ KernelClose(incoming_conn_fd)
    BY Zenon, <1>4 DEF CloseSockets, TypeOK, ELTypeOK
  <2>2. ioDone' = ioDone /\ is_socket_IO' = is_socket_IO /\ ioDone \subseteq Conns
    BY Zenon, <1>4 DEF CloseSockets, TypeOK, ELTypeOK
  <2>3. \A c \in Conns : phase[c] \in {"open", "gone"} => phase'[c] \in {"open", "gone"}
    BY Zenon, <2>1, Closed
  <2>4. \A f \in Open' : f \in Open /\ fdConn'[f] = fdConn[f]
    BY ZenonT(40), <2>1, Closed
  <2> QED BY Zenon, <2>2, <2>3, <2>4
<1>5. CASE AcceptInsert \/ SmartCloseDecrement
  BY Zenon, <1>5 DEF AcceptInsert, Open, SmartCloseDecrement
<1>6. ASSUME NEW e \in batch, Accept(e) PROVE IOMarked'
  <2>1. PICK c \in Conns, f \in Fds \ Open :
          /\ phase[c] = "backlog" /\ phase' = [phase EXCEPT ![c] = "open"]
          /\ conn_sock' = f /\ fdConn'[f] = c
          /\ Open' = Open \cup {f}
          /\ \A g \in Open : fdConn'[g] = fdConn[g]
    BY Zenon, <1>6, Accepted DEF EchoInv
  <2>2. c \notin ioDone
    BY Zenon, <2>1
  <2>3. \A d \in Conns : phase'[d] = IF d = c THEN "open" ELSE phase[d]
    BY Zenon, <2>1 DEF TypeOK, ELTypeOK
  <2>4. ioDone' = ioDone /\ is_socket_IO' = is_socket_IO /\ ioDone \subseteq Conns
    BY Zenon, <1>6 DEF Accept, TypeOK, ELTypeOK
  <2> QED BY ZenonT(40), <2>1, <2>2, <2>3, <2>4
<1>7. ASSUME NEW e \in batch, SmartClose(e) PROVE IOMarked'
  <2>1. {e.fd} \in SUBSET Fds /\ KernelClose({e.fd})
    BY ZenonT(40), <1>7 DEF SmartClose, CloseExtract
  <2>2. ioDone' = ioDone /\ is_socket_IO' = is_socket_IO /\ ioDone \subseteq Conns
    BY <1>7 DEF SmartClose, TypeOK, ELTypeOK
  <2>3. \A c \in Conns : phase[c] \in {"open", "gone"} => phase'[c] \in {"open", "gone"}
    BY Zenon, <2>1, Closed
  <2>4. \A f \in Open' : f \in Open /\ fdConn'[f] = fdConn[f]
    BY ZenonT(40), <2>1, Closed
  <2> QED BY Zenon, <2>2, <2>3, <2>4
<1>8. ASSUME NEW e \in batch, AcceptNone(e) \/ AcceptThrows(e) \/ Dispatch(e)
      PROVE  IOMarked'
  BY Zenon, <1>8 DEF AcceptNone, Open, AcceptThrows, Dispatch
<1>9. CASE AppClose
  <2>1. {call.fd} \in SUBSET Fds /\ KernelClose({call.fd})
    BY Zenon, <1>9 DEF AppClose, CloseExtract, Stages, InCall, CallType
  <2>2. ioDone' = ioDone /\ is_socket_IO' = is_socket_IO /\ ioDone \subseteq Conns
    BY <1>9 DEF AppClose, TypeOK, ELTypeOK
  <2>3. \A c \in Conns : phase[c] \in {"open", "gone"} => phase'[c] \in {"open", "gone"}
    BY Zenon, <2>1, Closed
  <2>4. \A f \in Open' : f \in Open /\ fdConn'[f] = fdConn[f]
    BY ZenonT(40), <2>1, Closed
  <2> QED BY <2>2, <2>3, <2>4
<1>10. CASE Echoes
  <2>1. /\ call.fd \in Open /\ fdConn[call.fd] = call.conn /\ phase[call.conn] = "open"
    BY Zenon, <1>10, EchoConn
  <2>2. \A f \in Open : fdConn[f] = call.conn => f = call.fd
    BY <2>1 DEF OneFd
  <2>3. phase' = phase /\ fdConn' = fdConn /\ Open' = Open
    BY Zenon, <1>10, EchoChanges DEF Open
  <2>4. /\ \A f \in Fds : is_socket_IO[f] => is_socket_IO'[f]
        /\ ioDone' \in {ioDone, ioDone \cup {call.conn}}
        /\ ioDone' # ioDone => (use_smart_close => is_socket_IO'[call.fd])
    BY Zenon, <1>10, EchoChanges
  <2>5. \A f \in Open : f \in Fds
    BY Zenon DEF Open
  <2>6. CASE ioDone' = ioDone
    BY Zenon, <2>3, <2>4, <2>5, <2>6
  <2>7. CASE ioDone' # ioDone
    BY ZenonT(40), <2>1, <2>2, <2>3, <2>4, <2>5, <2>7
  <2> QED
    BY Zenon, <2>6, <2>7
<1>12. CASE AppWriteSignal
  <2>1. \A f \in Fds : is_socket_IO[f] => is_socket_IO'[f]
    BY Zenon, <1>12 DEF AppWriteSignal, set_IO, TypeOK, ELTypeOK
  <2> QED BY Zenon, <1>12, <2>1 DEF AppWriteSignal, Open
<1>13. CASE AppIgnore \/ AppCloseDecrement
  BY Zenon, <1>13 DEF AppIgnore, Open, AppCloseDecrement
<1>14. CASE UNCHANGED elVars
  BY Zenon, <1>14 DEF elVars, Open
<1> QED BY ZenonT(40), <1>1, <1>2, <1>3, <1>4, <1>5, <1>6, <1>7, <1>8, <1>9, <1>10, <1>12, <1>13,
           <1>14
        DEF Next, EnvStep, ListenerStep, LoopStep, AppStep, Echoes

\* A connection that the server closes by itself has had no I/O.
LEMMA SmartCloseStep ==
    ASSUME EchoInv, [Next]_elVars
    PROVE  SmartCloseOnlyUnused'
<1> USE EventLoopAssumption
    DEF EchoInv, SmartCloseOnlyUnused, kernelVars, serverVars, ioVars, loopVars,
        Goto
<1>1. CASE Terminate \/ LoopThrows \/ LoopStop \/ EpollWait \/ Polled \/ BatchDone
  <2>1. ioDone' = ioDone /\ call' = call /\ (lpc' = lpc \/ lpc' \notin {"decr", "callback"})
    BY Zenon, <1>1 DEF Terminate, LoopThrows, LoopStop, EpollWait, Polled, BatchDone
  <2> QED BY <2>1
<1>2. ASSUME NEW c \in Conns, Connect(c) \/ BacklogDrop(c) \/ ClientAct(c)
      PROVE  SmartCloseOnlyUnused'
  BY <1>2 DEF Connect, BacklogDrop, ClientAct
<1>3. CASE AcceptInsert \/ AcceptAdd \/ SmartCloseDecrement \/ CloseSockets
  <2>1. CASE AcceptInsert \/ CloseSockets
    BY <2>1 DEF AcceptInsert, CloseSockets
  <2>2. CASE AcceptAdd
    BY Zenon, <2>2 DEF AcceptAdd, Callback
  <2>3. CASE SmartCloseDecrement
    BY <2>3 DEF SmartCloseDecrement
  <2> QED BY Zenon, <1>3, <2>1, <2>2, <2>3
<1>4. ASSUME NEW e \in batch, SmartClose(e) PROVE SmartCloseOnlyUnused'
  <2>1. e.fd \in Open /\ fdConn[e.fd] = e.conn
    BY Zenon, <1>4 DEF SmartClose, EventsFresh, BatchOnce, Open
  <2>2. e.conn \notin ioDone
    BY Zenon, <1>4, <2>1 DEF SmartClose, is_IO, IOMarked
  <2> QED BY Zenon, <1>4, <2>2 DEF SmartClose
<1>5. ASSUME NEW e \in batch, AcceptNone(e) \/ AcceptThrows(e) \/ Accept(e) \/ Dispatch(e)
      PROVE  SmartCloseOnlyUnused'
  <2>1. JobOf(e.events) # "SOCKET_IS_CLOSED"
    BY Zenon DEF JobOf
  <2>2. CASE Dispatch(e)
    BY Zenon, <2>1, <2>2 DEF Dispatch, Callback
  <2>3. CASE AcceptNone(e) \/ AcceptThrows(e) \/ Accept(e)
    <3>1. lpc' \notin {"decr", "callback"}
      BY Zenon, <2>3 DEF AcceptNone, Take, AcceptThrows, Accept
    <3> QED BY <3>1
  <2> QED BY Zenon, <1>5, <2>2, <2>3
<1>6. CASE AppIgnore \/ AppClose \/ AppCloseDecrement \/ AppWriteSignal
  BY Zenon, <1>6 DEF AppIgnore, AppClose, AppCloseDecrement, AppWriteSignal
<1>8. CASE Echoes
  BY Zenon, <1>8, EchoCall
<1>7. CASE UNCHANGED elVars
  BY Zenon, <1>7 DEF elVars
<1> QED BY Zenon, <1>1, <1>2, <1>3, <1>4, <1>5, <1>6, <1>7, <1>8
        DEF Next, EnvStep, ListenerStep, LoopStep, AppStep, Echoes

-----------------------------------------------------------------------------

\* The initial state satisfies the invariant.
LEMMA EchoInit == Init => EchoInv
<1> SUFFICES ASSUME Init PROVE EchoInv
  BY Zenon
<1> USE EventLoopAssumption, EchoServerAssumption DEF Init, ELInit
<1>1. TypeOK
  <2>1. /\ phase \in [Conns -> {"new", "backlog", "dropped", "open", "gone"}]
        /\ ready \in [Conns -> SUBSET Flags]
        /\ fdConn \in [Fds -> Conns \cup {None}]
        /\ is_socket_IO \in [Fds \cup {ListenFd} -> BOOLEAN]
    BY Zenon
  <2>2. lpc \in LoopLabels
    BY Zenon DEF LoopLabels
  <2>3. batch \subseteq EventType /\ conn_sock \in Fds \cup {None} /\ call \in CallType \cup {None}
    BY Zenon
  <2>4. /\ edge \subseteq Conns /\ watched \subseteq Fds /\ incoming_conn_fd \subseteq Fds
        /\ activeConnections \in Int /\ ioDone \subseteq Conns
    OBVIOUS
  <2>5. stop_server \in BOOLEAN
    BY Zenon
  <2> HIDE DEF Init, ELInit
  <2> QED BY Zenon, <2>1, <2>2, <2>3, <2>4, <2>5 DEF TypeOK, ELTypeOK
<1>2. Open = {}
  BY Zenon DEF Open
<1>3. Stages /\ OneFd /\ BatchOnce /\ IOMarked
  BY Zenon, <1>2 DEF Stages, InCall, Accepting, OneFd, BatchOnce, IOMarked
<1>4. FdsTracked /\ EventsFresh /\ SmartCloseOnlyUnused
  BY Zenon, <1>2 DEF FdsTracked, EventsFresh, SmartCloseOnlyUnused
<1>5. CountExact
  <2>1. activeConnections = -FailedBinds /\ lpc = "poll" /\ Cardinality(Open) = 0
    BY Zenon, <1>2, FS_EmptySet
  <2> QED BY <2>1 DEF CountExact
<1> QED BY <1>1, <1>3, <1>4, <1>5 DEF EchoInv

\* Every step preserves the invariant.
LEMMA EchoStep == EchoInv /\ [Next]_elVars => EchoInv'
BY Zenon, TypeStep, StagesStep, OneFdStep, BatchOnceStep, IOMarkedStep, FdsTrackedStep,
   CountExactStep, EventsFreshStep, SmartCloseStep DEF EchoInv

\* The invariant holds in every reachable state.
THEOREM EchoInvariance == Spec => []EchoInv
BY EchoInit, EchoStep, PTL DEF Spec

\* closeSockets() closes all connections and nothing else.
THEOREM FdsTrackedHolds == Spec => []FdsTracked
BY EchoInvariance, PTL DEF EchoInv

\* While the loop runs, get_active_connections() is the number of connections,
\* less the addresses the constructor could not bind.
THEOREM CountExactHolds == Spec => []CountExact
BY EchoInvariance, PTL DEF EchoInv

\* No event of a batch reaches a connection that took over a descriptor.
THEOREM EventsFreshHolds == Spec => []EventsFresh
BY EchoInvariance, PTL DEF EchoInv

\* A connection that the server closes by itself has had no I/O.
THEOREM SmartCloseOnlyUnusedHolds == Spec => []SmartCloseOnlyUnused
BY EchoInvariance, PTL DEF EchoInv

=============================================================================
