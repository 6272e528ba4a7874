---------------------------- MODULE ServerSetup ----------------------------
(***************************************************************************)
(* The constructors and destructors of TcpServer and UnixSocketServer: the *)
(* command pipe, open_listening_socket() with its five attempts,           *)
(* open_unix_socket(), and what becomes of their descriptors when a step   *)
(* fails.  Several servers are built and destroyed by different threads.   *)
(*                                                                         *)
(* The kernel is external: descriptors come from Fds and run out; an       *)
(* address is free, bound to a descriptor, or left over: a port in         *)
(* TIME_WAIT or of another process, the file of a Unix socket that has     *)
(* been closed.                                                            *)
(***************************************************************************)
EXTENDS Integers, Sequences, FiniteSets

CONSTANTS
    TcpServers, UnixServers,
    AddrInfo,       \* what getaddrinfo returns for the servers of TcpServers
    sockname,       \* of each Unix server: a path
    sun_path,       \* of each Unix server: its name cut to sizeof(sun_path) - 1
    Paths,
    Fds,            \* descriptors the process may have
    None, Free, Left,
    MaxConstructs   \* bound: constructor calls

Servers == TcpServers \cup UnixServers
Ports == {AddrInfo[i] : i \in 1 .. Len(AddrInfo)}
Addrs == Ports \cup Paths

ASSUME ServerSetupAssumption ==
    /\ IsFiniteSet(Fds) /\ TcpServers \cap UnixServers = {}
    /\ AddrInfo \in Seq(Ports) /\ Ports \cap Paths = {}
    /\ sockname \in [UnixServers -> Paths] /\ sun_path \in [UnixServers -> Paths]
    /\ None \notin Fds /\ Free \notin Fds /\ Left \notin Fds /\ Free # Left
    /\ MaxConstructs \in Nat

VARIABLES
    open,           \* descriptors in use
    bound,          \* of an address: Free, Left, or the descriptor bound to it
    spc,            \* where each server is
    commandPipe,    \* its two descriptors, or {} if pipe() failed
    listen_sock, epollfd,   \* FileDescriptor::fd, None for -1
    activeConnections,      \* 0, or -1 for any number below 0
    counter, rp, sfd,       \* locals of setup() and open_listening_socket()
    constructs,     \* constructor calls so far
    leaked,         \* history: sockets a failed open_unix_socket() left open
    attempts,       \* history: open_listening_socket() calls of this constructor
    rivals,         \* history: a rival has bound sun_path since the unlink
    unremoved       \* history: servers whose unlink() has failed

kernelVars == <<open, bound>>
memberVars == <<commandPipe, listen_sock, epollfd, activeConnections>>
localVars == <<counter, rp, sfd>>
historyVars == <<leaked, attempts, rivals, unremoved>>
vars == <<kernelVars, spc, memberVars, localVars, constructs, historyVars>>

Constructing == {"try", "socket", "bind", "sleep", "unlink", "unixSocket", "unixBind"}
Built == {"up", "listening", "closed"}

TypeOK ==
    /\ open \subseteq Fds
    /\ bound \in [Addrs -> Fds \cup {Free, Left}]
    /\ spc \in [Servers -> {"none", "failed"} \cup Constructing \cup Built]
    /\ commandPipe \in [Servers -> SUBSET Fds]
    /\ listen_sock \in [Servers -> Fds \cup {None}]
    /\ epollfd \in [Servers -> Fds \cup {None}]
    /\ activeConnections \in [Servers -> {0, -1}]
    /\ counter \in [Servers -> 0 .. 5]
    /\ rp \in [Servers -> Seq(Ports)]
    /\ sfd \in [Servers -> Fds \cup {None}]
    /\ constructs \in 0 .. MaxConstructs
    /\ leaked \subseteq Fds
    /\ attempts \in [Servers -> Nat]
    /\ rivals \subseteq UnixServers
    /\ unremoved \subseteq UnixServers

Init ==
    /\ open = {}
    /\ bound \in [Addrs -> {Free, Left}]
    /\ spc = [s \in Servers |-> "none"]
    /\ commandPipe = [s \in Servers |-> {}]
    /\ listen_sock = [s \in Servers |-> None]
    /\ epollfd = [s \in Servers |-> None]
    /\ activeConnections = [s \in Servers |-> 0]
    /\ counter = [s \in Servers |-> 0]
    /\ rp = [s \in Servers |-> <<>>]
    /\ sfd = [s \in Servers |-> None]
    /\ constructs = 0
    /\ leaked = {}
    /\ attempts = [s \in Servers |-> 0]
    /\ rivals = {}
    /\ unremoved = {}

Goto(s, label) == spc' = [spc EXCEPT ![s] = label]

\* The constructor is left: its locals, and the history of its attempts, end.
LocalsEnd(s) ==
    /\ counter' = [counter EXCEPT ![s] = 0]
    /\ rp' = [rp EXCEPT ![s] = <<>>]
    /\ sfd' = [sfd EXCEPT ![s] = None]
    /\ attempts' = [attempts EXCEPT ![s] = 0]

-----------------------------------------------------------------------------
(* Kernel (external) *)

\* the descriptor the next system call returns
NewFd(used) == CHOOSE f \in Fds : f \notin used

\* close() of the descriptors of F: the file of a Unix socket stays; a port stays
\* while the kernel still closes connections of it.
KernelClose(F) ==
    /\ open' = open \ F
    /\ \E released \in SUBSET {a \in Ports : bound[a] \in F} :
         bound' = [a \in Addrs |-> IF bound[a] \notin F THEN bound[a]
                                  ELSE IF a \in released THEN Free ELSE Left]

\* TIME_WAIT ends, or another process gives up the port.
PortReleased(a) ==
    /\ bound[a] = Left
    /\ bound' = [bound EXCEPT ![a] = Free]
    /\ UNCHANGED <<open, spc, memberVars, localVars, constructs, historyVars>>

-----------------------------------------------------------------------------
(* The constructor: IGenericServer with its UnixPipe, the argument checks *)

Begin(s) ==
    /\ spc[s] \in {"none", "failed"}
    /\ constructs < MaxConstructs
    /\ constructs' = constructs + 1

\* The pipe is closed again before anything else has been opened.
Invalid(s) ==
    /\ Begin(s)
    /\ Goto(s, "failed")
    /\ UNCHANGED <<kernelVars, memberVars, localVars, historyVars>>

\* missing address, backlog or port of 0: invalid_argument
TcpInvalid(s) == s \in TcpServers /\ Invalid(s)

\* checkParameters: missing sockname, or backlog of 0
UnixInvalid(s) == s \in UnixServers /\ Invalid(s)

\* pipe(); when it fails, that is only logged
OpenPipe(s) ==
    LET a == NewFd(open)
        b == NewFd(open \cup {a})
        ends == IF \E f, g \in Fds \ open : f # g THEN {a, b} ELSE {}
    IN  /\ commandPipe' = [commandPipe EXCEPT ![s] = ends]
        /\ open' = open \cup ends

ConstructTcp(s) ==
    /\ s \in TcpServers
    /\ Begin(s) /\ OpenPipe(s)
    /\ counter' = [counter EXCEPT ![s] = 5]
    /\ Goto(s, "try")
    /\ UNCHANGED <<bound, listen_sock, epollfd, activeConnections, rp, sfd, historyVars>>

ConstructUnix(s) ==
    /\ s \in UnixServers
    /\ Begin(s) /\ OpenPipe(s)
    /\ Goto(s, "unlink")
    /\ UNCHANGED <<bound, listen_sock, epollfd, activeConnections, localVars, historyVars>>

\* The constructor throws: ~UnixPipe closes the pipe, and the counter is gone.
Fail(s) ==
    /\ open' = open \ commandPipe[s]
    /\ commandPipe' = [commandPipe EXCEPT ![s] = {}]
    /\ activeConnections' = [activeConnections EXCEPT ![s] = 0]
    /\ Goto(s, "failed")

-----------------------------------------------------------------------------
(* TcpServer::setup and open_listening_socket *)

\* Mutant: the counter is not lowered.
SetupTry_Forever(s) ==
    /\ spc[s] = "try"
    /\ counter[s] > 0
    /\ Goto(s, "sleep")
    /\ UNCHANGED <<kernelVars, memberVars, localVars, constructs, historyVars>>

\* the list of getaddrinfo, or -1 when it fails or the port is over 0xFFFF
Resolve(s) ==
    \/ rp' = [rp EXCEPT ![s] = AddrInfo] /\ Goto(s, "socket")
    \/ UNCHANGED rp /\ Goto(s, "sleep")

\* while (counter--)
SetupTry(s) ==
    /\ spc[s] = "try"
    /\ counter[s] > 0
    /\ counter' = [counter EXCEPT ![s] = @ - 1]
    /\ attempts' = [attempts EXCEPT ![s] = @ + 1]
    /\ Resolve(s)
    /\ UNCHANGED <<kernelVars, memberVars, sfd, constructs, leaked, rivals, unremoved>>

\* Mutant: while (--counter)
SetupThrow_Early(s) ==
    /\ spc[s] = "try"
    /\ counter[s] <= 1
    /\ Fail(s)
    /\ LocalsEnd(s)
    /\ UNCHANGED <<bound, listen_sock, epollfd, constructs, leaked, rivals, unremoved>>

\* "cannot open server socket"
SetupThrow(s) ==
    /\ spc[s] = "try"
    /\ counter[s] = 0
    /\ Fail(s)
    /\ LocalsEnd(s)
    /\ UNCHANGED <<bound, listen_sock, epollfd, constructs, leaked, rivals, unremoved>>

\* nanosleep of 100 ms
SetupSleep(s) ==
    /\ spc[s] = "sleep"
    /\ Goto(s, "try")
    /\ UNCHANGED <<kernelVars, memberVars, localVars, constructs, historyVars>>

\* could not bind: no address is left
TcpGiveUp(s) ==
    /\ spc[s] = "socket"
    /\ rp[s] = <<>>
    /\ Goto(s, "sleep")
    /\ UNCHANGED <<kernelVars, memberVars, localVars, constructs, historyVars>>

\* socket() fails, e.g. with EMFILE: continue
TcpSocketFails(s) ==
    /\ spc[s] = "socket"
    /\ rp[s] # <<>>
    /\ rp' = [rp EXCEPT ![s] = Tail(@)]
    /\ UNCHANGED <<kernelVars, spc, memberVars, counter, sfd, constructs, historyVars>>

TcpSocket(s) ==
    /\ spc[s] = "socket"
    /\ rp[s] # <<>>
    /\ open # Fds
    /\ sfd' = [sfd EXCEPT ![s] = NewFd(open)]
    /\ open' = open \cup {NewFd(open)}
    /\ Goto(s, "bind")
    /\ UNCHANGED <<bound, memberVars, counter, rp, constructs, historyVars>>

\* bind() succeeds, and setup() returns with the socket in listen_sock
TcpBind(s) ==
    /\ spc[s] = "bind"
    /\ bound[Head(rp[s])] = Free
    /\ bound' = [bound EXCEPT ![Head(rp[s])] = sfd[s]]
    /\ listen_sock' = [listen_sock EXCEPT ![s] = sfd[s]]
    /\ LocalsEnd(s)
    /\ Goto(s, "up")
    /\ UNCHANGED <<open, commandPipe, epollfd, activeConnections, constructs, leaked, rivals,
                   unremoved>>

\* in use, or refused for another reason, and the next address.  close(sfd) is
\* IGenericServer::close: a socket that was no connection is counted as one gone.
TcpBindFails(s) ==
    /\ spc[s] = "bind"
    /\ open' = open \ {sfd[s]}
    /\ activeConnections' = [activeConnections EXCEPT ![s] = -1]
    /\ sfd' = [sfd EXCEPT ![s] = None]
    /\ rp' = [rp EXCEPT ![s] = Tail(@)]
    /\ Goto(s, "socket")
    /\ UNCHANGED <<bound, commandPipe, listen_sock, epollfd, counter, constructs, historyVars>>

-----------------------------------------------------------------------------
(* UnixSocketServer::setup and open_unix_socket *)

\* Mutant: the file is not unlinked.
UnixUnlink_Skipped(s) ==
    /\ spc[s] = "unlink"
    /\ Goto(s, "unixSocket")
    /\ UNCHANGED <<kernelVars, memberVars, localVars, constructs, historyVars>>

\* unlink(sockname.c_str()): the whole name, also if sun_path is shorter.  There
\* may be no such file.
UnixUnlink(s) ==
    /\ spc[s] = "unlink"
    /\ bound' = [bound EXCEPT ![sockname[s]] = Free]
    /\ Goto(s, "unixSocket")
    /\ UNCHANGED <<open, memberVars, localVars, constructs, historyVars>>

\* It is there but cannot be removed, e.g. a directory: the result is not tested.
UnixUnlinkFails(s) ==
    /\ spc[s] = "unlink"
    /\ bound[sockname[s]] # Free
    /\ unremoved' = unremoved \cup {s}
    /\ Goto(s, "unixSocket")
    /\ UNCHANGED <<kernelVars, memberVars, localVars, constructs, leaked, attempts, rivals>>

UnixSocketFails(s) ==
    /\ spc[s] = "unixSocket"
    /\ Fail(s)
    /\ LocalsEnd(s)
    /\ rivals' = rivals \ {s} /\ unremoved' = unremoved \ {s}
    /\ UNCHANGED <<bound, listen_sock, epollfd, constructs, leaked>>

UnixSocket(s) ==
    /\ spc[s] = "unixSocket"
    /\ open # Fds
    /\ sfd' = [sfd EXCEPT ![s] = NewFd(open)]
    /\ open' = open \cup {NewFd(open)}
    /\ Goto(s, "unixBind")
    /\ UNCHANGED <<bound, memberVars, counter, rp, constructs, historyVars>>

UnixBind(s) ==
    /\ spc[s] = "unixBind"
    /\ bound[sun_path[s]] = Free
    /\ bound' = [bound EXCEPT ![sun_path[s]] = sfd[s]]
    /\ listen_sock' = [listen_sock EXCEPT ![s] = sfd[s]]
    /\ LocalsEnd(s)
    /\ rivals' = (rivals \cup {t \in UnixServers : spc[t] \in {"unixSocket", "unixBind"}
                                               /\ sun_path[t] = sun_path[s]}) \ {s}
    /\ unremoved' = unremoved \ {s}
    /\ Goto(s, "up")
    /\ UNCHANGED <<open, commandPipe, epollfd, activeConnections, constructs, leaked>>

\* bind() fails: open_unix_socket() returns -1 and leaves sfd open
UnixBindFails(s) ==
    /\ spc[s] = "unixBind"
    /\ Fail(s)
    /\ leaked' = leaked \cup {sfd[s]}
    /\ LocalsEnd(s)
    /\ rivals' = rivals \ {s} /\ unremoved' = unremoved \ {s}
    /\ UNCHANGED <<bound, listen_sock, epollfd, constructs>>

-----------------------------------------------------------------------------
(* IGenericServer::listen, closeSockets, and the destructors *)

\* Mutant: the result of epoll_ctl for the pipe is not tested.
Listen_NoPipe(s) ==
    /\ spc[s] = "up"
    /\ open # Fds
    /\ epollfd' = [epollfd EXCEPT ![s] = NewFd(open)]
    /\ open' = open \cup {NewFd(open)}
    /\ Goto(s, "listening")
    /\ UNCHANGED <<bound, commandPipe, listen_sock, activeConnections, localVars, constructs,
                   historyVars>>

\* epoll_create1, and epoll_ctl for both the pipe and listen_sock
Listen(s) ==
    /\ spc[s] = "up"
    /\ open # Fds
    /\ commandPipe[s] # {}
    /\ epollfd' = [epollfd EXCEPT ![s] = NewFd(open)]
    /\ open' = open \cup {NewFd(open)}
    /\ Goto(s, "listening")
    /\ UNCHANGED <<bound, commandPipe, listen_sock, activeConnections, localVars, constructs,
                   historyVars>>

\* Mutant: FileDescriptor::close leaves its fd.
CloseSockets_KeepsFd(s) ==
    /\ spc[s] \in {"up", "listening"}
    /\ KernelClose({listen_sock[s], epollfd[s]} \ {None})
    /\ Goto(s, "closed")
    /\ UNCHANGED <<memberVars, localVars, constructs, historyVars>>

\* listen() returns, or throws: RunOnReturn calls closeSockets().  FileDescriptor
\* keeps its fd if ::close fails: it is given sockets and epoll instances that
\* are open (DescriptorsAccounted), which Linux closes without error.
CloseSockets(s) ==
    /\ spc[s] \in {"up", "listening"}
    /\ KernelClose({listen_sock[s], epollfd[s]} \ {None})
    /\ listen_sock' = [listen_sock EXCEPT ![s] = None]
    /\ epollfd' = [epollfd EXCEPT ![s] = None]
    /\ Goto(s, "closed")
    /\ UNCHANGED <<commandPipe, activeConnections, localVars, constructs, historyVars>>

\* ~FileDescriptor and ~UnixPipe, while listen() is not running
Destroy(s) ==
    /\ spc[s] \in {"up", "closed"}
    /\ KernelClose(({listen_sock[s]} \ {None}) \cup commandPipe[s])
    /\ listen_sock' = [listen_sock EXCEPT ![s] = None]
    /\ commandPipe' = [commandPipe EXCEPT ![s] = {}]
    /\ activeConnections' = [activeConnections EXCEPT ![s] = 0]
    /\ Goto(s, "none")
    /\ UNCHANGED <<epollfd, localVars, constructs, historyVars>>

-----------------------------------------------------------------------------

SetupStep(s) ==
    \/ SetupTry(s) \/ SetupThrow(s) \/ SetupSleep(s)
    \/ TcpGiveUp(s) \/ TcpSocketFails(s) \/ TcpSocket(s) \/ TcpBind(s) \/ TcpBindFails(s)
    \/ UnixUnlink(s) \/ UnixUnlinkFails(s) \/ UnixSocketFails(s) \/ UnixSocket(s)
    \/ UnixBind(s) \/ UnixBindFails(s)

Next ==
    \/ \E a \in Ports : PortReleased(a)
    \/ \E s \in Servers :
         \/ TcpInvalid(s) \/ UnixInvalid(s) \/ ConstructTcp(s) \/ ConstructUnix(s)
         \/ SetupStep(s)
         \/ Listen(s) \/ CloseSockets(s) \/ Destroy(s)

Spec == Init /\ [][Next]_vars

\* A constructor that has been called is run.
FairSpec == Spec /\ \A s \in Servers : WF_vars(SetupStep(s))

-----------------------------------------------------------------------------
(* Properties *)

Held(s) == commandPipe[s] \cup ({listen_sock[s], epollfd[s], sfd[s]} \ {None})

\* Every descriptor in use belongs to one server, which will close it, or is one
\* that open_unix_socket() left behind when bind() failed.  The attempts of a
\* TcpServer and every other failure, in any order and with descriptors running
\* out, leak none; no destructor closes a descriptor that another server has
\* been given meanwhile.
DescriptorsAccounted ==
    /\ open = leaked \cup UNION {Held(s) : s \in Servers}
    /\ \A s \in Servers : Held(s) \cap leaked = {}
    /\ \A s, t \in Servers : s # t => Held(s) \cap Held(t) = {}

\* A server that listens has its command pipe, although a failing pipe() in the
\* constructor is only logged: terminate() can wake every listening server.
ListeningIsWakeable ==
    \A s \in Servers : spc[s] = "listening" =>
        commandPipe[s] # {} /\ listen_sock[s] # None /\ epollfd[s] # None

\* A UnixSocketServer finds its path taken after its unlink(), although the name
\* fits sun_path, for one of two reasons only: unlink() has failed, which the code
\* does not notice, or another server has bound the path since.  Otherwise the
\* file of an earlier server, however that one ended, is no obstacle.
OldFileIsNoObstacle ==
    \A s \in UnixServers :
        spc[s] \in {"unixSocket", "unixBind"} /\ sockname[s] = sun_path[s]
            /\ bound[sun_path[s]] # Free => s \in rivals \cup unremoved

\* A TcpServer constructor throws "cannot open server socket" only after five
\* attempts.
FiveAttempts ==
    [][\A s \in TcpServers :
         spc[s] \in Constructing /\ spc'[s] = "failed" => attempts[s] = 5]_vars

\* A constructor returns or throws, whoever else holds its address.
ConstructorReturns ==
    \A s \in Servers : spc[s] \in Constructing ~> spc[s] \notin Constructing

-----------------------------------------------------------------------------
(* Statements of the repository that the code does not satisfy *)

\* IGenericServer.h:200, "get number of active connections to server", of a
\* server that has had none: each bind() that failed has lowered the counter.
NewServerHasNone ==
    \A s \in Servers : spc[s] = "up" => activeConnections[s] = 0

=============================================================================
