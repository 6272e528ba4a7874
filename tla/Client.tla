------------------------------- MODULE Client -------------------------------
(***************************************************************************)
(* BaseClient, UnixSocketClient and TcpClient: connect, write, read and    *)
(* close, and the O_NONBLOCK flag that UnixSocketClient::write clears for  *)
(* more than 4096 bytes and tries to set again.                            *)
(*                                                                         *)
(* The calls of IoLoops, which a server makes, and those of the client are *)
(* made one at a time: they share no state but the history of a call.  A   *)
(* write(2) that would raise SIGPIPE is an error here.                     *)
(***************************************************************************)
EXTENDS IoLoops

CONSTANTS
    BlockingThreshold,  \* the 4096 of UnixSocketClient::write
    IntHalf,            \* 2^31: int goes from -IntHalf to IntHalf - 1
    nonBlockingSocket   \* argument of the constructor

ASSUME ClientAssumption ==
    /\ BlockingThreshold \in Nat /\ IntHalf \in Nat \ {0}
    /\ nonBlockingSocket \in BOOLEAN

VARIABLES
    tcp,            \* the client is a TcpClient, not a UnixSocketClient
    data_socket,    \* "closed" (-1), "unconnected" or "connected"
    O_NONBLOCK,     \* flag of the socket
    size,           \* bytes of the write() under way
    eof             \* the peer has closed: the server does so at any time

socketVars == <<tcp, data_socket, O_NONBLOCK, eof>>
clientVars == <<socketVars, size>>
callVars == <<pcount, data_size, result, retval, errno, moved>>

ClientTypeOK ==
    /\ IoTypeOK({"setBlocking", "clientWrite", "setNonBlocking", "clientRead"})
    /\ data_socket \in {"closed", "unconnected", "connected"}
    /\ {tcp, O_NONBLOCK, eof} \subseteq BOOLEAN
    /\ size \in 0 .. MaxSize

ClientInit ==
    /\ Init
    /\ tcp \in BOOLEAN
    /\ data_socket = "closed" /\ O_NONBLOCK = FALSE /\ eof = FALSE /\ size = 0

-----------------------------------------------------------------------------
(* connect, close *)

\* A socket is opened, whatever data_socket was; when the name cannot be
\* resolved or ::connect fails, it stays in data_socket and connect() throws.
\* Arguments are checked first, and socket() itself can fail.
Opens(non_blocking) ==
    /\ op = "none"
    /\ data_socket' \in {"closed", "unconnected", "connected"}
    /\ O_NONBLOCK' = non_blocking
    /\ eof' = FALSE
    /\ UNCHANGED <<op, callVars, tcp, size>>

UnixConnect == ~tcp /\ Opens(nonBlockingSocket)

\* nonBlockingSocket is ignored
TcpConnect == tcp /\ Opens(FALSE)

Close ==
    /\ op = "none"
    /\ data_socket # "closed"
    /\ data_socket' = "closed"
    /\ UNCHANGED <<op, callVars, tcp, O_NONBLOCK, eof, size>>

\* the server closes its end (external)
PeerCloses ==
    /\ data_socket = "connected" /\ ~eof
    /\ eof' = TRUE
    /\ UNCHANGED <<op, callVars, tcp, data_socket, O_NONBLOCK, size>>

-----------------------------------------------------------------------------
(* IGenericServer::set_fd_non_blocking *)

\* Mutant: the flag cannot be cleared either.
set_fd_non_blocking_Keeps(non_blocking) == UNCHANGED O_NONBLOCK

\* F_SETFL of flags & O_NONBLOCK, or of flags & !O_NONBLOCK, which is flags & 0
set_fd_non_blocking(non_blocking) == O_NONBLOCK' = (O_NONBLOCK /\ non_blocking)

-----------------------------------------------------------------------------
(* UnixSocketClient::write and BaseClient::write *)

\* a write() that runs in blocking mode
Switches(n) == n > BlockingThreshold /\ nonBlockingSocket /\ ~tcp

ClientWrite(n) ==
    /\ Call(IF Switches(n) THEN "setBlocking" ELSE "clientWrite", n)
    /\ size' = n
    /\ UNCHANGED socketVars

\* fcntl fails, as it does on a closed descriptor: give up before writing
SetBlockingFails ==
    /\ op = "setBlocking"
    /\ errno' = "ERR" /\ retval' = -1
    /\ op' = "none"
    /\ UNCHANGED <<clientVars, pcount, data_size, result, moved>>

SetBlocking ==
    /\ op = "setBlocking"
    /\ data_socket # "closed"
    /\ set_fd_non_blocking(FALSE)
    /\ op' = "clientWrite"
    /\ UNCHANGED <<tcp, data_socket, eof, size, callVars>>

Finish == IF Switches(size) THEN "setNonBlocking" ELSE "none"

\* invalid socket descriptor
WriteInvalid ==
    /\ op = "clientWrite"
    /\ data_socket = "closed"
    /\ retval' = -1 /\ errno' = "ERR"
    /\ op' = Finish
    /\ UNCHANGED <<clientVars, pcount, data_size, result, moved>>

\* what ::write of n bytes can return (external); it waits in blocking mode
WriteReturns(n) ==
    {r \in Syscall(n, IF n = 0 THEN 0 ELSE 1) :
        /\ data_socket = "unconnected" => r.errno = "ERR"
        /\ r.errno = "EAGAIN" => O_NONBLOCK}

\* the int that a ssize_t of n becomes
ToInt(n) == ((n + IntHalf) % (2 * IntHalf)) - IntHalf

\* BaseClient::write narrows the count at its end, and UnixSocketClient::write
\* that of a large write in retval
Narrows(r) == r.c # -1 \/ (size > BlockingThreshold /\ ~tcp)

\* Mutant: success is reported when the rest would block.
ClientWriteResult_All(r) ==
    IF r.c = -1 /\ ~(r.errno = "EAGAIN" /\ pcount > 0) THEN -1 ELSE size

\* the value after the loop ended with r; the last, complete ::write has not
\* advanced p
ClientWriteResult(r) ==
    IF r.c = -1 /\ ~(r.errno = "EAGAIN" /\ pcount > 0) THEN -1
    ELSE IF Narrows(r) THEN ToInt(pcount) ELSE pcount

ClientWriteSyscall ==
    /\ op = "clientWrite"
    /\ data_socket # "closed"
    /\ \E r \in WriteReturns(data_size) :
         LET again == r.c > 0 /\ r.c < data_size
         IN  /\ pcount' = IF again THEN pcount + r.c ELSE pcount
             /\ data_size' = IF again THEN data_size - r.c ELSE data_size
             /\ moved' = moved + Bytes(r.c)
             /\ errno' = r.errno
             /\ op' = IF again THEN op ELSE Finish
             /\ retval' = IF again THEN retval ELSE ClientWriteResult(r)
    /\ UNCHANGED <<clientVars, result>>

\* fcntl fails after all was written: -1 all the same
SetNonBlockingFails ==
    /\ op = "setNonBlocking"
    /\ errno' = "ERR" /\ retval' = -1
    /\ op' = "none"
    /\ UNCHANGED <<clientVars, pcount, data_size, result, moved>>

SetNonBlocking ==
    /\ op = "setNonBlocking"
    /\ set_fd_non_blocking(TRUE)
    /\ op' = "none"
    /\ UNCHANGED <<tcp, data_socket, eof, size, callVars>>

-----------------------------------------------------------------------------
(* BaseClient::read: one ::read, and a buffer of exactly what it returned *)

ClientRead ==
    /\ Call("clientRead", 0)
    /\ size' = 0
    /\ UNCHANGED socketVars

\* what ::read can return (external): no data without a connection, nothing
\* only after the peer has closed, EAGAIN in non blocking mode
ReadReturns ==
    {r \in Syscall(BufferSize, 0) :
        /\ data_socket # "connected" => r.errno = "ERR"
        /\ r.c = 0 => eof
        /\ r.errno = "EAGAIN" => O_NONBLOCK /\ ~eof}

\* an empty buffer at EAGAIN; another error is an exception
ClientReadSyscall ==
    /\ op = "clientRead"
    /\ op' = "none"
    /\ \E r \in ReadReturns :
         /\ result' = <<Bytes(r.c)>>
         /\ retval' = r.c
         /\ errno' = r.errno
         /\ moved' = Bytes(r.c)
    /\ UNCHANGED <<clientVars, pcount, data_size>>

-----------------------------------------------------------------------------

ClientNext ==
    \/ Next /\ size' = 0 /\ UNCHANGED socketVars
    \/ UnixConnect \/ TcpConnect \/ Close \/ PeerCloses
    \/ \E n \in 0 .. MaxSize : ClientWrite(n)
    \/ SetBlockingFails \/ SetBlocking \/ WriteInvalid \/ ClientWriteSyscall
    \/ SetNonBlockingFails \/ SetNonBlocking
    \/ ClientRead \/ ClientReadSyscall

ClientSpec == ClientInit /\ [][ClientNext]_<<vars, clientVars>>

-----------------------------------------------------------------------------
(* Properties *)

WriteDone == op \in {"clientWrite", "setNonBlocking"} /\ op' = "none"

\* A write() of more than the threshold is never cut short by a full send
\* buffer, even on a non blocking socket: without an error all of it is sent.
LargeWriteIsWhole ==
    [][op = "clientWrite" /\ op' # op /\ size > BlockingThreshold =>
         /\ errno' # "EAGAIN"
         /\ errno' = "OK" => moved' = size]_<<vars, clientVars>>

\* The value returned never exceeds the bytes sent, over any number of partial
\* ::write calls and also if the count does not fit an int, and -1 with EAGAIN
\* means that nothing was sent.
CountNeverOverstates ==
    [][WriteDone =>
         /\ retval' <= moved'
         /\ retval' = -1 /\ errno' = "EAGAIN" => moved' = 0]_<<vars, clientVars>>

-----------------------------------------------------------------------------
(* Statements of the repository that the code does not satisfy *)

\* UnixSocketClient.h:40, "when the syscall returns the socket will be set in
\* non blocking mode again".
NonBlockingAgain ==
    op = "none" /\ nonBlockingSocket /\ data_socket = "connected" => O_NONBLOCK

=============================================================================
