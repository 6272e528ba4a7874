------------------------- MODULE ConnectionService -------------------------
(***************************************************************************)
(* What a server promises the application that gives it a callback         *)
(* (IGenericServer.h): a connection is announced with NEW_SOCKET, once;    *)
(* one callback runs at a time; it is given jobs for announced connections *)
(* that are not closed, and SOCKET_IS_CLOSED once for one that the server  *)
(* has closed by itself; at the end every connection is closed and the     *)
(* callback is not called any more.                                        *)
(***************************************************************************)

CONSTANTS Conns, None

VARIABLES
    conn,       \* of a connection: unseen, open, unreported, closed
    current,    \* the callback that runs: a connection and a job, or None
    serving     \* FALSE: listen() has returned or the process has ended

csVars == <<conn, current, serving>>

IOJobs == {"AVAILABLE_FOR_READ", "AVAILABLE_FOR_WRITE", "AVAILABLE_FOR_READ_AND_WRITE",
           "CLOSE_SOCKET"}

Init ==
    /\ conn = [c \in Conns |-> "unseen"]
    /\ current = None
    /\ serving = TRUE

\* The callback is called.
Calls(c, job) ==
    /\ serving /\ current = None
    /\ current' = [conn |-> c, job |-> job]
    /\ UNCHANGED serving

Announce(c) ==
    /\ conn[c] = "unseen"
    /\ conn' = [conn EXCEPT ![c] = "open"]
    /\ Calls(c, "NEW_SOCKET")

Deliver(c, job) ==
    /\ conn[c] = "open"
    /\ Calls(c, job)
    /\ UNCHANGED conn

\* The server closes a connection that has not been used, and then says so.
ServerCloses(c) ==
    /\ serving /\ current = None
    /\ conn[c] = "open"
    /\ conn' = [conn EXCEPT ![c] = "unreported"]
    /\ UNCHANGED <<current, serving>>

ReportClosed(c) ==
    /\ conn[c] = "unreported"
    /\ conn' = [conn EXCEPT ![c] = "closed"]
    /\ Calls(c, "SOCKET_IS_CLOSED")

\* The callback closes the connection it has been called for.
CallbackCloses ==
    /\ current # None
    /\ conn[current.conn] = "open"
    /\ conn' = [conn EXCEPT ![current.conn] = "closed"]
    /\ UNCHANGED <<current, serving>>

Return ==
    /\ current # None
    /\ current' = None
    /\ UNCHANGED <<conn, serving>>

\* listen() returns, with every connection closed.
Shutdown ==
    /\ serving /\ current = None
    /\ conn' = [c \in Conns |-> IF conn[c] = "open" THEN "closed" ELSE conn[c]]
    /\ serving' = FALSE
    /\ UNCHANGED current

\* The process ends, possibly in the middle of a callback; what it has not
\* reported it never will.
Die ==
    /\ serving' = FALSE
    /\ current' = None
    /\ conn' = [c \in Conns |-> IF conn[c] = "unreported" THEN "closed" ELSE conn[c]]

Next ==
    \/ CallbackCloses \/ Return \/ Shutdown \/ Die
    \/ \E c \in Conns :
         \/ Announce(c) \/ ServerCloses(c) \/ ReportClosed(c)
         \/ \E job \in IOJobs : Deliver(c, job)

Spec == Init /\ [][Next]_csVars

=============================================================================
