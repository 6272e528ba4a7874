----------------------- MODULE ServerLifecycleProofs -----------------------
(***************************************************************************)
(* What holds of listen() and terminate() for any number of threads that   *)
(* terminate, wait, start and stop, in any order.                          *)
(***************************************************************************)
EXTENDS ServerLifecycle, TLAPS

\* closeSockets() closes epollfd, then listen_sock, then clears is_listening;
\* nothing opens them again before the next start().
ClosedInOrder ==
    /\ lpc \in {"closeListen", "clear", "doneNotify", "done"} => ~epollfd
    /\ lpc \in {"clear", "doneNotify", "done"} => ~listen_sock
    /\ lpc \in {"doneNotify", "done"} => ~is_listening

\* Only a terminate() that found the server listening sets stop_server.
StopRequested == stop_server => requested

LifecycleInv ==
    TypeOK /\ ClosedInOrder /\ StopRequested /\ ReturnsOnlyOnTerminate

-----------------------------------------------------------------------------

\* A thread woken by notify_one() or spuriously goes back to its loop test.
LEMMA WokenType ==
    ASSUME TypeOK, NEW c \in cv
    PROVE  Woken(c) \in [Callers -> CallerLabels]
BY DEF TypeOK, Woken, cv, CallerLabels

\* notify_one() leaves every caller at one of its labels.
LEMMA NotifyType ==
    ASSUME TypeOK, NotifyOne
    PROVE  pc' \in [Callers -> CallerLabels]
BY WokenType DEF TypeOK, NotifyOne

\* Every step of the listening thread preserves the type invariant.
LEMMA ListenerType ==
    ASSUME TypeOK, ListenerStep \/ ListenPollOther \/ ListenThrows
    PROVE  TypeOK'
<1> USE DEF TypeOK, serverVars, listenerVars, callerVars, LGoto, Starting, Serving, Closing
<1>1. CASE ListenEntry
  BY <1>1 DEF ListenEntry, Abort, CallerLabels
<1>2. CASE ListenSetup \/ ListenPublish
  BY ZenonT(60), <1>2 DEF ListenSetup, ListenPublish
<1>3. CASE ListenReadyNotify
  BY <1>3, NotifyType DEF ListenReadyNotify
<1>4. CASE ListenLoop
  BY <1>4 DEF ListenLoop
<1>5. CASE ListenPollPipe \/ ListenPollOther
  BY ZenonT(40), <1>5 DEF ListenPollPipe, ListenPollOther
<1>6. CASE ListenPolled \/ ListenHandled
  BY <1>6 DEF ListenPolled, ListenHandled
<1>7. CASE CloseConns \/ CloseEpoll \/ CloseListen \/ CloseClear
  BY ZenonT(60), <1>7 DEF CloseConns, CloseEpoll, CloseListen, CloseClear
<1>8. CASE CloseNotify
  BY <1>8, NotifyType DEF CloseNotify
<1>9. CASE ListenThrows
  BY <1>9 DEF ListenThrows, Abort, CallerLabels
<1> QED BY <1>1, <1>2, <1>3, <1>4, <1>5, <1>6, <1>7, <1>8, <1>9 DEF ListenerStep

\* A caller that goes to one of its labels leaves every caller at one.
LEMMA GotoType ==
    ASSUME TypeOK, NEW c \in Callers, NEW l \in CallerLabels, Goto(c, l)
    PROVE  pc' \in [Callers -> CallerLabels]
BY DEF TypeOK, Goto

\* Every step of a caller preserves the type invariant.
LEMMA CallerType ==
    ASSUME TypeOK, NEW c \in Callers,
           CallerStep(c) \/ WaitCall(c) \/ TerminateCall(c) \/ SpuriousWakeup(c)
    PROVE  TypeOK'
<1> USE DEF TypeOK, serverVars, listenerVars, callerVars
<1>1. CASE WaitCall(c) \/ WaitReady(c)
  <2>1. pc' \in [Callers -> CallerLabels]
    BY <1>1, GotoType DEF WaitCall, WaitReady, CallerLabels
  <2> QED BY <1>1, <2>1 DEF WaitCall, WaitReady
<1>2. CASE TerminateCall(c) \/ TerminateRead(c)
  <2>1. pc' \in [Callers -> CallerLabels]
    BY <1>2, GotoType DEF TerminateCall, TerminateRead, CallerLabels
  <2> QED BY <1>2, <2>1 DEF TerminateCall, TerminateRead
<1>3. CASE TerminateStop(c) \/ TerminateWake(c)
  <2>1. pc' \in [Callers -> CallerLabels]
    BY <1>3, GotoType DEF TerminateStop, TerminateWake, CallerLabels
  <2> QED BY Zenon, <1>3, <2>1 DEF TerminateStop, TerminateWake
<1>4. CASE TerminateDrain(c) \/ TerminateUnstop(c) \/ TerminateReturn(c)
  <2>1. pc' \in [Callers -> CallerLabels]
    BY <1>4, GotoType DEF TerminateDrain, TerminateUnstop, TerminateReturn, CallerLabels
  <2> QED BY ZenonT(60), <1>4, <2>1 DEF TerminateDrain, TerminateUnstop, TerminateReturn
<1>5. CASE StopJoin
  <2>1. pc' \in [Callers -> CallerLabels]
    BY <1>5, GotoType DEF StopJoin, Callers, CallerLabels
  <2> QED BY ZenonT(40), <1>5, <2>1 DEF StopJoin
<1>6. CASE SpuriousWakeup(c)
  BY <1>6, WokenType DEF SpuriousWakeup
<1> QED BY <1>1, <1>2, <1>3, <1>4, <1>5, <1>6 DEF CallerStep

\* start() and stop() preserve the type invariant.
LEMMA OwnerType ==
    ASSUME TypeOK, Start \/ StartNoThread \/ Stop
    PROVE  TypeOK'
<1> USE DEF TypeOK, serverVars, listenerVars, callerVars
<1>1. Owner \in Callers
  BY DEF Callers
<1>2. CASE Start
  <2>1. starts' \in 0 .. MaxStarts
    BY <1>2, LifecycleAssumption DEF Start
  <2>2. CASE joinable
    BY <1>2, <2>1, <2>2 DEF Start, Abort, CallerLabels
  <2>3. CASE ~joinable
    <3>1. pc' \in [Callers -> CallerLabels]
      BY <1>1, <1>2, <2>3, GotoType DEF Start, CallerLabels
    <3> QED BY <1>2, <2>1, <2>3, <3>1 DEF Start, LGoto, Starting
  <2> QED BY <2>2, <2>3
<1>3. CASE Stop
  <2>1. pc' \in [Callers -> CallerLabels]
    BY <1>1, <1>3, GotoType DEF Stop, CallerLabels
  <2> QED BY <1>3, <2>1 DEF Stop
<1>4. CASE StartNoThread
  <2>1. starts' \in 0 .. MaxStarts
    BY <1>4, LifecycleAssumption DEF StartNoThread
  <2>2. pc' \in [Callers -> CallerLabels]
    BY <1>1, <1>4, GotoType DEF StartNoThread, CallerLabels
  <2> QED BY Zenon, <1>4, <2>1, <2>2 DEF StartNoThread
<1> QED BY <1>2, <1>3, <1>4

-----------------------------------------------------------------------------

\* No step opens a descriptor closeSockets() has closed, and none sets
\* is_listening once it has been cleared: a late terminate() only clears it.
LEMMA ClosedStep ==
    ASSUME TypeOK, ClosedInOrder, Next
    PROVE  ClosedInOrder'
<1> USE DEF ClosedInOrder, serverVars, listenerVars, callerVars, LGoto
<1>1. CASE ListenerStep
  BY <1>1 DEF ListenerStep, ListenEntry, ListenSetup, ListenPublish, ListenReadyNotify,
       ListenLoop, ListenPollPipe, ListenPolled, ListenHandled, CloseConns, CloseEpoll,
       CloseListen, CloseClear, CloseNotify, Abort
<1>2. CASE ListenPollOther \/ ListenThrows
  BY <1>2 DEF ListenPollOther, ListenThrows, Abort
<1>3. CASE Start \/ StartNoThread \/ Stop
  BY <1>3 DEF Start, StartNoThread, Stop, Abort
<1>4. ASSUME NEW c \in Callers,
             CallerStep(c) \/ WaitCall(c) \/ TerminateCall(c) \/ SpuriousWakeup(c)
      PROVE  ClosedInOrder'
  BY <1>4 DEF CallerStep, WaitCall, WaitReady, TerminateCall, TerminateRead, TerminateStop,
       TerminateWake, TerminateDrain, TerminateUnstop, TerminateReturn, StopJoin,
       SpuriousWakeup
<1> QED BY <1>1, <1>2, <1>3, <1>4 DEF Next

\* The listening thread leaves its loop only on stop_server, and only a
\* terminate() that found the server listening sets that.
LEMMA RequestedStep ==
    ASSUME TypeOK, StopRequested, ReturnsOnlyOnTerminate, Next
    PROVE  StopRequested' /\ ReturnsOnlyOnTerminate'
<1> USE DEF StopRequested, ReturnsOnlyOnTerminate, Closing, serverVars, listenerVars,
            callerVars, LGoto
<1>1. CASE ListenerStep
  BY <1>1 DEF ListenerStep, ListenEntry, ListenSetup, ListenPublish, ListenReadyNotify,
       ListenLoop, ListenPollPipe, ListenPolled, ListenHandled, CloseConns, CloseEpoll,
       CloseListen, CloseClear, CloseNotify, Abort
<1>2. CASE ListenPollOther \/ ListenThrows
  BY <1>2 DEF ListenPollOther, ListenThrows, Abort
<1>3. CASE Start \/ StartNoThread \/ Stop
  BY <1>3 DEF Start, StartNoThread, Stop, Abort
<1>4. ASSUME NEW c \in Callers,
             CallerStep(c) \/ WaitCall(c) \/ TerminateCall(c) \/ SpuriousWakeup(c)
      PROVE  StopRequested' /\ ReturnsOnlyOnTerminate'
  BY <1>4 DEF CallerStep, WaitCall, WaitReady, TerminateCall, TerminateRead, TerminateStop,
       TerminateWake, TerminateDrain, TerminateUnstop, TerminateReturn, StopJoin,
       SpuriousWakeup
<1> QED BY <1>1, <1>2, <1>3, <1>4 DEF Next

-----------------------------------------------------------------------------

\* The inductive invariant of starting and stopping a server, for any threads
\* that call terminate() and wait_for_server_ready().
THEOREM LifecycleInvariance == Spec => []LifecycleInv
<1>1. Init => LifecycleInv
  <2> SUFFICES ASSUME Init PROVE LifecycleInv
    OBVIOUS
  <2>1. TypeOK
    <3>1. pc \in [Callers -> CallerLabels]
      BY DEF Init, CallerLabels
    <3>2. starts \in 0 .. MaxStarts
      BY LifecycleAssumption DEF Init
    <3> QED BY Zenon, <3>1, <3>2 DEF Init, TypeOK
  <2>2. ClosedInOrder /\ StopRequested /\ ReturnsOnlyOnTerminate
    BY DEF Init, ClosedInOrder, StopRequested, ReturnsOnlyOnTerminate, Closing
  <2> QED BY <2>1, <2>2 DEF LifecycleInv
<1>2. LifecycleInv /\ [Next]_vars => LifecycleInv'
  <2> SUFFICES ASSUME LifecycleInv, [Next]_vars PROVE LifecycleInv'
    OBVIOUS
  <2>1. CASE Next
    <3>1. TypeOK'
      BY <2>1, ListenerType, CallerType, OwnerType DEF Next, LifecycleInv
    <3> QED BY <2>1, <3>1, ClosedStep, RequestedStep DEF LifecycleInv
  <2>2. CASE UNCHANGED vars
    BY <2>2 DEF vars, serverVars, listenerVars, callerVars, LifecycleInv, TypeOK,
         ClosedInOrder, StopRequested, ReturnsOnlyOnTerminate
  <2> QED BY <2>1, <2>2
<1> QED BY <1>1, <1>2, PTL DEF Spec

\* Type correctness of the lifecycle model.
THEOREM LifecycleTypeCorrect == Spec => []TypeOK
<1>1. LifecycleInv => TypeOK
  BY DEF LifecycleInv
<1> QED BY <1>1, LifecycleInvariance, PTL

\* listen() returns only when another thread has called terminate() on a
\* listening server (IGenericServer.h:129).
THEOREM ReturnsOnlyOnTerminateHolds == Spec => []ReturnsOnlyOnTerminate
<1>1. LifecycleInv => ReturnsOnlyOnTerminate
  BY DEF LifecycleInv
<1> QED BY <1>1, LifecycleInvariance, PTL

\* A listen() that has returned has left no descriptor open and the server not
\* listening, whatever other threads did to the shared flags.
THEOREM DoneMeansClosedHolds == Spec => []DoneMeansClosed
<1>1. LifecycleInv => DoneMeansClosed
  BY DEF LifecycleInv, ClosedInOrder, DoneMeansClosed
<1> QED BY <1>1, LifecycleInvariance, PTL

-----------------------------------------------------------------------------
(* Owner alone: start() and stop() while nobody else calls the server *)

\* Where the listening thread can be while Owner is at its own step.
OwnerAndListener ==
    /\ pc[Owner] \in {"idle", "read"} =>
         lpc \in IF joinable THEN Serving ELSE {"none", "done"}
    /\ pc[Owner] \in {"ready", "readyWait"} =>
         lpc \in IF joinable THEN Starting \cup Serving ELSE {"none", "done"}
    /\ pc[Owner] = "stop" => joinable /\ lpc \in Serving
    /\ pc[Owner] \in {"wake", "drain", "drainWait"} =>
         joinable /\ stop_server /\ lpc \in Serving \cup Closing \cup {"done"}
    /\ pc[Owner] \in {"unstop", "unlisten", "join"} =>
         lpc \in IF joinable THEN {"doneNotify", "done"} ELSE {"none", "done"}
    /\ pc[Owner] \notin {"dead", "returned"}

\* What the flags say of the listening thread.
FlagsAreTrue ==
    /\ is_listening <=> lpc \in Serving \cup (Closing \ {"doneNotify"})
    /\ stop_server => pc[Owner] \in {"wake", "drain", "drainWait", "unstop"}

\* What the listening thread has open, and when its pipe can hold a byte.
OpenWhileServing ==
    /\ lpc \in {"setup", "publish"} \cup Serving => listen_sock
    /\ lpc \in {"publish"} \cup Serving => epollfd
    /\ lpc = "none" => ~epollfd /\ ~pipeFull
    /\ pipeFull => stop_server \/ ~listen_sock
    /\ lpc = "polled" /\ polledPipe => pipeFull

\* Owner's calls, in the order of its one thread, keep all of this.
AloneInv ==
    /\ Alone /\ lpc # "dead" => OwnerAndListener /\ FlagsAreTrue /\ OpenWhileServing
    /\ PipeNotDelivered
    /\ lpc = "dead" => \A c \in Callers : pc[c] = "dead"

\* A thread that has made its call never is as if it had not.
LEMMA AloneBefore ==
    ASSUME TypeOK, Next, Alone'
    PROVE  Alone
<1> SUFFICES ASSUME NEW d \in Terminators \cup Waiters, pc[d] # "idle" PROVE FALSE
  BY DEF Alone
<1>1. d \in Callers /\ d # Owner /\ pc'[d] = "idle"
  BY LifecycleAssumption DEF Alone, Callers
<1>2. CASE NotifyOne \/ UNCHANGED pc \/ Abort
  BY <1>1, <1>2 DEF NotifyOne, cv, Woken, Abort, TypeOK
<1>3. CASE \E c \in Callers, label \in CallerLabels :
          (label = "idle" => c = Owner) /\ Goto(c, label)
  BY <1>1, <1>3 DEF Goto, TypeOK
<1>4. CASE ListenerStep \/ ListenPollOther \/ ListenThrows
  BY <1>2, <1>4 DEF ListenerStep, ListenEntry, ListenSetup, ListenPublish, ListenReadyNotify,
     ListenLoop, ListenPollPipe, ListenPollOther, ListenPolled, ListenHandled, ListenThrows,
     CloseConns, CloseEpoll, CloseListen, CloseClear, CloseNotify, callerVars
<1>5. CASE Start \/ StartNoThread \/ Stop
  BY <1>2, <1>3, <1>5 DEF Start, StartNoThread, Stop, CallerLabels, Callers
<1>6. ASSUME NEW c \in Callers, CallerStep(c) \/ WaitCall(c) \/ TerminateCall(c) PROVE FALSE
  BY <1>3, <1>6 DEF CallerStep, WaitReady, TerminateRead, TerminateStop, TerminateWake,
     TerminateDrain, TerminateUnstop, TerminateReturn, StopJoin, WaitCall, TerminateCall,
     CallerLabels
<1>7. ASSUME NEW c \in Callers, SpuriousWakeup(c) PROVE FALSE
  BY <1>1, <1>7 DEF SpuriousWakeup, cv, Woken, TypeOK
<1> QED
  BY <1>4, <1>5, <1>6, <1>7 DEF Next

\* While nobody else has called, only the two threads of the server take steps.
LEMMA OwnerOnly ==
    ASSUME TypeOK, Next, Alone, Alone'
    PROVE  \/ ListenerStep \/ ListenPollOther \/ ListenThrows \/ Start \/ StartNoThread \/ Stop
           \/ CallerStep(Owner) \/ SpuriousWakeup(Owner)
<1> SUFFICES ASSUME NEW c \in Terminators \cup Waiters,
                    CallerStep(c) \/ WaitCall(c) \/ TerminateCall(c) \/ SpuriousWakeup(c)
             PROVE  FALSE
  BY LifecycleAssumption DEF Next, Callers, WaitCall, TerminateCall
<1>1. c \in Callers /\ c # Owner /\ pc[c] = "idle" /\ pc'[c] = "idle"
  BY LifecycleAssumption DEF Alone, Callers
<1> QED
  BY <1>1 DEF CallerStep, WaitReady, TerminateRead, TerminateStop, TerminateWake,
     TerminateDrain, TerminateUnstop, TerminateReturn, WaitCall, TerminateCall,
     SpuriousWakeup, cv, Goto, TypeOK

\* While nobody else has called, notify_one() wakes Owner or nobody.
LEMMA NotifyAlone ==
    ASSUME TypeOK, Alone, NotifyOne
    PROVE  \/ pc'[Owner] = pc[Owner]
           \/ pc[Owner] = "readyWait" /\ pc'[Owner] = "ready"
           \/ pc[Owner] = "drainWait" /\ pc'[Owner] = "drain"
BY Zenon, LifecycleAssumption DEF TypeOK, Alone, NotifyOne, cv, Woken, Callers

\* The steps of the listening thread preserve AloneInv.
LEMMA ListenerAlone ==
    ASSUME LifecycleInv, AloneInv, Alone, lpc # "dead", lpc' # "dead",
           ListenerStep \/ ListenPollOther
    PROVE  OwnerAndListener' /\ FlagsAreTrue' /\ OpenWhileServing'
<1> USE DEF LifecycleInv, AloneInv, OwnerAndListener, FlagsAreTrue, OpenWhileServing,
            Starting, Serving, Closing, serverVars, listenerVars, callerVars, LGoto
<1>1. CASE ListenEntry
  BY <1>1 DEF ListenEntry, Abort
<1>2. CASE ListenSetup
  BY <1>2 DEF ListenSetup
<1>3. CASE ListenPublish
  BY <1>3 DEF ListenPublish
<1>4. CASE ListenReadyNotify
  BY <1>4, NotifyAlone DEF ListenReadyNotify
<1>5. CASE ListenLoop
  BY <1>5 DEF ListenLoop
<1>6. CASE ListenPollPipe
  BY <1>6 DEF ListenPollPipe
<1>7. CASE ListenPollOther
  BY <1>7 DEF ListenPollOther
<1>8. CASE ListenPolled
  BY <1>8 DEF ListenPolled
<1>9. CASE ListenHandled
  BY <1>9 DEF ListenHandled
<1>10. CASE CloseConns
  BY <1>10 DEF CloseConns
<1>11. CASE CloseEpoll
  BY <1>11 DEF CloseEpoll
<1>12. CASE CloseListen
  BY <1>12 DEF CloseListen
<1>13. CASE CloseClear
  BY <1>13 DEF CloseClear
<1>14. CASE CloseNotify
  BY Zenon, <1>14, NotifyAlone DEF CloseNotify
<1> QED
  BY Zenon, <1>1, <1>2, <1>3, <1>4, <1>5, <1>6, <1>7, <1>8, <1>9, <1>10, <1>11, <1>12, <1>13, <1>14
     DEF ListenerStep

\* Owner's steps preserve AloneInv.
LEMMA OwnerAlone ==
    ASSUME LifecycleInv, AloneInv, Alone, lpc # "dead", lpc' # "dead",
           Start \/ StartNoThread \/ Stop \/ CallerStep(Owner) \/ SpuriousWakeup(Owner)
    PROVE  OwnerAndListener' /\ FlagsAreTrue' /\ OpenWhileServing'
<1> USE DEF LifecycleInv, AloneInv, OwnerAndListener, FlagsAreTrue, OpenWhileServing,
            Starting, Serving, Closing, serverVars, listenerVars, callerVars, LGoto, Goto
<1>0. Owner \in Callers /\ pc \in [Callers -> CallerLabels]
  BY DEF Callers, TypeOK
<1>1. CASE Start
  BY <1>0, <1>1 DEF Start, Abort, ClosedInOrder
<1>2. CASE Stop
  BY <1>0, <1>2 DEF Stop
<1>3. CASE WaitReady(Owner)
  BY <1>0, <1>3 DEF WaitReady
<1>4. CASE TerminateRead(Owner)
  BY <1>0, <1>4 DEF TerminateRead
<1>5. CASE TerminateStop(Owner)
  BY <1>0, <1>5 DEF TerminateStop
<1>6. CASE TerminateWake(Owner)
  BY <1>0, <1>6 DEF TerminateWake
<1>7. CASE TerminateDrain(Owner)
  BY <1>0, <1>7 DEF TerminateDrain
<1>8. CASE TerminateUnstop(Owner)
  BY <1>0, <1>8 DEF TerminateUnstop, ClosedInOrder
<1>9. CASE TerminateReturn(Owner)
  BY <1>0, <1>9 DEF TerminateReturn
<1>10. CASE StopJoin
  BY <1>0, <1>10 DEF StopJoin
<1>11. CASE SpuriousWakeup(Owner)
  BY <1>0, <1>11 DEF SpuriousWakeup, cv, Woken
<1>12. CASE StartNoThread
  BY <1>0, <1>12 DEF StartNoThread
<1> QED
  BY Zenon, <1>1, <1>2, <1>3, <1>4, <1>5, <1>6, <1>7, <1>8, <1>9, <1>10, <1>11, <1>12
     DEF CallerStep

\* While nobody else has called, the pipe's event is handled only when
\* stop_server is set.
LEMMA PipeAlone ==
    ASSUME LifecycleInv, AloneInv, Next, Alone'
    PROVE  ~pipeDelivered'
<1>1. Alone /\ ~pipeDelivered
  BY AloneBefore DEF LifecycleInv, AloneInv, PipeNotDelivered
<1>2. CASE ListenPolled
  BY <1>1, <1>2 DEF LifecycleInv, TypeOK, AloneInv, OpenWhileServing, Serving, ListenPolled
<1>3. CASE ~ListenPolled
  <2>1. pipeDelivered' = pipeDelivered
    <3>1. CASE ListenerStep \/ ListenPollOther \/ ListenThrows \/ Start \/ StartNoThread
            \/ Stop
      BY <1>3, <3>1
         DEF ListenerStep, ListenEntry, ListenSetup, ListenPublish, ListenReadyNotify,
         ListenLoop, ListenPollPipe, ListenPollOther, ListenHandled, ListenThrows, CloseConns,
         CloseEpoll, CloseListen, CloseClear, CloseNotify, Start, StartNoThread, Stop, listenerVars
    <3>2. ASSUME NEW c \in Callers,
                 CallerStep(c) \/ WaitCall(c) \/ TerminateCall(c) \/ SpuriousWakeup(c)
          PROVE  pipeDelivered' = pipeDelivered
      BY Zenon, <3>2 DEF CallerStep, WaitReady, TerminateRead, TerminateStop, TerminateWake,
         TerminateDrain, TerminateUnstop, TerminateReturn, StopJoin, WaitCall, TerminateCall,
         SpuriousWakeup, listenerVars
    <3> QED
      BY <3>1, <3>2 DEF Next
  <2> QED
    BY <1>1, <2>1
<1> QED
  BY <1>2, <1>3

\* std::terminate() leaves no thread that could take a step.
LEMMA DeadIsFinal ==
    ASSUME Next, lpc = "dead", \A c \in Callers : pc[c] = "dead"
    PROVE  FALSE
<1>1. Owner \in Callers
  BY DEF Callers
<1> QED
  BY <1>1 DEF Next, ListenerStep, ListenEntry, ListenSetup, ListenPublish, ListenReadyNotify,
     ListenLoop, ListenPollPipe, ListenPollOther, ListenPolled, ListenHandled, ListenThrows,
     CloseConns, CloseEpoll, CloseListen, CloseClear, CloseNotify, Start, StartNoThread, Stop, CallerStep,
     WaitReady, TerminateRead, TerminateStop, TerminateWake, TerminateDrain, TerminateUnstop,
     TerminateReturn, StopJoin, WaitCall, TerminateCall, SpuriousWakeup, cv

\* The process dies as a whole.
LEMMA DiesAsWhole ==
    ASSUME Next, lpc # "dead", lpc' = "dead"
    PROVE  \A c \in Callers : pc'[c] = "dead"
<1>1. CASE ListenerStep \/ ListenPollOther \/ ListenThrows \/ Start \/ StartNoThread \/ Stop
  BY <1>1 DEF ListenerStep, ListenEntry, ListenSetup, ListenPublish, ListenReadyNotify,
     ListenLoop, ListenPollPipe, ListenPollOther, ListenPolled, ListenHandled, ListenThrows,
     CloseConns, CloseEpoll, CloseListen, CloseClear, CloseNotify, Start, StartNoThread, Stop, Abort, LGoto,
     listenerVars
<1>2. ASSUME NEW c \in Callers,
             CallerStep(c) \/ WaitCall(c) \/ TerminateCall(c) \/ SpuriousWakeup(c)
      PROVE  FALSE
  BY <1>2 DEF CallerStep, WaitReady, TerminateRead, TerminateStop, TerminateWake,
     TerminateDrain, TerminateUnstop, TerminateReturn, StopJoin, WaitCall, TerminateCall,
     SpuriousWakeup, listenerVars
<1> QED
  BY <1>1, <1>2 DEF Next

\* AloneInv holds of every execution.
THEOREM AloneInvariance == Spec => []AloneInv
<1>1. Init => AloneInv
  BY DEF Init, AloneInv, OwnerAndListener, FlagsAreTrue, OpenWhileServing, PipeNotDelivered,
     Callers, Starting, Serving, Closing
<1>2. LifecycleInv /\ AloneInv /\ [Next]_vars => AloneInv'
  <2> SUFFICES ASSUME LifecycleInv, AloneInv, [Next]_vars PROVE AloneInv'
    OBVIOUS
  <2>1. CASE UNCHANGED vars
    BY <2>1 DEF vars, serverVars, listenerVars, callerVars, AloneInv, Alone, OwnerAndListener,
       FlagsAreTrue, OpenWhileServing, PipeNotDelivered
  <2>2. CASE Next
    <3>1. lpc # "dead"
      BY <2>2, DeadIsFinal DEF AloneInv
    <3>2. ASSUME Alone', lpc' # "dead"
          PROVE  OwnerAndListener' /\ FlagsAreTrue' /\ OpenWhileServing'
      <4>1. Alone
        BY <2>2, <3>2, AloneBefore DEF LifecycleInv
      <4>2. \/ ListenerStep \/ ListenPollOther \/ ListenThrows
            \/ Start \/ StartNoThread \/ Stop
            \/ CallerStep(Owner) \/ SpuriousWakeup(Owner)
        BY <2>2, <3>2, <4>1, OwnerOnly DEF LifecycleInv
      <4>3. ~ListenThrows
        BY <3>2 DEF ListenThrows, Abort
      <4> QED
        BY <3>1, <3>2, <4>1, <4>2, <4>3, ListenerAlone, OwnerAlone
    <3>3. PipeNotDelivered'
      BY <2>2, PipeAlone DEF PipeNotDelivered
    <3>4. lpc' = "dead" => \A c \in Callers : pc'[c] = "dead"
      BY <2>2, <3>1, DiesAsWhole
    <3> QED
      BY <3>2, <3>3, <3>4 DEF AloneInv
  <2> QED
    BY <2>1, <2>2
<1> QED
  BY <1>1, <1>2, LifecycleInvariance, PTL DEF Spec

\* When start() has returned, the server listens on open descriptors until
\* somebody calls stop() or terminate().
THEOREM StartMeansListeningHolds == Spec => []StartMeansListening
<1>1. AloneInv => StartMeansListening
  BY DEF AloneInv, OwnerAndListener, FlagsAreTrue, OpenWhileServing, StartMeansListening,
     Serving,
     Callers
<1> QED
  BY <1>1, AloneInvariance, PTL

\* callback_function is never given the command pipe's descriptor by a stop().
THEOREM PipeNotDeliveredHolds == Spec => []PipeNotDelivered
<1>1. AloneInv => PipeNotDelivered
  BY DEF AloneInv
<1> QED
  BY <1>1, AloneInvariance, PTL

\* The terminate() of a stop() returns when the listening thread has closed its
\* descriptors (IGenericServer.h:140), if no other thread calls the server.
THEOREM TerminateMeansTerminatedHolds == Spec => TerminateMeansTerminated
<1>1. LifecycleInv /\ AloneInv /\ [Next]_vars
        => [Alone /\ TerminateReturn(Owner) => Stopped]_vars
  <2> SUFFICES ASSUME LifecycleInv, AloneInv, Alone, TerminateReturn(Owner)
               PROVE  Stopped
    BY DEF vars
  <2>1. lpc \in {"none", "doneNotify", "done"}
    BY DEF AloneInv, OwnerAndListener, TerminateReturn, Callers
  <2> QED
    BY <2>1 DEF LifecycleInv, ClosedInOrder, AloneInv, OpenWhileServing, Stopped
<1> QED
  BY <1>1, LifecycleInvariance, AloneInvariance, PTL DEF Spec, TerminateMeansTerminated

=============================================================================
