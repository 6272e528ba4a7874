---------------------------- MODULE ServerProofs ----------------------------
(***************************************************************************)
(* Proofs about a ThreadedServer with clients.  Seen through its lifecycle *)
(* variables the composition is ServerLifecycle with no caller but Owner,  *)
(* so what is proved there holds here; seen through the variables of the   *)
(* loop it preserves the invariant of EchoServer until the process ends.   *)
(* QuietAfterStop follows from the two and from where both models put the  *)
(* listening thread.                                                       *)
(*                                                                         *)
(* The refinement of ConnectionService is proved of the loop by itself,    *)
(* and carried over to the composition.                                    *)
(***************************************************************************)
EXTENDS Server, EchoServerProofs

LP == INSTANCE ServerLifecycleProofs WITH
    lpc <- spc, Terminators <- {}, Waiters <- {}

-----------------------------------------------------------------------------
(* The lifecycle *)

\* The events of connections do not touch the lifecycle, except by ending it.
LEMMA HandleEventStep ==
    ASSUME HandleEvent
    PROVE  L!Next \/ UNCHANGED L!vars
<1>1. stop_server' = stop_server
  BY DEF HandleEvent, AcceptInsert, AcceptAdd, SmartCloseDecrement, AppStep, AppIgnore,
     AppClose,
     AppCloseDecrement, AppRead, AppWrite, AppWriteFails, AppSleep, AppWriteSignal, AcceptNone, AcceptThrows, Accept,
     SmartClose, Dispatch
<1> QED
  BY ZenonT(40), <1>1 DEF HandleEvent, lifecycleVars, L!Next, L!vars, L!serverVars, L!listenerVars,
     L!callerVars

\* Every step of the composition is a step of the lifecycle, or none.
LEMMA LifecycleStep == [ServerNext]_serverModelVars => [L!Next]_(L!vars)
<1> SUFFICES ASSUME [ServerNext]_serverModelVars PROVE L!Next \/ UNCHANGED L!vars
  OBVIOUS
<1>1. CASE UNCHANGED serverModelVars
  BY <1>1 DEF serverModelVars, lifecycleVars, elVars, L!vars, L!serverVars, L!listenerVars,
     L!callerVars
<1>2. CASE ThreadStep
  <2>1. CASE EnterOrLeave \/ TopOfLoop \/ PollPipe \/ AfterPoll \/ Handled \/ CloseConnections
    BY <2>1 DEF EnterOrLeave, TopOfLoop, PollPipe, AfterPoll, Handled, CloseConnections,
       L!Next, L!ListenerStep
  <2>2. CASE PollConnections
    BY <2>2 DEF PollConnections, L!Next
  <2> QED
    BY ZenonT(40), <1>2, <2>1, <2>2, HandleEventStep DEF ThreadStep
<1>3. CASE Throws
  BY <1>3 DEF Throws, L!Next
<1>4. CASE OwnerStep \/ OwnerWakes
  BY <1>4 DEF OwnerStep, OwnerWakes, L!Next, L!Callers
<1>5. CASE OwnerCalls
  BY ZenonT(40), <1>5 DEF OwnerCalls, L!Next
<1>6. CASE ClientStep
  BY <1>6 DEF ClientStep, Connect, BacklogDrop, ClientAct, lifecycleVars, L!vars,
     L!serverVars, L!listenerVars, L!callerVars
<1> QED
  BY ZenonT(40), <1>1, <1>2, <1>3, <1>4, <1>5, <1>6 DEF ServerNext

\* A server with clients starts and stops as ServerLifecycle says.
THEOREM LifecycleRefinement == ServerSpec => L!Spec
<1>1. ServerInit => L!Init
  BY DEF ServerInit
<1> QED
  BY <1>1, LifecycleStep, PTL DEF ServerSpec, L!Spec

\* The lifecycle that is proved about is the one that is composed.
LEMMA SameLifecycle ==
    /\ L!Init => LP!Init
    /\ [L!Next]_(L!vars) => [LP!Next]_(LP!vars)
<1>1. (L!Init => LP!Init) /\ (UNCHANGED L!vars => UNCHANGED LP!vars)
  BY ZenonT(40) DEF L!Init, LP!Init, L!vars, LP!vars,
     L!Callers, LP!Callers, L!serverVars, LP!serverVars, L!listenerVars, LP!listenerVars,
     L!callerVars, LP!callerVars
<1>2. L!ListenerStep \/ L!ListenPollOther \/ L!ListenThrows
        => LP!ListenerStep \/ LP!ListenPollOther \/ LP!ListenThrows
  BY DEF
     L!ListenerStep, LP!ListenerStep, L!ListenEntry, LP!ListenEntry, L!ListenSetup,
     LP!ListenSetup, L!ListenPublish, LP!ListenPublish, L!ListenReadyNotify,
     LP!ListenReadyNotify, L!ListenLoop, LP!ListenLoop, L!ListenPollPipe, LP!ListenPollPipe,
     L!ListenPollOther, LP!ListenPollOther, L!ListenPolled, LP!ListenPolled, L!ListenHandled,
     LP!ListenHandled, L!ListenThrows, LP!ListenThrows, L!CloseConns, LP!CloseConns,
     L!CloseEpoll, LP!CloseEpoll, L!CloseListen, LP!CloseListen, L!CloseClear, LP!CloseClear,
     L!CloseNotify, LP!CloseNotify, L!serverVars, LP!serverVars, L!listenerVars,
     LP!listenerVars, L!callerVars, LP!callerVars, L!Callers, LP!Callers, L!CallerLabels,
     LP!CallerLabels, L!LGoto, LP!LGoto, L!Goto, LP!Goto, L!Abort, LP!Abort, L!cv, LP!cv,
     L!Woken, LP!Woken, L!NotifyOne, LP!NotifyOne
<1>3. L!Start \/ L!StartNoThread \/ L!Stop => LP!Start \/ LP!StartNoThread \/ LP!Stop
  BY Zenon DEF
     L!Start, LP!Start, L!StartNoThread, LP!StartNoThread, L!Stop, LP!Stop, L!decorator_is_listening, LP!decorator_is_listening,
     L!serverVars, LP!serverVars, L!listenerVars, LP!listenerVars, L!callerVars,
     LP!callerVars, L!Callers, LP!Callers, L!CallerLabels, LP!CallerLabels, L!LGoto,
     LP!LGoto, L!Goto, LP!Goto, L!Abort, LP!Abort, L!cv, LP!cv, L!Woken, LP!Woken,
     L!NotifyOne, LP!NotifyOne
<1>4. ASSUME NEW c,
             L!CallerStep(c) \/ L!WaitCall(c) \/ L!TerminateCall(c) \/ L!SpuriousWakeup(c)
      PROVE  LP!CallerStep(c) \/ LP!WaitCall(c) \/ LP!TerminateCall(c) \/ LP!SpuriousWakeup(c)
  BY Zenon, <1>4 DEF
     L!CallerStep, LP!CallerStep, L!WaitCall, LP!WaitCall, L!WaitReady, LP!WaitReady,
     L!TerminateCall, LP!TerminateCall, L!TerminateRead, LP!TerminateRead, L!TerminateStop,
     LP!TerminateStop, L!TerminateWake, LP!TerminateWake, L!TerminateDrain,
     LP!TerminateDrain, L!TerminateUnstop, LP!TerminateUnstop, L!TerminateReturn,
     LP!TerminateReturn, L!Start, LP!Start, L!StartNoThread, LP!StartNoThread, L!Stop, LP!Stop, L!StopJoin, LP!StopJoin,
     L!SpuriousWakeup, LP!SpuriousWakeup, L!decorator_is_listening,
     LP!decorator_is_listening, L!serverVars, LP!serverVars, L!listenerVars, LP!listenerVars,
     L!callerVars, LP!callerVars, L!Callers, LP!Callers, L!CallerLabels, LP!CallerLabels,
     L!LGoto, LP!LGoto, L!Goto, LP!Goto, L!Abort, LP!Abort, L!cv, LP!cv, L!Woken, LP!Woken,
     L!NotifyOne, LP!NotifyOne
<1> QED
  BY ZenonT(40), <1>1, <1>2, <1>3, <1>4 DEF L!Next, LP!Next, L!Callers, LP!Callers

\* What is proved of Owner alone holds of the composition.
THEOREM AloneWithClients == ServerSpec => [](LP!TypeOK /\ LP!AloneInv)
<1>1. LP!LifecycleAssumption
  BY Zenon, ServerAssumption DEF LP!LifecycleAssumption
<1>2. (LP!Spec => []LP!AloneInv) /\ (LP!Spec => []LP!TypeOK)
  BY ZenonT(40), <1>1, LP!AloneInvariance, LP!LifecycleTypeCorrect
<1>3. L!Init => LP!Init
  BY SameLifecycle
<1>4. [L!Next]_(L!vars) => [LP!Next]_(LP!vars)
  BY ZenonT(40), SameLifecycle
<1> QED
  BY <1>2, <1>3, <1>4, LifecycleRefinement, PTL DEF L!Spec, LP!Spec

-----------------------------------------------------------------------------
(* The loop *)

\* A step that leaves the loop alone, apart from stop_server, keeps its invariant.
LEMMA IdleKeeps ==
    ASSUME EchoInv, LoopIdle, stop_server' \in BOOLEAN
    PROVE  EchoInv'
<1>1. Open' = Open
  BY ZenonT(40) DEF Open, LoopIdle, kernelVars
<1> QED
  BY SMTT(60), <1>1 DEF LoopIdle, kernelVars, serverVars, ioVars, loopVars, EchoInv, TypeOK,
     ELTypeOK, Stages, OneFd, BatchOnce, IOMarked, FdsTracked, CountExact, EventsFresh,
     SmartCloseOnlyUnused

\* The pipe's event is reported without one of a connection.
LEMMA PollPipeKeeps ==
    ASSUME EchoInv, PollPipe, stop_server' = stop_server
    PROVE  EchoInv'
<1>1. Open' = Open
  BY DEF Open, PollPipe, kernelVars
<1> QED
  BY <1>1 DEF PollPipe, Goto, kernelVars, serverVars, ioVars, EchoInv, TypeOK, ELTypeOK,
     LoopLabels, InCall, Accepting,
     Stages, OneFd, BatchOnce, IOMarked, FdsTracked, CountExact, EventsFresh,
     SmartCloseOnlyUnused

\* Until the process ends, every step preserves the invariant of EchoServer.
LEMMA LoopStepKeeps ==
    ASSUME EchoInv, ServerNext, stop_server' \in BOOLEAN, lpc' # "dead"
    PROVE  EchoInv'
<1>1. CASE Next
  BY Zenon, <1>1, EchoStep
<1>2. CASE LoopIdle
  BY ZenonT(40), <1>2, IdleKeeps
<1>3. CASE EnterOrLeave \/ OwnerStep \/ OwnerWakes
  BY Zenon, <1>2, <1>3 DEF EnterOrLeave, OwnerStep, OwnerWakes
<1>4. CASE TopOfLoop \/ PollConnections \/ AfterPoll \/ Handled \/ CloseConnections
  BY ZenonT(40), <1>1, <1>2, <1>4
     DEF TopOfLoop, PollConnections, AfterPoll, Handled, CloseConnections, Next,
     ListenerStep, LoopStep
<1>5. CASE PollPipe
  BY Zenon, <1>5, PollPipeKeeps DEF PollPipe, L!ListenPollPipe, L!serverVars
<1>6. CASE HandleEvent
  BY Zenon, <1>1, <1>6 DEF HandleEvent, Next, ListenerStep, LoopStep
<1>7. CASE Throws
  BY Zenon, <1>7 DEF Throws, Goto, LoopThrows
<1>8. CASE OwnerCalls
  BY Zenon, <1>2, <1>8 DEF OwnerCalls, Goto, LoopIdle, loopVars
<1>9. CASE ClientStep
  BY ZenonT(40), <1>1, <1>9 DEF ClientStep, Next, EnvStep
<1> QED
  BY ZenonT(40), <1>3, <1>4, <1>5, <1>6, <1>7, <1>8, <1>9 DEF ServerNext, ThreadStep

\* Once closeSockets() has closed the connections there are none, and there will
\* be none; the loop dies only with the process.
ClosedForGood ==
    /\ spc \in {"closeEpoll", "closeListen", "clear", "doneNotify", "done"} =>
         lpc = "stopped" /\ Open = {}
    /\ lpc = "dead" => spc = "dead"
    /\ lpc # "dead" => EchoInv

\* The dead process takes no step.
LEMMA DeadServer ==
    ASSUME LP!AloneInv, spc = "dead", ThreadStep \/ Throws \/ OwnerStep \/ OwnerWakes \/ OwnerCalls
    PROVE  FALSE
<1>1. pc[Owner] = "dead"
  BY Zenon DEF LP!AloneInv, LP!Callers
<1> QED
  BY Zenon, <1>1 DEF ThreadStep, EnterOrLeave, TopOfLoop, PollConnections, PollPipe, AfterPoll,
     HandleEvent, Handled, CloseConnections, Throws, OwnerStep, OwnerWakes, OwnerCalls,
     L!ListenEntry, L!ListenSetup, L!ListenPublish, L!ListenReadyNotify, L!ListenLoop,
     L!ListenPollPipe, L!ListenPollOther, L!ListenPolled, L!ListenHandled, L!ListenThrows,
     L!CloseConns, L!CloseEpoll, L!CloseListen, L!CloseClear, L!CloseNotify, L!Start, L!StartNoThread, L!Stop,
     L!CallerStep, L!WaitReady, L!TerminateRead, L!TerminateStop, L!TerminateWake,
     L!TerminateDrain, L!TerminateUnstop, L!TerminateReturn, L!StopJoin, L!SpuriousWakeup, L!cv

\* closeSockets() closes what FdsTracked says is all.
LEMMA ConnectionsClosed ==
    ASSUME EchoInv, CloseConnections
    PROVE  lpc' = "stopped" /\ Open' = {}
<1>1. lpc = "closing" /\ lpc' = "stopped" /\ KernelClose(incoming_conn_fd)
  BY DEF CloseConnections, CloseSockets, Goto
<1>2. \A f \in Fds : f \in incoming_conn_fd \/ fdConn[f] = None
  BY Zenon, <1>1 DEF EchoInv, FdsTracked, Open
<1> QED
  BY ZenonT(40), <1>1, <1>2 DEF KernelClose, Open

\* Every step preserves it.
LEMMA ClosedForGoodStep ==
    ASSUME ClosedForGood, LP!AloneInv, stop_server' \in BOOLEAN, ServerNext
    PROVE  ClosedForGood'
<1> DEFINE Shut == {"closeEpoll", "closeListen", "clear", "doneNotify", "done"}
<1>1. CASE ClientStep
  <2>1. lpc' = lpc /\ spc' = spc /\ Open' = Open
    BY Zenon, <1>1 DEF ClientStep, Connect, BacklogDrop, ClientAct, lifecycleVars, loopVars, Open
  <2>2. lpc' # "dead" => EchoInv'
    BY Zenon, <2>1, LoopStepKeeps DEF ClosedForGood
  <2> QED
    BY ZenonT(40), <2>1, <2>2 DEF ClosedForGood
<1>2. CASE ThreadStep \/ Throws \/ OwnerStep \/ OwnerWakes \/ OwnerCalls
  <2>1. spc # "dead" /\ lpc # "dead" /\ EchoInv
    BY Zenon, <1>2, DeadServer DEF ClosedForGood
  <2>2. lpc' # "dead" => EchoInv'
    BY ZenonT(40), <2>1, LoopStepKeeps
  <2> SUFFICES /\ spc' \in Shut => lpc' = "stopped" /\ Open' = {}
               /\ lpc' = "dead" => spc' = "dead"
    BY Zenon, <2>2 DEF ClosedForGood
  <2>3. CASE LoopIdle /\ (spc' \in Shut => spc \in Shut)
    BY ZenonT(40), <2>1, <2>3 DEF ClosedForGood, LoopIdle, kernelVars, loopVars, Open
  <2>4. CASE EnterOrLeave
    BY ZenonT(40), <2>3, <2>4 DEF EnterOrLeave, L!ListenEntry, L!ListenSetup, L!ListenPublish,
       L!ListenReadyNotify, L!CloseEpoll, L!CloseListen, L!CloseClear, L!CloseNotify, L!LGoto,
       L!Abort
  <2>5. CASE OwnerStep \/ OwnerWakes
    BY ZenonT(40), <2>3, <2>5 DEF OwnerStep, OwnerWakes, L!CallerStep, L!WaitReady, L!TerminateRead,
       L!TerminateStop, L!TerminateWake, L!TerminateDrain, L!TerminateUnstop,
       L!TerminateReturn, L!StopJoin, L!SpuriousWakeup, L!listenerVars
  <2>6. CASE OwnerCalls
    <3>1. spc' = spc \/ spc' \in {"entry", "dead"}
      BY Zenon, <2>6 DEF OwnerCalls, L!Start, L!StartNoThread, L!Stop, L!Abort, L!LGoto, L!listenerVars
    <3>2. fdConn' = fdConn /\ lpc' = IF spc' = "dead" THEN "dead" ELSE lpc
      BY Zenon, <2>6 DEF OwnerCalls, Goto, kernelVars
    <3> QED
      BY ZenonT(40), <2>1, <3>1, <3>2 DEF ClosedForGood, Open
  <2>7. CASE TopOfLoop \/ PollConnections \/ PollPipe \/ AfterPoll \/ Handled
    BY ZenonT(40), <2>1, <2>7
       DEF TopOfLoop, PollConnections, PollPipe, AfterPoll, Handled, L!ListenLoop,
       L!ListenPollOther, L!ListenPollPipe, L!ListenPolled, L!ListenHandled, L!LGoto,
       LoopStop, LoopIdle, loopVars, EpollWait, Polled, BatchDone, Goto
  <2>8. CASE HandleEvent
    BY Zenon, <2>1, <2>8 DEF HandleEvent, L!ListenThrows, L!Abort, lifecycleVars
  <2>9. CASE CloseConnections
    BY ZenonT(40), <2>1, <2>9, ConnectionsClosed
  <2>10. CASE Throws
    BY <2>10 DEF Throws, L!ListenThrows, L!Abort
  <2> QED
    BY ZenonT(40), <1>2, <2>4, <2>5, <2>6, <2>7, <2>8, <2>9, <2>10 DEF ThreadStep
<1> QED
  BY Zenon, <1>1, <1>2 DEF ServerNext

\* Connections are closed for good, in every execution.
THEOREM ClosedForGoodHolds == ServerSpec => []ClosedForGood
<1>1. ServerInit => ClosedForGood
  BY Zenon, EchoInit DEF ServerInit, L!Init, Init, ELInit, ClosedForGood
<1>2. ClosedForGood /\ UNCHANGED serverModelVars => ClosedForGood'
  <2> SUFFICES ASSUME ClosedForGood, UNCHANGED serverModelVars PROVE ClosedForGood'
    BY Zenon
  <2>1. Open' = Open /\ lpc' = lpc /\ spc' = spc /\ UNCHANGED elVars
    BY DEF serverModelVars, elVars, kernelVars, loopVars, lifecycleVars, Open
  <2> QED
    BY ZenonT(40), <2>1, EchoStep DEF ClosedForGood
<1>3. LP!TypeOK => stop_server \in BOOLEAN
  BY DEF LP!TypeOK
<1>4. ClosedForGood /\ LP!AloneInv /\ (stop_server \in BOOLEAN)' /\ [ServerNext]_serverModelVars
        => ClosedForGood'
  BY Zenon, <1>2, ClosedForGoodStep
<1> QED
  BY <1>1, <1>3, <1>4, AloneWithClients, PTL DEF ServerSpec

\* When the terminate() of a stop() has returned, no callback runs or will run and
\* no connection is open, whatever clients did meanwhile.
THEOREM QuietAfterStopHolds == ServerSpec => []QuietAfterStop
<1>1. LP!AloneInv /\ ClosedForGood => QuietAfterStop
  <2> SUFFICES ASSUME LP!AloneInv, ClosedForGood, joinable,
                      pc[Owner] \in {"unstop", "unlisten", "join"}
               PROVE  lpc = "stopped" /\ Open = {}
    BY DEF QuietAfterStop
  <2>1. LP!Alone /\ spc # "dead"
    BY Zenon DEF LP!Alone, LP!AloneInv, LP!Callers
  <2>2. spc \in {"doneNotify", "done"}
    BY Zenon, <2>1 DEF LP!AloneInv, LP!OwnerAndListener
  <2> QED
    BY Zenon, <2>2 DEF ClosedForGood
<1> QED
  BY <1>1, AloneWithClients, ClosedForGoodHolds, PTL

-----------------------------------------------------------------------------
(* Types *)

\* The steps of clients keep the types, also when the process has ended.
LEMMA ClientTypes ==
    ASSUME TypeOK, ClientStep
    PROVE  TypeOK'
<1> USE EventLoopAssumption DEF TypeOK, ELTypeOK, serverVars, loopVars, ioVars, kernelVars
<1>1. ASSUME NEW c \in Conns, Connect(c) PROVE TypeOK'
  BY Zenon, <1>1 DEF Connect, Flags
<1>2. ASSUME NEW c \in Conns, BacklogDrop(c) PROVE TypeOK'
  BY ZenonT(40), <1>2 DEF BacklogDrop
<1>3. ASSUME NEW c \in Conns, ClientAct(c) PROVE TypeOK'
  <2>1. PICK flag \in Flags : Signal(c, flag)
    BY ZenonT(40), <1>3 DEF ClientAct, Flags
  <2> QED
    BY <1>3, <2>1 DEF ClientAct, Signal
<1> QED
  BY ZenonT(40), <1>1, <1>2, <1>3 DEF ClientStep

\* The process ends outside the loop.
LEMMA EndTypes ==
    ASSUME TypeOK, Goto("dead"), UNCHANGED <<kernelVars, serverVars, batch, conn_sock, call>>,
           stop_server' \in BOOLEAN
    PROVE  TypeOK'
  BY DEF TypeOK, ELTypeOK, LoopLabels, Goto, kernelVars, serverVars, ioVars

\* Every step keeps the types of the loop's variables.
LEMMA ServerTypeStep ==
    ASSUME TypeOK, ClosedForGood, LP!AloneInv, stop_server' \in BOOLEAN, ServerNext
    PROVE  TypeOK'
<1>1. CASE ClientStep
  BY Zenon, <1>1, ClientTypes
<1>2. CASE ThreadStep \/ Throws \/ OwnerStep \/ OwnerWakes \/ OwnerCalls
  <2>1. lpc # "dead" /\ EchoInv
    BY Zenon, <1>2, DeadServer DEF ClosedForGood
  <2>2. CASE lpc' # "dead"
    BY ZenonT(40), <2>1, <2>2, LoopStepKeeps DEF EchoInv
  <2>3. CASE lpc' = "dead"
    <3>1. CASE Next
      BY ZenonT(40), <2>1, <3>1, TypeStep
    <3>2. ~LoopIdle /\ ~Goto("polled")
      BY ZenonT(40), <2>1, <2>3 DEF LoopIdle, loopVars, Goto
    <3>3. CASE EnterOrLeave \/ OwnerStep \/ OwnerWakes \/ PollPipe
      BY ZenonT(40), <3>2, <3>3 DEF EnterOrLeave, OwnerStep, OwnerWakes, PollPipe
    <3>4. CASE TopOfLoop \/ PollConnections \/ AfterPoll \/ Handled \/ CloseConnections
      BY ZenonT(40), <3>1, <3>2, <3>4
         DEF TopOfLoop, PollConnections, AfterPoll, Handled, CloseConnections, Next,
         ListenerStep, LoopStep
    <3>5. CASE HandleEvent
      BY ZenonT(40), <3>1, <3>5 DEF HandleEvent, Next, ListenerStep, LoopStep
    <3>6. CASE Throws
      BY ZenonT(40), <3>1, <3>6, EndTypes DEF Throws, Next, EnvStep
    <3>7. CASE OwnerCalls
      BY ZenonT(40), <2>1, <2>3, <3>7, EndTypes DEF OwnerCalls
    <3> QED
      BY ZenonT(40), <1>2, <3>3, <3>4, <3>5, <3>6, <3>7 DEF ThreadStep
  <2> QED
    BY ZenonT(40), <2>2, <2>3
<1> QED
  BY Zenon, <1>1, <1>2 DEF ServerNext

\* The variables of the loop and of the lifecycle have their types, also after a
\* step by which the process ends.
THEOREM ServerTypeCorrect == ServerSpec => []ServerTypeOK
<1>1. ServerInit => TypeOK
  BY ZenonT(40), EchoInit DEF ServerInit, EchoInv
<1>2. TypeOK /\ UNCHANGED serverModelVars => TypeOK'
  BY DEF serverModelVars, elVars, kernelVars, serverVars, ioVars, loopVars, TypeOK, ELTypeOK
<1>3. LP!TypeOK => stop_server \in BOOLEAN
  BY DEF LP!TypeOK
<1>4. TypeOK /\ ClosedForGood /\ LP!AloneInv /\ (stop_server \in BOOLEAN)'
        /\ [ServerNext]_serverModelVars => TypeOK'
  BY Zenon, <1>2, ServerTypeStep
<1>5. TypeOK /\ LP!TypeOK => ServerTypeOK
  BY Zenon DEF ServerTypeOK, L!TypeOK, LP!TypeOK, L!Callers, LP!Callers, L!CallerLabels,
     LP!CallerLabels, L!Starting, LP!Starting, L!Serving, LP!Serving, L!Closing, LP!Closing
<1> QED
  BY <1>1, <1>3, <1>4, <1>5, AloneWithClients, ClosedForGoodHolds, PTL DEF ServerSpec

-----------------------------------------------------------------------------
(* The service: the loop by itself *)

\* What the service sees of a connection depends on a few things only.
LEMMA SameView ==
    ASSUME \A c \in Conns : Announced(c)' = Announced(c),
           \A c \in Conns : Announced(c) => phase'[c] = phase[c],
           lpc # "decr", lpc' # "decr"
    PROVE  ServiceConn' = ServiceConn
BY DEF ServiceConn

\* The end of the process, wherever its loop was.
LEMMA EndIsDie ==
    ASSUME lpc' = "dead", UNCHANGED <<phase, fdConn, conn_sock>>
    PROVE  Service!Die
<1>1. \A c \in Conns : Announced(c)' = Announced(c)
  BY Zenon DEF Announced
<1>2. \A c \in Conns :
        ServiceConn'[c] = IF ServiceConn[c] = "unreported" THEN "closed" ELSE ServiceConn[c]
  BY ZenonT(40), <1>1 DEF ServiceConn
<1>3. ServiceConn' = [c \in Conns |-> IF ServiceConn[c] = "unreported" THEN "closed"
                                      ELSE ServiceConn[c]]
  BY Zenon, <1>2 DEF ServiceConn
<1> QED
  BY Zenon, <1>3 DEF Service!Die, ServiceCurrent

\* The steps of clients do not show.
LEMMA ClientsUnseen ==
    ASSUME TypeOK, NEW c \in Conns, Connect(c) \/ BacklogDrop(c) \/ ClientAct(c)
    PROVE  UNCHANGED Service!csVars
<1> USE DEF kernelVars, serverVars, ioVars, loopVars
<1>1. CASE Connect(c) \/ BacklogDrop(c)
  <2>1. \A d \in Conns : Announced(d)' = Announced(d) /\ (Announced(d) => phase'[d] = phase[d])
    BY Zenon, <1>1 DEF Connect, BacklogDrop, Announced, TypeOK, ELTypeOK
  <2>2. lpc' = lpc /\ call' = call
    BY Zenon, <1>1 DEF Connect, BacklogDrop
  <2> QED BY ZenonT(40), <2>1, <2>2 DEF Service!csVars, ServiceConn, ServiceCurrent
<1>2. CASE ClientAct(c)
  BY Zenon, <1>2 DEF ClientAct, Service!csVars, ServiceConn, ServiceCurrent, Announced
<1> QED BY ZenonT(40), <1>1, <1>2

\* Of the environment, only the end of the process does.
LEMMA EnvRefines ==
    ASSUME EchoInv, EnvStep
    PROVE  [Service!Next]_(Service!csVars)
<1> USE DEF kernelVars, serverVars, ioVars, loopVars, Goto
<1>1. CASE Terminate
  BY Zenon, <1>1 DEF Terminate, Service!csVars, ServiceConn, ServiceCurrent, Announced
<1>2. CASE LoopThrows
  <2>1. Service!Die
    BY Zenon, <1>2, EndIsDie DEF LoopThrows
  <2> QED BY Zenon, <2>1 DEF Service!Next
<1>3. TypeOK
  BY Zenon DEF EchoInv
<1> QED BY ZenonT(40), <1>1, <1>2, <1>3, ClientsUnseen DEF EnvStep

\* The loop announces, delivers, closes unused connections and reports it.
LEMMA LoopRefines ==
    ASSUME EchoInv, EchoInv', LoopStep
    PROVE  [Service!Next]_(Service!csVars)
<1> USE EventLoopAssumption
    DEF kernelVars, serverVars, ioVars, loopVars, Goto
<1>1. CASE LoopStop \/ EpollWait \/ Polled \/ BatchDone \/ AcceptInsert
  BY Zenon, <1>1 DEF LoopStop, EpollWait, Polled, BatchDone, AcceptInsert,
              Service!csVars, ServiceConn, ServiceCurrent, Announced
<1>2. ASSUME NEW e \in batch, AcceptNone(e) PROVE UNCHANGED Service!csVars
  BY Zenon, <1>2 DEF AcceptNone, Service!csVars, ServiceConn, ServiceCurrent, Announced
<1>3. ASSUME NEW e \in batch, AcceptThrows(e) PROVE Service!Next
  <2>1. Service!Die
    BY ZenonT(40), <1>3, EndIsDie DEF AcceptThrows, Take
  <2> QED BY Zenon, <2>1 DEF Service!Next
<1>4. ASSUME NEW e \in batch, Accept(e) PROVE UNCHANGED Service!csVars
  <2>1. PICK c \in Conns, f \in Fds \ Open :
          /\ phase[c] = "backlog" /\ phase' = [phase EXCEPT ![c] = "open"]
          /\ conn_sock' = f /\ fdConn'[f] = c
    BY Zenon, <1>4, Accepted DEF EchoInv
  <2>2. conn_sock = None /\ lpc = "dispatch" /\ lpc' = "insert"
    BY Zenon, <1>4 DEF Accept, Take, EchoInv, Stages, Accepting
  <2>3. \A d \in Conns : Announced(d)' = Announced(d) /\ (Announced(d) => phase'[d] = phase[d])
    BY ZenonT(40), <2>1, <2>2 DEF Announced, EchoInv, TypeOK, ELTypeOK
  <2> QED BY ZenonT(40), <2>2, <2>3, SameView DEF Service!csVars, ServiceCurrent
<1>5. CASE AcceptAdd
  <2> DEFINE c == fdConn[conn_sock]
  <2>1. conn_sock \in Open /\ c \in Conns /\ phase[c] = "open"
    BY Zenon, <1>5 DEF AcceptAdd, EchoInv, Stages, Accepting, OneFd, Open, TypeOK, ELTypeOK
  <2>2. /\ lpc = "add" /\ lpc' = "callback" /\ conn_sock' = None /\ conn_sock # None
        /\ phase' = phase /\ fdConn' = fdConn
        /\ call'.conn = c /\ call'.job = "NEW_SOCKET"
    BY Zenon, <1>5, <2>1 DEF AcceptAdd, Callback, Open
  <2>3. ServiceConn[c] = "unseen" /\ ServiceConn' = [ServiceConn EXCEPT ![c] = "open"]
    BY Zenon, <2>1, <2>2 DEF ServiceConn, Announced
  <2>4. Service!Announce(c)
    BY Zenon, <2>2, <2>3 DEF Service!Announce, Service!Calls, ServiceCurrent
  <2> QED BY Zenon, <2>1, <2>4 DEF Service!Next
<1>6. ASSUME NEW e \in batch, SmartClose(e) PROVE Service!Next
  <2>1. /\ {e.fd} \in SUBSET Fds /\ KernelClose({e.fd})
        /\ e.conn \in Conns /\ fdConn[e.fd] = e.conn /\ e.fd \in Open
    BY Zenon, <1>6 DEF SmartClose, CloseExtract, EchoInv, EventsFresh, BatchOnce, Open
  <2>2. \A d \in Conns : phase'[d] = IF d = e.conn THEN "gone" ELSE phase[d]
    <3>1. TypeOK /\ e.fd \in Fds
      BY Zenon, <2>1 DEF EchoInv
    <3>2. \A d \in Conns : phase'[d] = IF d = fdConn[e.fd] THEN "gone" ELSE phase[d]
      BY ZenonT(40), <3>1, <2>1, ClosedOne
    <3> QED BY ZenonT(40), <3>2, <2>1
  <2>3. /\ lpc = "dispatch" /\ lpc' = "decr" /\ conn_sock = None /\ conn_sock' = None
        /\ call'.conn = e.conn /\ phase[e.conn] = "open"
    <3>1. lpc = "dispatch" /\ lpc' = "decr" /\ conn_sock' = conn_sock /\ call'.conn = e.conn
      BY Zenon, <1>6 DEF SmartClose, Take
    <3>2. conn_sock = None
      BY Zenon, <3>1 DEF EchoInv, Stages, Accepting
    <3>3. phase[e.conn] = "open"
      BY Zenon, <2>1 DEF EchoInv, OneFd
    <3> QED BY ZenonT(40), <3>1, <3>2, <3>3
  <2>4. /\ ServiceConn[e.conn] = "open"
        /\ ServiceConn' = [ServiceConn EXCEPT ![e.conn] = "unreported"]
    BY ZenonT(40), <2>1, <2>2, <2>3 DEF ServiceConn, Announced
  <2>5. Service!ServerCloses(e.conn)
    BY Zenon, <2>3, <2>4 DEF Service!ServerCloses, ServiceCurrent
  <2> QED BY Zenon, <2>1, <2>5 DEF Service!Next
<1>7. CASE SmartCloseDecrement
  <2>1. /\ lpc = "decr" /\ lpc' = "callback" /\ conn_sock = None /\ conn_sock' = None
        /\ call' = call /\ phase' = phase /\ call.conn \in Conns
        /\ call.job = "SOCKET_IS_CLOSED" /\ phase[call.conn] = "gone"
    BY Zenon, <1>7 DEF SmartCloseDecrement, EchoInv, Stages, InCall, Accepting, CallType
  <2>2. /\ ServiceConn[call.conn] = "unreported"
        /\ ServiceConn' = [ServiceConn EXCEPT ![call.conn] = "closed"]
    BY Zenon, <2>1 DEF ServiceConn, Announced
  <2>3. Service!ReportClosed(call.conn)
    BY ZenonT(40), <2>1, <2>2 DEF Service!ReportClosed, Service!Calls, ServiceCurrent
  <2> QED BY Zenon, <2>1, <2>3 DEF Service!Next
<1>8. ASSUME NEW e \in batch, Dispatch(e) PROVE Service!Next
  <2> DEFINE job == JobOf(e.events)
  <2>1. job \in Service!IOJobs
    BY Zenon DEF JobOf, Service!IOJobs
  <2>2. e.conn \in Conns /\ phase[e.conn] = "open"
    <3>1. e.fd \in Fds
      BY Zenon, <1>8 DEF Dispatch
    <3>2. e.conn \in Conns /\ fdConn[e.fd] = e.conn
      BY Zenon, <3>1 DEF EchoInv, BatchOnce, EventsFresh
    <3>3. e.fd \in Open
      BY ZenonT(40), <3>1, <3>2 DEF Open
    <3> QED BY ZenonT(40), <3>2, <3>3 DEF EchoInv, OneFd
  <2>3. /\ lpc = "dispatch" /\ lpc' = "callback" /\ conn_sock = None /\ conn_sock' = None
        /\ phase' = phase /\ call'.conn = e.conn /\ call'.job = job
    BY Zenon, <1>8 DEF Dispatch, Take, Callback, EchoInv, Stages, Accepting
  <2> HIDE DEF job
  <2>4. ServiceConn[e.conn] = "open" /\ ServiceConn' = ServiceConn
    BY ZenonT(40), <2>2, <2>3 DEF ServiceConn, Announced
  <2>5. Service!Deliver(e.conn, job)
    BY ZenonT(40), <2>3, <2>4 DEF Service!Deliver, Service!Calls, ServiceCurrent
  <2> QED BY Zenon, <2>1, <2>2, <2>5 DEF Service!Next
<1>9. CASE CloseSockets
  <2>1. /\ incoming_conn_fd \in SUBSET Fds /\ KernelClose(incoming_conn_fd)
        /\ Open = incoming_conn_fd
    BY Zenon, <1>9 DEF CloseSockets, EchoInv, TypeOK, ELTypeOK, FdsTracked
  <2>2. \A d \in Conns : phase'[d] = IF phase[d] = "open" THEN "gone" ELSE phase[d]
    <3>1. TypeOK /\ OneFd
      BY Zenon DEF EchoInv
    <3>2. \A d \in Conns : phase[d] = "open" <=> \E f \in incoming_conn_fd : fdConn[f] = d
      BY ZenonT(40), <2>1, <3>1 DEF OneFd
    <3>3. \A d \in Conns : phase'[d] = IF \E f \in incoming_conn_fd : fdConn[f] = d
                                        THEN "gone" ELSE phase[d]
      BY ZenonT(40), <2>1, <3>1, Closed
    <3> QED BY ZenonT(40), <3>2, <3>3
  <2>3. lpc = "closing" /\ lpc' = "stopped" /\ conn_sock = None /\ conn_sock' = None
    BY Zenon, <1>9 DEF CloseSockets, EchoInv, Stages, Accepting
  <2>4. ServiceConn' = [c \in Conns |-> IF ServiceConn[c] = "open" THEN "closed"
                                        ELSE ServiceConn[c]]
    BY Zenon, <2>2, <2>3 DEF ServiceConn, Announced
  <2>5. Service!Shutdown
    BY Zenon, <2>3, <2>4 DEF Service!Shutdown, ServiceCurrent
  <2> QED BY Zenon, <2>5 DEF Service!Next
<1> QED BY ZenonT(40), <1>1, <1>2, <1>3, <1>4, <1>5, <1>6, <1>7, <1>8, <1>9 DEF LoopStep

\* The callback closes its connection, returns, or the process ends in it.
LEMMA AppRefines ==
    ASSUME EchoInv, EchoInv', AppStep
    PROVE  [Service!Next]_(Service!csVars)
<1> USE EventLoopAssumption
    DEF kernelVars, serverVars, ioVars, loopVars, Goto
<1>1. lpc \in InCall => [conn |-> call.conn, job |-> call.job] # None
  BY EchoServerAssumption DEF EchoInv, Stages, CallType
<1>2. CASE AppIgnore \/ AppCloseDecrement \/ (Echoes /\ lpc' = "dispatch")
  <2>1. /\ lpc \in {"callback", "appWrite", "appSleep", "appDecr"} /\ lpc' = "dispatch"
        /\ phase' = phase /\ fdConn' = fdConn /\ conn_sock' = conn_sock
    BY Zenon, <1>2, EchoCall, EchoChanges DEF AppIgnore, AppCloseDecrement
  <2>2. ServiceConn' = ServiceConn
    BY Zenon, <2>1 DEF ServiceConn, Announced
  <2>3. Service!Return
    BY Zenon, <1>1, <2>1, <2>2 DEF Service!Return, ServiceCurrent, InCall
  <2> QED BY Zenon, <2>3 DEF Service!Next
<1>3. CASE Echoes /\ lpc' # "dispatch"
  <2>1. /\ lpc \in {"callback", "appWrite", "appSleep"} /\ lpc' \in {"appWrite", "appSleep"}
        /\ call'.conn = call.conn /\ call'.job = call.job
        /\ phase' = phase /\ fdConn' = fdConn /\ conn_sock' = conn_sock
    BY Zenon, <1>3, EchoCall, EchoChanges
  <2>2. ServiceConn' = ServiceConn
    BY Zenon, <2>1 DEF ServiceConn, Announced
  <2>3. ServiceCurrent' = ServiceCurrent
    BY Zenon, <2>1 DEF ServiceCurrent
  <2>4. UNCHANGED Service!csVars
    BY Zenon, <2>1, <2>2, <2>3 DEF Service!csVars
  <2> QED BY Zenon, <2>4
<1>4. CASE AppWriteSignal
  <2>1. Service!Die
    BY Zenon, <1>4, EndIsDie DEF AppWriteSignal
  <2> QED BY Zenon, <2>1 DEF Service!Next
<1>5. CASE AppClose
  <2>1. /\ {call.fd} \in SUBSET Fds /\ KernelClose({call.fd})
        /\ call.conn \in Conns /\ fdConn[call.fd] = call.conn /\ phase[call.conn] = "open"
    <3>1. lpc = "callback" /\ call.job = "CLOSE_SOCKET" /\ KernelClose({call.fd})
      BY Zenon, <1>5 DEF AppClose, CloseExtract
    <3>2. call.fd \in Fds /\ call.conn \in Conns
      BY Zenon, <3>1 DEF EchoInv, Stages, InCall, CallType
    <3>3. fdConn[call.fd] = call.conn
      BY Zenon, <3>1 DEF EchoInv, EventsFresh
    <3>4. call.fd \in Open
      BY Zenon, <3>2, <3>3 DEF Open
    <3>5. phase[call.conn] = "open"
      BY ZenonT(40), <3>2, <3>3, <3>4 DEF EchoInv, OneFd
    <3> QED BY ZenonT(40), <3>1, <3>2, <3>3, <3>5
  <2>2. \A d \in Conns : phase'[d] = IF d = call.conn THEN "gone" ELSE phase[d]
    <3>1. TypeOK /\ call.fd \in Fds
      BY Zenon, <2>1 DEF EchoInv
    <3>2. \A d \in Conns : phase'[d] = IF d = fdConn[call.fd] THEN "gone" ELSE phase[d]
      BY ZenonT(40), <3>1, <2>1, ClosedOne
    <3> QED BY ZenonT(40), <3>2, <2>1
  <2>3. /\ lpc = "callback" /\ lpc' = "appDecr" /\ conn_sock = None /\ conn_sock' = None
        /\ call' = call
    BY Zenon, <1>5 DEF AppClose, EchoInv, Stages, Accepting
  <2>4. /\ ServiceConn[call.conn] = "open"
        /\ ServiceConn' = [ServiceConn EXCEPT ![call.conn] = "closed"]
    BY Zenon, <2>1, <2>2, <2>3 DEF ServiceConn, Announced
  <2>5. Service!CallbackCloses
    BY ZenonT(40), <1>1, <2>3, <2>4 DEF Service!CallbackCloses, ServiceCurrent, InCall
  <2> QED BY Zenon, <2>5 DEF Service!Next
<1> QED BY ZenonT(40), <1>2, <1>3, <1>4, <1>5 DEF AppStep, Echoes

\* A step of the server is a step of the service, or does not show.
LEMMA ServiceStep ==
    ASSUME EchoInv, EchoInv', [Next]_elVars
    PROVE  [Service!Next]_(Service!csVars)
<1>1. CASE UNCHANGED elVars
  BY Zenon, <1>1 DEF elVars, kernelVars, loopVars, Service!csVars, ServiceConn, ServiceCurrent,
              Announced
<1> QED BY ZenonT(40), <1>1, EnvRefines, LoopRefines, AppRefines DEF Next, ListenerStep

\* It starts where the service does.
LEMMA ServiceInit == Init => Service!Init
BY Zenon, EventLoopAssumption
   DEF Init, ELInit, Service!Init, ServiceConn, ServiceCurrent, Announced

\* The server with an echo listener implements ConnectionService.
THEOREM ServiceRefinement == Spec => ImplementsService
BY ServiceInit, ServiceStep, EchoInvariance, PTL DEF Spec, ImplementsService, Service!Spec

-----------------------------------------------------------------------------
(* The service: the server with its lifecycle *)

\* A step of the composition is a step of the service, or does not show.
LEMMA ServerServiceStep ==
    ASSUME TypeOK, ClosedForGood, LP!AloneInv, stop_server' \in BOOLEAN,
           [ServerNext]_serverModelVars
    PROVE  [Service!Next]_(Service!csVars)
<1>1. CASE UNCHANGED <<kernelVars, serverVars, loopVars>>
  BY Zenon, <1>1 DEF kernelVars, loopVars, Service!csVars, ServiceConn, ServiceCurrent, Announced
<1>2. CASE ClientStep
  BY Zenon, <1>2, ClientsUnseen DEF ClientStep
<1>3. CASE ThreadStep \/ Throws \/ OwnerStep \/ OwnerWakes \/ OwnerCalls
  <2>1. EchoInv
    BY Zenon, <1>3, DeadServer DEF ClosedForGood
  <2>2. CASE Next
    BY ZenonT(40), <2>1, <2>2, EchoStep, ServiceStep
  <2>3. CASE Goto("dead") /\ UNCHANGED <<kernelVars, serverVars, batch, conn_sock, call>>
    BY ZenonT(40), <2>3, EndIsDie DEF Goto, kernelVars, Service!Next
  <2>4. CASE EnterOrLeave \/ OwnerStep \/ OwnerWakes
    BY ZenonT(40), <1>1, <2>4 DEF EnterOrLeave, OwnerStep, OwnerWakes, LoopIdle
  <2>5. CASE TopOfLoop \/ PollConnections \/ AfterPoll \/ Handled \/ CloseConnections
    BY ZenonT(40), <1>1, <2>2, <2>5
       DEF TopOfLoop, PollConnections, AfterPoll, Handled, CloseConnections, Next,
       ListenerStep, LoopStep, LoopIdle
  <2>6. CASE PollPipe
    BY Zenon, <2>6 DEF PollPipe, Goto, kernelVars, Service!csVars, ServiceConn, ServiceCurrent,
       Announced
  <2>7. CASE HandleEvent
    BY ZenonT(40), <2>2, <2>7 DEF HandleEvent, Next, ListenerStep, LoopStep
  <2>8. CASE Throws
    BY ZenonT(40), <2>2, <2>3, <2>8 DEF Throws, Next, EnvStep
  <2>9. CASE OwnerCalls
    BY ZenonT(40), <1>1, <2>3, <2>9 DEF OwnerCalls, loopVars
  <2> QED
    BY ZenonT(40), <1>3, <2>4, <2>5, <2>6, <2>7, <2>8, <2>9 DEF ThreadStep
<1> QED
  BY ZenonT(40), <1>1, <1>2, <1>3 DEF ServerNext, serverModelVars, elVars

\* Started and stopped by its owner, while clients come and go and also if a
\* second start() ends the process, the server keeps its promise to the callback.
THEOREM ServerImplementsService == ServerSpec => ImplementsService
<1>1. ServerInit => Service!Init
  BY Zenon, ServiceInit DEF ServerInit
<1>2. ServerTypeOK => TypeOK
  BY DEF ServerTypeOK
<1>3. LP!TypeOK => stop_server \in BOOLEAN
  BY DEF LP!TypeOK
<1>4. TypeOK /\ ClosedForGood /\ LP!AloneInv /\ (stop_server \in BOOLEAN)'
        /\ [ServerNext]_serverModelVars => [Service!Next]_(Service!csVars)
  BY ServerServiceStep
<1> QED
  BY <1>1, <1>2, <1>3, <1>4, ServerTypeCorrect, AloneWithClients, ClosedForGoodHolds, PTL
     DEF ServerSpec, ImplementsService, Service!Spec
=============================================================================
