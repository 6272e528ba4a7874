------------------------- MODULE WriteWorkerProofs -------------------------
(***************************************************************************)
(* Proofs about WriteWorker, for any set of descriptors and any number of  *)
(* events: the write queue worker misses no wakeup, so that stop() never   *)
(* joins a worker that sleeps.                                             *)
(***************************************************************************)
EXTENDS WriteWorker, TLAPS

\* stop() sets stopServer before it notifies the worker, and nothing resets it.
StopIsSeen == tpc \in {"stopping", "terminate", "terminating", "joinWorker"} => stopServer

\* The listening thread is started after the worker.
NotListening == tpc \in {"idle", "workerStarted"} => lpc = "none"

\* The inductive invariant.
WorkerInv == NoLostWakeup /\ StopIsSeen /\ NotListening

\* The worker that stop() joins is not waiting on readyToWriteCv, although its
\* last notify_one() is sent without readyToWriteMutex.
JoinedWorkerRuns == tpc = "joinWorker" => wpc # "waiting"

-----------------------------------------------------------------------------

\* notify_one() leaves the worker awake.
LEMMA NotifiedIsAwake ==
    ASSUME NotifyWorker
    PROVE  wpc' # "waiting"
BY DEF NotifyWorker

\* The steps of start() and stop() preserve the invariant.
LEMMA OwnerPreserves ==
    ASSUME WorkerInv,
           StartWorker \/ StartWorkerFails \/ StartListenerFails \/ Stop \/ OwnerStep
    PROVE  WorkerInv'
<1> USE DEF WorkerInv, NoLostWakeup, StopIsSeen, NotListening, TGoto
<1>1. CASE StartWorker
  BY <1>1 DEF StartWorker
<1>2. CASE StartListener
  BY <1>2 DEF StartListener, LGoto
<1>3. CASE StartReady
  BY <1>3 DEF StartReady
<1>4. CASE Stop
  BY <1>4 DEF Stop
<1>5. CASE StopNotify
  BY <1>5, NotifiedIsAwake DEF StopNotify
<1>6. CASE StopTerminate
  BY <1>6 DEF StopTerminate
<1>7. CASE StopNotifyAgain
  BY <1>7, NotifiedIsAwake DEF StopNotifyAgain
<1>8. CASE StopJoined
  BY <1>8 DEF StopJoined
<1>9. CASE StartWorkerFails \/ StartListenerFails \/ StopJoinThrows
  BY <1>9 DEF StartWorkerFails, StartListenerFails, StopJoinThrows
<1> QED
  BY <1>1, <1>2, <1>3, <1>4, <1>5, <1>6, <1>7, <1>8, <1>9 DEF OwnerStep

\* The steps of the listening thread preserve the invariant.
LEMMA ListenerPreserves ==
    ASSUME WorkerInv, ListenerStep \/ \E f \in Fds : InsertReady(f)
    PROVE  WorkerInv'
<1> USE DEF WorkerInv, NoLostWakeup, StopIsSeen, NotListening, LGoto
<1>1. CASE ListenReady \/ CallbackReturns \/ ListenEnd
  BY <1>1 DEF ListenReady, CallbackReturns, ListenEnd
<1>2. CASE NotifyReady("loop") \/ NotifyReady("callback")
  BY <1>2, NotifiedIsAwake DEF NotifyReady
<1>3. CASE \E f \in Fds : InsertReady(f)
  BY <1>3 DEF InsertReady
<1> QED
  BY <1>1, <1>2, <1>3 DEF ListenerStep

\* The steps of the worker preserve the invariant: it waits only when it has
\* seen, under readyToWriteMutex, that there is nothing to do.
LEMMA WorkerPreserves ==
    ASSUME WorkerInv, WorkerStep \/ SpuriousWakeup
    PROVE  WorkerInv'
<1> USE DEF WorkerInv, NoLostWakeup, StopIsSeen, NotListening
<1>1. CASE WorkerTake
  BY <1>1 DEF WorkerTake
<1>2. CASE WorkerWait
  BY <1>2 DEF WorkerWait
<1>3. CASE WorkerEnd \/ WorkerDrained \/ SpuriousWakeup
  BY <1>3 DEF WorkerEnd, WorkerDrained, SpuriousWakeup
<1> QED
  BY <1>1, <1>2, <1>3 DEF WorkerStep

-----------------------------------------------------------------------------

\* The inductive invariant holds of every execution.
THEOREM WorkerInvariance == Spec => []WorkerInv
<1>1. Init => WorkerInv
  BY DEF Init, WorkerInv, NoLostWakeup, StopIsSeen, NotListening
<1>2. WorkerInv /\ [Next]_vars => WorkerInv'
  <2>1. WorkerInv /\ UNCHANGED vars => WorkerInv'
    BY DEF WorkerInv, NoLostWakeup, StopIsSeen, NotListening, vars
  <2> QED
    BY <2>1, OwnerPreserves, ListenerPreserves, WorkerPreserves DEF Next
<1> QED
  BY <1>1, <1>2, PTL DEF Spec

\* The worker never sleeps on a ready descriptor or through stop(), except in
\* the instant before the notify_one() that follows.
THEOREM NoLostWakeupHolds == Spec => []NoLostWakeup
<1>1. WorkerInv => NoLostWakeup
  BY DEF WorkerInv
<1> QED
  BY <1>1, WorkerInvariance, PTL

\* stop() never joins a worker that sleeps.
THEOREM JoinedWorkerRunsHolds == Spec => []JoinedWorkerRuns
<1>1. WorkerInv => JoinedWorkerRuns
  BY DEF WorkerInv, NoLostWakeup, StopIsSeen, NotListening, JoinedWorkerRuns
<1> QED
  BY <1>1, WorkerInvariance, PTL
=============================================================================
