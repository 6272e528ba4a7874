------------------------- MODULE SocketWritesProofs -------------------------
(***************************************************************************)
(* Proofs about SocketData, for any finite sets of worker and closing      *)
(* threads and any number of calls, and about SocketWrites, for any        *)
(* writers, any size of message and any number of connections.             *)
(*                                                                         *)
(* Neither LockNeverLeaks nor OverlapBound is inductive: the store of      *)
(* uses++ and uses-- depends on a value loaded earlier, which cleanup()    *)
(* may have overwritten meanwhile.  CounterLag bounds that value; it       *)
(* survives because usesMutex keeps the number of threads inside constant  *)
(* between a load and its store.                                           *)
(*                                                                         *)
(* Every step of ThreadedServer2 is a step of SocketData or leaves its     *)
(* variables alone, so what is shown of the lock holds there too.          *)
(*                                                                         *)
(* WritesContiguous needs three more facts: a message that is not being    *)
(* written has no byte on a wire, the queue that the worker would drain is *)
(* empty, and a write() in the middle of its message finds its last byte   *)
(* at the end of the wire.  The last one survives the steps of the other   *)
(* writers because writeQueueMutex admits one of them at a time.           *)
(***************************************************************************)
EXTENDS SocketWrites, FiniteSetTheorems, TLAPS

-----------------------------------------------------------------------------
(* The lock of SocketData *)

SDInv == SDTypeOK /\ LockNeverLeaks /\ OverlapBound /\ CounterLag /\ NoStranding

\* The threads inside the lock are finitely many.
LEMMA HoldersFinite ==
    /\ IsFiniteSet(Holders)
    /\ Cardinality(Holders) \in Nat
<1>1. Holders \subseteq Threads
  BY DEF Holders
<1>2. IsFiniteSet(Threads)
  BY SocketDataAssumption
<1> QED BY <1>1, <1>2, FS_Subset, FS_CardinalityType

\* A step that moves no thread across the border of the lock leaves the set of
\* threads inside as it is.
LEMMA HoldersSame ==
    ASSUME SDTypeOK, NEW t \in Threads, NEW l,
           pc' = [pc EXCEPT ![t] = l],
           l \in Inside <=> pc[t] \in Inside
    PROVE  Holders' = Holders
BY DEF Holders, SDTypeOK

\* lock() returning to t adds t to the threads inside.
LEMMA HoldersEnter ==
    ASSUME SDTypeOK, NEW t \in Threads, LockStore(t)
    PROVE  /\ Holders' = Holders \cup {t}
           /\ Cardinality(Holders') = Cardinality(Holders) + 1
<1>1. Holders' = Holders \cup {t}
  BY DEF Holders, SDTypeOK, LockStore, Goto, Inside
<1>2. t \notin Holders
  BY DEF Holders, LockStore, Inside
<1>3. Cardinality(Holders \cup {t}) = Cardinality(Holders) + 1
  BY <1>2, HoldersFinite, FS_AddElement
<1> QED BY <1>1, <1>3

\* The store of release() takes t out of the threads inside.
LEMMA HoldersLeave ==
    ASSUME SDTypeOK, NEW t \in Threads, ReleaseStore(t)
    PROVE  /\ Holders' = Holders \ {t}
           /\ Cardinality(Holders') = Cardinality(Holders) - 1
<1>1. Holders' = Holders \ {t}
  BY DEF Holders, SDTypeOK, ReleaseStore, Goto, Inside
<1>2. t \in Holders
  BY DEF Holders, ReleaseStore, Inside
<1>3. Cardinality(Holders \ {t}) = Cardinality(Holders) - 1
  BY Zenon, <1>2, HoldersFinite, FS_RemoveElement
<1> QED BY <1>1, <1>3

\* The fields keep their types, and a thread owns usesMutex exactly between the
\* load and the store of uses++ or uses--.
LEMMA TypeStep ==
    ASSUME SDTypeOK, [SDNext]_sdVars
    PROVE  SDTypeOK'
<1> USE SocketDataAssumption DEF SDTypeOK, Inside
<1>1. ASSUME NEW t \in Threads, LockCall(t) PROVE SDTypeOK'
  BY <1>1 DEF LockCall, Goto
<1>2. ASSUME NEW t \in Threads, LockWait(t) PROVE SDTypeOK'
  BY <1>2 DEF LockWait, Goto
<1>3. ASSUME NEW t \in Threads, LockLoad(t) PROVE SDTypeOK'
  BY <1>3 DEF LockLoad, Goto
<1>4. ASSUME NEW t \in Threads, LockStore(t) PROVE SDTypeOK'
  BY <1>4 DEF LockStore, Goto
<1>5. ASSUME NEW t \in Threads, SpuriousWakeup(t) PROVE SDTypeOK'
  BY <1>5 DEF SpuriousWakeup, Goto
<1>6. ASSUME NEW t \in Threads, Cleanup(t) PROVE SDTypeOK'
  BY <1>6 DEF Cleanup, Goto
<1>7. ASSUME NEW t \in Threads, ReleaseLoad(t) PROVE SDTypeOK'
  BY <1>7 DEF ReleaseLoad, Goto
<1>8. ASSUME NEW t \in Threads, ReleaseStore(t) PROVE SDTypeOK'
  BY <1>8 DEF ReleaseStore, Goto
<1>9. ASSUME NEW t \in Threads, ReleaseNotify(t) PROVE SDTypeOK'
  BY <1>9 DEF ReleaseNotify, Goto, usesCv
<1>10. CASE UNCHANGED sdVars
  BY <1>10 DEF sdVars
<1> QED BY Zenon, <1>1, <1>2, <1>3, <1>4, <1>5, <1>6, <1>7, <1>8, <1>9, <1>10 DEF SDNext, SDStep

\* What the counter says of the threads inside.
CounterInv == LockNeverLeaks /\ OverlapBound /\ CounterLag

\* A step that changes neither the counter, nor a loaded value that is still to
\* be stored, nor the threads inside, keeps the bounds.
LEMMA CounterQuiet ==
    ASSUME SDTypeOK, CounterInv, Holders' = Holders, uses' = uses, reg' = reg,
           cleanups' = cleanups,
           \A t \in Threads : pc'[t] \in {"incr", "decr"} => pc'[t] = pc[t]
    PROVE  CounterInv'
BY HoldersFinite DEF CounterInv, LockNeverLeaks, OverlapBound, CounterLag, SDTypeOK

\* Every step of SDNext preserves the relation of uses, the values loaded and
\* the number of threads inside, although cleanup() stores without usesMutex.
LEMMA CounterStep ==
    ASSUME SDTypeOK, CounterInv, [SDNext]_sdVars
    PROVE  CounterInv'
<1> USE HoldersFinite
<1>1. ASSUME NEW t \in Threads, LockCall(t) PROVE CounterInv'
  <2>1. Holders' = Holders
    BY Zenon, <1>1, HoldersSame DEF LockCall, Goto, Inside
  <2> QED BY <1>1, <2>1, CounterQuiet DEF LockCall, Goto, SDTypeOK
<1>2. ASSUME NEW t \in Threads, LockWait(t) PROVE CounterInv'
  <2>1. Holders' = Holders
    BY Zenon, <1>2, HoldersSame DEF LockWait, Goto, Inside
  <2> QED BY <1>2, <2>1, CounterQuiet DEF LockWait, Goto, SDTypeOK
<1>3. ASSUME NEW t \in Threads, LockLoad(t) PROVE CounterInv'
  <2>1. Holders' = Holders
    BY Zenon, <1>3, HoldersSame DEF LockLoad, Goto, Inside
  <2> QED BY <1>3, <2>1 DEF LockLoad, Goto, SDTypeOK, CounterInv, LockNeverLeaks,
                            OverlapBound, CounterLag
<1>4. ASSUME NEW t \in Threads, LockStore(t) PROVE CounterInv'
  <2>1. Cardinality(Holders') = Cardinality(Holders) + 1
    BY <1>4, HoldersEnter
  <2>2. \A s \in Threads : pc'[s] \notin {"incr", "decr"}
    BY <1>4 DEF LockStore, Goto, SDTypeOK
  <2>3. reg[t] \in (Cardinality(Holders) - cleanups) .. 0
    BY <1>4 DEF LockStore, SDTypeOK, CounterInv, CounterLag
  <2> QED BY <1>4, <2>1, <2>2, <2>3 DEF LockStore, SDTypeOK, CounterInv, LockNeverLeaks,
                                        OverlapBound, CounterLag
<1>5. ASSUME NEW t \in Threads, SpuriousWakeup(t) PROVE CounterInv'
  <2>1. Holders' = Holders
    BY Zenon, <1>5, HoldersSame DEF SpuriousWakeup, Goto, Inside
  <2> QED BY <1>5, <2>1, CounterQuiet DEF SpuriousWakeup, Goto, SDTypeOK
<1>6. ASSUME NEW t \in Threads, Cleanup(t) PROVE CounterInv'
  <2>1. Holders' = Holders
    BY Zenon, <1>6, HoldersSame DEF Cleanup, Goto, Inside
  <2> QED BY <1>6, <2>1 DEF Cleanup, Goto, SDTypeOK, CounterInv, LockNeverLeaks,
                            OverlapBound, CounterLag
<1>7. ASSUME NEW t \in Threads, ReleaseLoad(t) PROVE CounterInv'
  <2>1. Holders' = Holders
    BY Zenon, <1>7, HoldersSame DEF ReleaseLoad, Goto, Inside
  <2> QED BY <1>7, <2>1 DEF ReleaseLoad, Goto, SDTypeOK, CounterInv, LockNeverLeaks,
                            OverlapBound, CounterLag
<1>8. ASSUME NEW t \in Threads, ReleaseStore(t) PROVE CounterInv'
  <2>1. Cardinality(Holders') = Cardinality(Holders) - 1
    BY <1>8, HoldersLeave
  <2>2. \A s \in Threads : pc'[s] \notin {"incr", "decr"}
    BY <1>8 DEF ReleaseStore, Goto, SDTypeOK
  <2>3. reg[t] \in (Cardinality(Holders) - cleanups) .. Cardinality(Holders)
    BY <1>8 DEF ReleaseStore, SDTypeOK, CounterInv, CounterLag
  <2> QED BY <1>8, <2>1, <2>2, <2>3 DEF ReleaseStore, SDTypeOK, CounterInv, LockNeverLeaks,
                                        OverlapBound, CounterLag
<1>9. ASSUME NEW t \in Threads, ReleaseNotify(t) PROVE CounterInv'
  <2>1. Holders' = Holders
    BY <1>9 DEF ReleaseNotify, Goto, Holders, Inside, usesCv, SDTypeOK
  <2> QED BY <1>9, <2>1, CounterQuiet DEF ReleaseNotify, Goto, usesCv, SDTypeOK
<1>10. CASE UNCHANGED sdVars
  BY Zenon, <1>10, CounterQuiet DEF sdVars, Holders
<1> QED BY Zenon, <1>1, <1>2, <1>3, <1>4, <1>5, <1>6, <1>7, <1>8, <1>9, <1>10 DEF SDNext, SDStep

\* A thread that starts to wait leaves a holder behind, by LockNeverLeaks; a
\* notification that finds a waiter makes it runnable.
LEMMA StrandingStep ==
    ASSUME SDTypeOK, LockNeverLeaks, NoStranding, [SDNext]_sdVars
    PROVE  NoStranding'
<1> USE DEF NoStranding, usesCv, SDTypeOK
<1>1. ASSUME NEW t \in Threads, LockWait(t) PROVE NoStranding'
  <2>1. Cardinality(Holders) # 0
    BY <1>1, HoldersFinite DEF LockWait, LockNeverLeaks
  <2>2. PICK h \in Threads : pc[h] \in Inside
    BY Zenon, <2>1, FS_EmptySet DEF Holders
  <2> QED BY <1>1, <2>2 DEF LockWait, Goto, Inside
<1>2. ASSUME NEW t \in Threads, ReleaseNotify(t) PROVE NoStranding'
  <2>1. CASE usesCv = {} /\ Goto(t, "idle")
    BY <2>1 DEF Goto
  <2>2. CASE \E w \in usesCv : pc' = [pc EXCEPT ![t] = "idle", ![w] = "lock"]
    BY <1>2, <2>2 DEF ReleaseNotify
  <2> QED BY <1>2, <2>1, <2>2 DEF ReleaseNotify
<1>3. ASSUME NEW t \in Threads, NEW l, pc' = [pc EXCEPT ![t] = l], l \notin {"idle", "waiting"}
      PROVE  NoStranding'
  BY <1>3
<1>4. CASE UNCHANGED sdVars
  BY <1>4 DEF sdVars
<1> QED BY <1>1, <1>2, <1>3, <1>4 DEF SDNext, SDStep, LockCall, LockLoad, LockStore,
           SpuriousWakeup, Cleanup, ReleaseLoad, ReleaseStore, Goto

\* The inductive invariant holds of every behaviour of SocketData.
THEOREM SDInvariance == SDSpec => []SDInv
<1>1. SDInit => SDInv
  <2> SUFFICES ASSUME SDInit PROVE SDInv
    OBVIOUS
  <2>1. Holders = {} /\ usesCv = {}
    BY DEF SDInit, Holders, usesCv, Inside
  <2>2. Cardinality(Holders) = 0
    BY <2>1, FS_EmptySet
  <2>3. SDTypeOK
    BY SocketDataAssumption DEF SDInit, SDTypeOK
  <2> QED BY <2>1, <2>2, <2>3 DEF SDInit, SDInv, LockNeverLeaks, OverlapBound,
                                  CounterLag, NoStranding
<1>2. SDInv /\ [SDNext]_sdVars => SDInv'
  BY TypeStep, CounterStep, StrandingStep DEF SDInv, CounterInv
<1> QED BY <1>1, <1>2, PTL DEF SDSpec

\* SDTypeOK, for any threads: in particular usesMutex has one owner at a time.
THEOREM SDTypeCorrect == SDSpec => []SDTypeOK
BY SDInvariance, PTL DEF SDInv

\* SocketData::uses never exceeds the number of threads inside the lock,
\* however cleanup(false) and release() interleave: a lock nobody holds is free.
THEOREM LockNeverLeaksHolds == SDSpec => []LockNeverLeaks
BY SDInvariance, PTL DEF SDInv

\* After k calls of cleanup(false) at most k + 1 threads are inside.
THEOREM OverlapBoundHolds == SDSpec => []OverlapBound
BY SDInvariance, PTL DEF SDInv

\* A value of uses loaded before a cleanup(false) and stored after it is wrong by
\* no more than the cleanups made.
THEOREM CounterLagHolds == SDSpec => []CounterLag
BY SDInvariance, PTL DEF SDInv

\* The one notify_one() of each release() leaves no waiter behind alone.
THEOREM NoStrandingHolds == SDSpec => []NoStranding
BY SDInvariance, PTL DEF SDInv

-----------------------------------------------------------------------------
(* The writes of ThreadedServer2 *)

\* write() pushes onto a copy of the deque, so the worker never finds anything.
QueueEmpty == writeQueue = <<>> /\ draining = <<>>

\* The descriptor belongs to the current connection, and no message is for a
\* later one.
AimedAtPast ==
    /\ fdOpen => conn > 0
    /\ \A w \in Writers : aim[w] <= conn

\* No byte of a message is on a wire before write() has begun to write.
NothingSentEarly ==
    \A c \in 1 .. MaxConns : \A i \in 1 .. Len(wire[c]) :
        wpc[wire[c][i].msg] \notin {"idle", "entering"}

\* The number of bytes of w's message that have been written.
Written(w) == MsgSize - Len(rest[w])

\* What a write() has still to write is the end of its message, and what it has
\* written last is at the end of the wire.
WholeMessage(w) == wpc[w] = "entering" => rest[w] = Message(w)

EndOfMessage(w) ==
    wpc[w] = "writing" =>
        /\ Len(rest[w]) \in 1 .. MsgSize
        /\ \A j \in 1 .. Len(rest[w]) : rest[w][j] = [msg |-> w, n |-> Written(w) + j]

LastOnWire(w) ==
    wpc[w] = "writing" /\ aim[w] = conn /\ Written(w) > 0 =>
        /\ Len(wire[conn]) > 0
        /\ wire[conn][Len(wire[conn])] = [msg |-> w, n |-> Written(w)]

Resumes == \A w \in Writers : WholeMessage(w) /\ EndOfMessage(w) /\ LastOnWire(w)

SWInv ==
    TypeOK /\ QueueEmpty /\ AimedAtPast /\ NothingSentEarly /\ Resumes /\ WritesContiguous

-----------------------------------------------------------------------------
(* Every step is a step of SocketData *)

\* A step of ThreadedServer2 is a step of SocketData or leaves it alone.
LEMMA RefinesLockStep ==
    ASSUME [Next]_vars
    PROVE  [SDNext]_sdVars
<1>1. CASE Accept \/ SmartCheck
  BY <1>1 DEF Accept, SmartCheck, sdVars
<1>2. CASE CleanupCall
  BY Zenon, <1>2, SocketWritesAssumption DEF CleanupCall, SDNext, Threads
<1>3. ASSUME NEW w \in Writers, WriteCall(w) \/ WriterStep(w) PROVE UNCHANGED sdVars
  BY <1>3 DEF WriteCall, WriterStep, WriteEnter, WriteBytes, WriteQueue, sdVars
<1>4. ASSUME NEW t \in Threads, WorkerCall(t) \/ CloseCall(t) PROVE SDNext
  BY <1>4 DEF WorkerCall, CloseCall, SDNext
<1>5. ASSUME NEW t \in Threads, LockStep(t) \/ Release(t) \/ CleanupQueue(t) \/ Spurious(t)
      PROVE  SDNext
  BY Zenon, <1>5 DEF LockStep, Release, CleanupQueue, Spurious, SDNext, SDStep
<1>6. ASSUME NEW t \in Threads, CloseFd(t) \/ WorkerDrain(t) PROVE UNCHANGED sdVars
  BY <1>6 DEF CloseFd, WorkerDrain
<1>7. CASE UNCHANGED vars
  BY <1>7 DEF vars
<1> QED BY <1>1, <1>2, <1>3, <1>4, <1>5, <1>6, <1>7 DEF Next, HolderStep

\* ThreadedServer2 uses the lock as module SocketData describes.
THEOREM SocketDataRefinement == Spec => UsesSocketDataLock
<1>1. Init => SDInit
  BY DEF Init
<1>2. [Next]_vars => [SDNext]_sdVars
  BY RefinesLockStep
<1> QED BY <1>1, <1>2, PTL DEF Spec, UsesSocketDataLock, SDSpec

-----------------------------------------------------------------------------
(* Writes are contiguous *)

\* What ::write appends to a wire, element by element.
LEMMA SendElements ==
    ASSUME NEW s \in Seq(Byte), NEW d \in Seq(Byte), NEW n \in 1 .. Len(d)
    PROVE  /\ s \o SubSeq(d, 1, n) \in Seq(Byte)
           /\ Len(s \o SubSeq(d, 1, n)) = Len(s) + n
           /\ \A i \in 1 .. Len(s) : (s \o SubSeq(d, 1, n))[i] = s[i]
           /\ \A i \in 1 .. n : (s \o SubSeq(d, 1, n))[Len(s) + i] = d[i]
<1> DEFINE u == SubSeq(d, 1, n)
<1>1. /\ u \in Seq(Byte) /\ Len(u) = n
      /\ \A i \in 1 .. n : u[i] = d[i]
  OBVIOUS
<1> HIDE DEF u
<1>2. /\ s \o u \in Seq(Byte)
      /\ Len(s \o u) = Len(s) + n
      /\ \A i \in 1 .. Len(s) : (s \o u)[i] = s[i]
      /\ \A i \in 1 .. n : (s \o u)[Len(s) + i] = u[i]
  BY <1>1
<1> QED BY <1>1, <1>2 DEF u

\* What ::write leaves, element by element.
LEMMA LeftElements ==
    ASSUME NEW d \in Seq(Byte), NEW n \in 0 .. Len(d)
    PROVE  /\ Left(d, n) \in Seq(Byte)
           /\ Len(Left(d, n)) = Len(d) - n
           /\ \A j \in 1 .. Len(d) - n : Left(d, n)[j] = d[n + j]
BY DEF Left

\* The initial state satisfies the invariant.
LEMMA SWInit == Init => SWInv
<1> SUFFICES ASSUME Init PROVE SWInv
  OBVIOUS
<1> USE SocketWritesAssumption, SocketDataAssumption DEF Init
<1>1. SDTypeOK
  BY DEF SDInit, SDTypeOK, Inside
<1>2. <<>> \in Seq(Byte) /\ <<>> \in Seq(Seq(Byte)) /\ Len(<<>>) = 0
  OBVIOUS
<1>3. TypeOK
  <2>1. wire \in [1 .. MaxConns -> Seq(Byte)] /\ rest \in [Writers -> Seq(Byte)]
    BY <1>2
  <2>2. \A w \in Writers : writeQueueMutex = w <=> wpc[w] \in {"writing", "queueing"}
    OBVIOUS
  <2>3. writeQueue \in Seq(Seq(Byte)) /\ draining \in Seq(Seq(Byte))
    BY <1>2
  <2>4. /\ wpc \in [Writers -> {"idle", "entering", "writing", "queueing", "returned"}]
        /\ aim \in [Writers -> 0 .. MaxConns]
        /\ work \subseteq Threads /\ conn \in 0 .. MaxConns
    OBVIOUS
  <2> QED BY Zenon, <1>1, <2>1, <2>2, <2>3, <2>4 DEF TypeOK
<1>4. QueueEmpty /\ AimedAtPast
  BY DEF QueueEmpty, AimedAtPast
<1>5. \A c \in 1 .. MaxConns : Len(wire[c]) = 0
  BY <1>2
<1>6. NothingSentEarly /\ WritesContiguous
  BY <1>5 DEF NothingSentEarly, WritesContiguous
<1>7. Resumes
  BY DEF Resumes, WholeMessage, EndOfMessage, LastOnWire
<1> QED BY <1>3, <1>4, <1>6, <1>7 DEF SWInv

\* write() begins: the message has no byte on a wire yet, so aiming it at the
\* current connection says nothing of what is there.
LEMMA WriteCallStep ==
    ASSUME SWInv, SDTypeOK', NEW w \in Writers, WriteCall(w)
    PROVE  SWInv'
<1> USE SocketWritesAssumption
<1>1. /\ wpc[w] = "idle" /\ fdOpen
      /\ aim' = [aim EXCEPT ![w] = conn]
      /\ rest' = [rest EXCEPT ![w] = Message(w)]
      /\ wpc' = [wpc EXCEPT ![w] = "entering"]
      /\ conn' = conn /\ fdOpen' = fdOpen /\ is_IO' = is_IO /\ smart' = smart
      /\ writeQueue' = writeQueue /\ draining' = draining
      /\ writeQueueMutex' = writeQueueMutex /\ work' = work /\ wire' = wire
  BY DEF WriteCall, WGoto, ioVars, queueVars
<1>2. Message(w) \in Seq(Byte)
  BY DEF Message, Byte
<1>3. TypeOK'
  BY Zenon, <1>1, <1>2 DEF SWInv, TypeOK
<1>4. QueueEmpty' /\ AimedAtPast'
  BY <1>1 DEF SWInv, TypeOK, QueueEmpty, AimedAtPast
<1>5. ASSUME NEW c \in 1 .. MaxConns, NEW i \in 1 .. Len(wire[c])
      PROVE  /\ wire[c][i].msg \in Writers
             /\ wire[c][i].msg # w
  <2>1. wire[c] \in Seq(Byte)
    BY DEF SWInv, TypeOK
  <2>2. wire[c][i] \in Byte
    BY <2>1
  <2> QED BY <1>1, <2>2 DEF SWInv, NothingSentEarly, Byte
<1>6. \A v \in Writers \ {w} : wpc'[v] = wpc[v] /\ aim'[v] = aim[v] /\ rest'[v] = rest[v]
  BY Zenon, <1>1 DEF SWInv, TypeOK
<1>7. NothingSentEarly'
  BY <1>1, <1>5, <1>6 DEF SWInv, NothingSentEarly
<1>8. WritesContiguous'
  <2> SUFFICES ASSUME NEW c \in 1 .. MaxConns, NEW i \in 1 .. Len(wire[c]),
                      wire[c][i].n > 1, aim'[wire[c][i].msg] = c
               PROVE  i > 1 /\ wire[c][i - 1] = [wire[c][i] EXCEPT !.n = @ - 1]
    BY ZenonT(40), <1>1 DEF WritesContiguous
  <2>1. aim[wire[c][i].msg] = c
    BY <1>5, <1>6
  <2> QED BY <2>1 DEF SWInv, WritesContiguous
<1>9. Resumes'
  <2>1. wpc'[w] = "entering" /\ rest'[w] = Message(w)
    BY <1>1 DEF SWInv, TypeOK
  <2>2. ASSUME NEW v \in Writers \ {w}
        PROVE  (WholeMessage(v) /\ EndOfMessage(v) /\ LastOnWire(v))'
    <3>1. WholeMessage(v) /\ EndOfMessage(v) /\ LastOnWire(v)
      BY DEF SWInv, Resumes
    <3> QED BY Zenon, <1>1, <1>6, <3>1 DEF WholeMessage, EndOfMessage, LastOnWire, Written
  <2> QED BY Zenon, <2>1, <2>2 DEF Resumes, WholeMessage, EndOfMessage, LastOnWire
<1> QED BY <1>3, <1>4, <1>7, <1>8, <1>9 DEF SWInv

\* write() takes writeQueueMutex, and has its whole message before it.
LEMMA WriteEnterStep ==
    ASSUME SWInv, SDTypeOK', NEW w \in Writers, WriteEnter(w)
    PROVE  SWInv'
<1> USE SocketWritesAssumption
<1>1. /\ wpc[w] = "entering"
      /\ writeQueueMutex = NoThread /\ writeQueueMutex' = w
      /\ wpc' = [wpc EXCEPT ![w] = "writing"]
      /\ is_IO' = TRUE
      /\ conn' = conn /\ fdOpen' = fdOpen /\ smart' = smart
      /\ writeQueue' = writeQueue /\ draining' = draining
      /\ rest' = rest /\ aim' = aim /\ work' = work /\ wire' = wire
  BY Zenon DEF WriteEnter, WGoto, queueVars, SWInv, QueueEmpty
<1>2. TypeOK'
  BY <1>1 DEF SWInv, TypeOK
<1>3. /\ wpc'[w] = "writing"
      /\ \A v \in Writers \ {w} : wpc'[v] = wpc[v]
  BY <1>1 DEF SWInv, TypeOK
<1>4. QueueEmpty' /\ AimedAtPast' /\ WritesContiguous'
  BY Zenon, <1>1 DEF SWInv, QueueEmpty, AimedAtPast, WritesContiguous
<1>5. NothingSentEarly'
  <2>1. ASSUME NEW c \in 1 .. MaxConns, NEW i \in 1 .. Len(wire[c])
        PROVE  wire[c][i].msg \in Writers
    <3>1. wire[c] \in Seq(Byte)
      BY DEF SWInv, TypeOK
    <3>2. wire[c][i] \in Byte
      BY <3>1
    <3> QED BY <3>2 DEF Byte
  <2> QED BY <1>1, <1>3, <2>1 DEF SWInv, NothingSentEarly
<1>6. rest[w] = Message(w) /\ Len(rest[w]) = MsgSize
  BY <1>1 DEF SWInv, Resumes, WholeMessage, Message
<1>7. Resumes'
  <2>1. Written(w)' = 0
    BY <1>1, <1>6 DEF Written
  <2>2. (WholeMessage(w) /\ EndOfMessage(w) /\ LastOnWire(w))'
    BY <1>1, <1>3, <1>6, <2>1 DEF WholeMessage, EndOfMessage, LastOnWire, Message
  <2>3. ASSUME NEW v \in Writers \ {w}
        PROVE  (WholeMessage(v) /\ EndOfMessage(v) /\ LastOnWire(v))'
    BY Zenon, <1>1, <1>3 DEF SWInv, Resumes, WholeMessage, EndOfMessage, LastOnWire, Written
  <2> QED BY <2>2, <2>3 DEF Resumes
<1> QED BY <1>2, <1>4, <1>5, <1>7 DEF SWInv

\* One ::write of w's message that takes n > 0 bytes.
Sent(w, n) ==
    /\ wpc[w] = "writing" /\ fdOpen
    /\ n \in 1 .. Len(rest[w])
    /\ wire' = [wire EXCEPT ![conn] = @ \o SubSeq(rest[w], 1, n)]
    /\ rest' = [rest EXCEPT ![w] = Left(@, n)]
    /\ wpc' = [wpc EXCEPT ![w] = IF n = Len(rest[w]) THEN "returned" ELSE "writing"]
    /\ writeQueueMutex' = IF n = Len(rest[w]) THEN NoThread ELSE w
    /\ conn' = conn /\ fdOpen' = fdOpen /\ is_IO' = is_IO /\ smart' = smart
    /\ writeQueue' = writeQueue /\ draining' = draining /\ aim' = aim /\ work' = work

\* The bytes it takes follow the last one of the message, or are its first.
LEMMA BytesSent ==
    ASSUME SWInv, SDTypeOK', NEW w \in Writers, NEW n, Sent(w, n)
    PROVE  SWInv'
<1> DEFINE r == wire[conn] \o SubSeq(rest[w], 1, n)
           L == Len(wire[conn])
<1> USE SocketWritesAssumption
<1>1. /\ conn \in 1 .. MaxConns /\ wire[conn] \in Seq(Byte) /\ L \in Nat
      /\ rest[w] \in Seq(Byte) /\ n \in 1 .. Len(rest[w])
      /\ wire \in [1 .. MaxConns -> Seq(Byte)]
  BY DEF SWInv, TypeOK, AimedAtPast, Sent
<1>2. /\ r \in Seq(Byte) /\ Len(r) = L + n
      /\ \A i \in 1 .. L : r[i] = wire[conn][i]
      /\ \A i \in 1 .. n : r[L + i] = rest[w][i]
  BY ZenonT(40), <1>1, SendElements DEF r, L
<1> HIDE DEF r, L
<1>3. /\ wire' = [wire EXCEPT ![conn] = r]
      /\ wire'[conn] = r
      /\ \A c \in 1 .. MaxConns \ {conn} : wire'[c] = wire[c]
  BY <1>1 DEF r, Sent
<1>4. /\ rest'[w] \in Seq(Byte)
      /\ Len(rest'[w]) = Len(rest[w]) - n
      /\ \A j \in 1 .. Len(rest[w]) - n : rest'[w][j] = rest[w][n + j]
  <2>1. rest'[w] = Left(rest[w], n)
    BY DEF SWInv, TypeOK, Sent
  <2>2. n \in 0 .. Len(rest[w])
    BY <1>1
  <2>3. /\ Left(rest[w], n) \in Seq(Byte)
        /\ Len(Left(rest[w], n)) = Len(rest[w]) - n
        /\ \A j \in 1 .. Len(rest[w]) - n : Left(rest[w], n)[j] = rest[w][n + j]
    BY Zenon, <1>1, <2>2, LeftElements
  <2> QED BY <2>1, <2>3
<1>5. /\ Len(rest[w]) \in 1 .. MsgSize /\ n \in 1 .. MsgSize /\ Written(w) \in Nat
      /\ \A j \in 1 .. Len(rest[w]) : rest[w][j] = [msg |-> w, n |-> Written(w) + j]
  <2>1. wpc[w] = "writing" /\ EndOfMessage(w)
    BY DEF SWInv, Resumes, Sent
  <2>2. Len(rest[w]) \in 1 .. MsgSize
    BY <2>1 DEF EndOfMessage
  <2>3. Written(w) \in Nat
    BY <2>2 DEF Written
  <2> QED BY <1>1, <2>1, <2>2, <2>3 DEF EndOfMessage
<1>6. \A v \in Writers \ {w} :
        wpc'[v] = wpc[v] /\ rest'[v] = rest[v] /\ wpc[v] \notin {"writing", "queueing"}
  BY DEF SWInv, TypeOK, Sent
<1>7. TypeOK'
  <2>1. wire' \in [1 .. MaxConns -> Seq(Byte)]
    BY <1>1, <1>2, <1>3
  <2>2. rest' \in [Writers -> Seq(Byte)]
    BY <1>4 DEF SWInv, TypeOK, Sent
  <2>3. \A v \in Writers : writeQueueMutex' = v <=> wpc'[v] \in {"writing", "queueing"}
    BY <1>6 DEF SWInv, TypeOK, Sent
  <2> QED BY Zenon, <2>1, <2>2, <2>3 DEF SWInv, TypeOK, Sent
<1>8. QueueEmpty' /\ AimedAtPast'
  BY DEF SWInv, QueueEmpty, AimedAtPast, Sent
<1>9. ASSUME NEW c \in 1 .. MaxConns, NEW i \in 1 .. Len(wire'[c])
      PROVE  \/ i \in 1 .. Len(wire[c]) /\ wire'[c][i] = wire[c][i]
                /\ wire[c][i].msg \in Writers
             \/ /\ c = conn /\ i - L \in 1 .. n
                /\ wire'[c][i] = [msg |-> w, n |-> Written(w) + (i - L)]
  <2>1. ASSUME NEW d \in 1 .. MaxConns, NEW j \in 1 .. Len(wire[d])
        PROVE  wire[d][j].msg \in Writers
    <3>1. wire[d][j] \in Byte
      BY <1>1
    <3> QED BY <3>1 DEF Byte
  <2>2. CASE c # conn
    BY Zenon, <1>3, <2>1, <2>2
  <2>3. CASE c = conn /\ i <= L
    <3>1. i \in 1 .. L
      BY <1>1, <2>3
    <3> QED BY Zenon, <1>1, <1>2, <1>3, <2>1, <2>3, <3>1 DEF L
  <2>4. CASE c = conn /\ i > L
    <3>1. i - L \in 1 .. n /\ i = L + (i - L) /\ i - L \in 1 .. Len(rest[w])
      BY <1>1, <1>2, <1>3, <2>4
    <3>2. r[i] = rest[w][i - L]
      BY <1>2, <3>1
    <3>3. rest[w][i - L] = [msg |-> w, n |-> Written(w) + (i - L)]
      BY Zenon, <1>5, <3>1
    <3> QED BY Zenon, <1>3, <2>4, <3>1, <3>2, <3>3
  <2> QED BY <1>1, <1>2, <1>3, <2>2, <2>3, <2>4
<1>10. NothingSentEarly'
  <2> SUFFICES ASSUME NEW c \in 1 .. MaxConns, NEW i \in 1 .. Len(wire'[c])
               PROVE  wpc'[wire'[c][i].msg] \notin {"idle", "entering"}
    BY DEF NothingSentEarly
  <2>1. wpc'[w] \in {"writing", "returned"}
    BY DEF SWInv, TypeOK, Sent
  <2>2. CASE wire'[c][i].msg = w
    BY Zenon, <2>1, <2>2
  <2>3. CASE wire'[c][i].msg # w
    <3>1. wire'[c][i] # [msg |-> w, n |-> Written(w) + (i - L)]
      BY <2>3
    <3>2. /\ i \in 1 .. Len(wire[c]) /\ wire'[c][i] = wire[c][i]
          /\ wire[c][i].msg \in Writers \ {w}
      BY ZenonT(40), <1>9, <2>3, <3>1
    <3>3. wpc[wire[c][i].msg] \notin {"idle", "entering"}
      BY <3>2 DEF SWInv, NothingSentEarly
    <3> QED BY Zenon, <1>6, <3>2, <3>3
  <2> QED BY <2>2, <2>3
<1>11. WritesContiguous'
  <2> SUFFICES ASSUME NEW c \in 1 .. MaxConns, NEW i \in 1 .. Len(wire'[c]),
                      wire'[c][i].n > 1, aim[wire'[c][i].msg] = c
               PROVE  i > 1 /\ wire'[c][i - 1] = [wire'[c][i] EXCEPT !.n = @ - 1]
    BY Zenon DEF WritesContiguous, Sent
  <2>1. CASE i \in 1 .. Len(wire[c]) /\ wire'[c][i] = wire[c][i]
    <3>1. i > 1 /\ wire[c][i - 1] = [wire[c][i] EXCEPT !.n = @ - 1]
      BY Zenon, <2>1 DEF SWInv, WritesContiguous
    <3>2. i - 1 \in 1 .. Len(wire[c])
      BY <2>1, <3>1
    <3>3. wire'[c][i - 1] = wire[c][i - 1]
      BY ZenonT(30), <1>1, <1>2, <1>3, <3>2 DEF L
    <3> QED BY <2>1, <3>1, <3>3
  <2>2. CASE /\ c = conn /\ i - L \in 1 .. n
             /\ wire'[c][i] = [msg |-> w, n |-> Written(w) + (i - L)]
    <3>1. aim[w] = conn
      BY <2>2
    <3>2. CASE i - L = 1
      <4>1. Written(w) > 0
        BY SMTT(30), <1>5, <2>2, <3>2
      <4>2. L > 0 /\ wire[conn][L] = [msg |-> w, n |-> Written(w)]
        BY ZenonT(40), <3>1, <4>1 DEF SWInv, Resumes, LastOnWire, Sent, L
      <4>3. i - 1 = L /\ wire'[c][L] = wire[conn][L]
        BY <1>1, <1>2, <1>3, <2>2, <3>2, <4>2
      <4>4. [wire'[c][i] EXCEPT !.n = @ - 1] = [msg |-> w, n |-> Written(w)]
        BY <1>5, <2>2, <3>2
      <4>5. i > 1
        BY <1>1, <4>2, <4>3
      <4> QED BY Zenon, <4>2, <4>3, <4>4, <4>5
    <3>3. CASE i - L > 1
      <4>1. i - 1 = L + (i - L - 1) /\ i - L - 1 \in 1 .. n
        BY <1>1, <2>2, <3>3
      <4>2. r[i - 1] = rest[w][i - L - 1]
        BY <1>2, <4>1
      <4>3. i - L - 1 \in 1 .. Len(rest[w])
        BY <1>1, <4>1
      <4>4. rest[w][i - L - 1] = [msg |-> w, n |-> Written(w) + (i - L - 1)]
        BY <1>5, <4>3
      <4>5. [wire'[c][i] EXCEPT !.n = @ - 1] = [msg |-> w, n |-> Written(w) + (i - L - 1)]
        <5> DEFINE k == Written(w) + (i - L)
        <5>1. k - 1 = Written(w) + (i - L - 1)
          BY <1>1, <1>5
        <5>2. wire'[c][i] = [msg |-> w, n |-> k]
          BY <2>2
        <5> HIDE DEF k
        <5>3. [wire'[c][i] EXCEPT !.n = @ - 1] = [msg |-> w, n |-> k - 1]
          BY <5>2
        <5> QED BY Zenon, <5>1, <5>3
      <4>6. wire'[c][i - 1] = r[i - 1] /\ i > 1
        BY <1>1, <1>3, <2>2, <3>3
      <4> QED BY ZenonT(40), <4>2, <4>4, <4>5, <4>6
    <3> QED BY <1>1, <2>2, <3>2, <3>3
  <2> QED BY <1>9, <2>1, <2>2
<1>12. Resumes'
  <2>1. Written(w)' = Written(w) + n
    BY <1>1, <1>4, <1>5 DEF Written
  <2>2. (WholeMessage(w) /\ EndOfMessage(w))'
    <3>1. wpc'[w] = IF n = Len(rest[w]) THEN "returned" ELSE "writing"
      BY DEF SWInv, TypeOK, Sent
    <3>2. ASSUME NEW j \in 1 .. Len(rest'[w])
          PROVE  rest'[w][j] = [msg |-> w, n |-> Written(w)' + j]
      <4>1. rest'[w][j] = rest[w][n + j] /\ n + j \in 1 .. Len(rest[w])
        BY SMTT(30), <1>1, <1>4
      <4>2. rest[w][n + j] = [msg |-> w, n |-> Written(w) + (n + j)]
        BY Zenon, <1>5, <4>1
      <4> QED BY <1>5, <2>1, <4>1, <4>2
    <3>3. wpc'[w] = "writing" => Len(rest'[w]) \in 1 .. MsgSize
      BY <1>1, <1>4, <1>5, <3>1
    <3> QED BY Zenon, <3>1, <3>2, <3>3 DEF WholeMessage, EndOfMessage
  <2>3. LastOnWire(w)'
    <3>1. Len(r) > 0 /\ r[Len(r)] = rest[w][n]
      <4>1. n \in 1 .. n /\ L + n > 0
        BY <1>1, <1>5
      <4> QED BY Zenon, <1>2, <4>1
    <3>2. rest[w][n] = [msg |-> w, n |-> Written(w) + n]
      BY <1>1, <1>5
    <3> QED BY <1>3, <2>1, <3>1, <3>2 DEF LastOnWire, Sent
  <2>4. ASSUME NEW v \in Writers \ {w}
        PROVE  (WholeMessage(v) /\ EndOfMessage(v) /\ LastOnWire(v))'
    BY Zenon, <1>6 DEF SWInv, Resumes, WholeMessage, EndOfMessage, LastOnWire, Sent
  <2> QED BY Zenon, <2>2, <2>3, <2>4 DEF Resumes
<1> QED BY <1>7, <1>8, <1>10, <1>11, <1>12 DEF SWInv

\* One ::write of the loop, one that takes nothing included.
LEMMA WriteBytesStep ==
    ASSUME SWInv, SDTypeOK', NEW w \in Writers, WriteBytes(w)
    PROVE  SWInv'
<1> USE SocketWritesAssumption
<1>1. PICK n \in KernelTakes(rest[w]) :
        /\ Send(rest[w], n)
        /\ rest' = [rest EXCEPT ![w] = Left(@, n)]
        /\ WGoto(w, IF n = Len(rest[w]) THEN "returned"
                    ELSE IF n = 0 THEN "queueing" ELSE "writing")
        /\ writeQueueMutex' = IF n = Len(rest[w]) THEN NoThread ELSE w
  BY Zenon DEF WriteBytes
<1>2. /\ wpc[w] = "writing"
      /\ conn' = conn /\ fdOpen' = fdOpen /\ is_IO' = is_IO /\ smart' = smart
      /\ writeQueue' = writeQueue /\ draining' = draining /\ aim' = aim /\ work' = work
  BY Zenon DEF WriteBytes, ioVars, queueVars
<1>3. rest[w] \in Seq(Byte) /\ Len(rest[w]) \in 1 .. MsgSize
  BY <1>2 DEF SWInv, TypeOK, Resumes, EndOfMessage
<1>4. CASE n # 0
  <2>1. n \in 1 .. Len(rest[w]) /\ fdOpen
    BY <1>3, <1>4 DEF KernelTakes
  <2>2. Sent(w, n)
    BY <1>1, <1>2, <1>4, <2>1 DEF Sent, Send, WGoto
  <2> QED BY <2>2, BytesSent
<1>5. CASE n = 0
  <2>1. /\ wire' = wire /\ writeQueueMutex' = w
        /\ wpc' = [wpc EXCEPT ![w] = "queueing"]
    <3>1. n # Len(rest[w])
      BY <1>3, <1>5
    <3>2. wire' = wire
      BY <1>1, <1>5 DEF Send
    <3> QED BY <1>1, <1>5, <3>1, <3>2 DEF WGoto
  <2>2. Left(rest[w], n) \in Seq(Byte)
    <3>1. n \in 0 .. Len(rest[w])
      BY <1>3, <1>5
    <3> QED BY <1>3, <3>1, LeftElements
  <2>3. \A v \in Writers \ {w} : wpc'[v] = wpc[v] /\ rest'[v] = rest[v]
    BY <1>1, <2>1 DEF SWInv, TypeOK
  <2>4. wpc'[w] = "queueing"
    BY <2>1 DEF SWInv, TypeOK
  <2>5. TypeOK'
    <3>1. rest' \in [Writers -> Seq(Byte)]
      BY <1>1, <2>2 DEF SWInv, TypeOK
    <3>2. \A v \in Writers : writeQueueMutex' = v <=> wpc'[v] \in {"writing", "queueing"}
      BY Zenon, <1>2, <2>1, <2>3, <2>4 DEF SWInv, TypeOK
    <3> QED BY Zenon, <1>2, <2>1, <3>1, <3>2 DEF SWInv, TypeOK
  <2>6. QueueEmpty' /\ AimedAtPast' /\ WritesContiguous'
    BY Zenon, <1>2, <2>1 DEF SWInv, QueueEmpty, AimedAtPast, WritesContiguous
  <2>7. NothingSentEarly'
    <3> SUFFICES ASSUME NEW c \in 1 .. MaxConns, NEW i \in 1 .. Len(wire[c])
                 PROVE  wpc'[wire[c][i].msg] \notin {"idle", "entering"}
      BY <2>1 DEF NothingSentEarly
    <3>1. wire[c] \in Seq(Byte)
      BY DEF SWInv, TypeOK
    <3>2. wire[c][i].msg \in Writers
      <4>1. wire[c][i] \in Byte
        BY <3>1
      <4> QED BY <4>1 DEF Byte
    <3>3. wpc[wire[c][i].msg] \notin {"idle", "entering"}
      BY DEF SWInv, NothingSentEarly
    <3> QED BY Zenon, <2>3, <2>4, <3>2, <3>3
  <2>8. Resumes'
    <3>1. ASSUME NEW v \in Writers \ {w}
          PROVE  (WholeMessage(v) /\ EndOfMessage(v) /\ LastOnWire(v))'
      <4>1. WholeMessage(v) /\ EndOfMessage(v) /\ LastOnWire(v)
        BY DEF SWInv, Resumes
      <4> QED BY Zenon, <1>2, <2>1, <2>3, <4>1
              DEF WholeMessage, EndOfMessage, LastOnWire, Written
    <3>2. (WholeMessage(w) /\ EndOfMessage(w) /\ LastOnWire(w))'
      BY <2>4 DEF WholeMessage, EndOfMessage, LastOnWire
    <3> QED BY <3>1, <3>2 DEF Resumes
  <2> QED BY <2>5, <2>6, <2>7, <2>8 DEF SWInv
<1> QED BY <1>4, <1>5

\* write() returns: its message needs to be followed no longer.
LEMMA WriteQueueStep ==
    ASSUME SWInv, SDTypeOK', NEW w \in Writers, WriteQueue(w)
    PROVE  SWInv'
<1> USE SocketWritesAssumption
<1>1. /\ wpc[w] = "queueing"
      /\ writeQueueMutex' = NoThread
      /\ wpc' = [wpc EXCEPT ![w] = "returned"]
      /\ conn' = conn /\ fdOpen' = fdOpen /\ is_IO' = is_IO /\ smart' = smart
      /\ writeQueue' = writeQueue /\ draining' = draining
      /\ rest' = rest /\ aim' = aim /\ work' = work /\ wire' = wire
  BY DEF WriteQueue, WGoto, PushFront, ioVars
<1>2. /\ wpc'[w] = "returned"
      /\ \A v \in Writers \ {w} : wpc'[v] = wpc[v]
  BY <1>1 DEF SWInv, TypeOK
<1>3. TypeOK'
  <2>1. \A v \in Writers : writeQueueMutex' = v <=> wpc'[v] \in {"writing", "queueing"}
    BY <1>1, <1>2 DEF SWInv, TypeOK
  <2> QED BY <1>1, <2>1 DEF SWInv, TypeOK
<1>4. QueueEmpty' /\ AimedAtPast' /\ WritesContiguous'
  BY Zenon, <1>1 DEF SWInv, QueueEmpty, AimedAtPast, WritesContiguous
<1>5. NothingSentEarly'
  <2> SUFFICES ASSUME NEW c \in 1 .. MaxConns, NEW i \in 1 .. Len(wire[c])
               PROVE  wpc'[wire[c][i].msg] \notin {"idle", "entering"}
    BY <1>1 DEF NothingSentEarly
  <2>1. wire[c] \in Seq(Byte)
    BY DEF SWInv, TypeOK
  <2>2. wire[c][i].msg \in Writers
    <3>1. wire[c][i] \in Byte
      BY <2>1
    <3> QED BY <3>1 DEF Byte
  <2>3. wpc[wire[c][i].msg] \notin {"idle", "entering"}
    BY DEF SWInv, NothingSentEarly
  <2> QED BY <1>2, <2>2, <2>3
<1>6. Resumes'
  <2>1. ASSUME NEW v \in Writers
        PROVE  (WholeMessage(v) /\ EndOfMessage(v) /\ LastOnWire(v))'
    <3>1. WholeMessage(v) /\ EndOfMessage(v) /\ LastOnWire(v)
      BY DEF SWInv, Resumes
    <3> QED BY Zenon, <1>1, <1>2, <3>1 DEF WholeMessage, EndOfMessage, LastOnWire, Written
  <2> QED BY <2>1 DEF Resumes
<1> QED BY <1>3, <1>4, <1>5, <1>6 DEF SWInv

\* A new connection: no message is aimed at it yet.
LEMMA AcceptStep ==
    ASSUME SWInv, SDTypeOK', Accept
    PROVE  SWInv'
<1> USE SocketWritesAssumption
<1>1. /\ conn < MaxConns /\ conn' = conn + 1 /\ fdOpen' = TRUE
      /\ is_IO' = is_IO /\ smart' = smart
      /\ writeQueue' = writeQueue /\ draining' = draining
      /\ writeQueueMutex' = writeQueueMutex /\ wpc' = wpc /\ rest' = rest /\ aim' = aim
      /\ work' = work /\ wire' = wire
  BY DEF Accept, ioVars, queueVars, writerVars
<1>2. TypeOK' /\ QueueEmpty' /\ NothingSentEarly' /\ WritesContiguous'
  <2>1. conn' \in 0 .. MaxConns
    BY <1>1 DEF SWInv, TypeOK
  <2>2. TypeOK'
    BY <1>1, <2>1 DEF SWInv, TypeOK
  <2> QED BY <1>1, <2>2 DEF SWInv, QueueEmpty, NothingSentEarly, WritesContiguous
<1>3. \A w \in Writers : aim[w] \in Nat /\ aim[w] <= conn /\ conn \in Nat
  BY DEF SWInv, TypeOK, AimedAtPast
<1>4. AimedAtPast'
  BY <1>1, <1>3 DEF SWInv, TypeOK, AimedAtPast
<1>5. Resumes'
  <2> SUFFICES ASSUME NEW w \in Writers
               PROVE  (WholeMessage(w) /\ EndOfMessage(w) /\ LastOnWire(w))'
    BY DEF Resumes
  <2>1. aim'[w] # conn'
    BY <1>1, <1>3
  <2>2. WholeMessage(w) /\ EndOfMessage(w)
    BY DEF SWInv, Resumes
  <2> QED BY Zenon, <1>1, <2>1, <2>2 DEF WholeMessage, EndOfMessage, LastOnWire, Written
<1> QED BY <1>2, <1>4, <1>5 DEF SWInv

\* The steps of the other threads do not touch the writers or the wires.
LEMMA OthersStep ==
    ASSUME SWInv, SDTypeOK',
           conn' = conn, wire' = wire, writerVars' = writerVars,
           fdOpen' \in BOOLEAN, fdOpen' => fdOpen,
           is_IO' \in BOOLEAN, smart' \in BOOLEAN, work' \subseteq Threads,
           writeQueue' = writeQueue, draining' = draining
    PROVE  SWInv'
<1>1. writeQueueMutex' = writeQueueMutex /\ wpc' = wpc /\ rest' = rest /\ aim' = aim
  BY DEF writerVars
<1>2. TypeOK'
  BY <1>1 DEF SWInv, TypeOK
<1>3. QueueEmpty' /\ AimedAtPast' /\ NothingSentEarly' /\ WritesContiguous'
  BY ZenonT(40), <1>1 DEF SWInv, QueueEmpty, AimedAtPast, NothingSentEarly, WritesContiguous
<1>4. Resumes'
  BY <1>1 DEF SWInv, Resumes, WholeMessage, EndOfMessage, LastOnWire, Written
<1> QED BY <1>2, <1>3, <1>4 DEF SWInv

\* Every step preserves the invariant.
LEMMA SWStep == SWInv /\ [Next]_vars => SWInv'
<1> SUFFICES ASSUME SWInv, [Next]_vars PROVE SWInv'
  OBVIOUS
<1>1. SDTypeOK'
  BY RefinesLockStep, TypeStep DEF SWInv, TypeOK
<1>2. /\ fdOpen \in BOOLEAN /\ is_IO \in BOOLEAN /\ smart \in BOOLEAN
      /\ work \subseteq Threads /\ writeQueue = <<>> /\ draining = <<>>
  BY DEF SWInv, TypeOK, QueueEmpty
<1> USE DEF ioVars, queueVars
<1>3. CASE Accept
  BY <1>1, <1>3, AcceptStep
<1>4. CASE SmartCheck
  BY <1>1, <1>2, <1>4, OthersStep DEF SmartCheck
<1>5. CASE CleanupCall
  BY Zenon, <1>1, <1>2, <1>5, OthersStep DEF CleanupCall
<1>6. ASSUME NEW w \in Writers, WriteCall(w) \/ WriterStep(w) PROVE SWInv'
  BY Zenon, <1>1, <1>6, WriteCallStep, WriteEnterStep, WriteBytesStep, WriteQueueStep
     DEF WriterStep
<1>7. ASSUME NEW t \in Threads, WorkerCall(t) \/ CloseCall(t) PROVE SWInv'
  BY <1>1, <1>2, <1>7, OthersStep DEF WorkerCall, CloseCall
<1>8. ASSUME NEW t \in Threads, LockStep(t) \/ Release(t) \/ Spurious(t) PROVE SWInv'
  BY <1>1, <1>2, <1>8, OthersStep DEF LockStep, Release, Spurious, swVars
<1>9. ASSUME NEW t \in Threads, CleanupQueue(t) PROVE SWInv'
  BY <1>1, <1>2, <1>9, OthersStep DEF CleanupQueue
<1>10. ASSUME NEW t \in Threads, CloseFd(t) PROVE SWInv'
  BY Zenon, <1>1, <1>2, <1>10, OthersStep DEF CloseFd
<1>11. ASSUME NEW t \in Threads, WorkerDrain(t) PROVE SWInv'
  BY Zenon, <1>1, <1>2, <1>11, OthersStep DEF WorkerDrain
<1>12. CASE UNCHANGED vars
  BY <1>1, <1>2, <1>12, OthersStep DEF vars, swVars
<1> QED BY Zenon, <1>3, <1>4, <1>5, <1>6, <1>7, <1>8, <1>9, <1>10, <1>11, <1>12
        DEF Next, HolderStep

\* The invariant holds in every reachable state.
THEOREM SWInvariance == Spec => []SWInv
BY SWInit, SWStep, PTL DEF Spec

\* On every wire the bytes of a message are together and in order, for any
\* number of threads that call write() at once.
THEOREM WritesContiguousHolds == Spec => []WritesContiguous
BY SWInvariance, PTL DEF SWInv

\* The deque that the worker drains is always empty: write() pushes onto a copy.
THEOREM QueueAlwaysEmpty == Spec => []QueueEmpty
BY SWInvariance, PTL DEF SWInv

\* What is shown of the lock holds of its use by ThreadedServer2:
\* close() and the worker are inside together at most once per cleanup().
THEOREM LockBoundsHold == Spec => [](LockNeverLeaks /\ OverlapBound)
BY SocketDataRefinement, LockNeverLeaksHolds, OverlapBoundHolds, PTL DEF UsesSocketDataLock

=============================================================================
