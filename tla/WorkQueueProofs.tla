-------------------------- MODULE WorkQueueProofs --------------------------
(***************************************************************************)
(* Proofs about WorkQueue: for any number of consumers, connections and    *)
(* events, whatever close() and stop() do meanwhile, items are popped in   *)
(* order and each once, no wakeup is lost, and after stop() all is quiet.  *)
(***************************************************************************)
EXTENDS WorkQueue, SequenceTheorems, TLAPS

-----------------------------------------------------------------------------
(* The inductive invariant *)

QueueItem == [fd : Fds, job : QueueJobs, process : BOOLEAN, conn : Nat, id : Nat]
Labels == {"check", "lock", "waiting", "woken", "handle", "read",
           "mark", "unwatch", "close", "decr", "end", "dead"}

\* The part of the type invariant that the order of the items rests on.
QueueType ==
    /\ deque \in Seq(QueueItem)
    /\ pushed \in Nat /\ popped \in Nat /\ accepted \in Nat
    /\ fdConn \in [Fds -> Nat] /\ watched \subseteq Fds
    /\ batch \subseteq [fd : Fds, conn : Nat, kind : {"IN", "HUP", "ERR"}] \cup {NewConnection}
    /\ cpc \in [Consumers -> Labels]

\* The item on its way to the deque has the next number.
NextItem == lpc \in {"add", "push"} => pushing \in QueueItem /\ pushing.id = pushed + 1

\* The listening thread polls and ends with an empty batch, and ends before
\* stop() notifies the consumers.
Ended ==
    /\ lpc \in {"poll", "done"} => batch = {}
    /\ lpc = "done" => \A f \in Fds : fdConn[f] = 0
    /\ opc \in {"notify", "stopped"} => lpc = "done"

\* The inductive invariant.
QueueInv ==
    QueueType /\ NextItem /\ Ended /\ PoppedInOrder /\ NoStrandedItem /\ StoppedIsQuiet

-----------------------------------------------------------------------------
(* The operations of the deque *)

\* deque.push_front(i)
LEMMA PushedFront ==
    ASSUME NEW q \in Seq(QueueItem), NEW i \in QueueItem
    PROVE  /\ <<i>> \o q \in Seq(QueueItem)
           /\ Len(<<i>> \o q) = Len(q) + 1 /\ (<<i>> \o q)[1] = i
           /\ \A n \in 2 .. Len(q) + 1 :
                (<<i>> \o q)[n] = q[n - 1] /\ n - 1 \in 1 .. Len(q)
<1> HIDE DEF QueueItem
<1> QED
  OBVIOUS

\* deque.back() and deque.pop_back()
LEMMA PoppedBack ==
    ASSUME NEW q \in Seq(QueueItem), q # <<>>
    PROVE  /\ SubSeq(q, 1, Len(q) - 1) \in Seq(QueueItem)
           /\ q[Len(q)] \in QueueItem
           /\ Len(q) \in Nat \ {0} /\ Len(SubSeq(q, 1, Len(q) - 1)) = Len(q) - 1
           /\ \A n \in 1 .. Len(q) - 1 :
                SubSeq(q, 1, Len(q) - 1)[n] = q[n] /\ n \in 1 .. Len(q)
<1> DEFINE r == SubSeq(q, 1, Len(q) - 1)
<1> HIDE DEF QueueItem
<1>1. Len(q) \in Nat \ {0}
  OBVIOUS
<1>2. \A n \in 1 .. Len(q) : q[n] \in QueueItem
  OBVIOUS
<1>3. /\ r \in Seq(QueueItem) /\ Len(r) = IF 1 <= Len(q) - 1 THEN Len(q) - 1 - 1 + 1 ELSE 0
      /\ \A n \in 1 .. Len(q) - 1 - 1 + 1 : r[n] = q[1 + n - 1]
  BY <1>1, <1>2, SubSeqProperties
<1> HIDE DEF r
<1>4. Len(r) = Len(q) - 1
  <2> DEFINE k == Len(q)
             l == Len(r)
  <2>1. k \in Nat \ {0} /\ l = IF 1 <= k - 1 THEN k - 1 - 1 + 1 ELSE 0
    BY <1>1, <1>3
  <2> HIDE DEF k, l
  <2>2. l = k - 1
    BY <2>1
  <2> QED
    BY <2>2 DEF k, l
<1>5. ASSUME NEW n \in 1 .. Len(q) - 1 PROVE r[n] = q[n] /\ n \in 1 .. Len(q)
  <2>1. n \in 1 .. Len(q) - 1 - 1 + 1 /\ 1 + n - 1 = n /\ n \in 1 .. Len(q)
    BY <1>1
  <2>2. r[n] = q[1 + n - 1]
    BY <1>3, <2>1
  <2> QED
    BY <2>1, <2>2
<1> USE DEF r
<1> QED
  BY <1>1, <1>2, <1>3, <1>4, <1>5

\* close(fd) goes over the deque and resets process.
LEMMA Unmarked ==
    ASSUME NEW q \in Seq(QueueItem), NEW fd
    PROVE  [n \in 1 .. Len(q) |-> [q[n] EXCEPT !.process = @ /\ q[n].fd # fd]]
             \in Seq(QueueItem)
<1>1. \A n \in 1 .. Len(q) : [q[n] EXCEPT !.process = @ /\ q[n].fd # fd] \in QueueItem
  <2> SUFFICES ASSUME NEW n \in 1 .. Len(q)
               PROVE  [q[n] EXCEPT !.process = @ /\ q[n].fd # fd] \in QueueItem
    OBVIOUS
  <2>1. q[n] \in QueueItem
    OBVIOUS
  <2>2. (q[n].process /\ q[n].fd # fd) \in BOOLEAN
    OBVIOUS
  <2> QED
    BY Zenon, <2>1, <2>2 DEF QueueItem
<1> DEFINE m(n) == [q[n] EXCEPT !.process = @ /\ q[n].fd # fd]
<1> HIDE DEF m, QueueItem
<1>2. [n \in 1 .. Len(q) |-> m(n)] \in Seq(QueueItem)
  BY <1>1 DEF m
<1> QED
  BY <1>2 DEF m

-----------------------------------------------------------------------------
(* One lemma for each conjunct *)

\* Every step preserves the types.
LEMMA QueueTypeStep == QueueInv /\ [Next]_vars => QueueType'
<1> SUFFICES ASSUME QueueInv, [Next]_vars PROVE QueueType'
  OBVIOUS
<1> USE DEF QueueInv
<1>1. CASE UNCHANGED vars
  BY <1>1 DEF QueueType, Labels, vars, fdVars, listenerVars, consumerVars, ownerVars
<1>2. CASE EpollWait
  <2>1. PICK F \in SUBSET watched, new \in SUBSET {NewConnection} :
           \E kind \in [F -> {"IN", "HUP", "ERR"}] :
             batch' = new \cup {[fd |-> f, conn |-> fdConn[f], kind |-> kind[f]] : f \in F}
    BY Zenon, <1>2 DEF EpollWait
  <2>2. PICK kind \in [F -> {"IN", "HUP", "ERR"}] :
           batch' = new \cup {[fd |-> f, conn |-> fdConn[f], kind |-> kind[f]] : f \in F}
    BY <2>1
  <2>3. batch' \subseteq [fd : Fds, conn : Nat, kind : {"IN", "HUP", "ERR"}]
                             \cup {NewConnection}
    <3>1. \A f \in F : f \in Fds /\ fdConn[f] \in Nat /\ kind[f] \in {"IN", "HUP", "ERR"}
      BY <2>2 DEF QueueType
    <3> QED
      BY <2>2, <3>1
  <2> QED
    BY <1>2, <2>3 DEF QueueType, EpollWait, consumerVars
<1>3. CASE AcceptNone
  BY <1>3
     DEF QueueType, Labels, AcceptNone, LGoto, fdVars, listenerVars, consumerVars, ownerVars
<1>4. CASE ProducerPush
  <2>1. pushing \in QueueItem
    BY <1>4 DEF NextItem, ProducerPush
  <2>2. deque' \in Seq(QueueItem)
    BY <1>4, <2>1, PushedFront DEF QueueType, ProducerPush
  <2> QED
    BY <1>4, <2>2 DEF QueueType, ProducerPush, fdVars, consumerVars
<1>5. CASE ProducerNotify
  BY <1>5
     DEF QueueType, Labels, ProducerNotify, LGoto, NotifyOne, deque_cv, fdVars, listenerVars,
         consumerVars, ownerVars
<1>6. CASE ListenerStop
  BY <1>6
     DEF QueueType, Labels, ListenerStop, LGoto, fdVars, listenerVars, consumerVars, ownerVars
<1>7. CASE Stop
  BY <1>7 DEF QueueType, Labels, Stop, OGoto, fdVars, listenerVars, consumerVars, ownerVars
<1>8. CASE StopServer
  BY <1>8
     DEF QueueType, Labels, StopServer, OGoto, fdVars, listenerVars, consumerVars, ownerVars
<1>9. CASE StopNotify
  BY <1>9
     DEF QueueType, Labels, StopNotify, NotifyOne, deque_cv, fdVars, listenerVars, consumerVars,
         ownerVars
<1>10. CASE StopJoin
  BY <1>10
     DEF QueueType, Labels, StopJoin, OGoto, fdVars, listenerVars, consumerVars, ownerVars
<1>11. ASSUME NEW f \in Fds, Accept(f) PROVE QueueType'
  BY <1>11
     DEF QueueType, Labels, Accept, Produce, Producing, LGoto, fdVars, listenerVars, consumerVars,
         ownerVars
<1>12. ASSUME NEW e \in batch, Dispatch(e) PROVE QueueType'
  BY <1>12
     DEF QueueType, Labels, Dispatch, Produce, Producing, LGoto, fdVars, listenerVars, consumerVars,
         ownerVars
<1>13. ASSUME NEW e \in batch, SmartClose(e) PROVE QueueType'
  BY Zenon, <1>13
     DEF QueueType, Labels, SmartClose, Produce, Producing, LGoto, fdVars, listenerVars, consumerVars,
         ownerVars
<1>14. ASSUME NEW c \in Consumers,
             ConsumerCheck(c) \/ ConsumerWait(c) \/ ConsumerWoken(c) \/ ConsumerHandle(c) \/
             ConsumerRead(c) \/ SpuriousWakeup(c)
      PROVE  QueueType'
  BY <1>14
     DEF QueueType, Labels, ConsumerCheck, Goto, ConsumerWait, ConsumerWoken, ConsumerHandle,
         ConsumerRead, SpuriousWakeup, fdVars, listenerVars, consumerVars, ownerVars
<1>15. ASSUME NEW c \in Consumers, ConsumerPop(c) PROVE QueueType'
  <2>1. deque' \in Seq(QueueItem) /\ popped' \in Nat
    BY Zenon, <1>15, PoppedBack DEF QueueType, ConsumerPop, QueueItem
  <2> QED
    BY <1>15, <2>1 DEF QueueType, Labels, ConsumerPop, Goto, fdVars, listenerVars
<1>16. ASSUME NEW c \in Consumers, CloseMark(c) PROVE QueueType'
  <2>1. deque' \in Seq(QueueItem)
    BY Zenon, <1>16, Unmarked DEF QueueType, CloseMark
  <2> QED
    BY <1>16, <2>1 DEF QueueType, Labels, CloseMark, Goto, fdVars, listenerVars
<1>17. ASSUME NEW c \in Consumers,
             CloseUnwatch(c) \/ CloseFd(c) \/ CloseDecrement(c)
      PROVE  QueueType'
  BY <1>17
     DEF QueueType, Labels, CloseUnwatch, Goto, CloseFd, CloseDecrement, fdVars, listenerVars,
         consumerVars, ownerVars
<1>19. CASE Polled \/ StopTerminate
  BY <1>19
     DEF QueueType, Labels, Polled, StopTerminate, LGoto, OGoto, fdVars, listenerVars,
         consumerVars, ownerVars
<1>20. CASE AcceptAdd
  <2>1. pushing.fd \in Fds
    BY <1>20 DEF NextItem, AcceptAdd, QueueItem
  <2> QED
    BY <1>20, <2>1 DEF QueueType, Labels, AcceptAdd, consumerVars
<1>21. CASE AcceptAddClosed \/ ListenerThrows
  BY <1>21
     DEF QueueType, Labels, AcceptAddClosed, ListenerThrows, Die, fdVars
<1>18. ASSUME NEW c \in Consumers, CloseNullErrno(c) PROVE QueueType'
  BY <1>18
     DEF QueueType, Labels, CloseNullErrno, Die, LGoto, OGoto, fdVars, listenerVars, consumerVars,
         ownerVars
<1> QED
  BY <1>1, <1>2, <1>3, <1>4, <1>5, <1>6, <1>7, <1>8, <1>9, <1>10, <1>11, <1>12, <1>13, <1>14,
     <1>15, <1>16, <1>17, <1>18, <1>19, <1>20, <1>21
     DEF Next, ListenerStep, StopStep, ConsumerStep

\* Every step preserves NextItem: producer_callback numbers the items in turn.
LEMMA NextItemStep == QueueInv /\ [Next]_vars => NextItem'
<1> SUFFICES ASSUME QueueInv, [Next]_vars PROVE NextItem'
  OBVIOUS
<1> USE DEF QueueInv
<1>1. CASE UNCHANGED vars
  BY ZenonT(40), <1>1 DEF QueueType, NextItem, vars, fdVars, listenerVars, consumerVars, ownerVars
<1>7. CASE Polled \/ StopTerminate \/ AcceptAdd \/ AcceptAddClosed \/ ListenerThrows
  BY <1>7
     DEF QueueType, NextItem, Polled, StopTerminate, AcceptAdd, AcceptAddClosed, ListenerThrows,
         Die, LGoto, OGoto, fdVars, listenerVars
<1>2. CASE \/ Stop \/ StopServer \/ StopNotify \/ StopJoin \/ EpollWait
           \/ AcceptNone \/ ListenerStop \/ ProducerPush \/ ProducerNotify
  BY <1>2
     DEF QueueType, NextItem, Stop, OGoto, StopServer, StopNotify, NotifyOne, deque_cv,
         StopJoin, EpollWait, LGoto, AcceptNone, ListenerStop, ProducerPush, ProducerNotify,
         fdVars, listenerVars, consumerVars, ownerVars
<1>3. ASSUME NEW f \in Fds, Accept(f) PROVE NextItem'
  <2>1. pushing' = [fd |-> f, job |-> "NEW_SOCKET", process |-> TRUE, conn |-> accepted + 1,
                    id |-> pushed + 1]
    BY <1>3 DEF Accept, Produce, Producing
  <2>2. pushed' = pushed
    BY <1>3 DEF Accept
  <2> QED
    BY <2>1, <2>2 DEF QueueType, NextItem, QueueItem, QueueJobs
<1>4. ASSUME NEW e \in batch, Dispatch(e) PROVE NextItem'
  <2>1. PICK job \in QueueJobs :
           pushing' = [fd |-> e.fd, job |-> job, process |-> TRUE, conn |-> e.conn,
                       id |-> pushed + 1]
    BY Zenon, <1>4 DEF Dispatch, Produce, Producing, QueueJobs
  <2>2. e.fd \in Fds /\ e.conn \in Nat /\ pushed' = pushed
    BY <1>4 DEF QueueType, Dispatch, NewConnection
  <2> QED
    BY <2>1, <2>2 DEF QueueType, NextItem, QueueItem
<1>5. ASSUME NEW e \in batch, SmartClose(e) PROVE NextItem'
  <2>1. PICK job \in QueueJobs :
           pushing' = [fd |-> e.fd, job |-> job, process |-> TRUE, conn |-> e.conn,
                       id |-> pushed + 1]
    BY <1>5 DEF SmartClose, Produce, Producing, QueueJobs
  <2>2. e.fd \in Fds /\ e.conn \in Nat /\ pushed' = pushed
    BY <1>5 DEF QueueType, SmartClose, NewConnection
  <2> QED
    BY <2>1, <2>2 DEF QueueType, NextItem, QueueItem
<1>6. ASSUME NEW c \in Consumers,
             ConsumerCheck(c) \/ ConsumerWait(c) \/ ConsumerWoken(c) \/ ConsumerPop(c) \/
             ConsumerHandle(c) \/ ConsumerRead(c) \/ CloseMark(c) \/ CloseUnwatch(c) \/
             CloseNullErrno(c) \/ CloseFd(c) \/ CloseDecrement(c) \/ SpuriousWakeup(c)
      PROVE  NextItem'
  BY <1>6
     DEF QueueType, NextItem, ConsumerCheck, Goto, ConsumerWait, ConsumerWoken, ConsumerPop,
         ConsumerHandle, ConsumerRead, CloseMark, CloseUnwatch, CloseNullErrno, Die, LGoto, OGoto,
         CloseFd, CloseDecrement, SpuriousWakeup, fdVars, listenerVars, consumerVars, ownerVars
<1> QED
  BY <1>1, <1>2, <1>3, <1>4, <1>5, <1>6, <1>7
     DEF Next, ListenerStep, StopStep, ConsumerStep

\* Every step preserves Ended: the listening thread leaves its loop between two batches.
LEMMA EndedStep == QueueInv /\ [Next]_vars => Ended'
<1> SUFFICES ASSUME QueueInv, [Next]_vars PROVE Ended'
  OBVIOUS
<1> USE DEF QueueInv
<1>1. CASE UNCHANGED vars
  BY <1>1 DEF QueueType, Ended, vars, fdVars, listenerVars, consumerVars, ownerVars
<1>2. CASE EpollWait
  BY <1>2
     DEF QueueType, Ended, EpollWait, LGoto, fdVars, listenerVars, consumerVars, ownerVars
<1>3. CASE AcceptNone
  BY <1>3
     DEF QueueType, Ended, AcceptNone, LGoto, fdVars, listenerVars, consumerVars, ownerVars
<1>4. CASE ProducerPush
  BY <1>4
     DEF QueueType, Ended, ProducerPush, LGoto, fdVars, listenerVars, consumerVars, ownerVars
<1>5. CASE ProducerNotify
  BY <1>5
     DEF QueueType, Ended, ProducerNotify, LGoto, NotifyOne, deque_cv, fdVars, listenerVars,
         consumerVars, ownerVars
<1>6. CASE ListenerStop
  BY <1>6
     DEF QueueType, Ended, ListenerStop, LGoto, fdVars, listenerVars, consumerVars, ownerVars
<1>7. CASE Stop \/ StopServer \/ StopNotify \/ StopJoin
  BY <1>7
     DEF QueueType, Ended, Stop, OGoto, StopServer, StopNotify, NotifyOne, deque_cv, StopJoin,
         fdVars, listenerVars, consumerVars, ownerVars
<1>8. ASSUME NEW f \in Fds, Accept(f) PROVE Ended'
  BY <1>8
     DEF QueueType, Ended, Accept, Produce, Producing, LGoto, fdVars, listenerVars, consumerVars, ownerVars
<1>9. ASSUME NEW e \in batch, Dispatch(e) PROVE Ended'
  BY <1>9
     DEF QueueType, Ended, Dispatch, Produce, Producing, LGoto, fdVars, listenerVars, consumerVars,
         ownerVars
<1>10. ASSUME NEW e \in batch, SmartClose(e) PROVE Ended'
  BY ZenonT(40), <1>10
     DEF QueueType, Ended, SmartClose, Produce, Producing, LGoto, fdVars, listenerVars, consumerVars,
         ownerVars
<1>11. ASSUME NEW c \in Consumers,
             ConsumerCheck(c) \/ ConsumerWait(c) \/ ConsumerWoken(c) \/ ConsumerHandle(c) \/
             ConsumerRead(c) \/ SpuriousWakeup(c) \/ ConsumerPop(c) \/ CloseMark(c) \/
             CloseUnwatch(c) \/ CloseFd(c) \/ CloseDecrement(c)
      PROVE  Ended'
  BY <1>11
     DEF QueueType, Ended, ConsumerCheck, Goto, ConsumerWait, ConsumerWoken, ConsumerHandle,
         ConsumerRead, SpuriousWakeup, ConsumerPop, CloseMark, CloseUnwatch, CloseFd,
         CloseDecrement, fdVars, listenerVars, consumerVars, ownerVars
<1>13. CASE Polled \/ StopTerminate \/ AcceptAdd \/ AcceptAddClosed \/ ListenerThrows
  BY <1>13
     DEF QueueType, Ended, Polled, StopTerminate, AcceptAdd, AcceptAddClosed, ListenerThrows,
         Die, LGoto, OGoto, fdVars, listenerVars, ownerVars
<1>12. ASSUME NEW c \in Consumers, CloseNullErrno(c) PROVE Ended'
  BY <1>12
     DEF QueueType, Ended, CloseNullErrno, Die, LGoto, OGoto, fdVars, listenerVars, consumerVars,
         ownerVars
<1> QED
  BY <1>1, <1>2, <1>3, <1>4, <1>5, <1>6, <1>7, <1>8, <1>9, <1>10, <1>11, <1>12, <1>13
     DEF Next, ListenerStep, StopStep, ConsumerStep

\* Every step preserves PoppedInOrder: push_front, deque.back() and pop_back.
LEMMA InOrderStep == QueueInv /\ [Next]_vars => PoppedInOrder'
<1> SUFFICES ASSUME QueueInv, [Next]_vars PROVE PoppedInOrder'
  OBVIOUS
<1> USE DEF QueueInv
<1>1. CASE UNCHANGED vars
  BY <1>1
     DEF QueueType, NextItem, Ended, PoppedInOrder, StoppedIsQuiet, vars, fdVars, listenerVars,
         consumerVars, ownerVars
<1>2. CASE EpollWait \/ AcceptNone \/ ListenerStop \/ ProducerNotify
  BY <1>2
     DEF QueueType, NextItem, Ended, PoppedInOrder, StoppedIsQuiet, EpollWait, LGoto,
         AcceptNone, ListenerStop, ProducerNotify, NotifyOne, deque_cv, fdVars, listenerVars,
         consumerVars, ownerVars
<1>3. CASE ProducerPush
  <2>1. pushing \in QueueItem /\ pushing.id = pushed + 1
    BY <1>3 DEF NextItem, ProducerPush
  <2>2. /\ Len(deque') = Len(deque) + 1 /\ deque'[1] = pushing
        /\ \A n \in 2 .. Len(deque') : deque'[n] = deque[n - 1] /\ n - 1 \in 1 .. Len(deque)
    BY <1>3, <2>1, PushedFront DEF QueueType, ProducerPush
  <2>3. opc # "stopped" /\ opc' = opc
    BY <1>3 DEF Ended, ProducerPush, ownerVars
  <2>4. Len(deque') = pushed' - popped'
    BY <1>3, <2>2, <2>3 DEF QueueType, PoppedInOrder, ProducerPush, consumerVars
  <2>5. ASSUME NEW n \in 1 .. Len(deque') PROVE deque'[n].id = pushed' - n + 1
    <3>1. CASE n = 1
      BY <1>3, <2>1, <2>2, <3>1 DEF QueueType, ProducerPush
    <3>2. CASE n # 1
      <4>1. n \in 2 .. Len(deque') /\ Len(deque) \in Nat
        BY <2>2, <3>2 DEF QueueType
      <4>2. deque'[n] = deque[n - 1] /\ n - 1 \in 1 .. Len(deque)
        BY <2>2, <4>1
      <4>3. deque[n - 1].id = pushed - (n - 1) + 1
        BY <2>3, <4>2 DEF PoppedInOrder
      <4> QED
        BY <1>3, <4>1, <4>2, <4>3 DEF QueueType, ProducerPush
    <3> QED
      BY <3>1, <3>2
  <2> QED
    BY <2>4, <2>5 DEF PoppedInOrder
<1>4. CASE Stop \/ StopServer \/ StopNotify \/ StopJoin
  BY Zenon, <1>4
     DEF QueueType, NextItem, Ended, PoppedInOrder, StoppedIsQuiet, Stop, OGoto, StopServer,
         StopNotify, NotifyOne, deque_cv, StopJoin, fdVars, listenerVars, consumerVars,
         ownerVars
<1>5. ASSUME NEW f \in Fds, Accept(f) PROVE PoppedInOrder'
  BY <1>5
     DEF QueueType, NextItem, Ended, PoppedInOrder, StoppedIsQuiet, Accept, Produce, Producing, LGoto,
         fdVars, listenerVars, consumerVars, ownerVars
<1>6. ASSUME NEW e \in batch, Dispatch(e) \/ SmartClose(e) PROVE PoppedInOrder'
  BY Zenon, <1>6
     DEF QueueType, NextItem, Ended, PoppedInOrder, StoppedIsQuiet, Dispatch, Produce, Producing, LGoto,
         SmartClose, fdVars, listenerVars, consumerVars, ownerVars
<1>7. ASSUME NEW c \in Consumers,
             ConsumerCheck(c) \/ ConsumerWait(c) \/ ConsumerWoken(c) \/ ConsumerHandle(c) \/
             ConsumerRead(c) \/ SpuriousWakeup(c) \/ CloseUnwatch(c) \/ CloseFd(c) \/
             CloseDecrement(c)
      PROVE  PoppedInOrder'
  BY Zenon, <1>7
     DEF QueueType, NextItem, Ended, PoppedInOrder, StoppedIsQuiet, ConsumerCheck, Goto,
         ConsumerWait, ConsumerWoken, ConsumerHandle, ConsumerRead, SpuriousWakeup,
         CloseUnwatch, CloseFd, CloseDecrement, fdVars, listenerVars, consumerVars, ownerVars
<1>8. ASSUME NEW c \in Consumers, ConsumerPop(c) PROVE PoppedInOrder'
  <2>1. /\ Len(deque) \in Nat \ {0} /\ Len(deque') = Len(deque) - 1
        /\ \A n \in 1 .. Len(deque') : deque'[n] = deque[n] /\ n \in 1 .. Len(deque)
    BY <1>8, PoppedBack DEF QueueType, ConsumerPop
  <2>2. opc # "stopped" /\ opc' = opc /\ pushed' = pushed
    BY <1>8 DEF StoppedIsQuiet, ConsumerPop, ownerVars, listenerVars
  <2>3. popped' = pushed - Len(deque) + 1 /\ Len(deque) = pushed - popped
    BY <1>8, <2>1, <2>2 DEF PoppedInOrder, ConsumerPop
  <2>4. Len(deque') = pushed' - popped'
    BY <2>1, <2>2, <2>3 DEF QueueType
  <2>5. \A n \in 1 .. Len(deque') : deque'[n].id = pushed' - n + 1
    BY <2>1, <2>2 DEF PoppedInOrder
  <2> QED
    BY <2>4, <2>5 DEF PoppedInOrder
<1>9. ASSUME NEW c \in Consumers, CloseMark(c) PROVE PoppedInOrder'
  BY <1>9
     DEF QueueType, NextItem, Ended, PoppedInOrder, StoppedIsQuiet, CloseMark, Goto, fdVars,
         listenerVars, consumerVars, ownerVars
<1>11. CASE Polled \/ StopTerminate \/ AcceptAdd \/ AcceptAddClosed \/ ListenerThrows
  BY <1>11
     DEF QueueType, Ended, PoppedInOrder, Polled, StopTerminate, AcceptAdd, AcceptAddClosed,
         ListenerThrows, Die, LGoto, OGoto, fdVars, listenerVars, consumerVars, ownerVars
<1>10. ASSUME NEW c \in Consumers, CloseNullErrno(c) PROVE PoppedInOrder'
  BY <1>10
     DEF QueueType, NextItem, Ended, PoppedInOrder, StoppedIsQuiet, CloseNullErrno, Die, LGoto,
         OGoto, fdVars, listenerVars, consumerVars, ownerVars
<1> QED
  BY <1>1, <1>2, <1>3, <1>4, <1>5, <1>6, <1>7, <1>8, <1>9, <1>10, <1>11
     DEF Next, ListenerStep, StopStep, ConsumerStep

\* Every step preserves NoStrandedItem: a push is followed by notify_one().
LEMMA NoStrandedStep == QueueInv /\ [Next]_vars => NoStrandedItem'
<1> SUFFICES ASSUME QueueInv, [Next]_vars PROVE NoStrandedItem'
  OBVIOUS
<1> USE DEF QueueInv
<1>1. CASE UNCHANGED vars
  BY <1>1 DEF QueueType, NoStrandedItem, vars, fdVars, listenerVars, consumerVars, ownerVars
<1>2. CASE EpollWait \/ AcceptNone \/ ListenerStop
  BY <1>2
     DEF QueueType, NoStrandedItem, EpollWait, LGoto, AcceptNone, ListenerStop, fdVars,
         listenerVars, consumerVars, ownerVars
<1>3. CASE ProducerPush
  BY <1>3
     DEF QueueType, NoStrandedItem, ProducerPush, LGoto, fdVars, listenerVars, consumerVars,
         ownerVars
<1>4. CASE ProducerNotify
  <2>1. PICK c \in Consumers : TRUE
    BY WorkQueueAssumption
  <2>2. CASE deque_cv = {} /\ cpc' = cpc
    BY <2>1, <2>2 DEF NoStrandedItem, deque_cv
  <2>3. CASE \E d \in deque_cv : cpc' = [cpc EXCEPT ![d] = "woken"]
    BY <2>3 DEF QueueType, NoStrandedItem, deque_cv
  <2> QED
    BY <1>4, <2>2, <2>3 DEF ProducerNotify, NotifyOne
<1>5. CASE Stop \/ StopServer \/ StopJoin
  BY <1>5
     DEF QueueType, NoStrandedItem, Stop, OGoto, StopServer, StopJoin, fdVars, listenerVars,
         consumerVars, ownerVars
<1>6. CASE StopNotify
  BY <1>6
     DEF QueueType, NoStrandedItem, StopNotify, NotifyOne, deque_cv, fdVars, listenerVars,
         consumerVars, ownerVars
<1>7. ASSUME NEW f \in Fds, Accept(f) PROVE NoStrandedItem'
  BY <1>7
     DEF QueueType, NoStrandedItem, Accept, Produce, Producing, LGoto, fdVars, listenerVars, consumerVars,
         ownerVars
<1>8. ASSUME NEW e \in batch, Dispatch(e) \/ SmartClose(e) PROVE NoStrandedItem'
  BY ZenonT(40), <1>8
     DEF QueueType, NoStrandedItem, Dispatch, Produce, Producing, LGoto, SmartClose, fdVars, listenerVars,
         consumerVars, ownerVars
<1>9. ASSUME NEW c \in Consumers,
             ConsumerCheck(c) \/ ConsumerWoken(c) \/ ConsumerHandle(c) \/ ConsumerRead(c) \/
             SpuriousWakeup(c) \/ CloseUnwatch(c) \/ CloseFd(c) \/ CloseDecrement(c)
      PROVE  NoStrandedItem'
  BY <1>9
     DEF QueueType, NoStrandedItem, ConsumerCheck, Goto, ConsumerWoken, ConsumerHandle,
         ConsumerRead, SpuriousWakeup, CloseUnwatch, CloseFd, CloseDecrement, fdVars,
         listenerVars, consumerVars, ownerVars
<1>10. ASSUME NEW c \in Consumers, ConsumerWait(c) PROVE NoStrandedItem'
  BY <1>10
     DEF QueueType, NoStrandedItem, ConsumerWait, Goto, fdVars, listenerVars, consumerVars,
         ownerVars
<1>11. ASSUME NEW c \in Consumers, ConsumerPop(c) PROVE NoStrandedItem'
  BY <1>11
     DEF QueueType, NoStrandedItem, ConsumerPop, Goto, fdVars, listenerVars, consumerVars,
         ownerVars
<1>12. ASSUME NEW c \in Consumers, CloseMark(c) PROVE NoStrandedItem'
  BY <1>12
     DEF QueueType, NoStrandedItem, CloseMark, Goto, fdVars, listenerVars, consumerVars,
         ownerVars
<1>14. CASE Polled \/ StopTerminate \/ AcceptAdd \/ AcceptAddClosed \/ ListenerThrows
  BY <1>14, WorkQueueAssumption
     DEF QueueType, NoStrandedItem, Polled, StopTerminate, AcceptAdd, AcceptAddClosed,
         ListenerThrows, Die, LGoto, OGoto, fdVars, listenerVars, consumerVars, ownerVars
<1>13. ASSUME NEW c \in Consumers, CloseNullErrno(c) PROVE NoStrandedItem'
  BY <1>13
     DEF QueueType, NoStrandedItem, CloseNullErrno, Die, LGoto, OGoto, fdVars, listenerVars,
         consumerVars, ownerVars
<1> QED
  BY <1>1, <1>2, <1>3, <1>4, <1>5, <1>6, <1>7, <1>8, <1>9, <1>10, <1>11, <1>12, <1>13, <1>14
     DEF Next, ListenerStep, StopStep, ConsumerStep

\* Every step preserves StoppedIsQuiet: stop() joins every thread, then clears the deque.
LEMMA QuietStep == QueueInv /\ [Next]_vars => StoppedIsQuiet'
<1> SUFFICES ASSUME QueueInv, [Next]_vars PROVE StoppedIsQuiet'
  OBVIOUS
<1> USE DEF QueueInv
<1>1. CASE UNCHANGED vars
  BY ZenonT(40), <1>1
     DEF QueueType, Ended, StoppedIsQuiet, vars, fdVars, listenerVars, consumerVars, ownerVars
<1>2. CASE EpollWait \/ AcceptNone \/ ListenerStop \/ ProducerPush \/ ProducerNotify
  BY <1>2
     DEF QueueType, Ended, StoppedIsQuiet, EpollWait, LGoto, AcceptNone, ListenerStop,
         ProducerPush, ProducerNotify, NotifyOne, deque_cv, fdVars, listenerVars, consumerVars,
         ownerVars
<1>3. CASE Stop \/ StopServer \/ StopNotify
  BY <1>3
     DEF QueueType, Ended, StoppedIsQuiet, Stop, OGoto, StopServer, StopNotify, NotifyOne,
         deque_cv, fdVars, listenerVars, consumerVars, ownerVars
<1>4. CASE StopJoin
  BY <1>4
     DEF QueueType, Ended, StoppedIsQuiet, StopJoin, OGoto, fdVars, listenerVars, consumerVars,
         ownerVars
<1>5. ASSUME NEW f \in Fds, Accept(f) PROVE StoppedIsQuiet'
  BY <1>5
     DEF QueueType, Ended, StoppedIsQuiet, Accept, Produce, Producing, LGoto, fdVars, listenerVars,
         consumerVars, ownerVars
<1>6. ASSUME NEW e \in batch, Dispatch(e) \/ SmartClose(e) PROVE StoppedIsQuiet'
  BY ZenonT(40), <1>6
     DEF QueueType, Ended, StoppedIsQuiet, Dispatch, Produce, Producing, LGoto, SmartClose, fdVars,
         listenerVars, consumerVars, ownerVars
<1>7. ASSUME NEW c \in Consumers,
             ConsumerCheck(c) \/ ConsumerWait(c) \/ ConsumerWoken(c) \/ ConsumerHandle(c) \/
             ConsumerRead(c) \/ SpuriousWakeup(c) \/ ConsumerPop(c) \/ CloseMark(c) \/
             CloseUnwatch(c) \/ CloseFd(c) \/ CloseDecrement(c)
      PROVE  StoppedIsQuiet'
  BY <1>7
     DEF QueueType, Ended, StoppedIsQuiet, ConsumerCheck, Goto, ConsumerWait, ConsumerWoken,
         ConsumerHandle, ConsumerRead, SpuriousWakeup, ConsumerPop, CloseMark, CloseUnwatch,
         CloseFd, CloseDecrement, fdVars, listenerVars, consumerVars, ownerVars
<1>9. CASE Polled \/ StopTerminate \/ AcceptAdd \/ AcceptAddClosed \/ ListenerThrows
  BY <1>9
     DEF QueueType, Ended, StoppedIsQuiet, Polled, StopTerminate, AcceptAdd, AcceptAddClosed,
         ListenerThrows, Die, LGoto, OGoto, fdVars, listenerVars, consumerVars, ownerVars
<1>8. ASSUME NEW c \in Consumers, CloseNullErrno(c) PROVE StoppedIsQuiet'
  BY <1>8
     DEF QueueType, Ended, StoppedIsQuiet, CloseNullErrno, Die, LGoto, OGoto, fdVars, listenerVars,
         consumerVars, ownerVars
<1> QED
  BY <1>1, <1>2, <1>3, <1>4, <1>5, <1>6, <1>7, <1>8, <1>9
     DEF Next, ListenerStep, StopStep, ConsumerStep

-----------------------------------------------------------------------------
(* The theorems *)

\* The inductive invariant holds of every execution.
THEOREM QueueInvariance == Spec => []QueueInv
<1>1. Init => QueueInv
  BY WorkQueueAssumption DEF Init, QueueInv, QueueType, Labels, NextItem, Ended, PoppedInOrder,
     NoStrandedItem, StoppedIsQuiet
<1>2. QueueInv /\ [Next]_vars => QueueInv'
  BY QueueTypeStep, NextItemStep, EndedStep, InOrderStep, NoStrandedStep, QuietStep
     DEF QueueInv
<1> QED
  BY <1>1, <1>2, PTL DEF Spec

\* Items leave the deque in the order in which they were pushed, each once.
THEOREM PoppedInOrderHolds == Spec => []PoppedInOrder
<1>1. QueueInv => PoppedInOrder
  BY DEF QueueInv
<1> QED
  BY <1>1, QueueInvariance, PTL

\* No wakeup for an item is lost.
THEOREM NoStrandedItemHolds == Spec => []NoStrandedItem
<1>1. QueueInv => NoStrandedItem
  BY DEF QueueInv
<1> QED
  BY <1>1, QueueInvariance, PTL

\* When WorkQueue::stop has returned nothing runs, is open or is queued.
THEOREM StoppedIsQuietHolds == Spec => []StoppedIsQuiet
<1>1. QueueInv => StoppedIsQuiet
  BY DEF QueueInv
<1> QED
  BY <1>1, QueueInvariance, PTL

============================================================================
