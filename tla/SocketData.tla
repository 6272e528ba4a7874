----------------------------- MODULE SocketData -----------------------------
(***************************************************************************)
(* The per-socket lock of libnbuss/SocketData.cpp: an int `uses' guarded   *)
(* by usesMutex and usesCv, with lock(), release() and cleanup(false).     *)
(*                                                                         *)
(* Two kinds of thread use one instance, as ThreadedServer2.cpp does:      *)
(*   Workers  the write queue worker: lock(), drain, release();            *)
(*   Closers  close(fd) and cleanup(fd): lock(), cleanup(false), release().*)
(*                                                                         *)
(* cleanup(false) stores to `uses' without usesMutex, so `uses++' and      *)
(* `uses--' are a load and a store here.  The writeQueue that cleanup also *)
(* clears is in module SocketWrites, which composes this one.              *)
(***************************************************************************)
EXTENDS Integers, FiniteSets

CONSTANTS
    Workers,    \* threads that lock() and release()
    Closers,    \* threads that also call cleanup(false) while inside
    MaxCalls,   \* bound: lock() calls of one thread
    NoThread    \* owner of a free usesMutex

Threads == Workers \cup Closers

ASSUME SocketDataAssumption ==
    /\ IsFiniteSet(Threads)
    /\ Workers \cap Closers = {}
    /\ NoThread \notin Threads
    /\ MaxCalls \in Nat

VARIABLES
    uses,       \* SocketData::uses
    usesMutex,  \* owner of SocketData::usesMutex
    pc,         \* where each thread is
    reg,        \* the value of uses a thread loaded in uses++ or uses--
    calls,      \* lock() calls each thread has made
    cleanups    \* history: cleanup(false) calls made so far

sdVars == <<uses, usesMutex, pc, reg, calls, cleanups>>

Inside == {"inside", "cleaned", "decr"}

\* Threads between the return of lock() and the decrement in release().
Holders == {t \in Threads : pc[t] \in Inside}

\* Threads blocked in usesCv.wait().
usesCv == {t \in Threads : pc[t] = "waiting"}

SDTypeOK ==
    /\ uses \in Int
    /\ usesMutex \in Threads \cup {NoThread}
    /\ \A t \in Threads : usesMutex = t <=> pc[t] \in {"incr", "decr"}
    /\ pc \in [Threads -> Inside \cup {"idle", "lock", "waiting", "incr", "notify"}]
    /\ reg \in [Threads -> Int]
    /\ calls \in [Threads -> 0 .. MaxCalls]
    /\ cleanups \in Nat

SDInit ==
    /\ uses = 0
    /\ usesMutex = NoThread
    /\ pc = [t \in Threads |-> "idle"]
    /\ reg = [t \in Threads |-> 0]
    /\ calls = [t \in Threads |-> 0]
    /\ cleanups = 0

Goto(t, label) == pc' = [pc EXCEPT ![t] = label]

-----------------------------------------------------------------------------
(* lock() *)

LockCall(t) ==
    /\ pc[t] = "idle"
    /\ calls[t] < MaxCalls
    /\ calls' = [calls EXCEPT ![t] = @ + 1]
    /\ Goto(t, "lock")
    /\ UNCHANGED <<uses, usesMutex, reg, cleanups>>

\* while (uses > 0) usesCv.wait(lk)
LockWait(t) ==
    /\ pc[t] = "lock"
    /\ usesMutex = NoThread
    /\ uses > 0
    /\ Goto(t, "waiting")
    /\ UNCHANGED <<uses, usesMutex, reg, calls, cleanups>>

\* Mutant: lock() does not test uses.
LockLoad_NoTest(t) ==
    /\ pc[t] = "lock" /\ usesMutex = NoThread
    /\ usesMutex' = t
    /\ reg' = [reg EXCEPT ![t] = uses]
    /\ Goto(t, "incr")
    /\ UNCHANGED <<uses, calls, cleanups>>

\* The loop is left with usesMutex held; uses++ has loaded.
LockLoad(t) ==
    /\ pc[t] = "lock"
    /\ usesMutex = NoThread
    /\ uses <= 0
    /\ usesMutex' = t
    /\ reg' = [reg EXCEPT ![t] = uses]
    /\ Goto(t, "incr")
    /\ UNCHANGED <<uses, calls, cleanups>>

LockStore(t) ==
    /\ pc[t] = "incr"
    /\ uses' = reg[t] + 1
    /\ usesMutex' = NoThread
    /\ Goto(t, "inside")
    /\ UNCHANGED <<reg, calls, cleanups>>

\* condition_variable::wait may return without a notification.
SpuriousWakeup(t) ==
    /\ pc[t] = "waiting"
    /\ Goto(t, "lock")
    /\ UNCHANGED <<uses, usesMutex, reg, calls, cleanups>>

-----------------------------------------------------------------------------
(* cleanup(false): uses = 0, no mutex *)

Cleanup(t) ==
    /\ t \in Closers
    /\ pc[t] = "inside"
    /\ uses' = 0
    /\ cleanups' = cleanups + 1
    /\ Goto(t, "cleaned")
    /\ UNCHANGED <<usesMutex, reg, calls>>

-----------------------------------------------------------------------------
(* release() *)

ReleaseLoad(t) ==
    /\ pc[t] = IF t \in Closers THEN "cleaned" ELSE "inside"
    /\ usesMutex = NoThread
    /\ usesMutex' = t
    /\ reg' = [reg EXCEPT ![t] = uses]
    /\ Goto(t, "decr")
    /\ UNCHANGED <<uses, calls, cleanups>>

\* Mutant: uses-- is forgotten.
ReleaseStore_NoDecrement(t) ==
    /\ pc[t] = "decr"
    /\ usesMutex' = NoThread
    /\ Goto(t, "notify")
    /\ UNCHANGED <<uses, reg, calls, cleanups>>

ReleaseStore(t) ==
    /\ pc[t] = "decr"
    /\ uses' = reg[t] - 1
    /\ usesMutex' = NoThread
    /\ Goto(t, "notify")
    /\ UNCHANGED <<reg, calls, cleanups>>

\* usesCv.notify_one(): wakes one waiter, if there is one.
ReleaseNotify(t) ==
    /\ pc[t] = "notify"
    /\ \/ /\ usesCv = {}
          /\ Goto(t, "idle")
       \/ \E w \in usesCv : pc' = [pc EXCEPT ![t] = "idle", ![w] = "lock"]
    /\ UNCHANGED <<uses, usesMutex, reg, calls, cleanups>>

-----------------------------------------------------------------------------

\* The steps a thread takes by itself once it has called lock().
SDStep(t) ==
    \/ LockWait(t) \/ LockLoad(t) \/ LockStore(t)
    \/ Cleanup(t)
    \/ ReleaseLoad(t) \/ ReleaseStore(t) \/ ReleaseNotify(t)

SDNext == \E t \in Threads : LockCall(t) \/ SDStep(t) \/ SpuriousWakeup(t)

SDSpec == SDInit /\ [][SDNext]_sdVars

-----------------------------------------------------------------------------
(* Properties *)

\* The counter never claims more holders than there are: with nobody between
\* lock() and release(), uses <= 0, so the next lock() does not block.  It
\* holds although cleanup() and release() both write uses, in any order.
LockNeverLeaks == uses <= Cardinality(Holders)

\* Each cleanup() inside the lock (SocketData.cpp:18) lets in at most one
\* thread too many: after k calls at most k + 1 threads are inside at once,
\* and before the first one the lock is exclusive.
OverlapBound == Cardinality(Holders) <= cleanups + 1

\* The counter lags the number of threads inside by at most the cleanup() calls
\* made so far, and so does a value loaded by a uses++ or uses-- whose store is
\* still to come: whatever cleanup() stores in between, the later store is in
\* range.  A thread about to store uses++ has loaded 0 or less.
CounterLag ==
    /\ uses >= Cardinality(Holders) - cleanups
    /\ \A t \in Threads :
         /\ pc[t] \in {"incr", "decr"} =>
              reg[t] \in (Cardinality(Holders) - cleanups) .. Cardinality(Holders)
         /\ pc[t] = "incr" => reg[t] <= 0

\* While a thread waits in lock(), some other thread is on its way to the
\* notify_one() of release(), or has been woken and will get there: the
\* single notification per release strands nobody.
NoStranding ==
    usesCv # {} => \E t \in Threads : pc[t] \notin {"idle", "waiting"}

-----------------------------------------------------------------------------
(* Statements of the repository that the code does not satisfy *)

\* SocketData.h:36-37, "number of uses; 0 = not used", "// >= 0".
UsesNonNegative == uses >= 0

\* SocketData.h:57-61, "get lock on instance; if locked by another thread,
\* blocks until lock is successful".
MutualExclusion == \A s, t \in Holders : s = t

=============================================================================
