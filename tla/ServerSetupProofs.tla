-------------------------- MODULE ServerSetupProofs --------------------------
(***************************************************************************)
(* Proofs about ServerSetup, for any servers, addresses and descriptors.   *)
(* DescriptorsAccounted is inductive once each server's pipe is known to   *)
(* be apart from its sockets, and once it is known at which stage which    *)
(* descriptor is held: every action changes what one server holds, and     *)
(* MovesAccounted shows once what such a change must satisfy.              *)
(***************************************************************************)
EXTENDS ServerSetup, TLAPS

-----------------------------------------------------------------------------
(* The inductive invariant *)

\* What a server holds is known from where its thread is in the constructor,
\* listen() or the destructor.
Stages ==
    \A s \in Servers :
        /\ s \in TcpServers => spc[s] \notin {"unlink", "unixSocket", "unixBind"}
        /\ s \in UnixServers => spc[s] \notin {"try", "socket", "bind", "sleep"}
        /\ sfd[s] # None <=> spc[s] \in {"bind", "unixBind"}
        /\ listen_sock[s] # None <=> spc[s] \in {"up", "listening"}
        /\ epollfd[s] # None <=> spc[s] = "listening"
        /\ spc[s] \in {"none", "failed"} => commandPipe[s] = {}
        /\ spc[s] = "bind" => rp[s] # <<>>

\* A server's sockets are not the ends of its own pipe.
PipeApart ==
    \A s \in Servers : {sfd[s], listen_sock[s], epollfd[s]} \cap commandPipe[s] = {}

\* The counter of setup() and the calls of open_listening_socket() add up to five.
AttemptsCounted ==
    \A s \in TcpServers :
        attempts[s] = IF spc[s] \in Constructing THEN 5 - counter[s] ELSE 0

\* The inductive invariant.
SetupInv ==
    /\ TypeOK /\ Stages /\ PipeApart /\ AttemptsCounted
    /\ DescriptorsAccounted /\ ListeningIsWakeable /\ OldFileIsNoObstacle

-----------------------------------------------------------------------------
(* Lemmas *)

\* What a server holds is in use, and has not been leaked.
LEMMA HeldFacts ==
    ASSUME DescriptorsAccounted, NEW s \in Servers
    PROVE  /\ commandPipe[s] \subseteq Held(s)
           /\ Held(s) \subseteq open /\ leaked \subseteq open
           /\ Held(s) \cap leaked = {}
<1> DEFINE H(t) == Held(t)
<1>1. open = leaked \cup UNION {H(t) : t \in Servers} /\ H(s) \cap leaked = {}
  BY DEF DescriptorsAccounted
<1>2. commandPipe[s] \subseteq H(s)
  BY DEF Held
<1> HIDE DEF H
<1>3. H(s) \subseteq open
  BY <1>1
<1> QED
  BY <1>1, <1>2, <1>3 DEF H

\* A system call returns a descriptor that is not in use.
LEMMA NewFdIsNew ==
    ASSUME NEW used \in SUBSET Fds, used # Fds
    PROVE  NewFd(used) \in Fds \ used
  BY DEF NewFd

\* pipe() returns two such descriptors, or none.
LEMMA PipeIsNew ==
    ASSUME TypeOK, NEW s \in Servers, OpenPipe(s)
    PROVE  \E ends \in SUBSET (Fds \ open) :
             /\ commandPipe' = [commandPipe EXCEPT ![s] = ends]
             /\ open' = open \cup ends
<1> DEFINE a == NewFd(open)
           b == NewFd(open \cup {a})
           ends == IF \E f, g \in Fds \ open : f # g THEN {a, b} ELSE {}
<1>1. ends \subseteq Fds \ open
  <2>2. open \in SUBSET Fds
    BY Zenon DEF TypeOK
  <2>1. CASE \E f, g \in Fds \ open : f # g
    <3>1. a \in Fds \ open
      BY <2>1, <2>2, NewFdIsNew
    <3>2. b \in Fds \ (open \cup {a})
      BY <2>1, <2>2, <3>1, NewFdIsNew
    <3> QED
      BY <2>1, <3>1, <3>2
  <2> QED
    BY <2>1
<1>2. /\ commandPipe' = [commandPipe EXCEPT ![s] = ends]
      /\ open' = open \cup ends
  BY DEF OpenPipe
<1> QED
  BY Zenon, <1>1, <1>2


\* Every step preserves the type invariant.
LEMMA TypeStep == SetupInv /\ [Next]_vars => TypeOK'
<1> SUFFICES ASSUME SetupInv, [Next]_vars PROVE TypeOK'
  OBVIOUS
<1> USE DEF SetupInv
<1>1. CASE UNCHANGED vars
  BY <1>1
     DEF TypeOK, Stages, Constructing, Built, Servers, Addrs, vars, kernelVars, memberVars,
         localVars, historyVars
<1>2. CASE \E a \in Ports : PortReleased(a)
  BY <1>2, ServerSetupAssumption
     DEF TypeOK, Stages, Constructing, Built, Servers, Addrs, PortReleased, kernelVars,
         memberVars, localVars, historyVars
<1>3. ASSUME NEW s \in Servers,
              TcpInvalid(s) \/ UnixInvalid(s)
      PROVE  TypeOK'
  <2>1. Invalid(s)
    BY Zenon, <1>3 DEF TcpInvalid, UnixInvalid
  <2>2. constructs' \in 0 .. MaxConstructs
    BY <2>1, ServerSetupAssumption DEF TypeOK, Invalid, Begin
  <2>3. spc' \in [Servers -> {"none", "failed"} \cup Constructing \cup Built]
    BY Zenon, <2>1 DEF TypeOK, Invalid, Goto
  <2> QED
    BY Zenon, <2>1, <2>2, <2>3
       DEF TypeOK, Invalid, kernelVars, memberVars, localVars, historyVars
<1>4. ASSUME NEW s \in Servers, ConstructTcp(s) PROVE TypeOK'
  <2>1. open' \subseteq Fds /\ commandPipe' \in [Servers -> SUBSET Fds]
    <3>1. OpenPipe(s)
      BY <1>4 DEF ConstructTcp
    <3>2. PICK ends \in SUBSET (Fds \ open) :
             /\ commandPipe' = [commandPipe EXCEPT ![s] = ends]
             /\ open' = open \cup ends
      BY <3>1, PipeIsNew
    <3> QED
      BY <3>2 DEF TypeOK
  <2>2. constructs' \in 0 .. MaxConstructs
    BY <1>4, ServerSetupAssumption DEF TypeOK, ConstructTcp, Begin
  <2>3. spc' \in [Servers -> {"none", "failed"} \cup Constructing \cup Built]
    BY <1>4 DEF TypeOK, ConstructTcp, Goto, Constructing
  <2>4. counter' \in [Servers -> 0 .. 5]
    BY <1>4 DEF TypeOK, ConstructTcp, localVars
  <2> QED
    BY <1>4, <2>1, <2>2, <2>3, <2>4 DEF TypeOK, ConstructTcp, localVars, historyVars
<1>5. ASSUME NEW s \in Servers, ConstructUnix(s) PROVE TypeOK'
  <2>1. open' \subseteq Fds /\ commandPipe' \in [Servers -> SUBSET Fds]
    <3>1. OpenPipe(s)
      BY <1>5 DEF ConstructUnix
    <3>2. PICK ends \in SUBSET (Fds \ open) :
             /\ commandPipe' = [commandPipe EXCEPT ![s] = ends]
             /\ open' = open \cup ends
      BY <3>1, PipeIsNew
    <3> QED
      BY <3>2 DEF TypeOK
  <2>2. constructs' \in 0 .. MaxConstructs
    BY <1>5, ServerSetupAssumption DEF TypeOK, ConstructUnix, Begin
  <2>3. spc' \in [Servers -> {"none", "failed"} \cup Constructing \cup Built]
    BY <1>5 DEF TypeOK, ConstructUnix, Goto, Constructing
  <2>4. counter' \in [Servers -> 0 .. 5]
    BY <1>5 DEF TypeOK, ConstructUnix, localVars
  <2> QED
    BY <1>5, <2>1, <2>2, <2>3, <2>4 DEF TypeOK, ConstructUnix, localVars, historyVars
<1>6. ASSUME NEW s \in Servers, SetupTry(s) PROVE TypeOK'
  <2>1. counter' \in [Servers -> 0 .. 5]
    <3>1. counter[s] - 1 \in 0 .. 5
      BY <1>6 DEF TypeOK, SetupTry
    <3> QED
      BY <1>6, <3>1 DEF TypeOK, SetupTry
  <2>2. attempts' \in [Servers -> Nat]
    BY <1>6 DEF TypeOK, SetupTry
  <2>3. /\ rp' \in [Servers -> Seq(Ports)]
        /\ spc' \in [Servers -> {"none", "failed"} \cup Constructing \cup Built]
    <3>1. \/ rp' = [rp EXCEPT ![s] = AddrInfo] /\ spc' = [spc EXCEPT ![s] = "socket"]
          \/ rp' = rp /\ spc' = [spc EXCEPT ![s] = "sleep"]
      BY <1>6 DEF SetupTry, Resolve, Goto
    <3>2. AddrInfo \in Seq(Ports)
      BY ServerSetupAssumption
    <3> HIDE DEF Ports
    <3> QED
      BY ZenonT(40), <3>1, <3>2 DEF TypeOK, Constructing
  <2> QED
    BY <1>6, <2>1, <2>2, <2>3 DEF TypeOK, SetupTry, kernelVars, memberVars
<1>7. ASSUME NEW s \in Servers, SetupThrow(s) PROVE TypeOK'
  BY <1>7, ServerSetupAssumption
     DEF TypeOK, Stages, Constructing, Built, Servers, Addrs, SetupThrow, Fail, Goto, LocalsEnd,
         kernelVars, memberVars, localVars, historyVars
<1>8. ASSUME NEW s \in Servers, SetupSleep(s) PROVE TypeOK'
  BY <1>8, ServerSetupAssumption
     DEF TypeOK, Stages, Constructing, Built, Servers, Addrs, SetupSleep, Goto, kernelVars,
         memberVars, localVars, historyVars
<1>9. ASSUME NEW s \in Servers, TcpGiveUp(s) PROVE TypeOK'
  BY <1>9, ServerSetupAssumption
     DEF TypeOK, Stages, Constructing, Built, Servers, Addrs, TcpGiveUp, Goto, kernelVars,
         memberVars, localVars, historyVars
<1>10. ASSUME NEW s \in Servers, TcpSocketFails(s) PROVE TypeOK'
  BY <1>10, ServerSetupAssumption
     DEF TypeOK, Stages, Constructing, Built, Servers, Addrs, TcpSocketFails, kernelVars,
         memberVars, localVars, historyVars
<1>11. ASSUME NEW s \in Servers, TcpSocket(s) PROVE TypeOK'
  BY <1>11, ServerSetupAssumption, NewFdIsNew
     DEF TypeOK, Stages, Constructing, Built, Servers, Addrs, TcpSocket, Goto, kernelVars,
         memberVars, localVars, historyVars
<1>12. ASSUME NEW s \in Servers, TcpBind(s) PROVE TypeOK'
  BY <1>12, ServerSetupAssumption
     DEF TypeOK, Stages, Constructing, Built, Servers, Addrs, TcpBind, Goto, LocalsEnd,
         kernelVars, memberVars, localVars, historyVars
<1>13. ASSUME NEW s \in Servers, TcpBindFails(s) PROVE TypeOK'
  BY <1>13, ServerSetupAssumption
     DEF TypeOK, Stages, Constructing, Built, Servers, Addrs, TcpBindFails, Goto, kernelVars,
         memberVars, localVars, historyVars
<1>14. ASSUME NEW s \in Servers, UnixUnlink(s) PROVE TypeOK'
  BY <1>14, ServerSetupAssumption
     DEF TypeOK, Stages, Constructing, Built, Servers, Addrs, UnixUnlink, Goto, kernelVars,
         memberVars, localVars, historyVars
<1>22. ASSUME NEW s \in Servers, UnixUnlinkFails(s) PROVE TypeOK'
  <2>1. unremoved' \subseteq UnixServers
    BY <1>22 DEF TypeOK, Stages, Servers, UnixUnlinkFails
  <2> QED
    BY <1>22, <2>1, ServerSetupAssumption
       DEF TypeOK, Constructing, Built, Servers, Addrs, UnixUnlinkFails, Goto, kernelVars,
           memberVars, localVars, historyVars
<1>15. ASSUME NEW s \in Servers, UnixSocketFails(s) PROVE TypeOK'
  BY <1>15, ServerSetupAssumption
     DEF TypeOK, Stages, Constructing, Built, Servers, Addrs, UnixSocketFails, Fail, Goto,
         LocalsEnd, kernelVars, memberVars, localVars, historyVars
<1>16. ASSUME NEW s \in Servers, UnixSocket(s) PROVE TypeOK'
  BY <1>16, ServerSetupAssumption, NewFdIsNew
     DEF TypeOK, Stages, Constructing, Built, Servers, Addrs, UnixSocket, Goto, kernelVars,
         memberVars, localVars, historyVars
<1>17. ASSUME NEW s \in Servers, UnixBind(s) PROVE TypeOK'
  BY <1>17, ServerSetupAssumption
     DEF TypeOK, Stages, Constructing, Built, Servers, Addrs, UnixBind, Goto, LocalsEnd,
         kernelVars, memberVars, localVars, historyVars
<1>18. ASSUME NEW s \in Servers, UnixBindFails(s) PROVE TypeOK'
  BY <1>18, ServerSetupAssumption
     DEF TypeOK, Stages, Constructing, Built, Servers, Addrs, UnixBindFails, Fail, Goto,
         LocalsEnd, kernelVars, memberVars, localVars, historyVars
<1>19. ASSUME NEW s \in Servers, Listen(s) PROVE TypeOK'
  BY <1>19, ServerSetupAssumption, NewFdIsNew
     DEF TypeOK, Stages, Constructing, Built, Servers, Addrs, Listen, Goto, kernelVars,
         memberVars, localVars, historyVars
<1>20. ASSUME NEW s \in Servers, CloseSockets(s) PROVE TypeOK'
  BY <1>20, ServerSetupAssumption
     DEF TypeOK, Stages, Constructing, Built, Servers, Addrs, CloseSockets, KernelClose, Goto,
         kernelVars, memberVars, localVars, historyVars
<1>21. ASSUME NEW s \in Servers, Destroy(s) PROVE TypeOK'
  BY <1>21, ServerSetupAssumption
     DEF TypeOK, Stages, Constructing, Built, Servers, Addrs, Destroy, KernelClose, Goto,
         kernelVars, memberVars, localVars, historyVars
<1> QED
  BY <1>1, <1>2, <1>3, <1>4, <1>5, <1>6, <1>7, <1>8, <1>9, <1>10, <1>11, <1>12, <1>13, <1>14,
     <1>15, <1>16, <1>17, <1>18, <1>19, <1>20, <1>21, <1>22 DEF Next, SetupStep

\* Every step preserves Stages.
LEMMA StagesStep == SetupInv /\ [Next]_vars => Stages'
<1> SUFFICES ASSUME SetupInv, [Next]_vars PROVE Stages'
  OBVIOUS
<1> USE DEF SetupInv
<1>1. CASE UNCHANGED vars
  BY <1>1 DEF TypeOK, Stages, Servers, vars, kernelVars, memberVars, localVars, historyVars
<1>2. CASE \E a \in Ports : PortReleased(a)
  BY <1>2, ServerSetupAssumption
     DEF TypeOK, Stages, Servers, PortReleased, kernelVars, memberVars, localVars, historyVars
<1>3. ASSUME NEW s \in Servers,
              TcpInvalid(s) \/ UnixInvalid(s) \/ SetupSleep(s) \/ TcpGiveUp(s) \/
              TcpSocketFails(s)
      PROVE  Stages'
  BY <1>3, ServerSetupAssumption
     DEF TypeOK, Stages, Servers, TcpInvalid, Invalid, Begin, Goto, UnixInvalid, SetupSleep,
         TcpGiveUp, TcpSocketFails, kernelVars, memberVars, localVars, historyVars
<1>4. ASSUME NEW s \in Servers, ConstructTcp(s) PROVE Stages'
  BY <1>4, ServerSetupAssumption, PipeIsNew
     DEF TypeOK, Stages, Servers, ConstructTcp, Begin, Goto, kernelVars, memberVars, localVars,
         historyVars
<1>5. ASSUME NEW s \in Servers, ConstructUnix(s) PROVE Stages'
  BY <1>5, ServerSetupAssumption, PipeIsNew
     DEF TypeOK, Stages, Servers, ConstructUnix, Begin, Goto, kernelVars, memberVars, localVars,
         historyVars
<1>6. ASSUME NEW s \in Servers, SetupTry(s) PROVE Stages'
  BY ZenonT(40), <1>6, ServerSetupAssumption
     DEF TypeOK, Stages, Servers, SetupTry, Resolve, Goto, kernelVars, memberVars, localVars,
         historyVars
<1>7. ASSUME NEW s \in Servers,
              SetupThrow(s) \/ UnixSocketFails(s) \/ UnixBindFails(s)
      PROVE  Stages'
  BY <1>7, ServerSetupAssumption
     DEF TypeOK, Stages, Servers, SetupThrow, Fail, Goto, LocalsEnd, UnixSocketFails,
         UnixBindFails, kernelVars, memberVars, localVars, historyVars
<1>8. ASSUME NEW s \in Servers,
              TcpSocket(s) \/ UnixSocket(s) \/ Listen(s)
      PROVE  Stages'
  BY <1>8, ServerSetupAssumption, NewFdIsNew
     DEF TypeOK, Stages, Servers, TcpSocket, Goto, UnixSocket, Listen, kernelVars, memberVars,
         localVars, historyVars
<1>9. ASSUME NEW s \in Servers, TcpBind(s) PROVE Stages'
  BY <1>9, ServerSetupAssumption
     DEF TypeOK, Stages, Servers, TcpBind, Goto, LocalsEnd, kernelVars, memberVars, localVars,
         historyVars
<1>10. ASSUME NEW s \in Servers, TcpBindFails(s) PROVE Stages'
  BY <1>10, ServerSetupAssumption
     DEF TypeOK, Stages, Servers, TcpBindFails, Goto, kernelVars, memberVars, localVars,
         historyVars
<1>11. ASSUME NEW s \in Servers, UnixUnlink(s) \/ UnixUnlinkFails(s) PROVE Stages'
  BY <1>11, ServerSetupAssumption
     DEF TypeOK, Stages, Servers, UnixUnlink, UnixUnlinkFails, Goto, kernelVars, memberVars, localVars,
         historyVars
<1>12. ASSUME NEW s \in Servers, UnixBind(s) PROVE Stages'
  BY <1>12, ServerSetupAssumption
     DEF TypeOK, Stages, Servers, UnixBind, Goto, LocalsEnd, kernelVars, memberVars, localVars,
         historyVars
<1>13. ASSUME NEW s \in Servers, CloseSockets(s) PROVE Stages'
  BY Zenon, <1>13, ServerSetupAssumption
     DEF TypeOK, Stages, Servers, CloseSockets, KernelClose, Goto, kernelVars, memberVars,
         localVars, historyVars
<1>14. ASSUME NEW s \in Servers, Destroy(s) PROVE Stages'
  BY <1>14, ServerSetupAssumption
     DEF TypeOK, Stages, Servers, Destroy, KernelClose, Goto, kernelVars, memberVars, localVars,
         historyVars
<1> QED
  BY <1>1, <1>2, <1>3, <1>4, <1>5, <1>6, <1>7, <1>8, <1>9, <1>10, <1>11, <1>12, <1>13, <1>14
     DEF Next, SetupStep

\* Every step preserves AttemptsCounted; setup() lowers counter once per attempt.
LEMMA AttemptsStep == SetupInv /\ [Next]_vars => AttemptsCounted'
<1> SUFFICES ASSUME SetupInv, [Next]_vars PROVE AttemptsCounted'
  OBVIOUS
<1> USE DEF SetupInv
<1>1. CASE UNCHANGED vars
  BY <1>1
     DEF TypeOK, Stages, AttemptsCounted, Constructing, Servers, vars, kernelVars, memberVars,
         localVars, historyVars
<1>2. CASE \E a \in Ports : PortReleased(a)
  BY Zenon, <1>2
     DEF TypeOK, Stages, AttemptsCounted, Constructing, Servers, PortReleased, kernelVars,
         memberVars, localVars, historyVars
<1>3. ASSUME NEW s \in Servers,
              TcpInvalid(s) \/ UnixInvalid(s) \/ SetupSleep(s) \/ TcpGiveUp(s) \/
              TcpSocketFails(s)
      PROVE  AttemptsCounted'
  BY <1>3
     DEF TypeOK, Stages, AttemptsCounted, Constructing, Servers, TcpInvalid, Invalid, Begin,
         Goto, UnixInvalid, SetupSleep, TcpGiveUp, TcpSocketFails, kernelVars, memberVars,
         localVars, historyVars
<1>4. ASSUME NEW s \in Servers, ConstructTcp(s) PROVE AttemptsCounted'
  BY <1>4
     DEF TypeOK, Stages, AttemptsCounted, Constructing, Servers, ConstructTcp, Begin, Goto,
         kernelVars, memberVars, localVars, historyVars
<1>5. ASSUME NEW s \in Servers, ConstructUnix(s) PROVE AttemptsCounted'
  BY <1>5, ServerSetupAssumption
     DEF TypeOK, Stages, AttemptsCounted, Constructing, Servers, ConstructUnix, Begin, Goto,
         kernelVars, memberVars, localVars, historyVars
<1>6. ASSUME NEW s \in Servers, SetupTry(s) PROVE AttemptsCounted'
  <2> SUFFICES ASSUME NEW t \in TcpServers
               PROVE  attempts'[t] = IF spc'[t] \in Constructing THEN 5 - counter'[t] ELSE 0
    BY DEF AttemptsCounted
  <2>1. /\ counter' = [counter EXCEPT ![s] = counter[s] - 1]
        /\ attempts' = [attempts EXCEPT ![s] = attempts[s] + 1]
        /\ \/ spc' = [spc EXCEPT ![s] = "socket"]
           \/ spc' = [spc EXCEPT ![s] = "sleep"]
    BY <1>6 DEF SetupTry, Resolve, Goto
  <2>2. spc[s] \in Constructing
    BY <1>6 DEF SetupTry, Constructing
  <2>3. /\ t \in Servers
        /\ attempts[t] \in Nat /\ counter[t] \in 0 .. 5
        /\ attempts[t] = IF spc[t] \in Constructing THEN 5 - counter[t] ELSE 0
    BY DEF TypeOK, AttemptsCounted, Servers
  <2>4. CASE t = s
    <3>1. /\ attempts'[s] = attempts[s] + 1 /\ counter'[s] = counter[s] - 1
          /\ spc'[s] \in Constructing
      BY <2>1 DEF TypeOK, Constructing
    <3> QED
      BY <3>1, <2>2, <2>3, <2>4
  <2>5. CASE t # s
    BY Zenon, <2>1, <2>3, <2>5 DEF TypeOK
  <2> QED
    BY <2>4, <2>5
<1>7. ASSUME NEW s \in Servers,
              SetupThrow(s) \/ TcpBind(s)
      PROVE  AttemptsCounted'
  BY <1>7
     DEF TypeOK, Stages, AttemptsCounted, Constructing, Servers, SetupThrow, Fail, Goto,
         LocalsEnd, TcpBind, kernelVars, memberVars, localVars, historyVars
<1>8. ASSUME NEW s \in Servers,
              TcpSocket(s) \/ TcpBindFails(s)
      PROVE  AttemptsCounted'
  BY <1>8
     DEF TypeOK, Stages, AttemptsCounted, Constructing, Servers, TcpSocket, Goto, TcpBindFails,
         kernelVars, memberVars, localVars, historyVars
<1>9. ASSUME NEW s \in Servers,
              UnixUnlink(s) \/ UnixUnlinkFails(s) \/ UnixSocket(s)
      PROVE  AttemptsCounted'
  BY ZenonT(40), <1>9, ServerSetupAssumption
     DEF TypeOK, Stages, AttemptsCounted, Constructing, Servers, UnixUnlink, UnixUnlinkFails, Goto,
         UnixSocket, kernelVars, memberVars, localVars, historyVars
<1>10. ASSUME NEW s \in Servers,
              UnixSocketFails(s) \/ UnixBind(s) \/ UnixBindFails(s)
      PROVE  AttemptsCounted'
  BY ZenonT(40), <1>10
     DEF TypeOK, Stages, AttemptsCounted, Constructing, Servers, UnixSocketFails, Fail, Goto,
         LocalsEnd, UnixBind, UnixBindFails, kernelVars, memberVars, localVars, historyVars
<1>11. ASSUME NEW s \in Servers,
              Listen(s) \/ CloseSockets(s) \/ Destroy(s)
      PROVE  AttemptsCounted'
  BY SMTT(60), <1>11
     DEF TypeOK, Stages, AttemptsCounted, Constructing, Servers, Listen, Goto, CloseSockets,
         KernelClose, Destroy, kernelVars, memberVars, localVars, historyVars
<1> QED
  BY <1>1, <1>2, <1>3, <1>4, <1>5, <1>6, <1>7, <1>8, <1>9, <1>10, <1>11 DEF Next, SetupStep

\* Every step preserves ListeningIsWakeable; listen() tests the pipe's epoll_ctl.
LEMMA WakeableStep == SetupInv /\ [Next]_vars => ListeningIsWakeable'
<1> SUFFICES ASSUME SetupInv, [Next]_vars PROVE ListeningIsWakeable'
  OBVIOUS
<1> USE DEF SetupInv
<1>1. CASE UNCHANGED vars
  BY <1>1
     DEF TypeOK, Stages, ListeningIsWakeable, Servers, vars, kernelVars, memberVars, localVars,
         historyVars
<1>2. CASE \E a \in Ports : PortReleased(a)
  BY <1>2
     DEF TypeOK, Stages, ListeningIsWakeable, Servers, PortReleased, kernelVars, memberVars,
         localVars, historyVars
<1>3. ASSUME NEW s \in Servers,
              TcpInvalid(s) \/ UnixInvalid(s) \/ SetupSleep(s) \/ TcpGiveUp(s) \/
              TcpSocketFails(s) \/ TcpSocket(s) \/ TcpBindFails(s) \/ UnixUnlink(s)
              \/ UnixUnlinkFails(s) \/ UnixSocket(s)
      PROVE  ListeningIsWakeable'
  BY <1>3
     DEF TypeOK, Stages, ListeningIsWakeable, Servers, TcpInvalid, Invalid, Begin, Goto,
         UnixInvalid, SetupSleep, TcpGiveUp, TcpSocketFails, TcpSocket, TcpBindFails,
         UnixUnlink, UnixUnlinkFails, UnixSocket, kernelVars, memberVars, localVars, historyVars
<1>4. ASSUME NEW s \in Servers,
              ConstructTcp(s) \/ ConstructUnix(s)
      PROVE  ListeningIsWakeable'
  BY <1>4, PipeIsNew
     DEF TypeOK, Stages, ListeningIsWakeable, Servers, ConstructTcp, Begin, Goto, ConstructUnix,
         kernelVars, memberVars, localVars, historyVars
<1>5. ASSUME NEW s \in Servers, SetupTry(s) PROVE ListeningIsWakeable'
  BY <1>5
     DEF TypeOK, Stages, ListeningIsWakeable, Servers, SetupTry, Resolve, Goto, kernelVars,
         memberVars, localVars, historyVars
<1>6. ASSUME NEW s \in Servers,
              SetupThrow(s) \/ UnixSocketFails(s) \/ UnixBindFails(s)
      PROVE  ListeningIsWakeable'
  BY <1>6
     DEF TypeOK, Stages, ListeningIsWakeable, Servers, SetupThrow, Fail, Goto, LocalsEnd,
         UnixSocketFails, UnixBindFails, kernelVars, memberVars, localVars, historyVars
<1>7. ASSUME NEW s \in Servers,
              TcpBind(s) \/ UnixBind(s)
      PROVE  ListeningIsWakeable'
  BY <1>7
     DEF TypeOK, Stages, ListeningIsWakeable, Servers, TcpBind, Goto, LocalsEnd, UnixBind,
         kernelVars, memberVars, localVars, historyVars
<1>8. ASSUME NEW s \in Servers, Listen(s) PROVE ListeningIsWakeable'
  BY <1>8, ServerSetupAssumption, NewFdIsNew
     DEF TypeOK, Stages, ListeningIsWakeable, Servers, Listen, Goto, kernelVars, memberVars,
         localVars, historyVars
<1>9. ASSUME NEW s \in Servers,
              CloseSockets(s) \/ Destroy(s)
      PROVE  ListeningIsWakeable'
  BY ZenonT(40), <1>9
     DEF TypeOK, Stages, ListeningIsWakeable, Servers, CloseSockets, KernelClose, Goto, Destroy,
         kernelVars, memberVars, localVars, historyVars
<1> QED
  BY <1>1, <1>2, <1>3, <1>4, <1>5, <1>6, <1>7, <1>8, <1>9 DEF Next, SetupStep

\* Every step preserves OldFileIsNoObstacle: only UnixBind binds a path.
LEMMA OldFileStep == SetupInv /\ [Next]_vars => OldFileIsNoObstacle'
<1> SUFFICES ASSUME SetupInv, [Next]_vars PROVE OldFileIsNoObstacle'
  OBVIOUS
<1> USE DEF SetupInv
<1>1. CASE UNCHANGED vars
  BY <1>1
     DEF TypeOK, Stages, OldFileIsNoObstacle, Servers, Addrs, vars, kernelVars, memberVars,
         localVars, historyVars
<1>2. CASE \E a \in Ports : PortReleased(a)
  BY <1>2, ServerSetupAssumption
     DEF TypeOK, Stages, OldFileIsNoObstacle, Servers, Addrs, PortReleased, kernelVars,
         memberVars, localVars, historyVars
<1>3. ASSUME NEW s \in Servers,
              TcpInvalid(s) \/ UnixInvalid(s) \/ SetupSleep(s) \/ TcpGiveUp(s) \/
              TcpSocketFails(s) \/ ConstructTcp(s) \/ ConstructUnix(s) \/
              SetupTry(s) \/ SetupThrow(s) \/ TcpSocket(s) \/ TcpBindFails(s) \/
              UnixSocket(s) \/ Listen(s)
      PROVE  OldFileIsNoObstacle'
  BY ZenonT(60), <1>3, ServerSetupAssumption
     DEF TypeOK, Stages, OldFileIsNoObstacle, Servers, Addrs, TcpInvalid, Invalid, Begin, Goto,
         UnixInvalid, SetupSleep, TcpGiveUp, TcpSocketFails, ConstructTcp, ConstructUnix,
         SetupTry, Resolve, SetupThrow, Fail, LocalsEnd, TcpSocket, TcpBindFails, UnixSocket,
         Listen, kernelVars, memberVars, localVars, historyVars
<1>4. ASSUME NEW s \in Servers, TcpBind(s) PROVE OldFileIsNoObstacle'
  BY SMTT(60), <1>4, ServerSetupAssumption
     DEF TypeOK, Stages, OldFileIsNoObstacle, Servers, Addrs, TcpBind, Goto, LocalsEnd,
         kernelVars, memberVars, localVars, historyVars
<1>5. ASSUME NEW s \in Servers, UnixUnlink(s) PROVE OldFileIsNoObstacle'
  BY <1>5, ServerSetupAssumption
     DEF TypeOK, Stages, OldFileIsNoObstacle, Servers, Addrs, UnixUnlink, Goto, kernelVars,
         memberVars, localVars, historyVars
<1>11. ASSUME NEW s \in Servers, UnixUnlinkFails(s) PROVE OldFileIsNoObstacle'
  BY <1>11, ServerSetupAssumption
     DEF TypeOK, Stages, OldFileIsNoObstacle, Servers, Addrs, UnixUnlinkFails, Goto, kernelVars,
         memberVars, localVars, historyVars
<1>6. ASSUME NEW s \in Servers, UnixSocketFails(s) PROVE OldFileIsNoObstacle'
  BY <1>6, ServerSetupAssumption
     DEF TypeOK, Stages, OldFileIsNoObstacle, Servers, Addrs, UnixSocketFails, Fail, Goto,
         LocalsEnd, kernelVars, memberVars, localVars, historyVars
<1>7. ASSUME NEW s \in Servers, UnixBind(s) PROVE OldFileIsNoObstacle'
  BY Zenon, <1>7, ServerSetupAssumption
     DEF TypeOK, Stages, OldFileIsNoObstacle, Servers, Addrs, UnixBind, Goto, LocalsEnd,
         kernelVars, memberVars, localVars, historyVars
<1>8. ASSUME NEW s \in Servers, UnixBindFails(s) PROVE OldFileIsNoObstacle'
  BY Zenon, <1>8, ServerSetupAssumption
     DEF TypeOK, Stages, OldFileIsNoObstacle, Servers, Addrs, UnixBindFails, Fail, Goto,
         LocalsEnd, kernelVars, memberVars, localVars, historyVars
<1>9. ASSUME NEW s \in Servers, CloseSockets(s) PROVE OldFileIsNoObstacle'
  BY SMTT(60), <1>9, ServerSetupAssumption
     DEF TypeOK, Stages, OldFileIsNoObstacle, Servers, Addrs, CloseSockets, KernelClose, Goto,
         kernelVars, memberVars, localVars, historyVars
<1>10. ASSUME NEW s \in Servers, Destroy(s) PROVE OldFileIsNoObstacle'
  BY SMTT(60), <1>10, ServerSetupAssumption
     DEF TypeOK, Stages, OldFileIsNoObstacle, Servers, Addrs, Destroy, KernelClose, Goto,
         kernelVars, memberVars, localVars, historyVars
<1> QED
  BY <1>1, <1>2, <1>3, <1>4, <1>5, <1>6, <1>7, <1>8, <1>9, <1>10, <1>11 DEF Next, SetupStep

\* Every step preserves PipeApart: a new descriptor was not in use.
LEMMA PipeApartStep == SetupInv /\ [Next]_vars => PipeApart'
<1> SUFFICES ASSUME SetupInv, [Next]_vars PROVE PipeApart'
  OBVIOUS
<1> USE DEF SetupInv
<1>1. CASE UNCHANGED vars
  BY <1>1 DEF TypeOK, Stages, PipeApart, vars, kernelVars, memberVars, localVars, historyVars
<1>2. CASE \E a \in Ports : PortReleased(a)
  BY Zenon, <1>2
     DEF TypeOK, Stages, PipeApart, PortReleased, kernelVars, memberVars, localVars, historyVars
<1>3. ASSUME NEW s \in Servers,
              TcpInvalid(s) \/ UnixInvalid(s) \/ SetupSleep(s) \/ TcpGiveUp(s) \/
              TcpSocketFails(s) \/ SetupTry(s) \/ UnixUnlink(s) \/ UnixUnlinkFails(s)
      PROVE  PipeApart'
  BY <1>3
     DEF TypeOK, Stages, PipeApart, TcpInvalid, Invalid, Begin, Goto, UnixInvalid, SetupSleep,
         TcpGiveUp, TcpSocketFails, SetupTry, Resolve, UnixUnlink, UnixUnlinkFails, kernelVars,
         memberVars, localVars, historyVars
<1>4. ASSUME NEW s \in Servers, ConstructTcp(s) PROVE PipeApart'
  <2>1. OpenPipe(s)
    BY <1>4 DEF ConstructTcp
  <2>2. PICK ends \in SUBSET (Fds \ open) :
           commandPipe' = [commandPipe EXCEPT ![s] = ends]
    BY <2>1, PipeIsNew
  <2>3. sfd[s] = None /\ listen_sock[s] = None /\ epollfd[s] = None
    BY <1>4 DEF Stages, ConstructTcp, Begin
  <2> QED
    BY <1>4, <2>2, <2>3, ServerSetupAssumption DEF TypeOK, PipeApart, ConstructTcp, localVars
<1>5. ASSUME NEW s \in Servers, ConstructUnix(s) PROVE PipeApart'
  <2>1. OpenPipe(s)
    BY <1>5 DEF ConstructUnix
  <2>2. PICK ends \in SUBSET (Fds \ open) :
           commandPipe' = [commandPipe EXCEPT ![s] = ends]
    BY <2>1, PipeIsNew
  <2>3. sfd[s] = None /\ listen_sock[s] = None /\ epollfd[s] = None
    BY ZenonT(40), <1>5 DEF Stages, ConstructUnix, Begin
  <2> QED
    BY <1>5, <2>2, <2>3, ServerSetupAssumption DEF TypeOK, PipeApart, ConstructUnix, localVars
<1>10. ASSUME NEW s \in Servers,
              /\ commandPipe' \in {commandPipe, [commandPipe EXCEPT ![s] = {}]}
              /\ sfd' \in {sfd, [sfd EXCEPT ![s] = None]}
              /\ listen_sock' \in {listen_sock, [listen_sock EXCEPT ![s] = None],
                                  [listen_sock EXCEPT ![s] = sfd[s]]}
              /\ epollfd' \in {epollfd, [epollfd EXCEPT ![s] = None]}
      PROVE  PipeApart'
  <2> SUFFICES ASSUME NEW t \in Servers
               PROVE  {sfd'[t], listen_sock'[t], epollfd'[t]} \cap commandPipe'[t] = {}
    BY Zenon DEF PipeApart
  <2>1. None \notin commandPipe[t] /\ {sfd[t], listen_sock[t], epollfd[t]} \cap commandPipe[t] = {}
    BY Zenon, ServerSetupAssumption DEF TypeOK, PipeApart
  <2>2. /\ commandPipe'[t] \in {commandPipe[t], {}}
        /\ sfd'[t] \in {sfd[t], None} /\ epollfd'[t] \in {epollfd[t], None}
        /\ listen_sock'[t] \in {listen_sock[t], None, sfd[t]}
    <3>1. CASE t = s
      BY Zenon, <1>10, <3>1 DEF TypeOK
    <3>2. CASE t # s
      BY Zenon, <1>10, <3>2 DEF TypeOK
    <3> QED
      BY Zenon, <3>1, <3>2
  <2> QED
    BY <2>1, <2>2
<1>6. ASSUME NEW s \in Servers,
              SetupThrow(s) \/ TcpBind(s) \/ TcpBindFails(s) \/ UnixSocketFails(s)
              \/ UnixBind(s) \/ UnixBindFails(s) \/ CloseSockets(s) \/ Destroy(s)
      PROVE  PipeApart'
  BY ZenonT(40), <1>6, <1>10
     DEF SetupThrow, Fail, LocalsEnd, TcpBind, TcpBindFails, UnixSocketFails, UnixBind,
         UnixBindFails, CloseSockets, Destroy, localVars
<1>7. ASSUME NEW s \in Servers, TcpSocket(s) PROVE PipeApart'
  <2>1. NewFd(open) \in Fds \ open
    BY <1>7, NewFdIsNew DEF TypeOK, TcpSocket
  <2>2. commandPipe[s] \subseteq open
    BY HeldFacts
  <2> QED
    BY <1>7, <2>1, <2>2
       DEF TypeOK, PipeApart, TcpSocket, kernelVars, memberVars, localVars, historyVars
<1>8. ASSUME NEW s \in Servers, UnixSocket(s) PROVE PipeApart'
  <2>1. NewFd(open) \in Fds \ open
    BY <1>8, NewFdIsNew DEF TypeOK, UnixSocket
  <2>2. commandPipe[s] \subseteq open
    BY HeldFacts
  <2> QED
    BY <1>8, <2>1, <2>2
       DEF TypeOK, PipeApart, UnixSocket, kernelVars, memberVars, localVars, historyVars
<1>9. ASSUME NEW s \in Servers, Listen(s) PROVE PipeApart'
  <2>1. NewFd(open) \in Fds \ open
    BY <1>9, NewFdIsNew DEF TypeOK, Listen
  <2>2. commandPipe[s] \subseteq open
    BY HeldFacts
  <2> QED
    BY <1>9, <2>1, <2>2
       DEF TypeOK, PipeApart, Listen, kernelVars, memberVars, localVars, historyVars
<1> QED
  BY Zenon, <1>1, <1>2, <1>3, <1>4, <1>5, <1>6, <1>7, <1>8, <1>9 DEF Next, SetupStep

\* A step of server s: it gives up descriptors of its own, or takes ones not in use.
Moves(s) ==
    /\ \A t \in Servers \ {s} : Held(t)' = Held(t)
    /\ leaked \subseteq leaked'
    /\ Held(s)' \cup leaked' \subseteq Held(s) \cup leaked \cup (Fds \ open)
    /\ Held(s)' \cap leaked' = {}
    /\ open' = (open \ Held(s)) \cup Held(s)' \cup leaked'

\* A step that opens and closes nothing keeps the descriptors accounted for.
LEMMA SameHeld ==
    ASSUME DescriptorsAccounted, open' = open, leaked' = leaked,
           \A t \in Servers : Held(t)' = Held(t)
    PROVE  DescriptorsAccounted'
<1> DEFINE K(t) == Held(t)'
<1>1. {Held(t) : t \in Servers} = {K(t) : t \in Servers}
  OBVIOUS
<1> QED
  BY <1>1 DEF DescriptorsAccounted

\* So does a step that moves the descriptors of one server.
LEMMA MovesAccounted ==
    ASSUME DescriptorsAccounted, NEW s \in Servers, Moves(s)
    PROVE  DescriptorsAccounted'
<1> DEFINE H(t) == Held(t)
           K(t) == Held(t)'
<1>1. /\ open = leaked \cup UNION {H(t) : t \in Servers}
      /\ \A t \in Servers : H(t) \cap leaked = {}
      /\ \A t, u \in Servers : t # u => H(t) \cap H(u) = {}
  BY DEF DescriptorsAccounted
<1>2. /\ \A t \in Servers \ {s} : K(t) = H(t)
      /\ leaked \subseteq leaked'
      /\ K(s) \cup leaked' \subseteq H(s) \cup leaked \cup (Fds \ open)
      /\ K(s) \cap leaked' = {}
      /\ open' = (open \ H(s)) \cup K(s) \cup leaked'
  BY DEF Moves
<1> HIDE DEF H, K
<1>3. open' = leaked' \cup UNION {K(t) : t \in Servers}
  BY <1>1, <1>2
<1>4. \A t \in Servers : K(t) \cap leaked' = {}
  BY <1>1, <1>2
<1>5. \A t, u \in Servers : t # u => K(t) \cap K(u) = {}
  BY <1>1, <1>2
<1> QED
  BY <1>3, <1>4, <1>5 DEF DescriptorsAccounted, K


\* Every step preserves DescriptorsAccounted: it moves the descriptors of one server.
LEMMA AccountedStep == SetupInv /\ [Next]_vars => DescriptorsAccounted'
<1> SUFFICES ASSUME SetupInv, [Next]_vars PROVE DescriptorsAccounted'
  OBVIOUS
<1> USE DEF SetupInv
<1>1. CASE UNCHANGED vars
  BY Zenon, <1>1
     DEF DescriptorsAccounted, Held, vars, kernelVars, memberVars, localVars, historyVars
<1>2. CASE \E a \in Ports : PortReleased(a)
  BY SMTT(60), <1>2
     DEF DescriptorsAccounted, Held, PortReleased, kernelVars, memberVars, localVars,
         historyVars
<1>3. ASSUME NEW s \in Servers,
              TcpInvalid(s) \/ UnixInvalid(s) \/ SetupSleep(s) \/ TcpGiveUp(s) \/
              TcpSocketFails(s) \/ SetupTry(s) \/ UnixUnlink(s) \/ UnixUnlinkFails(s)
      PROVE  DescriptorsAccounted'
  <2>1. \A t \in Servers : Held(t)' = Held(t)
    BY Zenon, <1>3
       DEF Held, TypeOK, TcpInvalid, Invalid, Begin, Goto, UnixInvalid, SetupSleep,
           TcpGiveUp, TcpSocketFails, SetupTry, Resolve, UnixUnlink, UnixUnlinkFails,
           kernelVars, memberVars, localVars, historyVars
  <2>2. open' = open /\ leaked' = leaked
    BY <1>3
       DEF TcpInvalid, Invalid, Begin, Goto, UnixInvalid, SetupSleep, TcpGiveUp,
           TcpSocketFails, SetupTry, Resolve, UnixUnlink, UnixUnlinkFails, kernelVars,
           memberVars, localVars, historyVars
  <2> QED
    BY <2>1, <2>2, SameHeld
<1>4. ASSUME NEW s \in Servers, ConstructTcp(s) PROVE DescriptorsAccounted'
  <2>1. OpenPipe(s)
    BY <1>4 DEF ConstructTcp
  <2>2. PICK ends \in SUBSET (Fds \ open) :
           /\ commandPipe' = [commandPipe EXCEPT ![s] = ends]
           /\ open' = open \cup ends
    BY <2>1, PipeIsNew
  <2>3. Held(s) = {} /\ Held(s)' = ends
    BY Zenon, <1>4, <2>2
       DEF Held, TypeOK, Stages, ConstructTcp, Begin, Goto, kernelVars, memberVars,
           localVars, historyVars
  <2>4. leaked' = leaked /\ \A t \in Servers \ {s} : Held(t)' = Held(t)
    BY <1>4, <2>2
       DEF Held, TypeOK, ConstructTcp, Begin, Goto, kernelVars, memberVars, localVars,
           historyVars
  <2>5. Moves(s)
    BY <2>2, <2>3, <2>4, HeldFacts DEF Moves
  <2> QED
    BY Zenon, <2>5, MovesAccounted
<1>5. ASSUME NEW s \in Servers, ConstructUnix(s) PROVE DescriptorsAccounted'
  <2>1. OpenPipe(s)
    BY <1>5 DEF ConstructUnix
  <2>2. PICK ends \in SUBSET (Fds \ open) :
           /\ commandPipe' = [commandPipe EXCEPT ![s] = ends]
           /\ open' = open \cup ends
    BY <2>1, PipeIsNew
  <2>3. Held(s) = {} /\ Held(s)' = ends
    BY Zenon, <1>5, <2>2
       DEF Held, TypeOK, Stages, ConstructUnix, Begin, Goto, kernelVars, memberVars,
           localVars, historyVars
  <2>4. leaked' = leaked /\ \A t \in Servers \ {s} : Held(t)' = Held(t)
    BY <1>5, <2>2
       DEF Held, TypeOK, ConstructUnix, Begin, Goto, kernelVars, memberVars, localVars,
           historyVars
  <2>5. Moves(s)
    BY <2>2, <2>3, <2>4, HeldFacts DEF Moves
  <2> QED
    BY <2>5, MovesAccounted
<1>6. ASSUME NEW s \in Servers, SetupThrow(s) PROVE DescriptorsAccounted'
  <2>2. Held(s) = commandPipe[s]
    BY Zenon, <1>6, ServerSetupAssumption DEF Held, TypeOK, Stages, SetupThrow
  <2>3. Held(s)' = {}
    BY Zenon, <1>6, ServerSetupAssumption
       DEF Held, TypeOK, Stages, SetupThrow, Fail, Goto, LocalsEnd, kernelVars, memberVars,
           localVars, historyVars
  <2>4. /\ \A t \in Servers \ {s} : Held(t)' = Held(t)
        /\ open' = open \ commandPipe[s]
        /\ leaked' = leaked
    BY <1>6
       DEF Held, TypeOK, SetupThrow, Fail, Goto, LocalsEnd, kernelVars, memberVars,
           localVars, historyVars
  <2>5. Moves(s)
    BY <2>2, <2>3, <2>4, HeldFacts DEF Moves, TypeOK
  <2> QED
    BY <2>5, MovesAccounted
<1>7. ASSUME NEW s \in Servers, TcpSocket(s) PROVE DescriptorsAccounted'
  <2>1. NewFd(open) \in Fds \ open
    BY <1>7, NewFdIsNew DEF TypeOK, TcpSocket
  <2>2. Held(s) = commandPipe[s]
    BY Zenon, <1>7, ServerSetupAssumption DEF Held, TypeOK, Stages, TcpSocket
  <2>3. Held(s)' = commandPipe[s] \cup {NewFd(open)}
    BY Zenon, <1>7, ServerSetupAssumption, <2>1
       DEF Held, TypeOK, Stages, TcpSocket, Goto, kernelVars, memberVars, localVars,
           historyVars
  <2>4. /\ \A t \in Servers \ {s} : Held(t)' = Held(t)
        /\ open' = open \cup {NewFd(open)}
        /\ leaked' = leaked
    BY <1>7 DEF Held, TypeOK, TcpSocket, Goto, kernelVars, memberVars, localVars, historyVars
  <2>5. Moves(s)
    BY <2>2, <2>3, <2>4, <2>1, HeldFacts DEF Moves, TypeOK
  <2> QED
    BY <2>5, MovesAccounted
<1>8. ASSUME NEW s \in Servers, TcpBind(s) PROVE DescriptorsAccounted'
  <2>2. Held(s) = commandPipe[s] \cup {sfd[s]}
    BY ZenonT(40), <1>8, ServerSetupAssumption DEF Held, TypeOK, Stages, TcpBind
  <2>3. Held(s)' = commandPipe[s] \cup {sfd[s]}
    BY <1>8, ServerSetupAssumption
       DEF Held, TypeOK, Stages, TcpBind, Goto, LocalsEnd, kernelVars, memberVars, localVars,
           historyVars
  <2>4. /\ \A t \in Servers \ {s} : Held(t)' = Held(t)
        /\ open' = open
        /\ leaked' = leaked
    BY <1>8
       DEF Held, TypeOK, TcpBind, Goto, LocalsEnd, kernelVars, memberVars, localVars,
           historyVars
  <2>5. Moves(s)
    BY <2>2, <2>3, <2>4, HeldFacts DEF Moves, TypeOK
  <2> QED
    BY <2>5, MovesAccounted
<1>9. ASSUME NEW s \in Servers, TcpBindFails(s) PROVE DescriptorsAccounted'
  <2>2. Held(s) = commandPipe[s] \cup {sfd[s]}
    BY Zenon, <1>9, ServerSetupAssumption DEF Held, TypeOK, Stages, TcpBindFails
  <2>3. Held(s)' = commandPipe[s]
    BY Zenon, <1>9, ServerSetupAssumption
       DEF Held, TypeOK, Stages, TcpBindFails, Goto, kernelVars, memberVars, localVars,
           historyVars
  <2>4. /\ \A t \in Servers \ {s} : Held(t)' = Held(t)
        /\ open' = open \ {sfd[s]}
        /\ leaked' = leaked
    BY <1>9 DEF Held, TypeOK, TcpBindFails, Goto, kernelVars, memberVars, localVars, historyVars
  <2>5. Moves(s)
    BY <2>2, <2>3, <2>4, HeldFacts DEF Moves, TypeOK, PipeApart
  <2> QED
    BY <2>5, MovesAccounted
<1>10. ASSUME NEW s \in Servers, UnixSocketFails(s) PROVE DescriptorsAccounted'
  <2>2. Held(s) = commandPipe[s]
    BY Zenon, <1>10, ServerSetupAssumption DEF Held, TypeOK, Stages, UnixSocketFails
  <2>3. Held(s)' = {}
    BY Zenon, <1>10, ServerSetupAssumption
       DEF Held, TypeOK, Stages, UnixSocketFails, Fail, Goto, LocalsEnd, kernelVars,
           memberVars, localVars, historyVars
  <2>4. /\ \A t \in Servers \ {s} : Held(t)' = Held(t)
        /\ open' = open \ commandPipe[s]
        /\ leaked' = leaked
    BY <1>10
       DEF Held, TypeOK, UnixSocketFails, Fail, Goto, LocalsEnd, kernelVars, memberVars,
           localVars, historyVars
  <2>5. Moves(s)
    BY <2>2, <2>3, <2>4, HeldFacts DEF Moves, TypeOK
  <2> QED
    BY <2>5, MovesAccounted
<1>11. ASSUME NEW s \in Servers, UnixSocket(s) PROVE DescriptorsAccounted'
  <2>1. NewFd(open) \in Fds \ open
    BY <1>11, NewFdIsNew DEF TypeOK, UnixSocket
  <2>2. Held(s) = commandPipe[s]
    BY Zenon, <1>11, ServerSetupAssumption DEF Held, TypeOK, Stages, UnixSocket
  <2>3. Held(s)' = commandPipe[s] \cup {NewFd(open)}
    BY Zenon, <1>11, ServerSetupAssumption, <2>1
       DEF Held, TypeOK, Stages, UnixSocket, Goto, kernelVars, memberVars, localVars,
           historyVars
  <2>4. /\ \A t \in Servers \ {s} : Held(t)' = Held(t)
        /\ open' = open \cup {NewFd(open)}
        /\ leaked' = leaked
    BY <1>11 DEF Held, TypeOK, UnixSocket, Goto, kernelVars, memberVars, localVars, historyVars
  <2>5. Moves(s)
    BY <2>2, <2>3, <2>4, <2>1, HeldFacts DEF Moves, TypeOK
  <2> QED
    BY <2>5, MovesAccounted
<1>12. ASSUME NEW s \in Servers, UnixBind(s) PROVE DescriptorsAccounted'
  <2>2. Held(s) = commandPipe[s] \cup {sfd[s]}
    BY Zenon, <1>12, ServerSetupAssumption DEF Held, TypeOK, Stages, UnixBind
  <2>3. Held(s)' = commandPipe[s] \cup {sfd[s]}
    BY <1>12, ServerSetupAssumption
       DEF Held, TypeOK, Stages, UnixBind, Goto, LocalsEnd, kernelVars, memberVars,
           localVars, historyVars
  <2>4. /\ \A t \in Servers \ {s} : Held(t)' = Held(t)
        /\ open' = open
        /\ leaked' = leaked
    BY <1>12
       DEF Held, TypeOK, UnixBind, Goto, LocalsEnd, kernelVars, memberVars, localVars,
           historyVars
  <2>5. Moves(s)
    BY <2>2, <2>3, <2>4, HeldFacts DEF Moves, TypeOK
  <2> QED
    BY <2>5, MovesAccounted
<1>13. ASSUME NEW s \in Servers, UnixBindFails(s) PROVE DescriptorsAccounted'
  <2>2. Held(s) = commandPipe[s] \cup {sfd[s]}
    BY Zenon, <1>13, ServerSetupAssumption DEF Held, TypeOK, Stages, UnixBindFails
  <2>3. Held(s)' = {}
    BY Zenon, <1>13, ServerSetupAssumption
       DEF Held, TypeOK, Stages, UnixBindFails, Fail, Goto, LocalsEnd, kernelVars,
           memberVars, localVars, historyVars
  <2>4. /\ \A t \in Servers \ {s} : Held(t)' = Held(t)
        /\ open' = open \ commandPipe[s]
        /\ leaked' = leaked \cup {sfd[s]}
    BY <1>13
       DEF Held, TypeOK, UnixBindFails, Fail, Goto, LocalsEnd, kernelVars, memberVars,
           localVars, historyVars
  <2>5. Moves(s)
    BY <2>2, <2>3, <2>4, HeldFacts DEF Moves, TypeOK, PipeApart
  <2> QED
    BY <2>5, MovesAccounted
<1>14. ASSUME NEW s \in Servers, Listen(s) PROVE DescriptorsAccounted'
  <2>1. NewFd(open) \in Fds \ open
    BY <1>14, NewFdIsNew DEF TypeOK, Listen
  <2>2. Held(s) = commandPipe[s] \cup {listen_sock[s]}
    BY ZenonT(40), <1>14, ServerSetupAssumption DEF Held, TypeOK, Stages, Listen
  <2>3. Held(s)' = commandPipe[s] \cup {listen_sock[s], NewFd(open)}
    BY <1>14, ServerSetupAssumption, <2>1
       DEF Held, TypeOK, Stages, Listen, Goto, kernelVars, memberVars, localVars, historyVars
  <2>4. /\ \A t \in Servers \ {s} : Held(t)' = Held(t)
        /\ open' = open \cup {NewFd(open)}
        /\ leaked' = leaked
    BY <1>14 DEF Held, TypeOK, Listen, Goto, kernelVars, memberVars, localVars, historyVars
  <2>5. Moves(s)
    BY ZenonT(40), <2>2, <2>3, <2>4, <2>1, HeldFacts DEF Moves, TypeOK
  <2> QED
    BY <2>5, MovesAccounted
<1>15. ASSUME NEW s \in Servers, CloseSockets(s) PROVE DescriptorsAccounted'
  <2>2. Held(s) = commandPipe[s] \cup ({listen_sock[s], epollfd[s]} \ {None})
    BY Zenon, <1>15, ServerSetupAssumption DEF Held, TypeOK, Stages, CloseSockets
  <2>3. Held(s)' = commandPipe[s]
    BY Zenon, <1>15, ServerSetupAssumption
       DEF Held, TypeOK, Stages, CloseSockets, KernelClose, Goto, kernelVars, memberVars,
           localVars, historyVars
  <2>4. /\ \A t \in Servers \ {s} : Held(t)' = Held(t)
        /\ open' = open \ ({listen_sock[s], epollfd[s]} \ {None})
        /\ leaked' = leaked
    BY <1>15
       DEF Held, TypeOK, CloseSockets, KernelClose, Goto, kernelVars, memberVars, localVars,
           historyVars
  <2>5. Moves(s)
    BY <2>2, <2>3, <2>4, HeldFacts DEF Moves, TypeOK, PipeApart
  <2> QED
    BY <2>5, MovesAccounted
<1>16. ASSUME NEW s \in Servers, Destroy(s) PROVE DescriptorsAccounted'
  <2>2. Held(s) = commandPipe[s] \cup ({listen_sock[s]} \ {None})
    BY Zenon, <1>16, ServerSetupAssumption DEF Held, TypeOK, Stages, Destroy
  <2>3. Held(s)' = {}
    BY ZenonT(40), <1>16, ServerSetupAssumption
       DEF Held, TypeOK, Stages, Destroy, KernelClose, Goto, kernelVars, memberVars,
           localVars, historyVars
  <2>4. /\ \A t \in Servers \ {s} : Held(t)' = Held(t)
        /\ open' = open \ (({listen_sock[s]} \ {None}) \cup commandPipe[s])
        /\ leaked' = leaked
    BY <1>16
       DEF Held, TypeOK, Destroy, KernelClose, Goto, kernelVars, memberVars, localVars,
           historyVars
  <2>5. Moves(s)
    BY <2>2, <2>3, <2>4, HeldFacts DEF Moves, TypeOK, PipeApart
  <2> QED
    BY <2>5, MovesAccounted
<1> QED
  BY Zenon, <1>1, <1>2, <1>3, <1>4, <1>5, <1>6, <1>7, <1>8, <1>9, <1>10, <1>11, <1>12, <1>13, <1>14,
     <1>15, <1>16 DEF Next, SetupStep

-----------------------------------------------------------------------------
(* The theorems *)

\* The inductive invariant holds of every execution of the constructors,
\* listen() and the destructors.
THEOREM SetupInvariance == Spec => []SetupInv
<1>1. Init => SetupInv
  <2> SUFFICES ASSUME Init PROVE SetupInv
    BY Zenon
  <2>1. TypeOK
    BY ServerSetupAssumption DEF Init, TypeOK, Constructing, Built
  <2>2. Stages /\ PipeApart /\ AttemptsCounted
    BY ZenonT(40) DEF Init, Stages, PipeApart, AttemptsCounted, Constructing, Servers
  <2>3. ListeningIsWakeable /\ OldFileIsNoObstacle
    BY DEF Init, ListeningIsWakeable, OldFileIsNoObstacle, Servers
  <2>4. DescriptorsAccounted
    <3>1. \A s \in Servers : Held(s) = {}
      BY DEF Init, Held
    <3> QED
      BY <3>1 DEF Init, DescriptorsAccounted
  <2> QED
    BY <2>1, <2>2, <2>3, <2>4 DEF SetupInv
<1>2. SetupInv /\ [Next]_vars => SetupInv'
  BY TypeStep, StagesStep, PipeApartStep, AttemptsStep, AccountedStep, WakeableStep,
     OldFileStep DEF SetupInv
<1> QED
  BY <1>1, <1>2, PTL DEF Spec

\* For any number of servers, addresses and descriptors, every descriptor in use
\* belongs to one server or is one that open_unix_socket() left behind; none is
\* closed by a server that does not own it.
THEOREM DescriptorsAccountedHolds == Spec => []DescriptorsAccounted
<1>1. SetupInv => DescriptorsAccounted
  BY DEF SetupInv
<1> QED
  BY <1>1, SetupInvariance, PTL

\* A server that listens has its command pipe, its socket and its epoll instance,
\* although the constructor only logs a failing pipe().
THEOREM ListeningIsWakeableHolds == Spec => []ListeningIsWakeable
<1>1. SetupInv => ListeningIsWakeable
  BY DEF SetupInv
<1> QED
  BY <1>1, SetupInvariance, PTL

\* If a UnixSocketServer whose name fits sun_path finds the path taken after its
\* unlink(), then unlink() has failed or another server has bound the path since.
THEOREM OldFileIsNoObstacleHolds == Spec => []OldFileIsNoObstacle
<1>1. SetupInv => OldFileIsNoObstacle
  BY Zenon DEF SetupInv
<1> QED
  BY <1>1, SetupInvariance, PTL

\* TcpServer::setup throws only after its fifth call of open_listening_socket().
THEOREM FiveAttemptsHolds == Spec => FiveAttempts
<1> DEFINE A == \A s \in TcpServers :
                  spc[s] \in Constructing /\ spc'[s] = "failed" => attempts[s] = 5
<1>1. SetupInv /\ [Next]_vars => [A]_vars
  <2> SUFFICES ASSUME SetupInv, Next, NEW t \in TcpServers,
                      spc[t] \in Constructing, spc'[t] = "failed"
               PROVE  attempts[t] = 5
    BY DEF vars
  <2>1. t \in Servers
    BY DEF Servers
  <2>2. CASE \E a \in Ports : PortReleased(a)
    BY <2>1, <2>2 DEF PortReleased, Constructing
  <2>3. ASSUME NEW s \in Servers, SetupThrow(s) PROVE attempts[t] = 5
    <3>1. t = s /\ counter[t] = 0
      BY <2>1, <2>3 DEF SetupInv, TypeOK, Constructing, SetupThrow, Fail, Goto
    <3>2. attempts[t] = 5 - counter[t]
      BY Zenon DEF SetupInv, AttemptsCounted
    <3> QED
      BY <3>1, <3>2
  <2>4. ASSUME NEW s \in Servers,
               UnixSocketFails(s) \/ UnixBindFails(s)
        PROVE  attempts[t] = 5
    BY Zenon, <2>1, <2>4 DEF SetupInv, TypeOK, Stages, Constructing, UnixSocketFails,
       UnixBindFails, Fail, Goto
  <2>5. ASSUME NEW s \in Servers, Begin(s), \E label : Goto(s, label)
        PROVE  attempts[t] = 5
    BY <2>1, <2>5 DEF SetupInv, TypeOK, Constructing, Begin, Goto
  <2>6. ASSUME NEW s \in Servers, NEW label \in (Constructing \cup Built \cup {"none"}),
               Goto(s, label)
        PROVE  attempts[t] = 5
    BY SMTT(30), <2>1, <2>6 DEF SetupInv, TypeOK, Constructing, Built, Goto
  <2>7. ASSUME NEW s \in Servers,
               \/ TcpInvalid(s) \/ UnixInvalid(s) \/ ConstructTcp(s) \/ ConstructUnix(s)
        PROVE  attempts[t] = 5
    BY <2>5, <2>7 DEF TcpInvalid, UnixInvalid, Invalid, ConstructTcp, ConstructUnix
  <2>8. ASSUME NEW s \in Servers,
               \/ SetupTry(s) \/ SetupSleep(s) \/ TcpGiveUp(s) \/ TcpSocket(s)
               \/ TcpBind(s) \/ TcpBindFails(s) \/ UnixUnlink(s) \/ UnixUnlinkFails(s)
               \/ UnixSocket(s) \/ UnixBind(s) \/ Listen(s) \/ CloseSockets(s) \/ Destroy(s)
        PROVE  attempts[t] = 5
    BY Zenon, <2>6, <2>8 DEF Constructing, Built, SetupTry, Resolve, SetupSleep, TcpGiveUp,
       TcpSocket, TcpBind, TcpBindFails, UnixUnlink, UnixUnlinkFails, UnixSocket, UnixBind,
       Listen, CloseSockets, Destroy
  <2>9. ASSUME NEW s \in Servers, TcpSocketFails(s) PROVE attempts[t] = 5
    BY Zenon, <2>9 DEF Constructing, TcpSocketFails
  <2> QED
    BY Zenon, <2>2, <2>3, <2>4, <2>7, <2>8, <2>9 DEF Next, SetupStep
<1> QED
  BY <1>1, SetupInvariance, PTL DEF Spec, FiveAttempts


=============================================================================
