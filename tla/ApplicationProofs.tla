------------------------- MODULE ApplicationProofs -------------------------
(***************************************************************************)
(* Proofs about two parts of the application that share no state.          *)
(*                                                                         *)
(* HttpsServer, for every number of sockets, every heap and every          *)
(* semaphore bound: TypeOK is inductive by itself; IInv, under TypeOK,     *)
(* carries the safety invariants and what the refinement needs.            *)
(*                                                                         *)
(* AppConfig, for every flash, every load of requests and any number of    *)
(* images and power losses, if the tools are careful: UpdateInv carries    *)
(* the types and what a stored copy flag promises.                         *)
(***************************************************************************)
EXTENDS HttpsServer, AppConfig, SequenceTheorems, TLAPS

-----------------------------------------------------------------------------
(* HttpsServer.                                                            *)


\* The moves of http_webserver_task's program counter stay within its range.
LEMMA GotoType ==
  ASSUME TypeOK, NEW to \in HttpPcs, Goto(to)
  PROVE  pc' \in HttpPcs /\ i' \in Socks
BY DEF TypeOK, Goto

\* The step of the loops over the sockets keeps the type of pc and i.
LEMMA NextSockType ==
  ASSUME TypeOK, NEW loop \in HttpPcs, NEW after \in HttpPcs,
         NextSock(loop, after)
  PROVE  pc' \in HttpPcs /\ i' \in Socks
BY ConstantsOK DEF TypeOK, NextSock, Socks

\* So does going on with the next socket of the polling loop.
LEMMA NextPollType ==
  ASSUME TypeOK, NextPoll
  PROVE  pc' \in HttpPcs /\ i' \in Socks
BY NextSockType DEF NextPoll, HttpPcs

\* Closing any set of sockets keeps the types of the chip's state.
LEMMA SocketsCloseType ==
  ASSUME TypeOK, NEW S, SocketsClose(S)
  PROVE  /\ sr' \in [Socks -> SockStates]
         /\ rx' \in [Socks -> AllPayloads \cup {"none"}]
         /\ stalled' \in [Socks -> BOOLEAN]
         /\ conn' \in [Socks -> {"plain", "secured", "served"}]
BY DEF TypeOK, SocketsClose, SockStates

\* Closing a session keeps the types of the chip, the session and the heap.
LEMMA CloseSessionType ==
  ASSUME TypeOK, NEW s \in Socks, https_close_session(s)
  PROVE  /\ sr' \in [Socks -> SockStates]
         /\ rx' \in [Socks -> AllPayloads \cup {"none"}]
         /\ stalled' \in [Socks -> BOOLEAN]
         /\ conn' \in [Socks -> {"plain", "secured", "served"}]
         /\ tls_active' \in [Socks -> BOOLEAN]
         /\ ctx' \in [Socks -> SUBSET Blocks]
         /\ free' \in SUBSET Blocks
<1>1. SocketsClose({s})
  BY DEF https_close_session
<1>2. /\ tls_active' \in [Socks -> BOOLEAN]
      /\ ctx' \in [Socks -> SUBSET Blocks]
      /\ free' \in SUBSET Blocks
  BY DEF https_close_session, wiz_tls_deinit, TypeOK, tlsVars
<1>3. QED BY <1>1, <1>2, SocketsCloseType

\* The types hold at boot.
LEMMA InitType == Init => TypeOK
BY ConstantsOK DEF Init, Booted, TypeOK, Socks, Statuses, NetPcs, HttpPcs, SockStates

\* The steps of the environment keep the types.
LEMMA EnvironmentType == ASSUME TypeOK, Environment PROVE TypeOK'
<1> USE DEF netVars, sockVars, tlsVars
<1>1. CASE LinkChange
  BY <1>1 DEF LinkChange, TypeOK
<1>2. CASE \E s \in Socks : PeerConnect(s) \/ PeerFin(s) \/ PeerStall(s) \/ FlushElapsed(s)
  BY <1>2, ZenonT(60) DEF PeerConnect, PeerFin, PeerStall, FlushElapsed, TypeOK, SockStates
<1>3. CASE \E s \in Socks : PeerReset(s)
  BY <1>3, SocketsCloseType DEF PeerReset, TypeOK
<1>4. CASE \E s \in Socks, p \in Payloads : PeerSend(s, p)
  BY <1>4, ConstantsOK DEF PeerSend, TypeOK
<1>5. QED
  BY <1>1, <1>2, <1>3, <1>4 DEF Environment

\* The steps of net_status_task keep the types.
LEMMA NetTaskType == ASSUME TypeOK, NetTask PROVE TypeOK'
<1> USE DEF netVars, sockVars, tlsVars, NetStep, Recover, NetPcs, Statuses
<1>1. CASE LinkFound \/ LinkMissing \/ DhcpInit \/ DhcpLeased \/ DhcpFailed \/ LeaseLost \/ LinkLost
  BY <1>1 DEF LinkFound, LinkMissing, DhcpInit, DhcpLeased, DhcpFailed, LeaseLost,
              LinkLost, TypeOK
<1>2. CASE ChipReset
  BY <1>2, SocketsCloseType DEF ChipReset, TypeOK
<1>3. CASE GiveSem
  BY <1>3, ConstantsOK DEF GiveSem, TypeOK
<1>4. QED
  BY <1>1, <1>2, <1>3 DEF NetTask

\* The steps of http_webserver_task keep the types.
LEMMA HttpTaskType == ASSUME TypeOK, HttpTask PROVE TypeOK'
<1> USE DEF netVars, sockVars, tlsVars, At
<1>a. i \in Socks /\ 1 \in Socks
  BY ConstantsOK DEF TypeOK, Socks
<1>1. CASE CheckStatus
  BY <1>1, <1>a DEF CheckStatus, TypeOK, HttpPcs
<1>2. CASE DropSession
  <2>1. pc' \in HttpPcs /\ i' \in Socks
    BY <1>2, NextSockType DEF DropSession, HttpPcs
  <2>2. QED
    BY <1>2, <1>a, <2>1, CloseSessionType DEF DropSession, SetSent, TypeOK
<1>3. CASE TakeSem
  BY <1>3, <1>a, ConstantsOK DEF TakeSem, TypeOK, HttpPcs
<1>4. CASE Poll
  <2>1. pc' \in HttpPcs /\ i' \in Socks
    BY <1>4, GotoType, NextPollType DEF Poll, PollEstablished, HttpPcs
  <2>2. QED
    BY <1>4, <2>1 DEF Poll, TypeOK
<1>5. CASE OpenSocket \/ ListenSocket
  BY <1>5, <1>a, NextPollType DEF OpenSocket, ListenSocket, TypeOK, SockStates
<1>6. CASE InitTls
  <2>1. pc' \in HttpPcs /\ i' \in Socks
    BY <1>6, GotoType DEF InitTls, HttpPcs
  <2>2. ctx' \in [Socks -> SUBSET Blocks] /\ free' \in SUBSET Blocks
    BY <1>6 DEF InitTls, TypeOK
  <2>3. QED
    BY <1>6, <2>1, <2>2 DEF InitTls, TypeOK
<1>7. CASE HandshakeDone \/ PageSent
  BY <1>7, <1>a, NextPollType DEF HandshakeDone, PageSent, SetSent, TypeOK
<1>8. CASE HandshakeFailed \/ WildFreeHarmless
  BY <1>8, GotoType DEF HandshakeFailed, WildFreeHarmless, TypeOK, HttpPcs
<1>9. CASE Teardown
  BY <1>9, <1>a, NextPollType, SocketsCloseType DEF Teardown, wiz_tls_deinit, TypeOK
<1>10. CASE WildFreeReboot
  BY <1>10, <1>a, ConstantsOK, SocketsCloseType
     DEF WildFreeReboot, Booted, TypeOK, HttpPcs, NetPcs, Statuses
<1>11. CASE ReadRequest
  <2>1. pc' \in HttpPcs /\ i' \in Socks
    BY <1>11, GotoType, NextPollType DEF ReadRequest, HttpPcs
  <2>2. QED
    BY <1>11, <1>a, <2>1 DEF ReadRequest, TypeOK
<1>12. CASE SendFailed \/ CloseSession
  BY <1>12, <1>a, NextPollType, CloseSessionType DEF SendFailed, CloseSession, SetSent, TypeOK
<1>13. QED
  BY <1>1, <1>2, <1>3, <1>4, <1>5, <1>6, <1>7, <1>8, <1>9, <1>10, <1>11, <1>12
     DEF HttpTask

\* Every step keeps the types.
LEMMA StepType == TypeOK /\ [Next]_vars => TypeOK'
<1>1. ASSUME TypeOK, UNCHANGED vars PROVE TypeOK'
  BY <1>1 DEF vars, netVars, sockVars, tlsVars, TypeOK
<1>2. QED
  BY <1>1, EnvironmentType, NetTaskType, HttpTaskType DEF Next

(***************************************************************************)
(* Both tasks keep every variable in its range: the chip's registers, the  *)
(* semaphore under its maximum count, the task positions, the TLS state.   *)
(***************************************************************************)
THEOREM TypeCorrect == Spec => []TypeOK
BY InitType, StepType, PTL DEF Spec

------------------------------------------------------------------------------
\* The inductive invariant holds at boot.
LEMMA InitIInv == Init => IInv
<1> SUFFICES ASSUME Init PROVE IInv
  OBVIOUS
<1>1. TypeOK
  BY InitType
<1>2. QED
  BY <1>1 DEF Init, Booted, IInv, NoLostWakeup, HeapAccounted, ActiveHasContext,
              ResponseOfSession, StepsRely, Connected

(***************************************************************************)
(* The wake-up argument.  http_webserver_task goes to sleep only after it  *)
(* has read DISCONNECTED, when net_status_task is before its next give;    *)
(* nobody else takes tokens, so the give leaves at least one.              *)
(***************************************************************************)
LEMMA StepWakeup ==
  ASSUME IInv, [Next]_vars
  PROVE  /\ NoLostWakeup'
         /\ (g_net_status = "DISCONNECTED" => netpc \in {"link", "reset"})'
<1> DEFINE Status == g_net_status = "DISCONNECTED" => netpc \in {"link", "reset"}
<1> SUFFICES NoLostWakeup' /\ Status'
  OBVIOUS
<1>a. NoLostWakeup /\ Status /\ TypeOK
  BY DEF IInv, StepsRely
<1> USE <1>a DEF netVars, NoLostWakeup, At, Goto, NextPoll, NextSock
<1>1. CASE NetTask
  <2> USE DEF NetStep, Recover
  <2>1. CASE LinkFound \/ LinkMissing \/ ChipReset \/ DhcpInit \/ DhcpLeased
             \/ DhcpFailed \/ LeaseLost \/ LinkLost
    BY <2>1 DEF LinkFound, LinkMissing, ChipReset, DhcpInit, DhcpLeased, DhcpFailed,
                LeaseLost, LinkLost
  <2>2. CASE GiveSem
    BY <2>2, ConstantsOK DEF GiveSem, TypeOK
  <2>3. QED
    BY <1>1, <2>1, <2>2 DEF NetTask
<1>2. CASE HttpTask
  <2>1. CASE CheckStatus \/ TakeSem \/ DropSession \/ WildFreeReboot
    BY <2>1 DEF CheckStatus, TakeSem, DropSession, WildFreeReboot
  <2>2. CASE Poll \/ ReadRequest
    BY <2>2 DEF Poll, PollEstablished, ReadRequest
  <2>3. CASE InitTls \/ HandshakeDone \/ HandshakeFailed \/ Teardown \/ WildFreeHarmless
    BY <2>3 DEF InitTls, HandshakeDone, HandshakeFailed, Teardown, WildFreeHarmless
  <2>4. CASE OpenSocket \/ ListenSocket \/ PageSent \/ SendFailed \/ CloseSession
    BY <2>4 DEF OpenSocket, ListenSocket, PageSent, SendFailed, CloseSession
  <2>5. QED
    BY <1>2, <2>1, <2>2, <2>3, <2>4 DEF HttpTask
<1>3. CASE Environment
  BY <1>3 DEF Environment, LinkChange, PeerConnect, PeerFin, PeerReset, PeerStall,
              FlushElapsed, PeerSend
<1>4. CASE UNCHANGED vars
  BY <1>4 DEF vars
<1>5. QED
  BY <1>1, <1>2, <1>3, <1>4 DEF Next
(***************************************************************************)
(* What the two proofs about sessions take from the other actors: neither  *)
(* the environment nor net_status_task touches the TLS state or the        *)
(* position of http_webserver_task.                                        *)
(***************************************************************************)
LEMMA OthersKeepTls ==
  ASSUME NetTask \/ Environment
  PROVE  UNCHANGED <<tls_active, ctx, free, pc, i>>
BY DEF NetTask, Environment, LinkFound, LinkMissing, ChipReset, DhcpInit, DhcpLeased,
       DhcpFailed, GiveSem, LeaseLost, LinkLost, LinkChange, PeerConnect, PeerFin,
       PeerReset, PeerStall, FlushElapsed, PeerSend, tlsVars

\* The part of the invariant that is about the heap and the contexts.
HeapInv ==
  /\ HeapAccounted
  /\ ActiveHasContext
  /\ pc \in {"init", "handshake", "teardown", "wildfree"} => ~tls_active[i]
  /\ pc = "handshake" => Cardinality(ctx[i]) = CtxBlocks

\* Giving a context back, whether the session was active or not, keeps the
\* heap accounted for when the task is not setting one up afterwards.
LEMMA FreedHeap ==
  ASSUME TypeOK, HeapAccounted, NEW s \in Socks,
         pc \in {"handshake", "teardown", "wildfree"} => s = i,
         wiz_tls_deinit(s),
         \A t \in Socks \ {s} : tls_active'[t] = tls_active[t]
  PROVE  HeapAccounted'
BY DEF TypeOK, HeapAccounted, wiz_tls_deinit

\* Closing a session returns its blocks to the heap.
LEMMA ClosedHeap ==
  ASSUME TypeOK, HeapInv, NEW s \in Socks, https_close_session(s),
         pc \notin {"init", "handshake", "teardown", "wildfree"},
         pc' \notin {"init", "handshake", "teardown", "wildfree"}
  PROVE  HeapInv'
<1>1. CASE tls_active[s]
  <2>1. wiz_tls_deinit(s) /\ tls_active' = [tls_active EXCEPT ![s] = FALSE]
    BY <1>1 DEF https_close_session
  <2>2. HeapAccounted'
    BY <2>1, FreedHeap DEF HeapInv, TypeOK
  <2>3. ActiveHasContext'
    BY <2>1 DEF HeapInv, ActiveHasContext, wiz_tls_deinit, TypeOK
  <2>4. QED
    BY <2>2, <2>3 DEF HeapInv
<1>2. CASE ~tls_active[s]
  BY <1>2 DEF https_close_session, tlsVars, HeapInv, HeapAccounted, ActiveHasContext
<1>3. QED
  BY <1>1, <1>2

\* Every step keeps the heap accounted for.
LEMMA StepHeap == ASSUME IInv, [Next]_vars PROVE HeapInv'
<1>a. TypeOK /\ HeapInv
  BY DEF IInv, StepsRely, HeapInv
<1>b. i \in Socks
  BY <1>a DEF TypeOK
<1> USE DEF At, Goto, NextPoll, NextSock, tlsVars
<1>1. CASE UNCHANGED <<tls_active, ctx, free, pc, i>>
  BY <1>1, <1>a DEF HeapInv, HeapAccounted, ActiveHasContext
<1>2. CASE /\ UNCHANGED <<tls_active, ctx, free>>
           /\ {pc, pc'} \cap {"init", "handshake", "teardown", "wildfree"} = {}
  BY <1>2, <1>a DEF HeapInv, HeapAccounted, ActiveHasContext
<1>3. CASE CheckStatus \/ TakeSem \/ OpenSocket \/ ListenSocket \/ ReadRequest \/ PageSent
  BY <1>3, <1>2 DEF CheckStatus, TakeSem, OpenSocket, ListenSocket, ReadRequest, PageSent
<1>4. CASE DropSession \/ SendFailed \/ CloseSession
  BY <1>4, <1>a, <1>b, ClosedHeap DEF DropSession, SendFailed, CloseSession
<1>5. CASE Poll
  BY <1>5, <1>a DEF Poll, PollEstablished, HeapInv, HeapAccounted, ActiveHasContext
<1>6. CASE InitTls
  <2>1. PICK got \in SUBSET free :
          /\ ctx' = [ctx EXCEPT ![i] = got]
          /\ free' = free \ got
          /\ \/ Cardinality(got) = CtxBlocks /\ pc' = "handshake"
             \/ pc' = "teardown"
             \/ pc' = "wildfree"
    BY <1>6 DEF InitTls
  <2>2. pc = "init" /\ i' = i /\ tls_active' = tls_active
    BY <1>6 DEF InitTls
  <2>3. ctx[i] = {} /\ ~tls_active[i]
    BY <2>2, <1>a, <1>b DEF HeapInv, HeapAccounted
  <2>4. HeapAccounted'
    BY <2>1, <2>2, <2>3, <1>a, <1>b DEF HeapInv, HeapAccounted, TypeOK
  <2>5. ActiveHasContext'
    BY <2>1, <2>2, <2>3, <1>a, <1>b DEF HeapInv, ActiveHasContext, TypeOK
  <2>6. QED
    BY <2>1, <2>2, <2>3, <2>4, <2>5, <1>a, <1>b DEF HeapInv, TypeOK
<1>7. CASE HandshakeDone
  <2>1. /\ pc = "handshake" /\ pc' \in {"poll", "top"}
        /\ tls_active' = [tls_active EXCEPT ![i] = TRUE] /\ UNCHANGED <<ctx, free>>
    BY <1>7 DEF HandshakeDone
  <2>2. HeapAccounted' /\ ActiveHasContext'
    BY <2>1, <1>a, <1>b DEF HeapInv, HeapAccounted, ActiveHasContext, TypeOK
  <2>3. QED
    BY <2>1, <2>2 DEF HeapInv
<1>8. CASE HandshakeFailed \/ WildFreeHarmless
  BY <1>8, <1>a DEF HandshakeFailed, WildFreeHarmless, HeapInv, HeapAccounted,
                    ActiveHasContext
<1>9. CASE Teardown
  <2>1. /\ pc = "teardown" /\ pc' \in {"poll", "top"}
        /\ wiz_tls_deinit(i) /\ tls_active' = tls_active
    BY <1>9 DEF Teardown
  <2>2. HeapAccounted'
    BY <2>1, <1>a, <1>b, FreedHeap DEF HeapInv
  <2>3. ActiveHasContext'
    BY <2>1, <1>a, <1>b DEF HeapInv, ActiveHasContext, wiz_tls_deinit, TypeOK
  <2>4. QED
    BY <2>1, <2>2, <2>3 DEF HeapInv
<1>10. CASE WildFreeReboot
  BY <1>10 DEF WildFreeReboot, Booted, HeapInv, HeapAccounted, ActiveHasContext
<1>11. QED
  BY <1>1, <1>3, <1>4, <1>5, <1>6, <1>7, <1>8, <1>9, <1>10, OthersKeepTls
     DEF Next, HttpTask, vars
\* The part of the invariant that is about responses and connections.
ConnInv ==
  /\ ResponseOfSession
  /\ pc = "open" => sr[i] = "CLOSED"
  /\ pc \in {"read", "send"} => tls_active[i] /\ sent[i] = "no"
  /\ pc = "send" => sr[i] \notin {"INIT", "LISTEN"}
  /\ pc = "send" /\ Connected(i) => conn[i] = "secured"
  /\ \A s \in Socks : conn[s] # "plain" => Connected(s) /\ tls_active[s]
  /\ \A s \in Socks : conn[s] = "served" => sent[s] # "no"

\* The environment keeps what the task relies on about its sessions.
LEMMA EnvironmentConn ==
  ASSUME TypeOK, ConnInv, Environment
  PROVE  ConnInv'
<1>a. UNCHANGED <<tls_active, pc, i>>
  BY OthersKeepTls
<1> USE <1>a DEF TypeOK, ConnInv, ResponseOfSession, Connected
<1>1. CASE LinkChange
  BY <1>1 DEF LinkChange, sockVars
<1>2. CASE \E s \in Socks : PeerConnect(s)
  BY <1>2 DEF PeerConnect, tlsVars
<1>3. CASE \E s \in Socks : PeerFin(s)
  BY <1>3 DEF PeerFin
<1>4. CASE \E s \in Socks : PeerReset(s)
  BY <1>4 DEF PeerReset, SocketsClose
<1>5. CASE \E s \in Socks : PeerStall(s)
  BY <1>5 DEF PeerStall
<1>6. CASE \E s \in Socks : FlushElapsed(s)
  BY <1>6 DEF FlushElapsed, sockVars
<1>7. CASE \E s \in Socks, p \in Payloads : PeerSend(s, p)
  BY <1>7 DEF PeerSend
<1>8. QED
  BY <1>1, <1>2, <1>3, <1>4, <1>5, <1>6, <1>7 DEF Environment

\* So does net_status_task, whose recovery closes every socket.
LEMMA NetTaskConn ==
  ASSUME TypeOK, ConnInv, NetTask
  PROVE  ConnInv'
<1>a. UNCHANGED <<tls_active, pc, i>>
  BY OthersKeepTls
<1> USE <1>a DEF TypeOK, ConnInv, ResponseOfSession, Connected
<1>1. CASE ChipReset
  BY <1>1 DEF ChipReset, SocketsClose
<1>2. CASE UNCHANGED <<sockVars, sent>>
  BY <1>2 DEF sockVars
<1>3. QED
  BY <1>1, <1>2 DEF NetTask, LinkFound, LinkMissing, DhcpInit, DhcpLeased, DhcpFailed,
                    GiveSem, LeaseLost, LinkLost

\* Closing the session of one socket, with its response forgotten.
LEMMA ClosedConn ==
  ASSUME TypeOK, ConnInv, https_close_session(i),
         \/ sent' = [sent EXCEPT ![i] = "no"]
         \/ sent' = sent /\ sent[i] = "no",
         pc' \in {"poll", "top", "drop", "take"}
  PROVE  ConnInv'
<1>1. i \in Socks
  BY DEF TypeOK
<1>2. /\ SocketsClose({i})
      /\ \A s \in Socks : IF s = i THEN ~tls_active'[s] ELSE tls_active'[s] = tls_active[s]
  BY <1>1 DEF https_close_session, tlsVars, TypeOK
<1>3. \A s \in Socks : IF s = i THEN sent'[s] = "no" ELSE sent'[s] = sent[s]
  BY <1>1 DEF TypeOK
<1>4. QED
  BY <1>1, <1>2, <1>3 DEF ConnInv, ResponseOfSession, Connected, SocketsClose

\* So does http_webserver_task.
LEMMA HttpTaskConn ==
  ASSUME TypeOK, ConnInv, HeapInv, HttpTask
  PROVE  ConnInv'
<1>a. i \in Socks
  BY DEF TypeOK
<1> USE <1>a DEF At, Goto, NextPoll, NextSock
<1>1. CASE CheckStatus \/ TakeSem \/ HandshakeFailed \/ WildFreeHarmless
  BY <1>1 DEF CheckStatus, TakeSem, HandshakeFailed, WildFreeHarmless, ConnInv,
              ResponseOfSession, Connected, sockVars, tlsVars
<1>2. CASE DropSession \/ SendFailed \/ CloseSession
  BY <1>2, ClosedConn DEF DropSession, SendFailed, CloseSession, SetSent, ConnInv
<1>3. CASE Poll
  BY <1>3 DEF Poll, PollEstablished, ConnInv, ResponseOfSession, Connected, sockVars,
              tlsVars
<1>4. CASE OpenSocket \/ ListenSocket
  BY <1>4 DEF OpenSocket, ListenSocket, TypeOK, ConnInv, ResponseOfSession, Connected,
              tlsVars
<1>5. CASE InitTls
  BY <1>5 DEF InitTls, ConnInv, ResponseOfSession, Connected, sockVars
<1>6. CASE HandshakeDone
  BY <1>6 DEF HandshakeDone, SetSent, TypeOK, ConnInv, ResponseOfSession, Connected
<1>7. CASE Teardown
  <2>1. ~tls_active[i]
    BY <1>7 DEF Teardown, HeapInv
  <2>2. QED
    BY <1>7, <2>1 DEF Teardown, SocketsClose, TypeOK, ConnInv, ResponseOfSession, Connected
<1>8. CASE WildFreeReboot
  BY <1>8 DEF WildFreeReboot, Booted, SocketsClose, ConnInv, ResponseOfSession, Connected
<1>9. CASE ReadRequest
  BY <1>9 DEF ReadRequest, TypeOK, ConnInv, ResponseOfSession, Connected, tlsVars
<1>10. CASE PageSent
  BY <1>10 DEF PageSent, SetSent, TypeOK, ConnInv, ResponseOfSession, Connected, tlsVars
<1>11. QED
  BY <1>1, <1>2, <1>3, <1>4, <1>5, <1>6, <1>7, <1>8, <1>9, <1>10 DEF HttpTask

\* Every step keeps the inductive invariant.
LEMMA StepIInv == IInv /\ [Next]_vars => IInv'
<1> SUFFICES ASSUME IInv, [Next]_vars PROVE IInv'
  OBVIOUS
<1>1. TypeOK /\ ConnInv /\ HeapInv
  BY DEF IInv, StepsRely, ConnInv, HeapInv
<1>2. TypeOK'
  BY <1>1, StepType
<1>3. HeapInv'
  BY StepHeap
<1>4. ConnInv'
  <2>1. CASE UNCHANGED vars
    BY <2>1, <1>1 DEF vars, sockVars, tlsVars, ConnInv, ResponseOfSession, Connected
  <2>2. QED
    BY <2>1, <1>1, EnvironmentConn, NetTaskConn, HttpTaskConn DEF Next
<1>5. QED
  BY <1>2, <1>3, <1>4, StepWakeup DEF IInv, StepsRely, ConnInv, HeapInv

\* The inductive invariant holds in every behaviour.
THEOREM Inductive == Spec => []IInv
BY InitIInv, StepIInv, PTL DEF Spec

(***************************************************************************)
(* No lost wake-up, for every number of sockets and semaphore bound.       *)
(***************************************************************************)
THEOREM WakeupCorrect == Spec => []NoLostWakeup
<1>1. IInv => NoLostWakeup
  BY DEF IInv
<1>2. QED
  BY <1>1, Inductive, PTL

(***************************************************************************)
(* No TLS context is leaked or freed twice: the heap holds those in use.   *)
(***************************************************************************)
THEOREM HeapCorrect == Spec => []HeapAccounted
<1>1. IInv => HeapAccounted
  BY DEF IInv
<1>2. QED
  BY <1>1, Inductive, PTL

(***************************************************************************)
(* A session that is active has its context: none is used after it was     *)
(* freed, whatever handshake fails or peer goes away.                      *)
(***************************************************************************)
THEOREM ContextCorrect == Spec => []ActiveHasContext
<1>1. IInv => ActiveHasContext
  BY DEF IInv
<1>2. QED
  BY <1>1, Inductive, PTL

(***************************************************************************)
(* No session starts with the response of an earlier one pending.          *)
(***************************************************************************)
THEOREM ResponseCorrect == Spec => []ResponseOfSession
<1>1. IInv => ResponseOfSession
  BY DEF IInv
<1>2. QED
  BY <1>1, Inductive, PTL
------------------------------------------------------------------------------
(* The refinement *)

\* Closing sockets is the abstract Drop, or nothing when all were down.
LEMMA CloseIsDrop ==
  ASSUME TypeOK, NEW S \in SUBSET Socks, SocketsClose(S)
  PROVE  Connections!Drop(S)
BY DEF TypeOK, SocketsClose, phaseOf, Connected, Connections!Drop

\* So it is a step of the abstract specification.
LEMMA CloseStep ==
  ASSUME TypeOK, NEW S \in SUBSET Socks, SocketsClose(S)
  PROVE  Connections!Next
BY CloseIsDrop DEF Connections!Next

\* One socket advances, the others stay where they are.
LEMMA AdvanceStep ==
  ASSUME NEW s \in Socks, NEW from, NEW to,
         phaseOf[s] = from, phaseOf' = [phaseOf EXCEPT ![s] = to],
         <<from, to>> \in {<<"down", "listening">>, <<"listening", "plain">>,
                           <<"plain", "secured">>, <<"secured", "served">>}
  PROVE  Connections!Next
BY DEF Connections!Next, Connections!Advance, Connections!Listen, Connections!Accept,
       Connections!Secure, Connections!Serve

\* Every step of the tasks and the environment is an abstract step or a stutter.
LEMMA SocketStep ==
  ASSUME TypeOK, IInv, HttpTask \/ NetTask \/ Environment
  PROVE  Connections!Next \/ UNCHANGED phaseOf
<1>a. i \in Socks
  BY DEF TypeOK
<1>b. CASE UNCHANGED <<sr, conn>>
  BY <1>b DEF phaseOf, Connected
<1>c. CASE \E S \in SUBSET Socks : SocketsClose(S)
  BY <1>c, CloseStep
<1>1. CASE Environment
  <2>1. CASE \E s \in Socks : PeerConnect(s)
    <3>1. PICK s \in Socks : PeerConnect(s)
      BY <2>1
    <3>2. phaseOf[s] = "listening"
      BY <3>1 DEF PeerConnect, phaseOf, Connected
    <3>3. conn[s] = "plain"
      BY <3>1 DEF PeerConnect, IInv, StepsRely, Connected, TypeOK
    <3>4. phaseOf' = [phaseOf EXCEPT ![s] = "plain"]
      BY <3>1, <3>3 DEF PeerConnect, phaseOf, Connected, TypeOK
    <3>5. QED
      BY <3>2, <3>4, AdvanceStep
  <2>2. CASE \E s \in Socks : PeerFin(s)
    BY <2>2 DEF PeerFin, phaseOf, Connected, TypeOK
  <2>3. CASE \E s \in Socks : PeerReset(s)
    BY <2>3, <1>c DEF PeerReset
  <2>4. QED
    BY <1>1, <1>b, <2>1, <2>2, <2>3
       DEF Environment, LinkChange, PeerStall, FlushElapsed, PeerSend, sockVars
<1>2. CASE NetTask
  BY <1>2, <1>b, <1>c DEF NetTask, LinkFound, LinkMissing, ChipReset, DhcpInit, DhcpLeased,
                          DhcpFailed, GiveSem, LeaseLost, LinkLost, sockVars
<1>3. CASE HttpTask
  <2>1. CASE OpenSocket \/ ListenSocket
    <3>1. sr[i] \in {"CLOSED", "INIT"} \/ UNCHANGED <<sr, conn>>
      BY <2>1 DEF OpenSocket, ListenSocket, At, IInv, StepsRely
    <3>2. /\ conn' = conn
          /\ \/ \E v \in {"INIT", "LISTEN"} : sr' = [sr EXCEPT ![i] = v]
             \/ sr' = sr
      BY <2>1 DEF OpenSocket, ListenSocket, SockStates
    <3>3. CASE /\ sr[i] \in {"CLOSED", "INIT"} /\ conn' = conn
               /\ sr' = [sr EXCEPT ![i] = "INIT"]
      BY <3>3 DEF phaseOf, Connected, TypeOK
    <3>4. CASE /\ sr[i] \in {"CLOSED", "INIT"} /\ conn' = conn
               /\ sr' = [sr EXCEPT ![i] = "LISTEN"]
      <4>1. phaseOf[i] = "down" /\ phaseOf' = [phaseOf EXCEPT ![i] = "listening"]
        BY <3>4, <1>a DEF phaseOf, Connected, TypeOK
      <4>2. QED
        BY <4>1, <1>a, AdvanceStep
    <3>5. QED
      BY <1>b, <3>1, <3>2, <3>3, <3>4
  <2>2. CASE HandshakeDone
    <3>1. sr[i] = "ESTABLISHED" /\ sr' = sr /\ conn' = [conn EXCEPT ![i] = "secured"]
      BY <2>2 DEF HandshakeDone
    <3>2. conn[i] = "plain"
      BY <2>2, <1>a DEF HandshakeDone, At, IInv, StepsRely
    <3>3. phaseOf[i] = "plain" /\ phaseOf' = [phaseOf EXCEPT ![i] = "secured"]
      BY <3>1, <3>2, <1>a DEF phaseOf, Connected, TypeOK
    <3>4. QED
      BY <3>3, <1>a, AdvanceStep
  <2>3. CASE PageSent
    <3>1. Connected(i) /\ sr' = sr /\ conn' = [conn EXCEPT ![i] = "served"]
      BY <2>3 DEF PageSent
    <3>2. conn[i] = "secured"
      BY <2>3, <3>1 DEF PageSent, At, IInv, StepsRely
    <3>3. phaseOf[i] = "secured" /\ phaseOf' = [phaseOf EXCEPT ![i] = "served"]
      BY <3>1, <3>2, <1>a DEF phaseOf, Connected, TypeOK
    <3>4. QED
      BY <3>3, <1>a, AdvanceStep
  <2>4. CASE DropSession \/ SendFailed \/ CloseSession \/ Teardown \/ WildFreeReboot
    BY <2>4, <1>a, <1>c DEF DropSession, SendFailed, CloseSession, Teardown, WildFreeReboot,
                            https_close_session
  <2>5. CASE CheckStatus \/ TakeSem \/ Poll \/ InitTls \/ HandshakeFailed
             \/ WildFreeHarmless \/ ReadRequest
    BY <2>5, <1>b DEF CheckStatus, TakeSem, Poll, InitTls, HandshakeFailed,
                      WildFreeHarmless, ReadRequest, sockVars
  <2>6. QED
    BY <1>3, <2>1, <2>2, <2>3, <2>4, <2>5 DEF HttpTask
<1>4. QED
  BY <1>1, <1>2, <1>3

(***************************************************************************)
(* Every connection is answered at most once and only after a handshake of *)
(* its own: HttpsServer implements HttpsConnection.                        *)
(***************************************************************************)
THEOREM Implements == Spec => ConnectionsSpec
<1>1. Init => Connections!Init
  BY DEF Init, Booted, phaseOf, Connected, Connections!Init
<1>2. IInv /\ [Next]_vars => [Connections!Next]_phaseOf
  <2>1. ASSUME UNCHANGED vars PROVE UNCHANGED phaseOf
    BY <2>1 DEF vars, sockVars, phaseOf, Connected
  <2>2. QED
    BY <2>1, SocketStep DEF Next, IInv
<1>3. QED
  BY <1>1, <1>2, Inductive, PTL DEF Spec, ConnectionsSpec, Connections!Spec

-----------------------------------------------------------------------------
(* AppConfig: what the invariant says.                                     *)

\* The configuration in RAM or in its sector.
IsConfig(c) == c \in StoredAs(c) /\ DOMAIN c.set = Settings

Units == {Blank} \cup (Images \X Sizes)

\* A request names at most one update.
OneUpdate(q) == \A k, m \in 1..Len(q) : q[k].cmd = "FW" /\ q[m].cmd = "FW" => k = m
NoUpdateIn(q) == \A k \in 1..Len(q) : q[k].cmd = "FW" => q[k].asks
NoFlagIn(q)  == \A k \in 1..Len(q) : q[k].cmd = "UF" /\ ~q[k].asks => q[k].arg = 0

\* The tool sends an image in one connection, a request has one update in it and
\* does not set the copy flag by itself.
CarefulTools ==
  /\ MaxConns <= 1
  /\ \A l \in Loads : \A c \in Channels : \A q \in l[c] : OneUpdate(q) /\ NoFlagIn(q)

ReceiveTypes == [f_addr : Nat, buf : Seq(Units), write_fw_len : Nat,
                 recv_fwsize : Nat]
SocketStates == {"CLOSED", "LISTEN", "ESTABLISHED", "CLOSE_WAIT"}

\* The types of all variables, in parts.
FlashTypes ==
  /\ IsConfig(nv) /\ IsConfig(ram)
  /\ cert \in {"none", "whole"} /\ main \in 0..MaxImages
  /\ bank \in [Sizes -> Units]
TaskTypes ==
  /\ at \in [Channels -> Places] /\ then \in [Channels -> Places]
  /\ ret \in [Channels -> SUBSET Flags] /\ opmode \in {"GW", "AT"}
  /\ todo \in Seq(Commands)
ToolTypes ==
  /\ sock \in SocketStates /\ conns \in 0..MaxConns
  /\ image \in Images /\ size \in [Images -> {0} \cup Sizes]
  /\ load \in Loads /\ crashes \in 0..MaxCrashes
  /\ armed \in BOOLEAN /\ reset \in BOOLEAN
  /\ update \in ReceiveTypes
Types == FlashTypes /\ TaskTypes /\ ToolTypes

Updates(c) == at[c] \in {"update", "received", "bank erase", "bank program"}
Saves(c)   == at[c] \in {"erase", "program", "second page"}

\* A save goes on with the request, the certificate or nothing; a device that is
\* not up has no request.
Resumes ==
  /\ \A c \in Channels : Saves(c) => then[c] \in {"fw", "cert erase", "dead"}
  /\ Off => \A c \in Channels : ret[c] = {}

\* An update that has succeeded stores its flag, and waits for the reset.
Done(c) == "FWUP" \in ret[c] /\ (at[c] = "dead" \/ (Saves(c) /\ then[c] = "dead"))

WholeImage(n) == \E g \in Images : size[g] = n /\ Holds(g)

\* What is left of a request.
Requested == OneUpdate(todo) /\ NoFlagIn(todo) /\ (Brings(todo, Sizes) => image < MaxImages)

\* One update at a time, for the size the tool has announced last.
Single ==
  \A c \in Channels : "FWUP" \in ret[c] =>
    /\ NoUpdateIn(todo) /\ \A d \in Channels : d # c => "FWUP" \notin ret[d]
    /\ ram.size # 0 => size[image] = ram.size

\* The bytes in bank 1 and in the buffer are the first ones of the image.
Taken == update.write_fw_len - Len(update.buf)
Counted ==
  /\ ram.size \in Sizes /\ Taken \in Nat /\ update.write_fw_len <= ram.size
  /\ \A k \in 1..Len(update.buf) : update.buf[k] = <<image, Taken + k>>
  /\ \A p \in 1..Taken : bank[p] = <<image, p>>
Listened ==
  /\ sock = "ESTABLISHED" => update.recv_fwsize = update.write_fw_len
  /\ sock = "LISTEN" => update.recv_fwsize = 0
  /\ conns = 0 => update.write_fw_len = 0 /\ sock \in {"CLOSED", "LISTEN"}
Placed(place) ==
  /\ update.buf # <<>> \/ place = "update" => update.f_addr * SectorSize = Taken
  /\ place = "update" => Len(update.buf) < SectorSize /\ update.write_fw_len < ram.size
  /\ place \in {"bank erase", "bank program"} =>
       /\ Len(update.buf) > 0 /\ Len(update.buf) < 2 * SectorSize
       /\ Len(update.buf) < SectorSize => update.write_fw_len = ram.size
  /\ place = "received" => Len(update.buf) < SectorSize /\ update.write_fw_len = ram.size
Receives == \A c \in Channels :
  Updates(c) => "FWUP" \in ret[c] /\ Counted /\ Listened /\ Placed(at[c])

\* A copy that is due has its image, and nobody will touch it before the reset.
Due ==
  /\ ram.copy = 1 \/ (nv.copy = 1 /\ ~Off) => \E c \in Channels : Done(c)
  /\ ram.copy = 1 => WholeImage(ram.size)
  /\ nv.copy = 1 => WholeImage(nv.size)

UpdateInv == Types /\ Resumes /\ Requested /\ Single /\ Receives /\ Due

-----------------------------------------------------------------------------
(* Types.                                                                  *)

\* The assumption on the constants, and what the commands are.
LEMMA ConstantsAre ==
  /\ SectorSize \in Nat /\ SectorSize > 0 /\ BankSectors \in Nat /\ BankSectors > 0
  /\ BankSectors * SectorSize \in Nat /\ Sizes = 1..(BankSectors * SectorSize)
  /\ RecvMax \in 1..SectorSize /\ DOMAIN Factory = Settings
  /\ MaxImages \in Nat /\ MaxImages > 0 /\ MaxConns \in Nat /\ MaxCrashes \in Nat
  /\ \A l \in Loads : \A c \in Channels : l[c] \subseteq Seq(Commands)
<1>1. AppConstants
  BY AppAssumption
<1>2. BankSectors * SectorSize \in Nat
  BY <1>1 DEF AppConstants
<1> QED BY <1>1, <1>2 DEF AppConstants, Sizes

\* What the actions make of a configuration is one.
LEMMA ConfigType ==
  ASSUME NEW c, IsConfig(c)
  PROVE  /\ \A x \in {0, 1, 255} : IsConfig([c EXCEPT !.copy = x])
         /\ \A n \in {0} \cup Sizes : IsConfig([c EXCEPT !.size = n])
         /\ \A t \in {"none", "whole", "bad"} : IsConfig([c EXCEPT !.ca = t])
         /\ \A k \in Settings : \A v : IsConfig([c EXCEPT !.set[k] = v])
         /\ IsConfig(FirstPage(c)) /\ IsConfig(set_DevConfig_to_factory_value(c))
<1>1. /\ c \in [ok : BOOLEAN, set : {c.set}, copy : {0, 1, 255}, size : {0} \cup Sizes,
                ca : {"none", "whole", "bad"}]
      /\ DOMAIN c.set = Settings
  BY DEF IsConfig, StoredAs
<1>2. ASSUME NEW x \in {0, 1, 255} PROVE IsConfig([c EXCEPT !.copy = x])
  BY <1>1 DEF IsConfig, StoredAs
<1>3. ASSUME NEW n \in {0} \cup Sizes PROVE IsConfig([c EXCEPT !.size = n])
  BY <1>1 DEF IsConfig, StoredAs
<1>4. ASSUME NEW t \in {"none", "whole", "bad"} PROVE IsConfig([c EXCEPT !.ca = t])
  BY <1>1 DEF IsConfig, StoredAs
<1>5. ASSUME NEW k \in Settings, NEW v PROVE IsConfig([c EXCEPT !.set[k] = v])
  BY <1>1 DEF IsConfig, StoredAs
<1>6. IsConfig(FirstPage(c))
  BY <1>1, ZenonT(60) DEF IsConfig, StoredAs, FirstPage
<1>7. IsConfig(set_DevConfig_to_factory_value(c))
  BY <1>1, ConstantsAre DEF IsConfig, StoredAs, set_DevConfig_to_factory_value
<1> QED BY <1>2, <1>3, <1>4, <1>5, <1>6, <1>7

\* They keep the fields they do not name.
LEMMA ConfigFields ==
  ASSUME NEW c, IsConfig(c)
  PROVE  /\ c.copy \in {0, 1, 255} /\ c.size \in {0} \cup Sizes
         /\ \A x : [c EXCEPT !.copy = x].copy = x /\ [c EXCEPT !.copy = x].size = c.size
         /\ \A n : [c EXCEPT !.size = n].size = n /\ [c EXCEPT !.size = n].copy = c.copy
         /\ \A t : [c EXCEPT !.ca = t].copy = c.copy /\ [c EXCEPT !.ca = t].size = c.size
         /\ \A k, v : /\ [c EXCEPT !.set[k] = v].copy = c.copy
                      /\ [c EXCEPT !.set[k] = v].size = c.size
         /\ set_DevConfig_to_factory_value(c).copy = c.copy
         /\ set_DevConfig_to_factory_value(c).size = c.size
         /\ FirstPage(c).copy = 255
BY DEF IsConfig, StoredAs, set_DevConfig_to_factory_value, FirstPage

LEMMA ErasedType == IsConfig(Erased) /\ Erased.copy = 255 /\ Erased.size = 0
BY ConstantsAre DEF Erased, IsConfig, StoredAs

\* A buffer with nothing, or with one command, to read.
LEMMA OneCommandType ==
  /\ <<>> \in Seq(Commands)
  /\ \A d \in Commands : <<d>> \in Seq(Commands)
OBVIOUS

\* The moves of a task.
LEMMA GoesType ==
  ASSUME TaskTypes, NEW c \in Channels, NEW place \in Places, Goes(c, place)
  PROVE  /\ at' \in [Channels -> Places] /\ at'[c] = place
         /\ \A d \in Channels : d # c => at'[d] = at[d]
BY DEF TaskTypes, Goes

\* A reset.
LEMMA RestartTypes ==
  ASSUME Types, Restart, UNCHANGED <<flash, tool>>, crashes' \in 0..MaxCrashes
  PROVE  Types'
<1>1. FlashTypes'
  BY ErasedType DEF Types, FlashTypes, Restart, flash, IsConfig, StoredAs
<1>2. TaskTypes'
  BY OneCommandType DEF Types, TaskTypes, Restart, Places
<1>3. NoUpdate \in ReceiveTypes /\ 0 \in 0..MaxConns
  BY ConstantsAre DEF ReceiveTypes, NoUpdate
<1>4. ToolTypes'
  BY <1>3 DEF Types, ToolTypes, Restart, tool, SocketStates
<1> QED BY <1>1, <1>2, <1>4 DEF Types

\* The start.
LEMMA StartTypes ==
  ASSUME Types, Start
  PROVE  Types'
<1>1. CASE BankCopy
  <2>1. BankCopied \in 0..MaxImages
    BY ConstantsAre DEF BankCopied, Images
  <2>2. FlashTypes'
    BY <1>1, <2>1, ConfigType DEF Types, FlashTypes, BankCopy
  <2>3. TaskTypes' /\ ToolTypes'
    BY <1>1 DEF Types, TaskTypes, ToolTypes, BankCopy, task, tool
  <2> QED BY <2>2, <2>3 DEF Types
<1>2. CASE load_DevConfig_from_storage
  <2>1. FlashTypes'
    BY <1>2, ConfigType DEF Types, FlashTypes, load_DevConfig_from_storage, flash
  <2>2. TaskTypes'
    BY <1>2, ZenonT(60) DEF Types, TaskTypes, load_DevConfig_from_storage, Places, Channels
  <2>3. ToolTypes'
    BY <1>2 DEF Types, ToolTypes, load_DevConfig_from_storage, tool
  <2> QED BY <2>1, <2>2, <2>3 DEF Types
<1> QED BY <1>1, <1>2 DEF Start

\* The steps of a save.
LEMMA SavingTypes ==
  ASSUME Types, NEW c \in Channels, Saving(c)
  PROVE  Types'
<1>1. CASE EraseSector(c)
  <2>1. FlashTypes'
    BY <1>1, ErasedType DEF Types, FlashTypes, EraseSector, IsConfig, StoredAs
  <2>2. TaskTypes' /\ ToolTypes'
    BY <1>1, GoesType DEF Types, TaskTypes, ToolTypes, EraseSector, tool, Places
  <2> QED BY <2>1, <2>2 DEF Types
<1>2. CASE ProgramFirst(c)
  <2>1. FlashTypes'
    BY <1>2, ConfigType DEF Types, FlashTypes, ProgramFirst
  <2>2. TaskTypes' /\ ToolTypes'
    BY <1>2, GoesType DEF Types, TaskTypes, ToolTypes, ProgramFirst, tool, Places
  <2> QED BY <2>1, <2>2 DEF Types
<1>3. CASE ProgramSecond(c)
  <2>1. FlashTypes'
    BY <1>3 DEF Types, FlashTypes, ProgramSecond
  <2>2. TaskTypes' /\ ToolTypes'
    BY <1>3, GoesType DEF Types, TaskTypes, ToolTypes, ProgramSecond, tool, Places
  <2> QED BY <2>1, <2>2 DEF Types
<1>4. CASE EraseCertificate(c)
  <2>1. FlashTypes'
    BY <1>4 DEF Types, FlashTypes, EraseCertificate
  <2>2. TaskTypes' /\ ToolTypes'
    BY <1>4, GoesType DEF Types, TaskTypes, ToolTypes, EraseCertificate, tool, Places
  <2> QED BY <2>1, <2>2 DEF Types
<1>5. CASE WriteCertificate(c)
  <2>1. FlashTypes'
    BY <1>5 DEF Types, FlashTypes, WriteCertificate
  <2>2. TaskTypes' /\ ToolTypes'
    BY <1>5, GoesType DEF Types, TaskTypes, ToolTypes, WriteCertificate, tool, Places
  <2> QED BY <2>1, <2>2 DEF Types
<1> QED BY <1>1, <1>2, <1>3, <1>4, <1>5 DEF Saving

\* A request.
LEMMA RequestingTypes ==
  ASSUME Types, NEW c \in Channels, Requesting(c)
  PROVE  Types'
<1>1. ASSUME NEW q \in load[c], TakeRequest(c, q) PROVE Types'
  <2>1. q \in Seq(Commands)
    BY ConstantsAre DEF Types, ToolTypes
  <2>2. FlashTypes'
    BY <1>1 DEF Types, FlashTypes, TakeRequest, flash, IsConfig, StoredAs
  <2>3. TaskTypes'
    BY <1>1, <2>1, GoesType DEF Types, TaskTypes, TakeRequest, Places
  <2>4. ToolTypes'
    BY <1>1 DEF Types, ToolTypes, TakeRequest, tool
  <2> QED BY <2>2, <2>3, <2>4 DEF Types
<1>2. CASE TakeForeign(c)
  <2>0. Asks("unknown") \in Commands
    BY DEF Asks, Commands
  <2>1. todo' \in Seq(Commands)
    BY <1>2, <2>0, OneCommandType DEF TakeForeign
  <2>2. FlashTypes'
    BY <1>2 DEF Types, FlashTypes, TakeForeign, flash, IsConfig, StoredAs
  <2>3. TaskTypes' /\ ToolTypes'
    BY <1>2, <2>1 DEF Types, TaskTypes, ToolTypes, TakeForeign, tool
  <2> QED BY <2>2, <2>3 DEF Types
<1> QED BY <1>1, <1>2 DEF Requesting

\* The parameters of the commands that are no settings.
LEMMA CommandParameters ==
  ASSUME NEW d \in Commands
  PROVE  /\ d.asks \in BOOLEAN
         /\ d.cmd = "FW" /\ ~d.asks => d.arg \in {0, TooBig} \cup Sizes
         /\ d.cmd = "UF" /\ ~d.asks => d.arg \in {0, 1}
         /\ d.cmd = "OC" => ~d.asks /\ d.arg \in {"whole", "cut", "bad"}
<1>1. {"FW", "UF", "OC"} \cap SettingCommands = {}
  BY DEF SettingCommands, CommonCommands, CommonDigits, AddressCommands, LineCommands,
         PackingCommands, OptionCommands, TopicCommands, GreetingCommands,
         NotAvailableCommands
<1>2. "OC" \notin Queries
  BY DEF Queries, NetworkQueries, SerialQueries, OptionQueries
<1> QED BY <1>1, <1>2 DEF Commands

\* A command without a parameter raises flags.
LEMMA AskedType == \A k, v : Asked(k, v) \subseteq Flags \ {"FWUP"}
BY DEF Asked, Flags

\* A request goes on with its next command, or is handled.
LEMMA ProceedsType ==
  ASSUME TaskTypes, NEW c \in Channels, NEW flags \in SUBSET Flags,
         Raises(c, flags), Proceeds(c)
  PROVE  /\ ret' \in [Channels -> SUBSET Flags] /\ ret'[c] = ret[c] \cup flags
         /\ \A d \in Channels : d # c => ret'[d] = ret[d] /\ at'[d] = at[d]
         /\ at' \in [Channels -> Places] /\ at'[c] \in {"command", "handle"}
         /\ then' = then
<1>1. CASE Ends(c)
  BY <1>1, GoesType DEF TaskTypes, Raises, Proceeds, Places
<1>2. CASE ~Ends(c)
  BY <1>2, GoesType DEF TaskTypes, Raises, Proceeds, Places
<1> QED BY <1>1, <1>2

\* One command.
LEMMA CommandTypes ==
  ASSUME Types, Requested, NEW c \in Channels, Command(c)
  PROVE  Types'
<1>1. CASE todo = <<>>
  <2>1. FlashTypes'
    BY <1>1 DEF Types, FlashTypes, Command, flash
  <2>2. TaskTypes' /\ ToolTypes'
    BY <1>1, GoesType DEF Types, TaskTypes, ToolTypes, Command, tool, Places
  <2> QED BY <2>1, <2>2 DEF Types
<1>2. CASE todo # <<>>
  <2> DEFINE d == Head(todo)
  <2>1. d \in Commands /\ todo' \in Seq(Commands) /\ d = todo[1] /\ Len(todo) >= 1
    BY <1>2 DEF Types, TaskTypes, Command
  <2> HIDE DEF d
  <2>2. /\ UNCHANGED <<flash, opmode, update, sock, conns, armed, reset, crashes>>
        /\ Setting(c, d) \/ Query(c, d) \/ CopyFlag(c, d) \/ Firmware(c, d)
           \/ Certificate(c, d)
    BY <1>2 DEF Command, d
  <2>3. CASE Setting(c, d)
    <3>1. PICK v \in Outcomes(d.cmd, d.arg, FALSE) :
               /\ ram' = IF v # Refused /\ d.cmd \in Settings
                         THEN [ram EXCEPT !.set[d.cmd] = v] ELSE ram
               /\ Raises(c, IF v = Refused THEN {"ERR"} ELSE {})
      BY <2>3 DEF Setting
    <3>2. FlashTypes'
      BY <2>2, <3>1, ConfigType DEF Types, FlashTypes, flash
    <3>3. (IF v = Refused THEN {"ERR"} ELSE {}) \in SUBSET Flags
      BY DEF Flags
    <3>4. TaskTypes'
      BY <2>1, <2>2, <2>3, <3>1, <3>3, ProceedsType DEF Types, TaskTypes, Setting
    <3>5. ToolTypes'
      BY <2>2, <2>3 DEF Types, ToolTypes, Setting, tool
    <3> QED BY <3>2, <3>4, <3>5 DEF Types
  <2>4. CASE Query(c, d)
    <3>1. FlashTypes'
      BY <2>2, <2>4 DEF Types, FlashTypes, flash, Query
    <3>2. TaskTypes'
      BY <2>1, <2>2, <2>4, AskedType, ProceedsType DEF Types, TaskTypes, Query
    <3>3. ToolTypes'
      BY <2>2, <2>4 DEF Types, ToolTypes, Query, tool
    <3> QED BY <3>1, <3>2, <3>3 DEF Types
  <2>5. CASE CopyFlag(c, d)
    <3>1. FlashTypes'
      BY <2>1, <2>2, <2>5, ConfigType, CommandParameters DEF Types, FlashTypes, flash, CopyFlag
    <3>2. TaskTypes'
      BY <2>1, <2>2, <2>5, ProceedsType DEF Types, TaskTypes, CopyFlag
    <3>3. ToolTypes'
      BY <2>2, <2>5 DEF Types, ToolTypes, CopyFlag, tool
    <3> QED BY <3>1, <3>2, <3>3 DEF Types
  <2>6. CASE Firmware(c, d)
    <3>1. d.arg \in {0, TooBig} \cup Sizes /\ TooBig \notin Sizes /\ 0 \notin Sizes
      BY <2>1, <2>6, CommandParameters, ConstantsAre DEF Firmware, TooBig
    <3>2. FlashTypes'
      BY <2>2, <2>6, <3>1, ConfigType, ZenonT(60) DEF Types, FlashTypes, flash, Firmware
    <3>3. (IF d.arg = TooBig THEN {"ERR"} ELSE {"FWUP"}) \in SUBSET Flags
      BY DEF Flags
    <3>4. TaskTypes'
      BY <2>1, <2>2, <2>6, <3>3, ProceedsType DEF Types, TaskTypes, Firmware
    <3>5. d.arg \in Sizes => image < MaxImages
      BY <2>1, <2>6 DEF Requested, Brings, Firmware
    <3>6. image' \in Images /\ size' \in [Images -> {0} \cup Sizes]
      BY <2>6, <3>1, <3>5, ConstantsAre DEF Types, ToolTypes, Firmware, Images
    <3>7. ToolTypes'
      BY <2>2, <2>6, <3>6 DEF Types, ToolTypes, Firmware
    <3> QED BY <3>2, <3>4, <3>7 DEF Types
  <2>7. CASE Certificate(c, d)
    <3>0. ram' = ram \/ (d.arg \in {"whole", "bad"} /\ ram' = [ram EXCEPT !.ca = d.arg])
      BY <2>1, <2>7, CommandParameters DEF Certificate
    <3>a. IsConfig(ram')
      BY <3>0, ConfigType, ZenonT(60) DEF Types, FlashTypes
    <3>1. FlashTypes'
      BY <2>2, <3>a DEF Types, FlashTypes, flash
    <3>2. ToolTypes'
      BY <2>2, <2>7 DEF Types, ToolTypes, Certificate, tool
    <3>3. CASE "ERR" \in ret[c]
      BY <2>1, <2>2, <2>7, <3>1, <3>2, <3>3, GoesType DEF Types, TaskTypes, Certificate, Places
    <3>4. CASE "ERR" \notin ret[c]
      <4>1. (IF d.arg = "whole" THEN {} ELSE {"ERR"}) \in SUBSET Flags
        BY DEF Flags
      <4>2. ASSUME d.arg = "cut" PROVE TaskTypes'
        BY <2>1, <2>2, <2>7, <3>4, <4>1, <4>2, ProceedsType DEF Types, TaskTypes, Certificate
      <4>3. ASSUME d.arg = "bad" PROVE TaskTypes'
        <5>1. Raises(c, {"ERR"}) /\ Goes(c, "handle") /\ then' = then
          BY <2>7, <3>4, <4>3 DEF Certificate
        <5>2. ret' \in [Channels -> SUBSET Flags]
          BY <5>1 DEF Types, TaskTypes, Raises, Flags
        <5> QED BY <2>1, <2>2, <5>1, <5>2, GoesType DEF Types, TaskTypes, Places
      <4>4. ASSUME d.arg = "whole" PROVE TaskTypes'
        BY <2>1, <2>2, <2>7, <3>4, <4>1, <4>4, GoesType, ZenonT(60)
        DEF Types, TaskTypes, Certificate, Raises, Places, save_DevConfig_to_storage
      <4>5. TaskTypes'
        BY <2>1, <2>7, <4>2, <4>3, <4>4, CommandParameters DEF Certificate
      <4> QED BY <4>5, <3>1, <3>2 DEF Types
    <3> QED BY <3>1, <3>2, <3>3, <3>4 DEF Types
  <2> QED BY <2>2, <2>3, <2>4, <2>5, <2>6, <2>7
<1> QED BY <1>1, <1>2

\* What the handler does.
LEMMA HandlerTypes ==
  ASSUME Types, NEW c \in Channels, segcp_ret_handler(c)
  PROVE  Types'
<1>1. CASE ret[c] = {} \/ "ERR" \in ret[c]
  <2>1. Rests(c) /\ UNCHANGED <<nv, ram, opmode, then>>
    BY <1>1 DEF segcp_ret_handler
  <2>2. FlashTypes' /\ ToolTypes'
    BY <2>1 DEF Types, FlashTypes, ToolTypes, segcp_ret_handler, tool
  <2>3. TaskTypes'
    BY <2>1, GoesType DEF Types, TaskTypes, segcp_ret_handler, Rests, Places, Flags
  <2> QED BY <2>2, <2>3 DEF Types
<1>2. CASE ~(ret[c] = {} \/ "ERR" \in ret[c])
  <2>1. /\ opmode' = Switched(c) /\ UNCHANGED ret
        /\ ram' = IF "FACTORY" \in ret[c] THEN set_DevConfig_to_factory_value(ram) ELSE ram
        /\ nv' = nv \/ nv' = Erased
        /\ \/ save_DevConfig_to_storage(c, "fw")
           \/ Goes(c, "fw") /\ UNCHANGED then
    BY <1>2 DEF segcp_ret_handler
  <2>2. IsConfig(ram') /\ IsConfig(nv')
    BY <2>1, ConfigType, ErasedType DEF Types, FlashTypes
  <2>3. FlashTypes' /\ ToolTypes'
    BY <2>2 DEF Types, FlashTypes, ToolTypes, segcp_ret_handler, tool
  <2>4. at' \in [Channels -> Places] /\ then' \in [Channels -> Places]
    BY <2>1, GoesType DEF Types, TaskTypes, save_DevConfig_to_storage, Places
  <2>5. TaskTypes'
    BY <2>1, <2>4 DEF Types, TaskTypes, segcp_ret_handler, Switched
  <2> QED BY <2>3, <2>5 DEF Types
<1> QED BY <1>1, <1>2

\* The end of a request.
LEMMA EndTypes ==
  ASSUME Types, NEW c \in Channels, EndRequest(c)
  PROVE  Types'
<1>1. FlashTypes' /\ ToolTypes'
  BY DEF Types, FlashTypes, ToolTypes, EndRequest, flash, tool
<1>2. TaskTypes'
  BY GoesType DEF Types, TaskTypes, EndRequest, Rests, Places, Flags
<1> QED BY <1>1, <1>2 DEF Types

\* What a connection brings next has the type of the bank.
LEMMA ChunkType ==
  ASSUME NEW n \in Nat, image \in Images, update \in ReceiveTypes,
         update.recv_fwsize + n <= BankSectors * SectorSize
  PROVE  /\ Chunk(n) \in Seq(Units) /\ Len(Chunk(n)) = n
         /\ \A k \in 1..n : Chunk(n)[k] = <<image, update.recv_fwsize + k>>
<1>1. update.recv_fwsize \in Nat
  BY DEF ReceiveTypes
<1>2. \A k \in 1..n : <<image, update.recv_fwsize + k>> \in Units
  BY <1>1, ConstantsAre DEF Units
<1> QED BY <1>2 DEF Chunk

\* The length of one receive.
LEMMA ReceivedLength ==
  ASSUME Types, NEW k \in 1..RecvMax,
         Smaller(k, ram.size - update.recv_fwsize) > 0
  PROVE  /\ Smaller(k, ram.size - update.recv_fwsize) \in Nat
         /\ Smaller(k, ram.size - update.recv_fwsize) <= SectorSize
         /\ update.recv_fwsize + Smaller(k, ram.size - update.recv_fwsize) <= ram.size
         /\ ram.size \in Sizes /\ ram.size <= BankSectors * SectorSize
<1>1. update.recv_fwsize \in Nat /\ ram.size \in {0} \cup Sizes
  BY ConfigFields DEF Types, FlashTypes, ToolTypes, ReceiveTypes
<1> QED BY <1>1, ConstantsAre DEF Smaller

\* The steps of an update.
LEMMA UpdatingTypes ==
  ASSUME Types, NEW c \in Channels, Updating(c)
  PROVE  Types'
<1>0. update \in ReceiveTypes
  BY DEF Types, ToolTypes
<1>1. CASE BeginUpdate(c)
  <2>a. IsConfig([ram EXCEPT !.size = 0])
    BY ConfigType DEF Types, FlashTypes
  <2>1. IsConfig(ram')
    BY <1>1, <2>a DEF Types, FlashTypes, BeginUpdate
  <2>b. [update EXCEPT !.write_fw_len = 0, !.f_addr = 0, !.buf = <<>>] \in ReceiveTypes
    BY <1>0, EmptySeq DEF ReceiveTypes
  <2>2. update' \in ReceiveTypes
    BY <1>0, <1>1, <2>b DEF BeginUpdate
  <2>3. FlashTypes'
    BY <1>1, <2>1 DEF Types, FlashTypes, BeginUpdate, flash
  <2>4. TaskTypes'
    BY <1>1, GoesType DEF Types, TaskTypes, BeginUpdate, Places
  <2>5. ToolTypes'
    <3>0. 0 \in 0..MaxConns
      BY ConstantsAre
    <3>1. sock' \in SocketStates /\ conns' \in 0..MaxConns /\ armed' \in BOOLEAN
      BY <1>1, <3>0 DEF Types, ToolTypes, BeginUpdate, SocketStates
    <3> QED BY <1>1, <2>2, <3>1 DEF Types, ToolTypes, BeginUpdate, tool
  <2> QED BY <2>3, <2>4, <2>5 DEF Types
<1>2. CASE OpenListener(c) \/ CloseWait(c)
  <2>1. update' \in ReceiveTypes
    BY <1>0, <1>2 DEF OpenListener, CloseWait, ReceiveTypes
  <2>2. FlashTypes' /\ TaskTypes'
    BY <1>2 DEF Types, FlashTypes, TaskTypes, OpenListener, CloseWait, flash, task
  <2>3. ToolTypes'
    BY <1>2, <2>1 DEF Types, ToolTypes, OpenListener, CloseWait, tool, SocketStates
  <2> QED BY <2>2, <2>3 DEF Types
<1>3. ASSUME NEW k \in 1..RecvMax, ReceiveChunk(c, k) PROVE Types'
  <2> DEFINE len == Smaller(k, ram.size - update.recv_fwsize)
  <2>1. len \in Nat /\ update.recv_fwsize + len <= BankSectors * SectorSize
    BY <1>0, <1>3, ReceivedLength, ConfigFields, ConstantsAre, SMTT(60)
    DEF ReceiveChunk, ReceiveTypes, Types, FlashTypes
  <2>2. update' = [update EXCEPT !.buf = update.buf \o Chunk(len),
                                 !.write_fw_len = update.write_fw_len + len,
                                 !.recv_fwsize = update.recv_fwsize + len]
    BY <1>3 DEF ReceiveChunk
  <2>3. Chunk(len) \in Seq(Units)
    BY <1>0, <2>1, ChunkType DEF Types, ToolTypes
  <2>4. \E place \in Places : Goes(c, place)
    BY <1>3 DEF ReceiveChunk, After, Places
  <2>5. UNCHANGED <<flash, ram, opmode, then, todo, ret, conns, reset, tool, crashes>>
        /\ armed' = TRUE /\ sock' \in {"CLOSED", sock}
    BY <1>3 DEF ReceiveChunk
  <2> HIDE DEF len
  <2>6. update' \in ReceiveTypes
    <3>1. update.buf \o Chunk(len) \in Seq(Units)
      BY <1>0, <2>3 DEF ReceiveTypes
    <3>2. update.write_fw_len + len \in Nat /\ update.recv_fwsize + len \in Nat
      BY <1>0, <2>1 DEF ReceiveTypes
    <3> QED BY <1>0, <2>2, <3>1, <3>2 DEF ReceiveTypes
  <2>7. FlashTypes' /\ ToolTypes'
    BY <2>5, <2>6 DEF Types, FlashTypes, ToolTypes, flash, tool, SocketStates
  <2>8. TaskTypes'
    BY <2>4, <2>5, GoesType DEF Types, TaskTypes
  <2> QED BY <2>7, <2>8 DEF Types
<1>4. CASE EraseBank(c)
  <2>1. bank' \in [Sizes -> Units]
    BY <1>4 DEF Types, FlashTypes, EraseBank, Units
  <2>2. FlashTypes' /\ ToolTypes'
    BY <1>4, <2>1 DEF Types, FlashTypes, ToolTypes, EraseBank, tool
  <2>3. TaskTypes'
    BY <1>4, GoesType DEF Types, TaskTypes, EraseBank, Places
  <2> QED BY <2>2, <2>3 DEF Types
<1>5. CASE ProgramBank(c)
  <2> DEFINE q == update.buf
             base == update.f_addr * SectorSize
  <2>1. q \in Seq(Units) /\ Len(q) \in Nat /\ base \in Nat
    BY <1>0, ConstantsAre DEF ReceiveTypes
  <2>2. bank' = [p \in Sizes |-> IF p \in (base + 1)..(base + Smaller(SectorSize, Len(q)))
                                 THEN q[p - base] ELSE bank[p]]
    BY <1>5 DEF ProgramBank
  <2>3. /\ update' = [update EXCEPT !.buf = SubSeq(q, SectorSize + 1, Len(q)), !.f_addr = @ + 1]
        /\ UNCHANGED <<nv, cert, main, ram, opmode, then, todo, ret, sock, conns, armed,
                       reset, tool, crashes>>
        /\ \E place \in Places : Goes(c, place)
    BY <1>5 DEF ProgramBank, Places
  <2> HIDE DEF q, base
  <2>4. bank' \in [Sizes -> Units]
    <3>1. ASSUME NEW p \in Sizes, p \in (base + 1)..(base + Smaller(SectorSize, Len(q)))
          PROVE  q[p - base] \in Units
      <4>1. p - base \in 1..Len(q)
        BY <2>1, <3>1, ConstantsAre DEF Smaller
      <4> QED BY <2>1, <4>1
    <3> QED BY <2>2, <3>1 DEF Types, FlashTypes
  <2>5. SubSeq(q, SectorSize + 1, Len(q)) \in Seq(Units)
    <3>1. \A k \in (SectorSize + 1)..Len(q) : q[k] \in Units
      BY <2>1, ConstantsAre
    <3> QED BY <2>1, <3>1, SubSeqProperties, ConstantsAre
  <2>6. update' \in ReceiveTypes
    <3>1. update.f_addr + 1 \in Nat
      BY <1>0 DEF ReceiveTypes
    <3> DEFINE rest == SubSeq(q, SectorSize + 1, Len(q))
    <3>2. rest \in Seq(Units) /\ update' = [update EXCEPT !.buf = rest, !.f_addr = @ + 1]
      BY <2>3, <2>5
    <3> HIDE DEF rest
    <3> QED BY <1>0, <3>1, <3>2 DEF ReceiveTypes
  <2>7. FlashTypes' /\ ToolTypes'
    BY <2>3, <2>4, <2>6 DEF Types, FlashTypes, ToolTypes, tool
  <2>8. TaskTypes'
    BY <2>3, GoesType DEF Types, TaskTypes
  <2> QED BY <2>7, <2>8 DEF Types
<1>6. CASE Received(c)
  <2>1. \/ ram' = [ram EXCEPT !.size = 0] /\ Goes(c, "reboot") /\ UNCHANGED then
        \/ ram' = ram /\ Goes(c, "bank erase") /\ UNCHANGED then
        \/ ram' = [ram EXCEPT !.copy = 1] /\ save_DevConfig_to_storage(c, "dead")
    BY <1>6 DEF Received
  <2>a. IsConfig([ram EXCEPT !.size = 0]) /\ IsConfig([ram EXCEPT !.copy = 1])
    BY ConfigType DEF Types, FlashTypes
  <2>2. IsConfig(ram')
    BY <2>1, <2>a DEF Types, FlashTypes
  <2>3. sock' \in SocketStates /\ armed' \in BOOLEAN
    BY <1>6 DEF Types, ToolTypes, Received, SocketStates
  <2>4. FlashTypes' /\ ToolTypes'
    BY <1>6, <2>2, <2>3 DEF Types, FlashTypes, ToolTypes, Received, flash, tool
  <2>5. at' \in [Channels -> Places] /\ then' \in [Channels -> Places]
    BY <2>1, GoesType DEF Types, TaskTypes, save_DevConfig_to_storage, Places
  <2>6. TaskTypes'
    BY <1>6, <2>5 DEF Types, TaskTypes, Received
  <2> QED BY <2>4, <2>6 DEF Types
<1> QED BY <1>1, <1>2, <1>3, <1>4, <1>5, <1>6 DEF Updating

\* The tool, the timer, the watchdog and the power supply.
LEMMA OutsideTypes ==
  ASSUME Types, ResetTimer \/ WatchdogReset \/ Outside
  PROVE  Types'
<1>1. CASE ResetTimer
  BY <1>1 DEF Types, FlashTypes, TaskTypes, ToolTypes, ResetTimer, flash, task, tool
<1>2. CASE ToolConnects \/ ToolCloses
  <2>1. conns' \in 0..MaxConns
    BY <1>2, ConstantsAre DEF Types, ToolTypes, ToolConnects, ToolCloses
  <2>2. FlashTypes' /\ TaskTypes'
    BY <1>2 DEF Types, FlashTypes, TaskTypes, ToolConnects, ToolCloses, flash, task
  <2>3. ToolTypes'
    BY <1>2, <2>1 DEF Types, ToolTypes, ToolConnects, ToolCloses, tool, SocketStates
  <2> QED BY <2>2, <2>3 DEF Types
<1>3. CASE WatchdogReset \/ PowerLoss
  <2>1. Restart /\ UNCHANGED <<flash, tool>> /\ crashes' \in 0..MaxCrashes
    BY <1>3, ConstantsAre DEF Types, ToolTypes, WatchdogReset, PowerLoss
  <2> QED BY <2>1, RestartTypes
<1> QED BY <1>1, <1>2, <1>3 DEF Outside

\* The initial values.
LEMMA InitTypes == AppInit => Types
<1> SUFFICES ASSUME AppInit PROVE Types
  OBVIOUS
<1>1. FlashTypes
  <2>1. IsConfig(nv) /\ IsConfig(ram)
    BY ErasedType, ConfigType DEF AppInit
  <2>2. bank \in [Sizes -> Units] /\ main \in 0..MaxImages
    BY ConstantsAre DEF AppInit, Units
  <2> QED BY <2>1, <2>2 DEF FlashTypes, AppInit
<1>2. TaskTypes
  BY OneCommandType DEF AppInit, TaskTypes, Places
<1>3. ToolTypes
  <2>1. NoUpdate \in ReceiveTypes /\ 0 \in 0..MaxConns /\ 0 \in 0..MaxCrashes /\ 1 \in Images
    BY ConstantsAre, EmptySeq DEF ReceiveTypes, NoUpdate, Images
  <2> QED BY <2>1 DEF AppInit, ToolTypes, SocketStates
<1> QED BY <1>1, <1>2, <1>3 DEF Types

\* The step relation keeps the types: what a tool may still send bounds the images.
LEMMA StepTypes ==
  ASSUME Types, Requested, [AppNext]_appVars
  PROVE  Types'
<1>1. CASE UNCHANGED appVars
  BY <1>1 DEF Types, FlashTypes, TaskTypes, ToolTypes, appVars, flash, task, tool
<1>2. CASE AppNext
  <2>1. ASSUME NEW c \in Channels, Works(c) \/ Requesting(c) PROVE Types'
    BY <2>1, SavingTypes, UpdatingTypes, CommandTypes, HandlerTypes, EndTypes, RequestingTypes
    DEF Works
  <2> QED BY <1>2, <2>1, StartTypes, OutsideTypes DEF AppNext
<1> QED BY <1>1, <1>2

-----------------------------------------------------------------------------
(* What the steps of one task do to the others, and to its own request.    *)

\* What follows the first command of a request.
LEMMA TailOf ==
  ASSUME NEW q \in Seq(Commands), q # <<>>
  PROVE  /\ OneUpdate(q) => OneUpdate(Tail(q))
         /\ NoUpdateIn(q) => NoUpdateIn(Tail(q))
         /\ NoFlagIn(q) => NoFlagIn(Tail(q))
         /\ \A S : Brings(Tail(q), S) => Brings(q, S)
         /\ OneUpdate(q) /\ q[1].cmd = "FW" =>
              NoUpdateIn(Tail(q)) /\ \A S : ~Brings(Tail(q), S)
<1>1. /\ Len(q) \in Nat /\ Len(q) >= 1 /\ Len(Tail(q)) = Len(q) - 1
      /\ \A k \in 1..Len(Tail(q)) : k + 1 \in 1..Len(q) /\ Tail(q)[k] = q[k + 1]
  OBVIOUS
<1>2. OneUpdate(q) => OneUpdate(Tail(q))
  BY <1>1 DEF OneUpdate
<1>3. NoUpdateIn(q) => NoUpdateIn(Tail(q))
  BY <1>1 DEF NoUpdateIn
<1>4. NoFlagIn(q) => NoFlagIn(Tail(q))
  BY <1>1 DEF NoFlagIn
<1>5. \A S : Brings(Tail(q), S) => Brings(q, S)
  BY <1>1 DEF Brings
<1>6. ASSUME OneUpdate(q), q[1].cmd = "FW", NEW k \in 1..Len(Tail(q))
      PROVE  Tail(q)[k].cmd # "FW"
  BY <1>1, <1>6 DEF OneUpdate
<1> QED BY <1>2, <1>3, <1>4, <1>5, <1>6 DEF NoUpdateIn, Brings

\* A request from a careful tool.
LEMMA CarefulRequest ==
  ASSUME Types, CarefulTools, NEW c \in Channels, NEW q \in load[c], TakeRequest(c, q)
  PROVE  /\ q \in Seq(Commands) /\ OneUpdate(q) /\ NoFlagIn(q)
         /\ Brings(q, Sizes) => image < MaxImages
         /\ NoUpdateIn(q) \/ \A d \in Channels : "FWUP" \notin ret[d]
<1>1. q \in Seq(Commands) /\ OneUpdate(q) /\ NoFlagIn(q)
  BY ConstantsAre DEF Types, ToolTypes, CarefulTools
<1>2. ASSUME ~NoUpdateIn(q) PROVE Brings(q, {0, TooBig} \cup Sizes)
  <2>1. PICK k \in 1..Len(q) : q[k].cmd = "FW" /\ ~q[k].asks
    BY <1>2 DEF NoUpdateIn
  <2>2. q[k].arg \in {0, TooBig} \cup Sizes
    BY <1>1, <2>1, CommandParameters
  <2> QED BY <2>1, <2>2 DEF Brings
<1> QED BY <1>1, <1>2 DEF TakeRequest, UpdateUnderWay

\* A task moves itself only; it does not stop, and a save of its ends where it was
\* to go on.
TaskMove(c) ==
  /\ \A d \in Channels : d # c => at'[d] = at[d] /\ then'[d] = then[d] /\ ret'[d] = ret[d]
  /\ at[c] \notin {"off", "dead"} /\ at'[c] # "off"
  /\ Saves(c)' => then'[c] \in {"fw", "cert erase", "dead"}
  /\ Saves(c) => /\ ret'[c] = ret[c]
                 /\ (Saves(c)' /\ then'[c] = then[c]) \/ at'[c] = then[c]

LEMMA SavingMoves ==
  ASSUME Types, Resumes, NEW c \in Channels, Saving(c)
  PROVE  TaskMove(c) /\ ret' = ret /\ todo' = todo
<1>1. CASE EraseSector(c)
  BY <1>1, GoesType DEF Types, TaskTypes, Resumes, TaskMove, EraseSector, Saves, Places
<1>2. CASE ProgramFirst(c)
  BY <1>2, GoesType DEF Types, TaskTypes, Resumes, TaskMove, ProgramFirst, Saves, Places
<1>3. CASE ProgramSecond(c)
  BY <1>3, GoesType DEF Types, TaskTypes, Resumes, TaskMove, ProgramSecond, Saves, Places
<1>4. CASE EraseCertificate(c) \/ WriteCertificate(c)
  BY <1>4, GoesType
  DEF Types, TaskTypes, TaskMove, EraseCertificate, WriteCertificate, Saves, Places
<1> QED BY <1>1, <1>2, <1>3, <1>4 DEF Saving

LEMMA RequestingMoves ==
  ASSUME Types, NEW c \in Channels, Requesting(c)
  PROVE  TaskMove(c) /\ ret' = ret
<1>1. ASSUME NEW q \in load[c], TakeRequest(c, q) PROVE TaskMove(c) /\ ret' = ret
  BY <1>1, GoesType DEF Types, TaskTypes, TaskMove, TakeRequest, Saves, Places
<1>2. CASE TakeForeign(c)
  BY <1>2 DEF Types, TaskTypes, TaskMove, TakeForeign, Saves
<1> QED BY <1>1, <1>2 DEF Requesting

LEMMA CommandMoves ==
  ASSUME Types, NEW c \in Channels, Command(c)
  PROVE  /\ TaskMove(c)
         /\ "FWUP" \in ret[c] => "FWUP" \in ret'[c]
         /\ at'[c] \in {"command", "handle", "erase"}
         /\ at'[c] = "erase" => then'[c] = "cert erase"
         /\ "FWUP" \in ret'[c] /\ "FWUP" \notin ret[c] =>
              todo # <<>> /\ Firmware(c, Head(todo)) /\ Head(todo).arg # TooBig
<1>1. CASE todo = <<>>
  BY <1>1, GoesType DEF Types, TaskTypes, TaskMove, Command, Saves, Places
<1>2. CASE todo # <<>>
  <2> DEFINE d == Head(todo)
  <2>1. d \in Commands
    BY <1>2 DEF Types, TaskTypes
  <2>2. /\ at[c] = "command"
        /\ Setting(c, d) \/ Query(c, d) \/ CopyFlag(c, d) \/ Firmware(c, d)
           \/ Certificate(c, d)
    BY <1>2 DEF Command
  <2> HIDE DEF d
  <2>3. ASSUME NEW flags \in SUBSET Flags, Raises(c, flags), Proceeds(c)
        PROVE  /\ TaskMove(c) /\ at'[c] \in {"command", "handle"}
               /\ ret'[c] = ret[c] \cup flags
    BY <2>2, <2>3, ProceedsType DEF Types, TaskTypes, TaskMove, Saves
  <2>4. CASE Setting(c, d)
    <3>1. PICK flags \in {{}, {"ERR"}} : Raises(c, flags) /\ Proceeds(c)
      BY <2>4 DEF Setting
    <3>2. flags \in SUBSET Flags
      BY DEF Flags
    <3> QED BY <2>3, <3>1, <3>2
  <2>5. CASE Query(c, d)
    <3>1. Raises(c, Asked(d.cmd, ram.set["LP"])) /\ Proceeds(c)
      BY <2>5 DEF Query
    <3>2. Asked(d.cmd, ram.set["LP"]) \in SUBSET Flags /\ "FWUP" \notin Asked(d.cmd, ram.set["LP"])
      BY AskedType
    <3> QED BY <2>3, <3>1, <3>2
  <2>6. CASE CopyFlag(c, d)
    <3>1. Raises(c, {}) /\ Proceeds(c) /\ {} \in SUBSET Flags
      BY <2>6 DEF CopyFlag
    <3> QED BY <2>3, <3>1
  <2>7. CASE Firmware(c, d)
    <3>1. PICK flags \in {{"FWUP"}, {"ERR"}} :
            Raises(c, flags) /\ Proceeds(c) /\ (flags = {"FWUP"} => d.arg # TooBig)
      BY <2>7 DEF Firmware
    <3>2. flags \in SUBSET Flags
      BY DEF Flags
    <3> QED BY <1>2, <2>3, <2>7, <3>1, <3>2 DEF d
  <2>8. CASE Certificate(c, d)
    <3>1. CASE "ERR" \in ret[c]
      BY <2>2, <2>8, <3>1, GoesType DEF Types, TaskTypes, TaskMove, Certificate, Saves, Places
    <3>2. CASE "ERR" \notin ret[c]
      <4>1. PICK flags \in {{}, {"ERR"}} :
              /\ Raises(c, flags)
              /\ \/ Proceeds(c)
                 \/ Goes(c, "handle") /\ UNCHANGED then
                 \/ save_DevConfig_to_storage(c, "cert erase")
        BY <2>1, <2>8, <3>2, CommandParameters DEF Certificate
      <4>2. flags \in SUBSET Flags
        BY DEF Flags
      <4>3. CASE Proceeds(c)
        BY <2>3, <4>1, <4>2, <4>3
      <4>4. /\ ret'[c] = ret[c] \cup flags
            /\ \A x \in Channels : x # c => ret'[x] = ret[x]
        BY <4>1 DEF Types, TaskTypes, Raises
      <4>5. CASE Goes(c, "handle") /\ UNCHANGED then
        BY <2>2, <4>1, <4>4, <4>5, GoesType DEF Types, TaskMove, Saves, Places
      <4>6. CASE save_DevConfig_to_storage(c, "cert erase")
        BY <2>2, <4>1, <4>4, <4>6, GoesType
        DEF Types, TaskTypes, TaskMove, Saves, Places, save_DevConfig_to_storage
      <4> QED BY <4>1, <4>3, <4>5, <4>6
    <3> QED BY <3>1, <3>2
  <2> QED BY <2>2, <2>4, <2>5, <2>6, <2>7, <2>8
<1> QED BY <1>1, <1>2

LEMMA HandlerMoves ==
  ASSUME Types, NEW c \in Channels, segcp_ret_handler(c) \/ EndRequest(c)
  PROVE  /\ TaskMove(c) /\ ret'[c] \in {{}, ret[c]} /\ ~Saves(c)
         /\ at'[c] \in {"wait", "fw", "erase", "dead"}
         /\ at'[c] = "erase" => then'[c] = "fw"
         /\ todo' = todo
<1>1. CASE segcp_ret_handler(c)
  <2>1. CASE ret[c] = {} \/ "ERR" \in ret[c]
    BY <1>1, <2>1, GoesType
    DEF Types, TaskTypes, TaskMove, segcp_ret_handler, Rests, Saves, Places
  <2>2. CASE ~(ret[c] = {} \/ "ERR" \in ret[c])
    <3>1. /\ at[c] = "handle" /\ ret' = ret /\ todo' = todo
          /\ \/ save_DevConfig_to_storage(c, "fw")
             \/ Goes(c, "fw") /\ UNCHANGED then
      BY <1>1, <2>2 DEF segcp_ret_handler
    <3> QED BY <3>1, GoesType
        DEF Types, TaskTypes, TaskMove, Saves, Places, save_DevConfig_to_storage
  <2> QED BY <2>1, <2>2
<1>2. CASE EndRequest(c)
  BY <1>2, GoesType DEF Types, TaskTypes, TaskMove, EndRequest, Rests, Saves, Places
<1> QED BY <1>1, <1>2

LEMMA UpdatingMoves ==
  ASSUME Types, NEW c \in Channels, Updating(c)
  PROVE  TaskMove(c) /\ ret' = ret /\ todo' = todo /\ ~Saves(c)
<1>1. CASE BeginUpdate(c)
  BY <1>1, GoesType DEF Types, TaskTypes, TaskMove, BeginUpdate, Saves, Places
<1>2. CASE OpenListener(c) \/ CloseWait(c)
  BY <1>2 DEF Types, TaskTypes, TaskMove, OpenListener, CloseWait, task, Receiving, Saves
<1>3. ASSUME NEW k \in 1..RecvMax, ReceiveChunk(c, k)
      PROVE  TaskMove(c) /\ ret' = ret /\ todo' = todo /\ ~Saves(c)
  <2>1. /\ at[c] = "update" /\ ret' = ret /\ todo' = todo /\ then' = then
        /\ \E place \in {"bank erase", "update", "received"} : Goes(c, place)
    BY <1>3 DEF ReceiveChunk, Receiving, After
  <2> QED BY <2>1, GoesType DEF Types, TaskTypes, TaskMove, Saves, Places
<1>4. CASE EraseBank(c) \/ ProgramBank(c)
  <2>1. /\ at[c] \in {"bank erase", "bank program"} /\ ret' = ret /\ todo' = todo /\ then' = then
        /\ \E place \in {"bank program", "update", "received"} : Goes(c, place)
    BY <1>4 DEF EraseBank, ProgramBank
  <2> QED BY <2>1, GoesType DEF Types, TaskTypes, TaskMove, Saves, Places
<1>5. CASE Received(c)
  <2>1. /\ at[c] = "received" /\ ret' = ret /\ todo' = todo
        /\ \/ \E place \in {"reboot", "bank erase"} : Goes(c, place) /\ then' = then
           \/ save_DevConfig_to_storage(c, "dead")
    BY <1>5 DEF Received
  <2> QED BY <2>1, GoesType
      DEF Types, TaskTypes, TaskMove, Saves, Places, save_DevConfig_to_storage
<1> QED BY <1>1, <1>2, <1>3, <1>4, <1>5 DEF Updating

\* All of them.
LEMMA TaskMoves ==
  ASSUME Types, Resumes, NEW c \in Channels, Works(c) \/ Requesting(c)
  PROVE  TaskMove(c)
<1>1. CASE Saving(c)
  BY <1>1, SavingMoves
<1>2. CASE Updating(c)
  BY <1>2, UpdatingMoves
<1>3. CASE Command(c)
  BY <1>3, CommandMoves
<1>4. CASE segcp_ret_handler(c) \/ EndRequest(c)
  BY <1>4, HandlerMoves
<1>5. CASE Requesting(c)
  BY <1>5, RequestingMoves
<1> QED BY <1>1, <1>2, <1>3, <1>4, <1>5 DEF Works

-----------------------------------------------------------------------------
(* The parts of the invariant, one after the other.                        *)

\* A reset takes every request with it, and nothing is due but what is stored.
LEMMA RestartKeeps ==
  ASSUME UpdateInv, Restart, UNCHANGED <<flash, tool>>
  PROVE  Resumes' /\ Requested' /\ Single' /\ Receives' /\ Due'
<1>1. /\ \A c \in Channels : at'[c] = "off" /\ ret'[c] = {}
      /\ todo' = <<>> /\ ram' = Erased /\ nv' = nv /\ bank' = bank /\ size' = size
      /\ image' = image
  BY DEF Restart, flash, tool
<1>2. Resumes'
  BY <1>1 DEF Resumes, Saves
<1>3. Requested'
  BY <1>1 DEF Requested, OneUpdate, NoFlagIn, Brings
<1>4. Single'
  BY <1>1 DEF Single
<1>5. Receives'
  BY <1>1 DEF Receives, Updates
<1>6. Due'
  <2>1. ram'.copy # 1 /\ Off'
    BY <1>1, ErasedType DEF Off
  <2>2. WholeImage(nv.size) => WholeImage(nv.size)'
    BY <1>1 DEF WholeImage, Holds
  <2> QED BY <1>1, <2>1, <2>2 DEF UpdateInv, Due
<1> QED BY <1>2, <1>3, <1>4, <1>5, <1>6

\* The start: no task is at work, and no copy is due any more.
LEMMA StartKeeps ==
  ASSUME UpdateInv, Start
  PROVE  Resumes' /\ Requested' /\ Single' /\ Receives' /\ Due'
<1>1. /\ Off /\ \A c \in Channels : ret'[c] = {}
      /\ todo' = todo /\ image' = image /\ size' = size /\ bank' = bank
  BY DEF UpdateInv, Resumes, Start, BankCopy, load_DevConfig_from_storage, task, tool, flash
<1>2. Requested'
  BY <1>1 DEF UpdateInv, Requested, OneUpdate, NoFlagIn, Brings
<1>3. Single'
  BY <1>1 DEF Single
<1>4. CASE BankCopy
  <2>1. at' = at /\ then' = then /\ ram' = ram /\ nv'.copy = 0
    BY <1>4, ConfigFields DEF BankCopy, task, UpdateInv, Types, FlashTypes
  <2>2. Resumes' /\ Receives'
    BY <1>1, <2>1 DEF UpdateInv, Resumes, Receives, Off, Saves, Updates
  <2>3. ram.copy # 1
    BY <1>1 DEF UpdateInv, Due, Done, Off, Saves
  <2> QED BY <1>2, <1>3, <2>1, <2>2, <2>3 DEF Due
<1>5. CASE load_DevConfig_from_storage
  <2>1. nv' = nv /\ nv.copy # 1 /\ ram'.copy = nv.copy
    BY <1>5, ConfigFields DEF load_DevConfig_from_storage, flash, UpdateInv, Types, FlashTypes
  <2>2. \A c \in Channels : at'[c] \in {"wait", "off"} \/ (at'[c] = "erase" /\ then'[c] = "dead")
    BY <1>1, <1>5 DEF load_DevConfig_from_storage, UpdateInv, Types, TaskTypes, Off
  <2>3. Resumes' /\ Receives'
    BY <1>1, <2>2 DEF Resumes, Receives, Saves, Updates
  <2> QED BY <1>2, <1>3, <2>1, <2>3 DEF Due
<1> QED BY <1>4, <1>5 DEF Start

\* Every step of a task keeps where a save goes on.
LEMMA ResumesKept ==
  ASSUME Types, Resumes, NEW c \in Channels, Works(c) \/ Requesting(c)
  PROVE  Resumes'
<1>1. TaskMove(c)
  BY TaskMoves
<1>2. ASSUME NEW d \in Channels, Saves(d)' PROVE then'[d] \in {"fw", "cert erase", "dead"}
  BY <1>1, <1>2 DEF TaskMove, Resumes, Saves
<1>3. ~Off'
  BY <1>1 DEF TaskMove, Off
<1> QED BY <1>2, <1>3 DEF Resumes

\* What a step of a task leaves of a request.
LEMMA RequestedKept ==
  ASSUME UpdateInv, CarefulTools, NEW c \in Channels, Works(c) \/ Requesting(c)
  PROVE  Requested'
<1>1. CASE UNCHANGED <<todo, image>>
  BY <1>1 DEF UpdateInv, Requested, OneUpdate, NoFlagIn, Brings
<1>2. ASSUME NEW q \in load[c], TakeRequest(c, q) PROVE Requested'
  <2>1. OneUpdate(q) /\ NoFlagIn(q) /\ (Brings(q, Sizes) => image < MaxImages)
    BY <1>2, CarefulRequest DEF UpdateInv
  <2>2. todo' = q /\ image' = image
    BY <1>2 DEF TakeRequest, tool
  <2> QED BY <2>1, <2>2 DEF Requested, OneUpdate, NoFlagIn, Brings
<1>3. CASE TakeForeign(c)
  <2>1. todo' \in {<<>>, <<Asks("unknown")>>}
    BY <1>3 DEF TakeForeign
  <2>2. ASSUME NEW k \in 1..Len(todo') PROVE k = 1 /\ todo'[k].cmd = "unknown"
    <3> DEFINE d == Asks("unknown")
    <3>1. d.cmd = "unknown"
      BY DEF Asks
    <3> HIDE DEF d
    <3>2. todo' = <<>> \/ todo' = <<d>>
      BY <2>1 DEF d
    <3>3. CASE todo' = <<>>
      <4>1. Len(todo') = 0
        BY <3>3
      <4> QED BY <2>2, <4>1
    <3>4. CASE todo' = <<d>>
      <4>1. Len(todo') = 1 /\ todo'[1] = d
        BY <3>4
      <4> QED BY <2>2, <3>1, <4>1
    <3> QED BY <3>2, <3>3, <3>4
  <2> QED BY <2>2 DEF Requested, OneUpdate, NoFlagIn, Brings
<1>4. CASE Command(c) /\ todo # <<>>
  <2> DEFINE q == Tail(todo)
  <2>1. todo \in Seq(Commands) /\ todo' = q /\ todo[1] = Head(todo)
    BY <1>4 DEF UpdateInv, Types, TaskTypes, Command
  <2>2. OneUpdate(todo) /\ NoFlagIn(todo) /\ (Brings(todo, Sizes) => image < MaxImages)
    BY DEF UpdateInv, Requested
  <2>3. OneUpdate(q) /\ NoFlagIn(q) /\ (Brings(q, Sizes) => Brings(todo, Sizes))
    BY <1>4, <2>1, <2>2, TailOf
  <2>4. image' = image \/ Firmware(c, Head(todo))
    BY <1>4 DEF Command, Setting, Query, CopyFlag, Certificate, tool
  <2>5. Brings(q, Sizes) => image' = image
    BY <1>4, <2>1, <2>2, <2>4, TailOf DEF Firmware
  <2> HIDE DEF q
  <2>6. OneUpdate(todo') /\ NoFlagIn(todo') /\ (Brings(todo', Sizes) => image' < MaxImages)
    BY <2>1, <2>2, <2>3, <2>5
  <2> QED BY <2>6 DEF Requested, OneUpdate, NoFlagIn, Brings
<1>5. CASE Command(c) /\ todo = <<>>
  BY <1>1, <1>5 DEF Command, tool
<1>6. CASE Saving(c) \/ Updating(c) \/ segcp_ret_handler(c) \/ EndRequest(c)
  <2>1. Saving(c) => UNCHANGED <<todo, image>>
    BY DEF Saving, EraseSector, ProgramFirst, ProgramSecond, EraseCertificate,
                WriteCertificate, tool
  <2>2. Updating(c) => UNCHANGED <<todo, image>>
    BY UpdatingMoves DEF UpdateInv, Updating, BeginUpdate, OpenListener, CloseWait,
       ReceiveChunk, EraseBank, ProgramBank, Received, tool
  <2>3. segcp_ret_handler(c) \/ EndRequest(c) => UNCHANGED <<todo, image>>
    BY DEF segcp_ret_handler, EndRequest, tool
  <2> QED BY <1>1, <1>6, <2>1, <2>2, <2>3
<1> QED BY <1>2, <1>3, <1>4, <1>5, <1>6 DEF Works, Requesting

\* A command other than FW keeps the size that is announced.
LEMMA CommandSizes ==
  ASSUME Types, NEW c \in Channels, Command(c)
  PROVE  \/ size' = size /\ image' = image /\ ram'.size = ram.size
         \/ todo # <<>> /\ Firmware(c, Head(todo))
<1>0. IsConfig(ram)
  BY DEF Types, FlashTypes
<1>1. CASE todo = <<>>
  BY <1>1 DEF Command, tool
<1>2. CASE todo # <<>>
  <2> DEFINE d == Head(todo)
  <2>1. Setting(c, d) \/ Query(c, d) \/ CopyFlag(c, d) \/ Firmware(c, d) \/ Certificate(c, d)
    BY <1>2 DEF Command
  <2> HIDE DEF d
  <2>2. CASE Setting(c, d)
    <3>1. PICK v : ram' = IF v # Refused /\ d.cmd \in Settings
                          THEN [ram EXCEPT !.set[d.cmd] = v] ELSE ram
      BY <2>2 DEF Setting
    <3>2. ram'.size = ram.size
      BY <1>0, <3>1 DEF IsConfig, StoredAs
    <3> QED BY <2>2, <3>2 DEF Setting, tool
  <2>3. CASE Query(c, d)
    BY <2>3 DEF Query, tool
  <2>4. CASE CopyFlag(c, d)
    <3>1. ram' = ram \/ ram' = [ram EXCEPT !.copy = d.arg]
      BY <2>4 DEF CopyFlag
    <3>2. ram'.size = ram.size
      BY <1>0, <3>1 DEF IsConfig, StoredAs
    <3> QED BY <2>4, <3>2 DEF CopyFlag, tool
  <2>5. CASE Certificate(c, d)
    <3>1. ram' = ram \/ ram' = [ram EXCEPT !.ca = d.arg]
      BY <2>5 DEF Certificate
    <3>2. ram'.size = ram.size
      BY <1>0, <3>1 DEF IsConfig, StoredAs
    <3> QED BY <2>5, <3>2 DEF Certificate, tool
  <2> QED BY <1>2, <2>1, <2>2, <2>3, <2>4, <2>5 DEF d
<1> QED BY <1>1, <1>2

\* So does every other step of a task, or it takes the size back.
LEMMA StepSizes ==
  ASSUME Types, NEW c \in Channels, Works(c) \/ Requesting(c)
  PROVE  \/ size' = size /\ image' = image /\ ram'.size \in {ram.size, 0}
         \/ Command(c) /\ todo # <<>> /\ Firmware(c, Head(todo))
<1>0. IsConfig(ram)
  BY DEF Types, FlashTypes
<1>1. CASE Saving(c)
  BY <1>1 DEF Saving, EraseSector, ProgramFirst, ProgramSecond, EraseCertificate,
              WriteCertificate, tool
<1>2. CASE Updating(c)
  <2>1. ram' = ram \/ ram' = [ram EXCEPT !.size = 0] \/ ram' = [ram EXCEPT !.copy = 1]
    BY <1>2 DEF Updating, BeginUpdate, OpenListener, CloseWait, ReceiveChunk, EraseBank,
                ProgramBank, Received
  <2>2. size' = size /\ image' = image
    BY <1>2 DEF Updating, BeginUpdate, OpenListener, CloseWait, ReceiveChunk, EraseBank,
                ProgramBank, Received, tool
  <2> QED BY <1>0, <2>1, <2>2 DEF IsConfig, StoredAs
<1>3. CASE Command(c)
  BY <1>3, CommandSizes
<1>4. CASE segcp_ret_handler(c)
  <2>1. ram' = ram \/ ram' = set_DevConfig_to_factory_value(ram)
    BY <1>4 DEF segcp_ret_handler
  <2> QED BY <1>0, <1>4, <2>1, ConfigFields DEF segcp_ret_handler, tool
<1>5. CASE EndRequest(c) \/ Requesting(c)
  BY <1>5 DEF EndRequest, Requesting, TakeRequest, TakeForeign, tool
<1> QED BY <1>1, <1>2, <1>3, <1>4, <1>5 DEF Works

\* A step that announces no image leaves nobody a new update, and nothing to read
\* that would announce one while an update is under way.
LEMMA AnnouncesNone ==
  ASSUME UpdateInv, CarefulTools, NEW c \in Channels, Works(c) \/ Requesting(c),
         ~(Command(c) /\ todo # <<>> /\ Firmware(c, Head(todo))),
         NEW d \in Channels, "FWUP" \in ret'[d]
  PROVE  "FWUP" \in ret[d] /\ NoUpdateIn(todo')
<1>1. TaskMove(c)
  BY TaskMoves DEF UpdateInv
<1>2. "FWUP" \in ret[d]
  <2>1. CASE d = c
    <3>1. CASE Saving(c) \/ Updating(c) \/ Requesting(c)
      BY <2>1, <3>1, SavingMoves, UpdatingMoves, RequestingMoves DEF UpdateInv
    <3>2. CASE Command(c)
      BY <2>1, <3>2, CommandMoves DEF UpdateInv
    <3>3. CASE segcp_ret_handler(c) \/ EndRequest(c)
      BY <2>1, <3>3, HandlerMoves DEF UpdateInv
    <3> QED BY <3>1, <3>2, <3>3 DEF Works
  <2> QED BY <1>1, <2>1 DEF TaskMove
<1>3. NoUpdateIn(todo)
  BY <1>2 DEF UpdateInv, Single
<1>4. CASE Saving(c) \/ Updating(c)
  BY <1>3, <1>4, SavingMoves, UpdatingMoves DEF UpdateInv, NoUpdateIn
<1>5. CASE segcp_ret_handler(c) \/ EndRequest(c)
  <2>1. todo' = todo
    BY <1>5, HandlerMoves DEF UpdateInv
  <2> QED BY <1>2, <1>3, <2>1 DEF NoUpdateIn
<1>6. CASE Command(c)
  <2>1. todo' = todo \/ (todo # <<>> /\ todo' = Tail(todo))
    BY <1>6 DEF Command
  <2>2. todo \in Seq(Commands)
    BY DEF UpdateInv, Types, TaskTypes
  <2>3. todo # <<>> => NoUpdateIn(Tail(todo))
    BY <1>3, <2>2, TailOf
  <2>4. CASE todo' = todo
    BY <1>2, <1>3, <2>4 DEF NoUpdateIn
  <2>5. CASE todo # <<>> /\ todo' = Tail(todo)
    BY <1>2, <2>3, <2>5 DEF NoUpdateIn
  <2> QED BY <2>1, <2>4, <2>5
<1>7. ASSUME NEW q \in load[c], TakeRequest(c, q) PROVE NoUpdateIn(todo')
  <2>1. NoUpdateIn(q)
    BY <1>2, <1>7, CarefulRequest DEF UpdateInv
  <2> QED BY <1>7, <2>1 DEF TakeRequest, NoUpdateIn
<1>8. CASE TakeForeign(c)
  <2>1. NoUpdateIn(<<>>)
    BY DEF NoUpdateIn
  <2>2. NoUpdateIn(<<Asks("unknown")>>)
    <3> DEFINE x == Asks("unknown")
    <3>1. x.cmd # "FW"
      BY DEF Asks
    <3> HIDE DEF x
    <3>2. NoUpdateIn(<<x>>)
      BY <3>1 DEF NoUpdateIn
    <3> QED BY <3>2 DEF x
  <2> QED BY <1>8, <2>1, <2>2 DEF TakeForeign, NoUpdateIn
<1> QED BY <1>2, <1>4, <1>5, <1>6, <1>7, <1>8 DEF Works, Requesting

\* One update at a time: the second is not announced while the first has its flag.
LEMMA SingleKept ==
  ASSUME UpdateInv, CarefulTools, NEW c \in Channels, Works(c) \/ Requesting(c)
  PROVE  Single'
<1>1. TaskMove(c)
  BY TaskMoves DEF UpdateInv
<1>2. CASE Command(c) /\ todo # <<>> /\ Firmware(c, Head(todo))
  <2> DEFINE d == Head(todo)
  <2>1. todo \in Seq(Commands) /\ d \in Commands /\ d = todo[1] /\ 1 \in 1..Len(todo)
        /\ d.cmd = "FW" /\ ~d.asks /\ todo' = Tail(todo)
    BY <1>2 DEF UpdateInv, Types, TaskTypes, Firmware, Command
  <2>2. \A x \in Channels : "FWUP" \notin ret[x]
    BY <2>1 DEF UpdateInv, Single, NoUpdateIn
  <2>3. \A x \in Channels : "FWUP" \in ret'[x] => x = c
    BY <1>1, <2>2 DEF TaskMove
  <2>4. NoUpdateIn(Tail(todo))
    BY <1>2, <2>1, TailOf DEF UpdateInv, Requested
  <2>5. d.arg \in {0, TooBig} \cup Sizes
    BY <2>1, CommandParameters
  <2>6. d.arg \in Sizes => image < MaxImages
    BY <2>1 DEF UpdateInv, Requested, Brings
  <2>7. /\ ram' = [ram EXCEPT !.size = IF d.arg = TooBig THEN 0 ELSE d.arg]
        /\ image' = IF d.arg \in Sizes THEN image + 1 ELSE image
        /\ size' = IF d.arg \in Sizes THEN [size EXCEPT ![image + 1] = d.arg] ELSE size
    BY <1>2 DEF Firmware
  <2>8. ram'.size # 0 => d.arg \in Sizes /\ ram'.size = d.arg
    BY <2>5, <2>7, ConfigFields DEF UpdateInv, Types, FlashTypes
  <2>9. d.arg \in Sizes => size'[image'] = d.arg
    BY <2>6, <2>7, ConstantsAre DEF UpdateInv, Types, ToolTypes, Images
  <2> HIDE DEF d
  <2>10. ram'.size # 0 => size'[image'] = ram'.size
    BY <2>8, <2>9
  <2>11. NoUpdateIn(todo')
    BY <2>1, <2>4 DEF NoUpdateIn
  <2> QED BY <2>3, <2>10, <2>11 DEF Single, NoUpdateIn
<1>3. CASE ~(Command(c) /\ todo # <<>> /\ Firmware(c, Head(todo)))
  <2>1. size' = size /\ image' = image /\ ram'.size \in {ram.size, 0}
    BY <1>3, StepSizes DEF UpdateInv
  <2>2. \A d \in Channels : "FWUP" \in ret'[d] => "FWUP" \in ret[d] /\ NoUpdateIn(todo')
    BY <1>3, AnnouncesNone
  <2> QED BY <2>1, <2>2 DEF UpdateInv, Single, NoUpdateIn
<1> QED BY <1>2, <1>3

\* A step of a task that is not the update's: it leaves the update alone, unless
\* it announces the next one, and it does not enter one.
Aside(c) == Saving(c) \/ Command(c) \/ segcp_ret_handler(c) \/ EndRequest(c) \/ Requesting(c)

LEMMA AsideKeeps ==
  ASSUME Types, Resumes, NEW c \in Channels, Aside(c)
  PROVE  /\ ~Updates(c)'
         /\ UNCHANGED <<bank, update, sock, conns>>
         /\ \/ size' = size /\ image' = image /\ ram'.size = ram.size
            \/ Command(c) /\ todo # <<>> /\ Firmware(c, Head(todo))
<1>0. IsConfig(ram)
  BY DEF Types, FlashTypes
<1>1. CASE Saving(c)
  <2>1. TaskMove(c) /\ at'[c] \in {"program", "second page", "cert write", "handle", then[c]}
    BY <1>1, SavingMoves, GoesType, ZenonT(60) DEF Types, TaskTypes, Saving, EraseSector, ProgramFirst,
       ProgramSecond, EraseCertificate, WriteCertificate, Places
  <2>2. ~Updates(c)'
    <3>1. CASE ProgramSecond(c)
      <4>1. then[c] \in {"fw", "cert erase", "dead"} /\ at'[c] = then[c]
        BY <3>1, GoesType DEF Types, TaskTypes, Resumes, Saves, ProgramSecond
      <4> QED BY <4>1 DEF Updates
    <3>2. CASE ~ProgramSecond(c)
      BY <1>1, <3>2, GoesType DEF Types, TaskTypes, Saving, EraseSector, ProgramFirst,
         EraseCertificate, WriteCertificate, Places, Updates
    <3> QED BY <3>1, <3>2
  <2>3. UNCHANGED <<bank, update, sock, conns, size, image, ram>>
    BY <1>1 DEF Saving, EraseSector, ProgramFirst, ProgramSecond, EraseCertificate,
                WriteCertificate, tool
  <2> QED BY <2>2, <2>3
<1>2. CASE Command(c)
  <2>1. ~Updates(c)'
    BY <1>2, CommandMoves DEF Updates
  <2>2. UNCHANGED <<bank, update, sock, conns>>
    BY <1>2 DEF Command, flash
  <2> QED BY <1>2, <2>1, <2>2, CommandSizes
<1>3. CASE segcp_ret_handler(c)
  <2>1. ram' = ram \/ ram' = set_DevConfig_to_factory_value(ram)
    BY <1>3 DEF segcp_ret_handler
  <2>2. ~Updates(c)'
    BY <1>3, HandlerMoves DEF Updates
  <2> QED BY <1>0, <1>3, <2>1, <2>2, ConfigFields DEF segcp_ret_handler, tool
<1>4. CASE EndRequest(c)
  <2>1. ~Updates(c)'
    BY <1>4, HandlerMoves DEF Updates
  <2> QED BY <1>4, <2>1 DEF EndRequest, tool, flash
<1>5. CASE Requesting(c)
  <2>1. at'[c] \in {"wait", "command"}
    BY <1>5, GoesType DEF Types, TaskTypes, Requesting, TakeRequest, TakeForeign, Places
  <2>2. UNCHANGED <<bank, update, sock, conns, size, image, ram>>
    BY <1>5 DEF Requesting, TakeRequest, TakeForeign, tool, flash
  <2> QED BY <2>1, <2>2 DEF Updates
<1> QED BY <1>1, <1>2, <1>3, <1>4, <1>5 DEF Aside

\* The task of a step of the update has its flag.
LEMMA UpdatingFlag ==
  ASSUME UpdateInv, NEW c \in Channels, Updating(c)
  PROVE  /\ "FWUP" \in ret[c] /\ at[c] # "dead" /\ ~Saves(c)
         /\ Updates(c) \/ BeginUpdate(c)
<1>1. Updates(c) \/ BeginUpdate(c)
  BY DEF Updating, OpenListener, CloseWait, ReceiveChunk, EraseBank, ProgramBank, Received,
         Receiving, Updates
<1> QED BY <1>1 DEF UpdateInv, Receives, Updates, BeginUpdate, Saves

\* Nobody announces a new image while a task has its flag.
LEMMA NotAnnounced ==
  ASSUME UpdateInv, NEW c \in Channels, NEW d \in Channels, "FWUP" \in ret[d]
  PROVE  ~(Command(c) /\ todo # <<>> /\ Firmware(c, Head(todo)))
<1> SUFFICES ASSUME todo # <<>>, Firmware(c, Head(todo)) PROVE FALSE
  OBVIOUS
<1>1. todo \in Seq(Commands) /\ Head(todo) = todo[1] /\ 1 \in 1..Len(todo)
  BY DEF UpdateInv, Types, TaskTypes
<1>2. todo[1].cmd = "FW" /\ ~todo[1].asks
  BY <1>1 DEF Firmware
<1> QED BY <1>1, <1>2 DEF UpdateInv, Single, NoUpdateIn

\* The product of a sector number.
LEMMA NextSector ==
  ASSUME NEW f \in Nat
  PROVE  f * SectorSize \in Nat /\ (f + 1) * SectorSize = f * SectorSize + SectorSize
<1>1. SectorSize \in Nat
  BY ConstantsAre
<1> QED BY <1>1

\* What a task of an update knows.
LEMMA UpdateKnows ==
  ASSUME UpdateInv, NEW c \in Channels, Updates(c)
  PROVE  /\ "FWUP" \in ret[c] /\ Counted /\ Listened /\ Placed(at[c])
         /\ update \in ReceiveTypes /\ update.buf \in Seq(Units) /\ Len(update.buf) \in Nat
         /\ update.write_fw_len \in Nat /\ update.recv_fwsize \in Nat /\ update.f_addr \in Nat
         /\ ram.size \in Sizes /\ ram.size \in Nat /\ ram.size <= BankSectors * SectorSize
<1>1. "FWUP" \in ret[c] /\ Counted /\ Listened /\ Placed(at[c]) /\ update \in ReceiveTypes
  BY DEF UpdateInv, Receives, Types, ToolTypes
<1>2. ram.size \in Sizes
  BY <1>1 DEF Counted
<1> QED BY <1>1, <1>2, ConstantsAre DEF ReceiveTypes

\* An update begins with nothing received.
LEMMA BeginReceives ==
  ASSUME UpdateInv, NEW c \in Channels, BeginUpdate(c), Updates(c)'
  PROVE  "FWUP" \in ret'[c] /\ Counted' /\ Listened' /\ Placed(at[c])'
<1>1. update \in ReceiveTypes /\ at \in [Channels -> Places] /\ bank' = bank
  BY DEF UpdateInv, Types, ToolTypes, TaskTypes, BeginUpdate, flash
<1>2. ret[c] = {"FWUP"} /\ ram.size \in Sizes
  <2>1. CASE ~(ret[c] = {"FWUP"} /\ ram.size \in Sizes)
    BY <1>1, <2>1, GoesType DEF BeginUpdate, Updates, UpdateInv, Types, Places
  <2> QED BY <2>1
<1>3. /\ update' = [update EXCEPT !.write_fw_len = 0, !.f_addr = 0, !.buf = <<>>]
      /\ Goes(c, "update") /\ ram' = ram /\ sock' = "CLOSED" /\ conns' = 0 /\ ret' = ret
  BY <1>2 DEF BeginUpdate
<1>4. at'[c] = "update"
  BY <1>1, <1>3 DEF Goes
<1>5. /\ update'.write_fw_len = 0 /\ update'.f_addr = 0 /\ update'.buf = <<>>
  BY <1>1, <1>3 DEF ReceiveTypes
<1>6. ram.size \in Nat /\ ram.size > 0
  BY <1>2, ConstantsAre
<1>a. Len(update'.buf) = 0
  BY <1>5
<1>b. update'.write_fw_len = 0
  BY <1>5
<1>7. Taken' = 0 /\ Len(update'.buf) = 0
  BY <1>a, <1>b DEF Taken
<1>8. Counted'
  BY <1>2, <1>3, <1>5, <1>6, <1>7 DEF Counted
<1>9. Listened'
  BY <1>3, <1>5 DEF Listened
<1>10. Placed(at[c])'
  BY <1>3, <1>4, <1>5, <1>6, <1>7, ConstantsAre DEF Placed
<1> QED BY <1>2, <1>3, <1>8, <1>9, <1>10

\* The socket's own steps.
LEMMA SocketReceives ==
  ASSUME UpdateInv, NEW c \in Channels, Updates(c), CarefulTools,
         OpenListener(c) \/ CloseWait(c) \/ ToolConnects \/ ToolCloses
  PROVE  "FWUP" \in ret'[c] /\ Counted' /\ Listened' /\ Placed(at[c])'
<1>1. /\ "FWUP" \in ret[c] /\ Counted /\ Listened /\ Placed(at[c]) /\ update \in ReceiveTypes
  BY UpdateKnows
<1>2. at' = at /\ ret' = ret /\ ram' = ram /\ bank' = bank /\ image' = image
  BY DEF OpenListener, CloseWait, ToolConnects, ToolCloses, task, tool, flash
<1>3. /\ update'.buf = update.buf /\ update'.write_fw_len = update.write_fw_len
      /\ update'.f_addr = update.f_addr
  BY <1>1 DEF OpenListener, CloseWait, ToolConnects, ToolCloses, ReceiveTypes
<1>4. Taken' = Taken
  BY <1>3 DEF Taken
<1>5. Counted' /\ Placed(at[c])'
  BY <1>1, <1>2, <1>3, <1>4 DEF Counted, Placed
<1>6. CASE OpenListener(c)
  <2>1. sock' = "LISTEN" /\ update'.recv_fwsize = 0 /\ conns' = conns /\ sock = "CLOSED"
    BY <1>1, <1>6 DEF OpenListener, ReceiveTypes
  <2>2. Listened'
    BY <1>1, <1>3, <2>1 DEF Listened
  <2> QED BY <1>1, <1>2, <1>5, <2>2
<1>7. CASE CloseWait(c) \/ ToolCloses
  <2>1. sock' \in {"CLOSED", "CLOSE_WAIT"} /\ update' = update /\ conns' = conns
        /\ sock \in {"CLOSE_WAIT", "ESTABLISHED"}
    BY <1>7 DEF CloseWait, ToolCloses
  <2>2. Listened'
    BY <1>1, <2>1 DEF Listened
  <2> QED BY <1>1, <1>2, <1>5, <2>2
<1>8. CASE ToolConnects
  <2>1. sock = "LISTEN" /\ sock' = "ESTABLISHED" /\ update' = update /\ conns' = conns + 1
        /\ conns < MaxConns
    BY <1>8 DEF ToolConnects
  <2>2. conns = 0
    BY <2>1, ConstantsAre DEF CarefulTools, UpdateInv, Types, ToolTypes
  <2>3. Listened'
    BY <1>1, <2>1, <2>2 DEF Listened
  <2> QED BY <1>1, <1>2, <1>5, <2>3
<1> QED BY <1>6, <1>7, <1>8

\* What is received continues what is there: there is one connection.
LEMMA ChunkReceives ==
  ASSUME UpdateInv, NEW c \in Channels, NEW k \in 1..RecvMax, ReceiveChunk(c, k)
  PROVE  "FWUP" \in ret'[c] /\ Counted' /\ Listened' /\ Placed(at[c])'
<1> DEFINE len  == Smaller(k, ram.size - update.recv_fwsize)
           all  == update.buf \o Chunk(len)
           wlen == update.write_fw_len + len
           recv == update.recv_fwsize + len
<1>1. /\ at[c] = "update" /\ sock = "ESTABLISHED" /\ len > 0
      /\ update' = [update EXCEPT !.buf = all, !.write_fw_len = wlen, !.recv_fwsize = recv]
      /\ sock' \in {"CLOSED", "ESTABLISHED"} /\ After(c, all, wlen)
      /\ UNCHANGED <<flash, ram, opmode, then, todo, ret, conns, reset, tool, crashes>>
  BY DEF ReceiveChunk, Receiving
<1>2. /\ "FWUP" \in ret[c] /\ Counted /\ Listened /\ Placed("update")
      /\ update \in ReceiveTypes /\ update.buf \in Seq(Units) /\ Len(update.buf) \in Nat
      /\ update.write_fw_len \in Nat /\ update.recv_fwsize \in Nat /\ update.f_addr \in Nat
      /\ ram.size \in Sizes /\ ram.size \in Nat /\ ram.size <= BankSectors * SectorSize
  BY <1>1, UpdateKnows DEF Updates
<1>3. /\ len \in Nat /\ len <= SectorSize /\ recv <= ram.size
  BY <1>1, ReceivedLength DEF UpdateInv
<1>4. /\ Chunk(len) \in Seq(Units) /\ Len(Chunk(len)) = len
      /\ \A m \in 1..len : Chunk(len)[m] = <<image, update.recv_fwsize + m>>
  <2>1. recv <= BankSectors * SectorSize
    BY <1>2, <1>3, ConstantsAre
  <2> QED BY <1>2, <1>3, <2>1, ChunkType DEF UpdateInv, Types, ToolTypes
<1>5. update.recv_fwsize = update.write_fw_len /\ recv = wlen
  BY <1>1, <1>2 DEF Listened
<1> HIDE DEF len
<1>6. /\ all \in Seq(Units) /\ Len(all) = Len(update.buf) + len
      /\ \A m \in 1..(Len(update.buf) + len) :
           all[m] = IF m <= Len(update.buf) THEN update.buf[m]
                    ELSE Chunk(len)[m - Len(update.buf)]
  <2> DEFINE old == update.buf
             new == Chunk(len)
  <2>1. old \in Seq(Units) /\ new \in Seq(Units) /\ Len(new) = len
    BY <1>2, <1>4
  <2> HIDE DEF old, new
  <2>2. /\ old \o new \in Seq(Units) /\ Len(old \o new) = Len(old) + len
        /\ \A m \in 1..(Len(old) + len) :
             (old \o new)[m] = IF m <= Len(old) THEN old[m] ELSE new[m - Len(old)]
    BY <2>1, ConcatProperties
  <2> QED BY <2>2 DEF old, new
<1>7. /\ update'.buf = all /\ update'.write_fw_len = wlen /\ update'.recv_fwsize = recv
      /\ update'.f_addr = update.f_addr
  BY <1>1, <1>2 DEF ReceiveTypes
<1>8. Taken \in Nat /\ Taken + Len(update.buf) = update.write_fw_len
  BY <1>2 DEF Counted, Taken
<1> HIDE DEF all
<1>9. Taken' = Taken /\ wlen \in Nat /\ wlen <= ram.size
  BY <1>2, <1>3, <1>5, <1>6, <1>7 DEF Taken
<1>10. \A m \in 1..Len(all) : all[m] = <<image, Taken + m>>
  <2>1. ASSUME NEW m \in 1..Len(all) PROVE all[m] = <<image, Taken + m>>
    <3>0. \A x \in 1..Len(update.buf) : update.buf[x] = <<image, Taken + x>>
      BY <1>2 DEF Counted
    <3>1. CASE m <= Len(update.buf)
      <4>1. m \in 1..Len(update.buf) /\ all[m] = update.buf[m]
        BY <1>2, <1>3, <1>6, <2>1, <3>1
      <4> QED BY <3>0, <4>1
    <3>2. CASE m > Len(update.buf)
      <4>1. m - Len(update.buf) \in 1..len
        BY <1>2, <1>3, <1>6, <2>1, <3>2
      <4>2. all[m] = <<image, update.recv_fwsize + (m - Len(update.buf))>>
        <5>1. all[m] = Chunk(len)[m - Len(update.buf)]
          BY <1>6, <2>1, <3>2, <1>2, <1>3
        <5> QED BY <1>4, <4>1, <5>1
      <4>3. update.recv_fwsize + (m - Len(update.buf)) = Taken + m
        BY <1>2, <1>5, <1>8, <2>1
      <4> QED BY <4>2, <4>3
    <3> QED BY <1>2, <1>6, <2>1, <3>1, <3>2
  <2> QED BY <2>1
<1>11. bank' = bank /\ image' = image /\ ram' = ram /\ conns' = conns /\ ret' = ret
  BY <1>1 DEF flash, tool
<1>12. Counted'
  BY <1>2, <1>7, <1>8, <1>9, <1>10, <1>11 DEF Counted
<1>13. Listened'
  BY <1>1, <1>2, <1>5, <1>7, <1>11 DEF Listened
<1>14. Len(all) \in Nat /\ Len(all) < 2 * SectorSize /\ Len(all) > 0
  <2>1. Len(update.buf) < SectorSize
    BY <1>2 DEF Placed
  <2>2. /\ Len(update.buf) \in Nat /\ len \in Nat /\ len > 0 /\ len <= SectorSize
        /\ Len(all) = Len(update.buf) + len /\ SectorSize \in Nat
    BY <1>1, <1>2, <1>3, <1>6, ConstantsAre
  <2> QED BY <2>1, <2>2
<1>15. at'[c] = IF Len(all) >= SectorSize THEN "bank erase"
                ELSE IF wlen < ram.size THEN "update" ELSE "received"
  BY <1>1 DEF After, Goes, UpdateInv, Types, TaskTypes
<1>16. update.f_addr * SectorSize = Taken
  BY <1>2 DEF Placed
<1>17. Placed(at[c])'
  <2>1. Len(update'.buf) = Len(all) /\ update'.write_fw_len = wlen /\ ram'.size = ram.size
        /\ update'.f_addr * SectorSize = Taken'
    BY <1>7, <1>9, <1>11, <1>16
  <2>2. CASE Len(all) >= SectorSize
    <3>1. at'[c] = "bank erase"
      BY <1>15, <2>2
    <3>2. /\ Len(update'.buf) > 0 /\ Len(update'.buf) < 2 * SectorSize
          /\ ~(Len(update'.buf) < SectorSize)
      BY <1>14, <2>1, <2>2, ConstantsAre
    <3> QED BY <2>1, <3>1, <3>2 DEF Placed
  <2>3. CASE ~(Len(all) >= SectorSize) /\ wlen < ram.size
    <3>1. at'[c] = "update"
      BY <1>15, <2>3
    <3> QED BY <1>14, <2>1, <2>3, <3>1, ConstantsAre DEF Placed
  <2>4. CASE ~(Len(all) >= SectorSize) /\ ~(wlen < ram.size)
    <3>1. at'[c] = "received" /\ wlen = ram.size
      BY <1>2, <1>9, <1>15, <2>4
    <3> QED BY <1>14, <2>1, <2>4, <3>1, ConstantsAre DEF Placed
  <2> QED BY <2>2, <2>3, <2>4
<1> QED BY <1>2, <1>11, <1>12, <1>13, <1>17

\* The sector that is erased is the one after what is written.
LEMMA EraseReceives ==
  ASSUME UpdateInv, NEW c \in Channels, EraseBank(c)
  PROVE  "FWUP" \in ret'[c] /\ Counted' /\ Listened' /\ Placed(at[c])'
<1>1. /\ at[c] = "bank erase" /\ Goes(c, "bank program")
      /\ bank' = [p \in Sizes |-> IF p \in Sector(update.f_addr) THEN Blank ELSE bank[p]]
      /\ UNCHANGED <<ret, ram, update, sock, conns, image>>
  BY DEF EraseBank, tool
<1>2. /\ "FWUP" \in ret[c] /\ Counted /\ Listened /\ Placed(at[c])
      /\ Len(update.buf) \in Nat /\ update.f_addr \in Nat
      /\ update.write_fw_len \in Nat /\ ram.size \in Nat /\ ram.size <= BankSectors * SectorSize
  BY <1>1, UpdateKnows DEF Updates
<1>3. at'[c] = "bank program"
  BY <1>1, GoesType DEF UpdateInv, Types, Places
<1>a. update' = update
  BY DEF EraseBank
<1>4. Taken' = Taken /\ Taken \in Nat /\ Taken + Len(update.buf) = update.write_fw_len
  BY <1>a, <1>2 DEF Taken, Counted
<1>5. update.f_addr * SectorSize = Taken
  <2>1. Len(update.buf) > 0
    BY <1>1, <1>2 DEF Placed
  <2>2. update.buf # <<>>
    BY <2>1
  <2> QED BY <1>2, <2>2 DEF Placed
<1>6. ASSUME NEW p \in 1..Taken PROVE bank'[p] = <<image, p>>
  <2>1. p \in Sizes
    BY <1>2, <1>4, ConstantsAre DEF Counted
  <2>2. p \notin Sector(update.f_addr)
    <3>1. Sector(update.f_addr) = (Taken + 1)..((update.f_addr + 1) * SectorSize)
      BY <1>5 DEF Sector
    <3>2. update.f_addr + 1 \in Nat
      BY <1>2
    <3>3. (update.f_addr + 1) * SectorSize \in Nat
      BY <3>2, NextSector
    <3> QED BY <1>4, <3>1, <3>3
  <2>3. bank[p] = <<image, p>>
    BY <1>2 DEF Counted
  <2> QED BY <1>1, <2>1, <2>2, <2>3
<1>7. Counted'
  BY <1>1, <1>2, <1>4, <1>6 DEF Counted
<1>8. Listened' /\ Placed(at[c])'
  BY <1>1, <1>2, <1>3, <1>4 DEF Listened, Placed
<1> QED BY <1>1, <1>2, <1>7, <1>8

\* The sector that is written continues the bank.
LEMMA ProgramReceives ==
  ASSUME UpdateInv, NEW c \in Channels, ProgramBank(c)
  PROVE  "FWUP" \in ret'[c] /\ Counted' /\ Listened' /\ Placed(at[c])'
<1> DEFINE q    == update.buf
           base == update.f_addr * SectorSize
           rest == SubSeq(q, SectorSize + 1, Len(q))
           n    == Smaller(SectorSize, Len(q))
<1>1. /\ at[c] = "bank program"
      /\ bank' = [p \in Sizes |-> IF p \in (base + 1)..(base + n) THEN q[p - base] ELSE bank[p]]
      /\ update' = [update EXCEPT !.buf = rest, !.f_addr = @ + 1]
      /\ Goes(c, IF update.write_fw_len < ram.size THEN "update" ELSE "received")
      /\ UNCHANGED <<ret, ram, sock, conns, image>>
  BY DEF ProgramBank, tool
<1>2. /\ "FWUP" \in ret[c] /\ Counted /\ Listened /\ Placed(at[c])
      /\ update \in ReceiveTypes /\ q \in Seq(Units) /\ Len(q) \in Nat
      /\ update.write_fw_len \in Nat /\ update.f_addr \in Nat
      /\ ram.size \in Sizes /\ ram.size \in Nat /\ ram.size <= BankSectors * SectorSize
  BY <1>1, UpdateKnows DEF Updates
<1>3. /\ Len(q) > 0 /\ Len(q) < 2 * SectorSize
      /\ Len(q) < SectorSize => update.write_fw_len = ram.size
  BY <1>1, <1>2 DEF Placed
<1>4. base = Taken
  <2>1. q # <<>>
    BY <1>3
  <2> QED BY <1>2, <2>1 DEF Placed
<1>5. /\ Taken \in Nat /\ Taken + Len(q) = update.write_fw_len
      /\ update.write_fw_len <= ram.size
      /\ \A k \in 1..Len(q) : q[k] = <<image, Taken + k>>
      /\ \A p \in 1..Taken : bank[p] = <<image, p>>
  BY <1>2 DEF Counted, Taken
<1>6. /\ update'.buf = rest /\ update'.write_fw_len = update.write_fw_len
      /\ update'.recv_fwsize = update.recv_fwsize /\ update'.f_addr = update.f_addr + 1
  BY <1>1, <1>2 DEF ReceiveTypes
<1>7. /\ n \in Nat /\ n <= Len(q) /\ n <= SectorSize
      /\ n = SectorSize \/ (n = Len(q) /\ Len(q) < SectorSize)
  BY <1>2, ConstantsAre DEF Smaller
<1>8. /\ Len(rest) = Len(q) - n
      /\ \A k \in 1..(Len(q) - n) : n = SectorSize /\ rest[k] = q[SectorSize + k]
  <2>1. \A k \in (SectorSize + 1)..Len(q) : q[k] \in Units
    BY <1>2, ConstantsAre
  <2>2. /\ Len(rest) = IF SectorSize + 1 <= Len(q) THEN Len(q) - (SectorSize + 1) + 1 ELSE 0
        /\ \A k \in 1..(Len(q) - (SectorSize + 1) + 1) : rest[k] = q[SectorSize + 1 + k - 1]
    BY <1>2, <2>1, SubSeqProperties, ConstantsAre
  <2>3. ASSUME NEW k \in 1..(Len(q) - n) PROVE n = SectorSize /\ rest[k] = q[SectorSize + k]
    <3>1. n = SectorSize /\ SectorSize + 1 + k - 1 = SectorSize + k
      BY <1>2, <1>7, <2>3, ConstantsAre
    <3>2. k \in 1..(Len(q) - (SectorSize + 1) + 1)
      BY <1>2, <2>3, <3>1, ConstantsAre
    <3> QED BY <2>2, <3>1, <3>2
  <2>4. Len(rest) = Len(q) - n
    BY <1>2, <1>7, <2>2, ConstantsAre
  <2> QED BY <2>3, <2>4
<1> HIDE DEF q, base, rest, n
<1>9. Taken' = Taken + n
  <2>1. Taken' = update'.write_fw_len - Len(update'.buf)
    BY DEF Taken
  <2>2. Len(update'.buf) = Len(q) - n
    BY <1>6, <1>8
  <2> QED BY <1>2, <1>5, <1>6, <1>7, <2>1, <2>2
<1>10. ASSUME NEW p \in 1..(Taken + n) PROVE bank'[p] = <<image, p>>
  <2>1. p \in Sizes
    BY <1>2, <1>5, <1>7, ConstantsAre
  <2>2. CASE p <= Taken
    <3>1. p \in 1..Taken /\ p \notin (base + 1)..(base + n)
      BY <1>4, <1>5, <1>7, <2>2
    <3> QED BY <1>1, <1>5, <2>1, <3>1
  <2>3. CASE p > Taken
    <3>1. p - base \in 1..Len(q) /\ p \in (base + 1)..(base + n) /\ Taken + (p - base) = p
      BY <1>2, <1>4, <1>5, <1>7, <2>3
    <3>2. bank'[p] = q[p - base]
      BY <1>1, <2>1, <3>1
    <3>3. q[p - base] = <<image, Taken + (p - base)>>
      BY <1>5, <3>1
    <3> QED BY <3>1, <3>2, <3>3
  <2> QED BY <1>5, <1>7, <2>2, <2>3
<1>11. ASSUME NEW k \in 1..Len(rest) PROVE rest[k] = <<image, Taken + n + k>>
  <2>1. n = SectorSize /\ rest[k] = q[SectorSize + k]
    BY <1>8, <1>11
  <2>2. SectorSize + k \in 1..Len(q) /\ Taken + (SectorSize + k) = Taken + n + k
    BY <1>2, <1>5, <1>7, <1>8, <1>11, <2>1, ConstantsAre
  <2>3. q[SectorSize + k] = <<image, Taken + (SectorSize + k)>>
    BY <1>5, <2>2
  <2> QED BY <2>1, <2>2, <2>3
<1>12. Counted'
  <2>1. Taken' \in Nat
    BY <1>5, <1>7, <1>9
  <2>2. \A k \in 1..Len(update'.buf) : update'.buf[k] = <<image', Taken' + k>>
    BY <1>1, <1>6, <1>9, <1>11
  <2>3. \A p \in 1..Taken' : bank'[p] = <<image', p>>
    BY <1>1, <1>9, <1>10
  <2> QED BY <1>1, <1>2, <1>5, <1>6, <2>1, <2>2, <2>3 DEF Counted
<1>13. Listened'
  BY <1>1, <1>2, <1>6 DEF Listened
<1>14. Len(rest) \in Nat /\ Len(rest) < SectorSize /\ Len(update'.buf) = Len(rest)
  BY <1>2, <1>3, <1>6, <1>7, <1>8, ConstantsAre
<1>15. update'.buf # <<>> \/ update.write_fw_len < ram.size =>
         update'.f_addr * SectorSize = Taken'
  <2>1. SUFFICES ASSUME update'.buf # <<>> \/ update.write_fw_len < ram.size
                 PROVE  n = SectorSize
    BY <1>2, <1>4, <1>6, <1>9, NextSector DEF base
  <2>2. CASE update'.buf # <<>>
    <3>1. rest # <<>> /\ rest \in Seq(Units)
      <4>1. update' \in ReceiveTypes
        <5>1. Updating(c)
          BY DEF Updating
        <5> QED BY <5>1, UpdatingTypes DEF UpdateInv, Types, ToolTypes
      <4> QED BY <1>6, <2>2, <4>1 DEF ReceiveTypes
    <3>2. Len(rest) > 0
      BY <1>14, <3>1
    <3>3. 1 \in 1..(Len(q) - n)
      BY <1>2, <1>7, <1>8, <3>2
    <3> QED BY <1>8, <3>3
  <2>3. CASE update.write_fw_len < ram.size
    BY <1>2, <1>3, <1>7, <2>3, ConstantsAre
  <2> QED BY <2>1, <2>2, <2>3
<1>16. at'[c] = IF update.write_fw_len < ram.size THEN "update" ELSE "received"
  BY <1>1 DEF Goes, UpdateInv, Types, TaskTypes
<1>17. Placed(at[c])'
  <2>1. /\ Len(update'.buf) < SectorSize /\ update'.write_fw_len = update.write_fw_len
        /\ ram'.size = ram.size
    BY <1>1, <1>6, <1>14
  <2>2. CASE update.write_fw_len < ram.size
    <3>1. at'[c] = "update"
      BY <1>16, <2>2
    <3> QED BY <1>15, <2>1, <2>2, <3>1 DEF Placed
  <2>3. CASE ~(update.write_fw_len < ram.size)
    <3>1. at'[c] = "received" /\ update.write_fw_len = ram.size
      BY <1>2, <1>5, <1>16, <2>3
    <3> QED BY <1>15, <2>1, <2>3, <3>1 DEF Placed
  <2> QED BY <2>2, <2>3
<1> QED BY <1>1, <1>2, <1>12, <1>13, <1>17

\* The loop is left with the rest of the last sector.
LEMMA RestReceives ==
  ASSUME UpdateInv, NEW c \in Channels, Received(c)
  PROVE  /\ update.write_fw_len = ram.size /\ "FWUP" \in ret[c] /\ Counted
         /\ Updates(c)' =>
              "FWUP" \in ret'[c] /\ Counted' /\ Listened' /\ Placed(at[c])'
         /\ ~Updates(c)' =>
              /\ update.buf = <<>> /\ ram' = [ram EXCEPT !.copy = 1]
              /\ at'[c] = "erase" /\ then'[c] = "dead"
<1>1. at[c] = "received" /\ UNCHANGED <<flash, ret, update, conns, image, size>>
  BY DEF Received, tool
<1>2. /\ "FWUP" \in ret[c] /\ Counted /\ Listened /\ Placed(at[c])
      /\ update.buf \in Seq(Units) /\ Len(update.buf) \in Nat
  BY <1>1, UpdateKnows DEF Updates
<1>3. update.write_fw_len = ram.size /\ Len(update.buf) < SectorSize
  BY <1>1, <1>2 DEF Placed
<1>4. CASE update.buf # <<>>
  <2>1. Goes(c, "bank erase") /\ UNCHANGED <<ram, sock>>
    BY <1>3, <1>4 DEF Received
  <2>2. at'[c] = "bank erase"
    BY <2>1, GoesType DEF UpdateInv, Types, Places
  <2>3. Taken' = Taken /\ bank' = bank
    BY <1>1 DEF Taken, flash
  <2>4. Counted' /\ Listened'
    BY <1>1, <1>2, <2>1, <2>3 DEF Counted, Listened
  <2>5. Len(update.buf) > 0 /\ Len(update.buf) < 2 * SectorSize
    BY <1>2, <1>3, <1>4, ConstantsAre
  <2>6. update.f_addr * SectorSize = Taken
    BY <1>2, <1>4 DEF Placed
  <2>7. Placed(at[c])'
    BY <1>1, <1>3, <1>4, <2>1, <2>2, <2>3, <2>5, <2>6 DEF Placed
  <2>8. Updates(c)'
    BY <2>2 DEF Updates
  <2> QED BY <1>1, <1>2, <1>3, <2>4, <2>7, <2>8
<1>5. CASE update.buf = <<>>
  <2>1. ram' = [ram EXCEPT !.copy = 1] /\ save_DevConfig_to_storage(c, "dead")
    BY <1>3, <1>5 DEF Received
  <2>2. at'[c] = "erase" /\ then'[c] = "dead"
    BY <2>1 DEF save_DevConfig_to_storage, Goes, UpdateInv, Types, TaskTypes
  <2>3. ~Updates(c)'
    BY <2>2 DEF Updates
  <2> QED BY <1>2, <1>3, <1>5, <2>1, <2>2, <2>3
<1> QED BY <1>4, <1>5

\* An update's own step.
LEMMA OwnReceives ==
  ASSUME UpdateInv, CarefulTools, NEW c \in Channels, Updating(c), Updates(c)'
  PROVE  "FWUP" \in ret'[c] /\ Counted' /\ Listened' /\ Placed(at[c])'
<1>1. CASE BeginUpdate(c)
  BY <1>1, BeginReceives
<1>2. CASE OpenListener(c) \/ CloseWait(c)
  <2>1. Updates(c)
    BY <1>2 DEF OpenListener, CloseWait, Receiving, Updates
  <2> QED BY <1>2, <2>1, SocketReceives
<1>3. ASSUME NEW k \in 1..RecvMax, ReceiveChunk(c, k)
      PROVE  "FWUP" \in ret'[c] /\ Counted' /\ Listened' /\ Placed(at[c])'
  BY <1>3, ChunkReceives
<1>4. CASE EraseBank(c)
  BY <1>4, EraseReceives
<1>5. CASE ProgramBank(c)
  BY <1>5, ProgramReceives
<1>6. CASE Received(c)
  BY <1>6, RestReceives
<1> QED BY <1>1, <1>2, <1>3, <1>4, <1>5, <1>6 DEF Updating

\* What a task has received survives the steps of the others.
LEMMA ReceivesKept ==
  ASSUME UpdateInv, CarefulTools, NEW c \in Channels, Works(c) \/ Requesting(c)
  PROVE  Receives'
<1>1. TaskMove(c)
  BY TaskMoves DEF UpdateInv
<1> SUFFICES ASSUME NEW d \in Channels, Updates(d)'
             PROVE  "FWUP" \in ret'[d] /\ Counted' /\ Listened' /\ Placed(at[d])'
  BY DEF Receives
<1>2. CASE Updating(c)
  <2>1. CASE d = c
    BY <1>2, <2>1, OwnReceives
  <2>2. CASE d # c
    <3>1. Updates(d)
      BY <1>1, <2>2 DEF TaskMove, Updates
    <3>2. "FWUP" \in ret[d] /\ "FWUP" \in ret[c]
      BY <1>2, <3>1, UpdateKnows, UpdatingFlag
    <3> QED BY <2>2, <3>2 DEF UpdateInv, Single
  <2> QED BY <2>1, <2>2
<1>3. CASE Aside(c)
  <2>1. ~Updates(c)' /\ UNCHANGED <<bank, update, sock, conns>>
    BY <1>3, AsideKeeps DEF UpdateInv
  <2>2. d # c
    BY <2>1
  <2>3. at'[d] = at[d] /\ ret'[d] = ret[d] /\ Updates(d)
    BY <1>1, <2>2 DEF TaskMove, Updates
  <2>4. "FWUP" \in ret[d] /\ Counted /\ Listened /\ Placed(at[d])
    BY <2>3, UpdateKnows
  <2>5. image' = image /\ ram'.size = ram.size
    BY <1>3, <2>4, AsideKeeps, NotAnnounced DEF UpdateInv
  <2>6. Taken' = Taken
    BY <2>1 DEF Taken
  <2>7. Counted' /\ Listened' /\ Placed(at[d])'
    BY <2>1, <2>3, <2>4, <2>5, <2>6 DEF Counted, Listened, Placed
  <2> QED BY <2>3, <2>4, <2>7
<1> QED BY <1>2, <1>3 DEF Works, Aside

\* What has succeeded stays so until the reset.
LEMMA DoneStays ==
  ASSUME UpdateInv, NEW c \in Channels, Works(c) \/ Requesting(c), NEW d \in Channels, Done(d)
  PROVE  Done(d)'
<1>1. TaskMove(c)
  BY TaskMoves DEF UpdateInv
<1>2. CASE d # c
  BY <1>1, <1>2 DEF TaskMove, Done, Saves
<1>3. CASE d = c
  <2>1. at[c] # "dead" /\ Saves(c) /\ then[c] = "dead" /\ "FWUP" \in ret[c]
    BY <1>1, <1>3 DEF TaskMove, Done
  <2>2. ret'[c] = ret[c] /\ ((Saves(c)' /\ then'[c] = then[c]) \/ at'[c] = then[c])
    BY <1>1, <2>1 DEF TaskMove
  <2> QED BY <1>3, <2>1, <2>2 DEF Done
<1> QED BY <1>2, <1>3

\* Then no task's step is the update's, or announces an image.
LEMMA DoneAlone ==
  ASSUME UpdateInv, NEW c \in Channels, Works(c) \/ Requesting(c), NEW d \in Channels, Done(d)
  PROVE  Aside(c) /\ UNCHANGED <<bank, size>> /\ ram'.size = ram.size
<1>1. "FWUP" \in ret[d] /\ (at[d] = "dead" \/ Saves(d))
  BY DEF Done
<1>2. ~Updating(c)
  <2> SUFFICES ASSUME Updating(c) PROVE FALSE
    OBVIOUS
  <2>1. "FWUP" \in ret[c] /\ at[c] # "dead" /\ ~Saves(c)
    BY UpdatingFlag
  <2>2. c # d
    BY <1>1, <2>1
  <2> QED BY <1>1, <2>1, <2>2 DEF UpdateInv, Single
<1>3. Aside(c)
  BY <1>2 DEF Works, Aside
<1>4. ~(Command(c) /\ todo # <<>> /\ Firmware(c, Head(todo)))
  BY <1>1, NotAnnounced
<1> QED BY <1>3, <1>4, AsideKeeps DEF UpdateInv

\* Where the copy flag comes from: the one in RAM, or the one of an update.
LEMMA FlagComes ==
  ASSUME UpdateInv, NEW c \in Channels, Works(c) \/ Requesting(c)
  PROVE  /\ ram'.copy = 1 => ram.copy = 1 \/ Received(c)
         /\ \/ nv' = nv
            \/ nv'.copy # 1
            \/ nv' = ram
<1>0. IsConfig(ram) /\ IsConfig(nv)
  BY DEF UpdateInv, Types, FlashTypes
<1>1. CASE Saving(c)
  <2>1. ram' = ram /\ (nv' = nv \/ nv' = Erased \/ nv' = FirstPage(ram) \/ nv' = ram)
    BY <1>1 DEF Saving, EraseSector, ProgramFirst, ProgramSecond, EraseCertificate,
                WriteCertificate
  <2> QED BY <1>0, <2>1, ErasedType, ConfigFields
<1>2. CASE Updating(c)
  <2>1. Received(c) \/ ram' = ram \/ ram' = [ram EXCEPT !.size = 0]
    BY <1>2 DEF Updating, BeginUpdate, OpenListener, CloseWait, ReceiveChunk, EraseBank,
                ProgramBank
  <2>2. nv' = nv
    BY <1>2 DEF Updating, BeginUpdate, OpenListener, CloseWait, ReceiveChunk, EraseBank,
                ProgramBank, Received, flash
  <2> QED BY <1>0, <2>1, <2>2 DEF IsConfig, StoredAs
<1>3. CASE Command(c)
  <2>1. nv' = nv
    BY <1>3 DEF Command, flash
  <2>2. CASE todo = <<>>
    BY <1>3, <2>1, <2>2 DEF Command
  <2>3. CASE todo # <<>>
    <3> DEFINE d == Head(todo)
    <3>1. Setting(c, d) \/ Query(c, d) \/ CopyFlag(c, d) \/ Firmware(c, d) \/ Certificate(c, d)
      BY <1>3, <2>3 DEF Command
    <3>2. CopyFlag(c, d) => d.arg = 0
      BY <2>3 DEF UpdateInv, Types, TaskTypes, Requested, NoFlagIn, CopyFlag
    <3> HIDE DEF d
    <3>3. CASE Setting(c, d)
      <4>1. PICK v : ram' = IF v # Refused /\ d.cmd \in Settings
                            THEN [ram EXCEPT !.set[d.cmd] = v] ELSE ram
        BY <3>3 DEF Setting
      <4> QED BY <1>0, <2>1, <4>1, ConfigFields
    <3>4. CASE Query(c, d)
      BY <2>1, <3>4 DEF Query
    <3>5. CASE CopyFlag(c, d)
      <4>1. ram' = ram \/ ram' = [ram EXCEPT !.copy = 0]
        BY <3>2, <3>5 DEF CopyFlag
      <4> QED BY <1>0, <2>1, <4>1 DEF IsConfig, StoredAs
    <3>6. CASE Firmware(c, d)
      <4>1. PICK n : ram' = [ram EXCEPT !.size = n]
        BY <3>6 DEF Firmware
      <4> QED BY <1>0, <2>1, <4>1 DEF IsConfig, StoredAs
    <3>7. CASE Certificate(c, d)
      <4>1. ram' = ram \/ ram' = [ram EXCEPT !.ca = d.arg]
        BY <3>7 DEF Certificate
      <4> QED BY <1>0, <2>1, <4>1 DEF IsConfig, StoredAs
    <3> QED BY <3>1, <3>3, <3>4, <3>5, <3>6, <3>7
  <2> QED BY <2>2, <2>3
<1>4. CASE segcp_ret_handler(c)
  <2>1. /\ ram' = ram \/ ram' = set_DevConfig_to_factory_value(ram)
        /\ nv' = nv \/ nv' = Erased
    BY <1>4 DEF segcp_ret_handler
  <2> QED BY <1>0, <2>1, ErasedType, ConfigFields
<1>5. CASE EndRequest(c) \/ Requesting(c)
  BY <1>5 DEF EndRequest, Requesting, TakeRequest, TakeForeign, flash
<1> QED BY <1>1, <1>2, <1>3, <1>4, <1>5 DEF Works

\* A due copy keeps its image, and gets it before its flag.
LEMMA DueKept ==
  ASSUME UpdateInv, CarefulTools, NEW c \in Channels, Works(c) \/ Requesting(c)
  PROVE  Due'
<1>1. TaskMove(c) /\ ~Off
  BY TaskMoves DEF UpdateInv, TaskMove, Off
<1>2. CASE ram.copy = 1 \/ nv.copy = 1
  <2>1. PICK d \in Channels : Done(d)
    BY <1>1, <1>2 DEF UpdateInv, Due
  <2>2. Aside(c) /\ UNCHANGED <<bank, size>> /\ ram'.size = ram.size
    BY <2>1, DoneAlone
  <2>3. Done(d)'
    BY <2>1, DoneStays
  <2>4. ~Received(c)
    <3>1. Received(c) => Updates(c)
      BY DEF Received, Updates
    <3>2. at[c] = "received" /\ "FWUP" \in ret[c] => c = d
      BY <2>1 DEF Done, UpdateInv, Single
    <3> QED BY <2>1, <3>1, <3>2, UpdateKnows DEF Received, Done, Saves
  <2>5. \A n : WholeImage(n) => WholeImage(n)'
    BY <2>2 DEF WholeImage, Holds
  <2>6. ram'.copy = 1 => WholeImage(ram.size)'
    <3>1. ram'.copy = 1 => WholeImage(ram.size)
      BY <2>4, FlagComes DEF UpdateInv, Due
    <3> QED BY <2>2, <2>5, <3>1 DEF WholeImage, Holds
  <2>7. nv'.copy = 1 => WholeImage(nv.size)'
    <3>1. nv'.copy = 1 => WholeImage(nv'.size)
      BY FlagComes DEF UpdateInv, Due
    <3> QED BY <2>2, <3>1 DEF WholeImage, Holds
  <2> QED BY <2>3, <2>6, <2>7 DEF Due
<1>3. CASE ~(ram.copy = 1 \/ nv.copy = 1)
  <2>1. nv'.copy # 1
    BY <1>3, FlagComes
  <2>2. CASE ~Received(c)
    BY <1>3, <2>1, <2>2, FlagComes DEF Due
  <2>3. CASE Received(c)
    <3>1. /\ update.write_fw_len = ram.size /\ "FWUP" \in ret[c] /\ Counted
          /\ ~Updates(c)' =>
               /\ update.buf = <<>> /\ ram' = [ram EXCEPT !.copy = 1]
               /\ at'[c] = "erase" /\ then'[c] = "dead"
      BY <2>3, RestReceives
    <3>2. UNCHANGED <<flash, ret, image, size>>
      BY <2>3 DEF Received, tool
    <3>3. CASE Updates(c)'
      <4>1. ram' = ram \/ ram' = [ram EXCEPT !.size = 0]
        BY <2>3, <3>3 DEF Received, save_DevConfig_to_storage, Goes, Updates, UpdateInv,
                          Types, TaskTypes
      <4>2. ram'.copy # 1
        BY <1>3, <4>1 DEF UpdateInv, Types, FlashTypes, IsConfig, StoredAs
      <4> QED BY <2>1, <4>2 DEF Due
    <3>4. CASE ~Updates(c)'
      <4>1. Done(c)'
        BY <3>1, <3>2, <3>4 DEF Done, Saves
      <4>2. ram'.size = ram.size
        BY <3>1, <3>4 DEF UpdateInv, Types, FlashTypes, IsConfig, StoredAs
      <4>3. size[image] = ram.size /\ ram.size > 0 /\ image \in Images
        BY <3>1, ConstantsAre DEF Counted, UpdateInv, Single, Types, ToolTypes
      <4>a. Len(update.buf) = 0 /\ ram.size \in Nat
        BY <3>1, <3>4, ConstantsAre DEF Counted
      <4>4. Taken = ram.size
        BY <3>1, <4>a DEF Taken
      <4>5. \A p \in 1..ram.size : bank[p] = <<image, p>>
        BY <3>1, <4>4 DEF Counted
      <4>6. WholeImage(ram.size)'
        BY <3>2, <4>2, <4>3, <4>5 DEF WholeImage, Holds, flash
      <4> QED BY <2>1, <4>1, <4>6 DEF Due
    <3> QED BY <3>3, <3>4
  <2> QED BY <2>2, <2>3
<1> QED BY <1>2, <1>3

\* The tool, the timer and the watchdog disturb nothing that is due.
LEMMA OutsideKeeps ==
  ASSUME UpdateInv, CarefulTools, ResetTimer \/ WatchdogReset \/ Outside
  PROVE  Resumes' /\ Requested' /\ Single' /\ Receives' /\ Due'
<1>1. CASE WatchdogReset \/ PowerLoss
  BY <1>1, RestartKeeps DEF WatchdogReset, PowerLoss
<1>2. CASE ResetTimer \/ ToolConnects \/ ToolCloses
  <2>1. UNCHANGED <<nv, ram, bank, at, then, todo, ret, image, size>>
    BY <1>2 DEF ResetTimer, ToolConnects, ToolCloses, flash, task, tool
  <2>2. Resumes'
    BY <2>1 DEF UpdateInv, Resumes, Saves, Off
  <2>3. Requested'
    BY <2>1 DEF UpdateInv, Requested, OneUpdate, NoFlagIn, Brings
  <2>4. Single'
    BY <2>1 DEF UpdateInv, Single, NoUpdateIn
  <2>5. Due'
    BY <2>1 DEF UpdateInv, Due, Done, Saves, Off, WholeImage, Holds
  <2>6. ASSUME NEW c \in Channels, Updates(c)'
        PROVE  "FWUP" \in ret'[c] /\ Counted' /\ Listened' /\ Placed(at[c])'
    <3>1. Updates(c)
      BY <2>1, <2>6 DEF Updates
    <3>2. CASE ResetTimer
      <4>1. UNCHANGED <<update, sock, conns>>
        BY <3>2 DEF ResetTimer
      <4>2. "FWUP" \in ret[c] /\ Counted /\ Listened /\ Placed(at[c])
        BY <3>1, UpdateKnows
      <4>3. Taken' = Taken
        BY <4>1 DEF Taken
      <4> QED BY <2>1, <4>1, <4>2, <4>3 DEF Counted, Listened, Placed
    <3>3. CASE ToolConnects \/ ToolCloses
      BY <3>1, <3>3, SocketReceives
    <3> QED BY <1>2, <3>2, <3>3
  <2> QED BY <2>2, <2>3, <2>4, <2>5, <2>6 DEF Receives
<1> QED BY <1>1, <1>2 DEF Outside

\* The initial values.
LEMMA UpdateInvInit == AppInit => UpdateInv
<1> SUFFICES ASSUME AppInit PROVE UpdateInv
  OBVIOUS
<1>1. Types
  BY InitTypes
<1>2. Off /\ todo = <<>> /\ \A c \in Channels : at[c] = "off" /\ ret[c] = {}
  BY DEF AppInit, Off
<1>3. nv.copy # 1 /\ ram.copy # 1
  BY ErasedType, ConfigType, ConfigFields DEF AppInit
<1>4. Requested
  BY <1>2 DEF Requested, OneUpdate, NoFlagIn, Brings
<1> QED BY <1>1, <1>2, <1>3, <1>4 DEF UpdateInv, Resumes, Saves, Single, Receives, Updates, Due

\* Every step keeps the invariant.
LEMMA UpdateInvStep ==
  ASSUME UpdateInv, CarefulTools, [AppNext]_appVars
  PROVE  UpdateInv'
<1>1. Types'
  BY StepTypes DEF UpdateInv
<1>2. CASE UNCHANGED appVars
  <2>1. UNCHANGED <<nv, ram, bank, at, then, todo, ret, image, size, update, sock, conns>>
    BY <1>2 DEF appVars, flash, task, tool
  <2>2. Resumes'
    BY <2>1 DEF UpdateInv, Resumes, Saves, Off
  <2>3. Requested'
    BY <2>1 DEF UpdateInv, Requested, OneUpdate, NoFlagIn, Brings
  <2>4. Single'
    BY <2>1 DEF UpdateInv, Single, NoUpdateIn
  <2>5. Due'
    BY <2>1 DEF UpdateInv, Due, Done, Saves, Off, WholeImage, Holds
  <2>6. Taken' = Taken
    BY <2>1 DEF Taken
  <2>7. Receives'
    BY <2>1, <2>6 DEF UpdateInv, Receives, Updates, Counted, Listened, Placed
  <2> QED BY <1>1, <2>2, <2>3, <2>4, <2>5, <2>7 DEF UpdateInv
<1>3. CASE AppNext
  <2>1. CASE Start
    BY <1>1, <2>1, StartKeeps DEF UpdateInv
  <2>2. CASE ResetTimer \/ WatchdogReset \/ Outside
    BY <1>1, <2>2, OutsideKeeps DEF UpdateInv
  <2>3. ASSUME NEW c \in Channels, Works(c) \/ Requesting(c) PROVE UpdateInv'
    <3>1. Resumes'
      BY <2>3, ResumesKept DEF UpdateInv
    <3>2. Requested' /\ Single' /\ Receives' /\ Due'
      BY <2>3, RequestedKept, SingleKept, ReceivesKept, DueKept
    <3> QED BY <1>1, <3>1, <3>2 DEF UpdateInv
  <2> QED BY <1>3, <2>1, <2>2, <2>3 DEF AppNext
<1> QED BY <1>2, <1>3

\* With careful tools every variable of the application has a value of its kind, at
\* all times (segcp.h, deviceHandler.c, ConfigData.h).
THEOREM AppTypeCorrect == CarefulTools => (AppSpec => []AppTypeOK)
<1> SUFFICES ASSUME CarefulTools PROVE AppSpec => []AppTypeOK
  OBVIOUS
<1>1. AppInit => UpdateInv
  BY UpdateInvInit
<1>2. UpdateInv /\ [AppNext]_appVars => UpdateInv'
  BY UpdateInvStep
<1>3. UpdateInv => AppTypeOK
  BY DEF UpdateInv, Types, FlashTypes, TaskTypes, ToolTypes, AppTypeOK, IsConfig, Units,
         ReceiveTypes, SocketStates
<1> QED BY <1>1, <1>2, <1>3, PTL DEF AppSpec

\* A stored copy flag is only seen with a whole image of its size in bank 1, for
\* every geometry of the flash and of the receive buffer, every load of requests,
\* any number of images and of power losses; the tools are careful ones: without
\* that the two variants with MaxConns = 2 and with the flag set by a command show
\* the contrary (deviceHandler.c:109-187, segcp.c:124-190).
THEOREM CopyHasImage == CarefulTools => (AppSpec => []CopyDueIsWhole)
<1> SUFFICES ASSUME CarefulTools PROVE AppSpec => []CopyDueIsWhole
  OBVIOUS
<1>1. AppInit => UpdateInv
  BY UpdateInvInit
<1>2. UpdateInv /\ [AppNext]_appVars => UpdateInv'
  BY UpdateInvStep
<1>3. UpdateInv => CopyDueIsWhole
  <2> SUFFICES ASSUME UpdateInv, nv.copy = 1 PROVE BankCopied # 0
    BY DEF CopyDueIsWhole
  <2>1. \E g \in Images : size[g] = nv.size /\ Holds(g)
    BY DEF UpdateInv, Due, WholeImage
  <2>2. BankCopied \in Images
    BY <2>1 DEF BankCopied
  <2> QED BY <2>2, ConstantsAre DEF Images
<1> QED BY <1>1, <1>2, <1>3, PTL DEF AppSpec
=============================================================================
