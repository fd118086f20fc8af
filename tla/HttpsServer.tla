----------------------------- MODULE HttpsServer -----------------------------
(***************************************************************************)
(* The two tasks the application starts (main/App/App.c, start_task):      *)
(* net_status_task, which follows the PHY link, runs DHCP and resets the   *)
(* W5500, and http_webserver_task, which serves the HTTPS page on          *)
(* MAX_HTTPSOCK sockets.  They run on two cores, share the W5500, the      *)
(* status word g_net_status and the counting semaphore                     *)
(* net_http_webserver_sem.  The PHY, the chip's socket engine and the      *)
(* browsers are the environment.                                           *)
(*                                                                         *)
(* A step of http_webserver_task is what it does between two reads of      *)
(* shared chip state: it reads a socket's status (Poll), remembers what to *)
(* do in pc, and acts in a later step, when the other task or a peer may   *)
(* have changed the socket.                                                *)
(***************************************************************************)
EXTENDS Naturals, FiniteSets

CONSTANTS
  NSock,      \* MAX_HTTPSOCK
  Blocks,     \* the blocks of the FreeRTOS heap
  CtxBlocks,  \* how many of them one complete TLS context takes
  MaxCount,   \* the maximum count of net_http_webserver_sem
  Payloads,   \* what browsers send: a subset of AllPayloads
  Stalling    \* the sockets whose peer may stop reading

AllPayloads == {"hello", "request", "alert", "plain"}

Socks == 1..NSock

ASSUME ConstantsOK == /\ NSock \in Nat \ {0}
                      /\ CtxBlocks \in Nat \ {0}
                      /\ MaxCount \in Nat \ {0}
                      /\ Payloads \subseteq AllPayloads
                      /\ Stalling \subseteq Socks

VARIABLES
  phy,            \* the PHY link
  ip,             \* source IP register of the W5500
  g_net_status,   \* netHandler.c
  netpc,          \* where net_status_task is
  sem,            \* tokens in net_http_webserver_sem
  pc, i,          \* where http_webserver_task is, and its socket index
  sr,             \* Sn_SR of every socket
  rx,             \* what waits in the RX buffer of every socket
  stalled,        \* the peer's window is closed and the TX buffer is full
  conn,           \* how far the current TCP connection has come (history)
  tls_active,     \* https_tls_active
  ctx,            \* the heap blocks https_tls_ctx[s] points to
  free,           \* the free blocks of the heap
  sent            \* https_response_sent and the age of its time stamp

netVars  == <<phy, ip, g_net_status, netpc>>
sockVars == <<sr, rx, stalled, conn>>
tlsVars  == <<tls_active, ctx, free>>
vars     == <<netVars, sem, pc, i, sockVars, tlsVars, sent>>

Statuses == {"DISCONNECTED", "CONNECTED", "IP_UP"}
NetPcs   == {"link", "dhcp", "leasing", "give", "up", "reset"}
HttpPcs  == {"top", "drop", "take", "poll", "open", "listen", "init",
             "handshake", "teardown", "wildfree", "read", "send", "close"}
SockStates == {"CLOSED", "INIT", "LISTEN", "ESTABLISHED", "CLOSE_WAIT"}

TypeOK ==
  /\ phy \in BOOLEAN
  /\ ip \in {"none", "config", "leased"}
  /\ g_net_status \in Statuses
  /\ netpc \in NetPcs
  /\ sem \in 0..MaxCount
  /\ pc \in HttpPcs
  /\ i \in Socks
  /\ sr \in [Socks -> SockStates]
  /\ rx \in [Socks -> AllPayloads \cup {"none"}]
  /\ stalled \in [Socks -> BOOLEAN]
  /\ conn \in [Socks -> {"plain", "secured", "served"}]
  /\ tls_active \in [Socks -> BOOLEAN]
  /\ ctx \in [Socks -> SUBSET Blocks]
  /\ free \in SUBSET Blocks
  /\ sent \in [Socks -> {"no", "recent", "old"}]

(***************************************************************************)
(* start_task has reset the chip, loaded an IP from the configuration      *)
(* (Net_Conf) and created an empty semaphore.                              *)
(***************************************************************************)
Booted ==
  [ip |-> "config", sem |-> 0,
   sr |-> [s \in Socks |-> "CLOSED"],   rx   |-> [s \in Socks |-> "none"],
   no |-> [s \in Socks |-> FALSE],      conn |-> [s \in Socks |-> "plain"],
   ctx |-> [s \in Socks |-> {}],        sent |-> [s \in Socks |-> "no"]]

Init ==
  /\ phy \in BOOLEAN
  /\ ip = Booted.ip
  /\ g_net_status = "DISCONNECTED"
  /\ netpc = "link"
  /\ sem = Booted.sem
  /\ pc = "top" /\ i = 1
  /\ sr = Booted.sr /\ rx = Booted.rx /\ stalled = Booted.no /\ conn = Booted.conn
  /\ tls_active = Booted.no /\ ctx = Booted.ctx /\ free = Blocks
  /\ sent = Booted.sent

------------------------------------------------------------------------------
(* The W5500 and the peers *)

Connected(s) == sr[s] \in {"ESTABLISHED", "CLOSE_WAIT"}

\* Every socket of S leaves its connection, whatever it was doing.
SocketsClose(S) ==
  /\ sr'      = [s \in Socks |-> IF s \in S THEN "CLOSED" ELSE sr[s]]
  /\ rx'      = [s \in Socks |-> IF s \in S THEN "none" ELSE rx[s]]
  /\ stalled' = [s \in Socks |-> IF s \in S THEN FALSE ELSE stalled[s]]
  /\ conn'    = [s \in Socks |-> IF s \in S THEN "plain" ELSE conn[s]]

LinkChange == /\ phy' = ~phy
              /\ UNCHANGED <<ip, g_net_status, netpc, sem, pc, i, sockVars, tlsVars, sent>>

PeerConnect(s) ==
  /\ sr[s] = "LISTEN" /\ phy /\ ip # "none"
  /\ sr' = [sr EXCEPT ![s] = "ESTABLISHED"]
  /\ UNCHANGED <<netVars, sem, pc, i, rx, stalled, conn, tlsVars, sent>>

\* A peer says hello until the handshake is done, then it sends records.
PeerSend(s, p) ==
  /\ sr[s] = "ESTABLISHED" /\ phy /\ rx[s] = "none"
  /\ p \in {"request", "alert"} => conn[s] # "plain"
  /\ p = "hello" => conn[s] = "plain"
  /\ rx' = [rx EXCEPT ![s] = p]
  /\ UNCHANGED <<netVars, sem, pc, i, sr, stalled, conn, tlsVars, sent>>

PeerFin(s) ==
  /\ sr[s] = "ESTABLISHED" /\ phy
  /\ sr' = [sr EXCEPT ![s] = "CLOSE_WAIT"]
  /\ UNCHANGED <<netVars, sem, pc, i, rx, stalled, conn, tlsVars, sent>>

\* A RST from the peer, or the chip's retransmission timeout: the socket
\* goes to SOCK_CLOSED without the firmware doing anything.
PeerReset(s) ==
  /\ Connected(s)
  /\ SocketsClose({s})
  /\ UNCHANGED <<netVars, sem, pc, i, tlsVars, sent>>

PeerStall(s) ==
  /\ s \in Stalling /\ Connected(s)
  /\ stalled' = [stalled EXCEPT ![s] = ~@]
  /\ UNCHANGED <<netVars, sem, pc, i, sr, rx, conn, tlsVars, sent>>

\* Two seconds pass after a response.
FlushElapsed(s) ==
  /\ sent[s] = "recent"
  /\ sent' = [sent EXCEPT ![s] = "old"]
  /\ UNCHANGED <<netVars, sem, pc, i, sockVars, tlsVars>>

------------------------------------------------------------------------------
(* net_status_task *)

NetStep(from, to) == netpc = from /\ netpc' = to

\* wizchip_recovery first announces DISCONNECTED, then resets the chip.
Recover == g_net_status' = "DISCONNECTED" /\ netpc' = "reset"

LinkFound ==
  /\ NetStep("link", "dhcp") /\ phy
  /\ g_net_status' = "CONNECTED"
  /\ UNCHANGED <<phy, ip, sem, pc, i, sockVars, tlsVars, sent>>

\* Fifty polls without a link.
LinkMissing ==
  /\ netpc = "link" /\ ~phy
  /\ Recover
  /\ UNCHANGED <<phy, ip, sem, pc, i, sockVars, tlsVars, sent>>

ChipReset ==
  /\ NetStep("reset", "link")
  /\ ip' = "config"
  /\ SocketsClose(Socks)
  /\ UNCHANGED <<phy, g_net_status, sem, pc, i, tlsVars, sent>>

DhcpInit ==
  /\ NetStep("dhcp", "leasing")
  /\ ip' = "none"
  /\ UNCHANGED <<phy, g_net_status, sem, pc, i, sockVars, tlsVars, sent>>

DhcpLeased ==
  /\ NetStep("leasing", "give") /\ phy
  /\ ip' = "leased"
  /\ g_net_status' = "IP_UP"
  /\ UNCHANGED <<phy, sem, pc, i, sockVars, tlsVars, sent>>

DhcpFailed ==
  /\ netpc = "leasing"
  /\ Recover
  /\ UNCHANGED <<phy, ip, sem, pc, i, sockVars, tlsVars, sent>>

\* xSemaphoreGive on a full semaphore changes nothing.
GiveSem ==
  /\ NetStep("give", "up")
  /\ sem' = IF sem < MaxCount THEN sem + 1 ELSE sem
  /\ UNCHANGED <<phy, ip, g_net_status, pc, i, sockVars, tlsVars, sent>>

LeaseLost ==
  /\ netpc = "up"
  /\ Recover
  /\ UNCHANGED <<phy, ip, sem, pc, i, sockVars, tlsVars, sent>>

LinkLost ==
  /\ netpc = "up" /\ ~phy
  /\ Recover
  /\ UNCHANGED <<phy, ip, sem, pc, i, sockVars, tlsVars, sent>>

NetTask == \/ LinkFound \/ LinkMissing \/ ChipReset \/ DhcpInit \/ DhcpLeased
           \/ DhcpFailed \/ GiveSem \/ LeaseLost \/ LinkLost

------------------------------------------------------------------------------
(* http_webserver_task *)

\* A blocking write to a peer that does not read never returns.
CanWrite(s) == ~(stalled[s] /\ Connected(s))

At(from) == pc = from
Goto(to) == pc' = to /\ UNCHANGED i

\* The next turn of a loop over the sockets, or what follows the loop.
NextSock(loop, after) ==
  IF i < NSock THEN pc' = loop /\ i' = i + 1
               ELSE pc' = after /\ UNCHANGED i

NextPoll == NextSock("poll", "top")

\* wiz_tls_deinit: everything the context points to goes back to the heap.
wiz_tls_deinit(s) == /\ ctx' = [ctx EXCEPT ![s] = {}]
                     /\ free' = free \cup ctx[s]

\* Mutant: the context is freed, the session still counts as active.
https_close_session_StaysActive(s) ==
  /\ \/ tls_active[s] /\ CanWrite(s) /\ wiz_tls_deinit(s) /\ UNCHANGED tls_active
     \/ ~tls_active[s] /\ UNCHANGED tlsVars
  /\ SocketsClose({s})

\* The notification and the context go only with an active session;
\* disconnect() and close() return once the socket is SOCK_CLOSED.
https_close_session(s) ==
  /\ \/ /\ tls_active[s] /\ CanWrite(s)         \* wiz_tls_close_notify
        /\ wiz_tls_deinit(s)
        /\ tls_active' = [tls_active EXCEPT ![s] = FALSE]
     \/ ~tls_active[s] /\ UNCHANGED tlsVars
  /\ SocketsClose({s})

SetSent(s, v) == sent' = [sent EXCEPT ![s] = v]

CheckStatus ==
  /\ At("top")
  /\ pc' = IF g_net_status = "DISCONNECTED" THEN "drop" ELSE "poll"
  /\ i' = 1
  /\ UNCHANGED <<netVars, sem, sockVars, tlsVars, sent>>

\* Mutant: stale tokens are drained before the task waits.
DropSession_Drains ==
  /\ At("drop")
  /\ https_close_session(i)
  /\ SetSent(i, "no")
  /\ NextSock("drop", "take")
  /\ sem' = 0
  /\ UNCHANGED netVars

DropSession ==
  /\ At("drop")
  /\ https_close_session(i)
  /\ SetSent(i, "no")
  /\ NextSock("drop", "take")
  /\ UNCHANGED <<netVars, sem>>

TakeSem ==
  /\ At("take") /\ sem > 0
  /\ sem' = sem - 1
  /\ pc' = "poll" /\ i' = 1
  /\ UNCHANGED <<netVars, sockVars, tlsVars, sent>>

\* Whatever connection the session was negotiated on.
PollEstablished ==
  \/ ~tls_active[i] /\ rx[i] = "none" /\ NextPoll
  \/ ~tls_active[i] /\ rx[i] # "none" /\ Goto("init")
  \/ tls_active[i] /\ sent[i] = "old" /\ Goto("close")
  \/ tls_active[i] /\ sent[i] = "recent" /\ NextPoll
  \/ tls_active[i] /\ sent[i] = "no" /\ rx[i] = "none" /\ NextPoll
  \/ tls_active[i] /\ sent[i] = "no" /\ rx[i] # "none" /\ Goto("read")

\* The first read of Sn_SR decides what to do with the socket.
Poll ==
  /\ At("poll")
  /\ \/ sr[i] = "CLOSED" /\ Goto("open")
     \/ sr[i] = "INIT" /\ Goto("listen")
     \/ sr[i] = "CLOSE_WAIT" /\ Goto("close")
     \/ sr[i] = "LISTEN" /\ NextPoll
     \/ sr[i] = "ESTABLISHED" /\ PollEstablished
  /\ UNCHANGED <<netVars, sem, sockVars, tlsVars, sent>>

\* Mutant: a closed socket drops its session flag, but not the context.
OpenSocket_ForgetsSession ==
  /\ At("open")
  /\ \/ /\ ip # "none"
        /\ \E v \in {"INIT", "LISTEN"} : sr' = [sr EXCEPT ![i] = v]
     \/ ip = "none" /\ UNCHANGED sr
  /\ tls_active' = [tls_active EXCEPT ![i] = FALSE]
  /\ NextPoll
  /\ UNCHANGED <<netVars, sem, rx, stalled, conn, ctx, free, sent>>

\* socket() fails without a source IP; the result of listen() is ignored,
\* so it may leave the socket in SOCK_INIT.
OpenSocket ==
  /\ At("open")
  /\ \/ /\ ip # "none"
        /\ \E v \in {"INIT", "LISTEN"} : sr' = [sr EXCEPT ![i] = v]
     \/ ip = "none" /\ UNCHANGED sr
  /\ NextPoll
  /\ UNCHANGED <<netVars, sem, rx, stalled, conn, tlsVars, sent>>

ListenSocket ==
  /\ At("listen")
  /\ sr' = IF sr[i] = "INIT" THEN [sr EXCEPT ![i] = "LISTEN"] ELSE sr
  /\ NextPoll
  /\ UNCHANGED <<netVars, sem, rx, stalled, conn, tlsVars, sent>>

\* memset of the context (what it pointed to is forgotten), then
\* wiz_tls_server_init: seven allocations and the mbedTLS set-up calls, any
\* of which may fail.  When some but not all of the allocations succeed,
\* wiz_tls_deinit is about to run over uninitialised structures.
InitTls ==
  /\ At("init")
  /\ \E got \in SUBSET free :
       /\ Cardinality(got) <= CtxBlocks
       /\ ctx' = [ctx EXCEPT ![i] = got]
       /\ free' = free \ got
       /\ \/ Cardinality(got) = CtxBlocks /\ Goto("handshake")
          \/ (got = {} \/ Cardinality(got) = CtxBlocks) /\ Goto("teardown")
          \/ got # {} /\ Cardinality(got) < CtxBlocks /\ Goto("wildfree")
  /\ UNCHANGED <<netVars, sem, sockVars, tls_active, sent>>

\* wiz_tls_server_handshake returns 0 ...
HandshakeDone ==
  /\ At("handshake")
  /\ sr[i] = "ESTABLISHED" /\ rx[i] = "hello" /\ CanWrite(i)
  /\ rx' = [rx EXCEPT ![i] = "none"]
  /\ conn' = [conn EXCEPT ![i] = "secured"]
  /\ tls_active' = [tls_active EXCEPT ![i] = TRUE]
  /\ SetSent(i, "no")
  /\ NextPoll
  /\ UNCHANGED <<netVars, sem, sr, stalled, ctx, free>>

\* ... or fails: an alert, a peer that is gone, or five seconds.
HandshakeFailed ==
  /\ At("handshake")
  /\ Goto("teardown")
  /\ UNCHANGED <<netVars, sem, sockVars, tlsVars, sent>>

Teardown ==
  /\ At("teardown")
  /\ wiz_tls_deinit(i)
  /\ SocketsClose({i})
  /\ NextPoll
  /\ UNCHANGED <<netVars, sem, tls_active, sent>>

\* mbedtls_*_free on memory nobody initialised: it may happen to do nothing,
\* or fault, and the watchdog restarts the device.
WildFreeHarmless ==
  /\ At("wildfree")
  /\ Goto("teardown")
  /\ UNCHANGED <<netVars, sem, sockVars, tlsVars, sent>>

WildFreeReboot ==
  /\ At("wildfree")
  /\ ip' = Booted.ip /\ g_net_status' = "DISCONNECTED" /\ netpc' = "link"
  /\ sem' = Booted.sem /\ pc' = "top" /\ i' = 1
  /\ SocketsClose(Socks)
  /\ tls_active' = Booted.no /\ ctx' = Booted.ctx /\ free' = Blocks
  /\ sent' = Booted.sent
  /\ UNCHANGED phy

\* Mutant: any result of the read but "nothing" is taken for a request.
ReadRequest_AnyBytes ==
  /\ At("read")
  /\ \/ rx[i] # "none" /\ rx' = [rx EXCEPT ![i] = "none"] /\ Goto("send")
     \/ rx[i] = "none" /\ UNCHANGED rx /\ Goto("close")
  /\ UNCHANGED <<netVars, sem, sr, stalled, conn, tlsVars, sent>>

\* Mutant: a read that fails is tried again, like one that wants more.
ReadRequest_NeverCloses ==
  /\ At("read")
  /\ \/ /\ rx[i] = "request" /\ conn[i] # "plain"
        /\ rx' = [rx EXCEPT ![i] = "none"]
        /\ Goto("send")
     \/ /\ ~(rx[i] = "request" /\ conn[i] # "plain")
        /\ UNCHANGED rx
        /\ NextPoll
  /\ UNCHANGED <<netVars, sem, sr, stalled, conn, tlsVars, sent>>

\* What mbedtls_ssl_read makes of the bytes: a record opens only under the
\* session that sealed it.
ReadRequest ==
  /\ At("read")
  /\ \/ /\ rx[i] = "request" /\ conn[i] # "plain"
        /\ rx' = [rx EXCEPT ![i] = "none"]
        /\ Goto("send")
     \/ /\ rx[i] = "none" /\ ~Connected(i)      \* MBEDTLS_ERR_SSL_WANT_READ
        /\ UNCHANGED rx
        /\ NextPoll
     \/ /\ ~(rx[i] = "request" /\ conn[i] # "plain")
        /\ UNCHANGED rx
        /\ Goto("close")
  /\ UNCHANGED <<netVars, sem, sr, stalled, conn, tlsVars, sent>>

PageSent ==
  /\ At("send")
  /\ Connected(i) /\ CanWrite(i)
  /\ conn' = [conn EXCEPT ![i] = "served"]
  /\ SetSent(i, "recent")
  /\ NextPoll
  /\ UNCHANGED <<netVars, sem, sr, rx, stalled, tlsVars>>

\* The send-failure path does not touch https_response_sent.
SendFailed ==
  /\ At("send")
  /\ ~Connected(i)
  /\ https_close_session(i)
  /\ NextPoll
  /\ UNCHANGED <<netVars, sem, sent>>

\* Mutant: the session ends, its response is not forgotten.
CloseSession_KeepsResponse ==
  /\ At("close")
  /\ https_close_session(i)
  /\ NextPoll
  /\ UNCHANGED <<netVars, sem, sent>>

CloseSession ==
  /\ At("close")
  /\ https_close_session(i)
  /\ SetSent(i, "no")
  /\ NextPoll
  /\ UNCHANGED <<netVars, sem>>

HttpTask == \/ CheckStatus \/ DropSession \/ TakeSem \/ Poll \/ OpenSocket
            \/ ListenSocket \/ InitTls \/ HandshakeDone \/ HandshakeFailed
            \/ Teardown \/ WildFreeHarmless \/ WildFreeReboot \/ ReadRequest
            \/ PageSent \/ SendFailed \/ CloseSession

Environment ==
  \/ LinkChange
  \/ \E s \in Socks : \/ PeerConnect(s) \/ PeerFin(s) \/ PeerReset(s)
                      \/ PeerStall(s) \/ FlushElapsed(s)
                      \/ \E p \in Payloads : PeerSend(s, p)

Next == NetTask \/ HttpTask \/ Environment

Spec == Init /\ [][Next]_vars

(***************************************************************************)
(* Both tasks are created once and never deleted, the scheduler is         *)
(* preemptive on two cores, and every wait in them but the semaphore and a *)
(* blocked write is bounded (DHCP retries, five seconds of handshake, two  *)
(* seconds of read), so a task that can step does.  Losing a lease, and    *)
(* whatever the link and the peers do, is never owed.                      *)
(***************************************************************************)
Fairness ==
  /\ WF_vars(HttpTask)
  /\ WF_vars(LinkFound \/ LinkMissing \/ ChipReset \/ DhcpInit \/ DhcpLeased
             \/ DhcpFailed \/ GiveSem \/ LinkLost)
  /\ \A s \in Socks : WF_vars(FlushElapsed(s))

FairSpec == Spec /\ Fairness

------------------------------------------------------------------------------
(* Safety *)

(***************************************************************************)
(* No lost wake-up: once net_status_task has given the semaphore for this  *)
(* link epoch, http_webserver_task is not left waiting for it.  The task   *)
(* may have seen DISCONNECTED long before, and missed any number of        *)
(* epochs, so tokens of earlier epochs may be left as well.                *)
(***************************************************************************)
NoLostWakeup == pc \in {"drop", "take"} /\ netpc = "up" => sem > 0

(***************************************************************************)
(* The heap is accounted for: every block is free or belongs to exactly    *)
(* one context, and a context that owns blocks is either active or the one *)
(* the task is setting up or tearing down.  A context forgotten by the     *)
(* memset of a new connection, or freed twice, breaks it.                  *)
(***************************************************************************)
HeapAccounted ==
  /\ \A b \in Blocks : b \in free \/ \E s \in Socks : b \in ctx[s]
  /\ \A s \in Socks : ctx[s] \cap free = {}
  /\ \A s, t \in Socks : s # t => ctx[s] \cap ctx[t] = {}
  /\ \A s \in Socks : ctx[s] # {} =>
       tls_active[s] \/ (s = i /\ pc \in {"handshake", "teardown", "wildfree"})

(***************************************************************************)
(* An active session has its whole context: reads, writes and the close    *)
(* notification never follow a pointer wiz_tls_deinit has cleared, even    *)
(* for a session that outlived its connection.                             *)
(***************************************************************************)
ActiveHasContext ==
  \A s \in Socks : tls_active[s] => Cardinality(ctx[s]) = CtxBlocks

(***************************************************************************)
(* A response is pending only on an active session: every path that ends a *)
(* session also forgets its response, so the next session on the socket    *)
(* does not start with the two-second close timer of the last one.         *)
(***************************************************************************)
ResponseOfSession == \A s \in Socks : sent[s] # "no" => tls_active[s]

(***************************************************************************)
(* What the steps of the two tasks rely on: DISCONNECTED is announced only *)
(* on the way to the next link; a socket being opened is closed; only an   *)
(* idle session is read or answered; a session that is set up is not       *)
(* active yet and, once it shakes hands, complete; and a connection that   *)
(* has come further than "plain" has its own active session.               *)
(***************************************************************************)
StepsRely ==
  /\ g_net_status = "DISCONNECTED" => netpc \in {"link", "reset"}
  /\ pc = "open" => sr[i] = "CLOSED"
  /\ pc \in {"read", "send"} => tls_active[i] /\ sent[i] = "no"
  /\ pc = "send" => sr[i] \notin {"INIT", "LISTEN"}
  /\ pc = "send" /\ Connected(i) => conn[i] = "secured"
  /\ pc \in {"init", "handshake", "teardown", "wildfree"} => ~tls_active[i]
  /\ pc = "handshake" => Cardinality(ctx[i]) = CtxBlocks
  /\ \A s \in Socks : conn[s] # "plain" => Connected(s) /\ tls_active[s]
  /\ \A s \in Socks : conn[s] = "served" => sent[s] # "no"

\* The inductive invariant.
IInv == /\ TypeOK
        /\ NoLostWakeup
        /\ HeapAccounted
        /\ ActiveHasContext
        /\ ResponseOfSession
        /\ StepsRely

(***************************************************************************)
(* The server answers each connection at most once, and only after a       *)
(* handshake on that very connection, whatever resets and stale sessions   *)
(* intervene: it implements HttpsConnection.                               *)
(***************************************************************************)
phaseOf == [s \in Socks |-> IF Connected(s) THEN conn[s]
                            ELSE IF sr[s] = "LISTEN" THEN "listening" ELSE "down"]

Connections == INSTANCE HttpsConnection WITH phase <- phaseOf

ConnectionsSpec == Connections!Spec

------------------------------------------------------------------------------
(* Liveness *)

\* From some time on, no peer keeps its window closed.
PeersRead == <>[](\A s \in Socks : ~stalled[s])

(***************************************************************************)
(* While the network stays up the server does not stay parked on the       *)
(* semaphore.                                                              *)
(***************************************************************************)
ServesWhileUp ==
  PeersRead /\ <>[](g_net_status = "IP_UP") => <>[](pc \notin {"drop", "take"})

(***************************************************************************)
(* Bytes that reach an open connection are read, or the connection ends.   *)
(***************************************************************************)
Waiting(s) == sr[s] = "ESTABLISHED" /\ rx[s] # "none"

BytesAnswered == PeersRead => \A s \in Socks : Waiting(s) ~> ~Waiting(s)

------------------------------------------------------------------------------
(* What the README says and the code does not do *)

(***************************************************************************)
(* README.md:22-23: the device gets its address from DHCP, then the HTTPS  *)
(* server opens port 443.                                                  *)
(***************************************************************************)
OpensAfterLease == \A s \in Socks : sr[s] = "LISTEN" => ip = "leased"

(***************************************************************************)
(* README.md:24-25: a client connects, the device performs a TLS           *)
(* handshake.  So what is read on a connection is read under a session     *)
(* negotiated on it.                                                       *)
(***************************************************************************)
HandshakeOnConnection == pc = "read" /\ Connected(i) => conn[i] # "plain"

(***************************************************************************)
(* README.md:50: multiple sockets tolerate parallel connections.  So what  *)
(* a peer of another socket does cannot keep one waiting for ever.         *)
(***************************************************************************)
ParallelTolerated ==
  \A s \in Socks \ Stalling : Waiting(s) ~> ~Waiting(s)
==============================================================================
