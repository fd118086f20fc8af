----------------------------- MODULE SegGateway -----------------------------
(***************************************************************************)
(* The serial gateway: seg_task drives the data socket through the states  *)
(* of its working mode, seg_u2e_task sends what the UART received,         *)
(* seg_recv_task passes what the network sent to the UART, seg_timer_task  *)
(* closes the socket when a timer has expired. All but seg_recv_task take  *)
(* seg_critical_sem before they use the socket, and process_socket_        *)
(* termination reads its state and resets the flags before it does.        *)
(*                                                                         *)
(* A step is what a task does up to its next access to the socket, to a    *)
(* flag, a size or a semaphore another one uses. The data of a connection  *)
(* are chunks, the data of the UART a number of bytes; SerialPath has the  *)
(* bytes, the packing and the command mode. Keep-alive packets, connect    *)
(* messages, the status pin and the link state are left out.               *)
(***************************************************************************)
EXTENDS Integers, Sequences, FiniteSets

CONSTANTS
    Modes,        \* working modes: of AllModes
    MaxConn,      \* connections
    Chunks,       \* chunks the peer sends on a connection: a set of kinds
    MaxRx,        \* chunks that wait in the chip
    MaxBytes,     \* bytes that wait in the ring buffer
    Retries,      \* tcp_rcr_val
    MaxFaults,    \* refusals in a behaviour
    Loads,        \* what is going on besides connections: sets of Sources
    Passwords,    \* pw_connect_en: a set of its values
    XonXoff       \* flow control is XON/XOFF

TlsModes  == {"SSL_TCP_CLIENT", "MQTTS_CLIENT"}
MqttModes == {"MQTT_CLIENT", "MQTTS_CLIENT"}
Clients   == {"TCP_CLIENT"} \cup TlsModes \cup MqttModes
\* Bytes from the UART, chunks from the peer, an inactivity time that is set, refusals
\* by check_tcp_connect_exception, socket() and wiz_tls_init, and races: without them
\* passes of seg_task (10 ms apart) and the work of the other tasks do not overlap.
Sources   == {"uart", "peer", "inactivity", "faults", "races"}
AllModes  == Clients \cup {"TCP_SERVER", "TCP_MIXED", "UDP"}

ASSUME GatewayAssumption ==
    /\ Modes \subseteq AllModes /\ Chunks \subseteq {"password", "data"}
    /\ {MaxConn, MaxRx, MaxBytes, MaxFaults} \subseteq Nat /\ Retries \in Nat \ {0}
    /\ Loads \subseteq SUBSET Sources
    /\ XonXoff \in BOOLEAN /\ Passwords \subseteq BOOLEAN

VARIABLES
    mode, password, load,   \* working_mode, pw_connect_en, see Loads
    sr, ir_con, rx,         \* Sn_SR, Sn_IR_CON, the chunks in the chip
    conn, accepted,         \* number of the socket's last connection, and
                            \* whether the peer opened it (history)
    working_state, mixed_state, reconnection_count, first_established,
    tls,                    \* s2e_tlsContext is initialised
    ring, u2e_size,         \* bytes in the ring buffer and in g_send_buf
    seg_u2e_sem,
    g_recv_buf, e2u_size, seg_e2u_sem, isXON,
    flag_connect_pw_auth, flag_auth_time, flag_inactivity, seg_timer_sem,
    seg_auth_timer, seg_inactivity_timer,
    seg_critical_sem,       \* "free" or the task that holds it
    at, status, len, back,  \* of a task: the next step, its sock_status and len,
                            \* where it goes on after a procedure
    ready, authed,          \* the connection announced last, those whose
                            \* password was right (history)
    faults

config  == <<mode, password, load>>
socket  == <<sr, ir_con, rx, conn, accepted>>
state   == <<working_state, ready>>
mixed   == <<mixed_state, reconnection_count, first_established, tls>>
serial  == <<ring, u2e_size, seg_u2e_sem, isXON>>
network == <<g_recv_buf, e2u_size, seg_e2u_sem>>
flags   == <<flag_connect_pw_auth, flag_auth_time, flag_inactivity>>
clocks  == <<seg_auth_timer, seg_inactivity_timer>>
timers  == <<clocks, seg_timer_sem>>
control == <<seg_critical_sem, at, status, len, back>>
history == <<authed, faults>>
vars == <<config, socket, state, mixed, serial, network, flags, timers, control, history>>

Tasks   == {"seg_task", "seg_u2e_task", "seg_recv_task", "seg_mqtt_yield_task", "seg_timer_task"}
NoChunk == [conn |-> 0, kind |-> "none"]
Timers  == {"NULL", "stopped", "running"}
Open    == {"SOCK_ESTABLISHED", "SOCK_CLOSE_WAIT"}

Init ==
    /\ mode \in Modes /\ password \in Passwords /\ load \in Loads
    /\ sr = "SOCK_CLOSED" /\ ir_con = FALSE /\ rx = <<>> /\ conn = 0 /\ accepted = FALSE
    /\ working_state = "ST_OPEN" /\ ready = 0
    /\ mixed_state = "MIXED_SERVER" /\ reconnection_count = 0
    /\ first_established = FALSE /\ tls = FALSE
    /\ ring = 0 /\ u2e_size = 0 /\ seg_u2e_sem = FALSE /\ isXON = TRUE
    /\ g_recv_buf = NoChunk /\ e2u_size = 0 /\ seg_e2u_sem = FALSE
    /\ flag_connect_pw_auth = FALSE /\ flag_auth_time = FALSE /\ flag_inactivity = FALSE
    /\ seg_auth_timer = "NULL" /\ seg_inactivity_timer = "NULL" /\ seg_timer_sem = FALSE
    /\ seg_critical_sem = "free" /\ at = [t \in Tasks |-> "wait"]
    /\ status = [t \in Tasks |-> "SOCK_CLOSED"] /\ len = [t \in Tasks |-> 0]
    /\ back = [t \in Tasks |-> "wait"]
    /\ authed = {} /\ faults = 0

\* A step of a task ends at a label; at "leave" it gives the semaphore back and waits.
Jump(t, l)    == at' = [at EXCEPT ![t] = l]
Goto(t, l)    == IF l = "leave" THEN Jump(t, "wait") /\ seg_critical_sem' = "free"
                 ELSE Jump(t, l) /\ UNCHANGED seg_critical_sem
Go(t, l)      == Goto(t, l) /\ UNCHANGED back
Step(t, a, b) == at[t] = a /\ Go(t, b)
Lock(t, l)    == seg_critical_sem = "free" /\ seg_critical_sem' = t /\ Jump(t, l) /\ UNCHANGED back
Call(t, p, l) == Goto(t, p) /\ back' = [back EXCEPT ![t] = l]
Return(t)     == Goto(t, back[t]) /\ back' = [back EXCEPT ![t] = "wait"]
calm          == "races" \notin load
Inactivity    == "inactivity" \in load
Fault         == "faults" \in load /\ faults < MaxFaults /\ faults' = faults + 1
Server        == mode = "TCP_SERVER" \/ (mode = "TCP_MIXED" /\ mixed_state = "MIXED_SERVER")
Flush         == IF mode = "TCP_MIXED" THEN UNCHANGED ring ELSE ring' = 0

(***************************************************************************)
(* What the tasks share: the calls of the socket library, and              *)
(* process_socket_termination.                                             *)
(***************************************************************************)
\* disconnect(): the DISCON command, then the wait for SOCK_CLOSED.
Disconnect(t, a, b, c) ==
    \/ /\ Step(t, a, b)
       /\ sr' = CASE sr \in Open -> "SOCK_FIN_WAIT"
                  [] sr \in {"SOCK_INIT", "SOCK_LISTEN"} -> "SOCK_CLOSED"
                  [] OTHER -> sr
    \/ /\ at[t] = b /\ sr = "SOCK_CLOSED" /\ UNCHANGED sr
       /\ IF c = "back" THEN Return(t) ELSE Go(t, c)

\* Mutant: a password that was right stays right when the connection ends.
reset_SEG_timeflags_KeepPassword ==
    /\ flag_auth_time' = FALSE /\ flag_inactivity' = FALSE /\ UNCHANGED flag_connect_pw_auth

reset_SEG_timeflags ==
    flag_connect_pw_auth' = FALSE /\ flag_auth_time' = FALSE /\ flag_inactivity' = FALSE

Stopped(timer) == IF timer = "NULL" THEN "NULL" ELSE "stopped"

timers_stop ==
    seg_auth_timer' = Stopped(seg_auth_timer) /\ seg_inactivity_timer' = Stopped(seg_inactivity_timer)

\* xTimerReset, for data in either direction: it starts a timer that is stopped, too.
KeepActive ==
    seg_inactivity_timer' = IF seg_inactivity_timer = "NULL" THEN "NULL" ELSE "running"

\* After the flags: a closed socket is left alone, the others are ended or
\* just closed, by seg_timer_task with the semaphore.
Chosen(t) ==
    CASE status[t] = "SOCK_CLOSED" -> Return(t)
      [] status[t] \in Open /\ mode # "UDP" -> Go(t, IF t = "seg_timer_task" THEN "lock_end" ELSE "end")
      [] OTHER -> Go(t, IF t = "seg_timer_task" THEN "lock_close" ELSE "close")

Forget(t) == status' = [status EXCEPT ![t] = "SOCK_CLOSED"]

\* Mutant: the timer's task keeps the semaphore.
Close_Keeps(t) == at[t] = "close" /\ sr' = "SOCK_CLOSED" /\ rx' = <<>> /\ Return(t)

Close(t) ==
    /\ at[t] = "close" /\ sr' = "SOCK_CLOSED" /\ rx' = <<>>
    /\ IF t = "seg_timer_task"
       THEN Jump(t, back[t]) /\ back' = [back EXCEPT ![t] = "wait"] /\ seg_critical_sem' = "free"
       ELSE Return(t)

\* The state of the socket is read first; the timers, the flags and the TLS
\* session go before the semaphore is taken, and for a closed socket nothing else.
Terminate(t) ==
    \/ /\ Step(t, "status", "timers")
       /\ status' = [status EXCEPT ![t] = sr]
       /\ UNCHANGED <<sr, rx, tls, flags, clocks>>
    \/ /\ at[t] = "timers" /\ timers_stop
       /\ IF mode = "TCP_MIXED" /\ mixed_state = "MIXED_CLIENT"
          THEN UNCHANGED flags ELSE reset_SEG_timeflags
       /\ IF mode \in TlsModes THEN Go(t, "tls") /\ UNCHANGED status ELSE Chosen(t) /\ Forget(t)
       /\ UNCHANGED <<sr, rx, tls>>
    \/ /\ at[t] = "tls" /\ tls' = FALSE /\ Chosen(t) /\ Forget(t)
       /\ UNCHANGED <<sr, rx, flags, clocks>>
    \/ /\ \/ at[t] = "lock_end" /\ Lock(t, "end")
          \/ at[t] = "lock_close" /\ Lock(t, "close")
       /\ UNCHANGED <<sr, rx, tls, flags, clocks, status>>
    \/ /\ Disconnect(t, "end", "end_wait", "close")
       /\ UNCHANGED <<rx, tls, flags, clocks, status>>
    \/ Close(t) /\ UNCHANGED <<tls, flags, clocks, status>>

process_socket_termination(t) ==
    /\ Terminate(t)
    /\ UNCHANGED <<config, ir_con, conn, accepted, state, mixed_state, reconnection_count,
                   first_established, serial, network, seg_timer_sem, len, history>>

(***************************************************************************)
(* From the network to the UART. seg_recv_task runs ether_to_uart without  *)
(* a semaphore; seg_task runs it too, to drain a socket its peer has       *)
(* closed.                                                                 *)
(***************************************************************************)
check_connect_pw_auth == g_recv_buf.kind = "password"

\* len = getSn_RX_RSR(): with nothing in the chip it returns, even if e2u_size is not 0.
Look(t) ==
    /\ at[t] = "rsr" /\ IF rx = <<>> THEN Return(t) ELSE Go(t, "recv")
    /\ len' = [len EXCEPT ![t] = Len(rx)]
    /\ UNCHANGED <<sr, rx, g_recv_buf, e2u_size, flag_connect_pw_auth, authed, clocks>>

\* recv() waits on a connection and fails, closing the socket, without one. It
\* takes what there was to take a moment ago, as one chunk.
Receive(t) ==
    /\ Step(t, "recv", "auth")
    /\ IF sr \in Open \cup {"SOCK_UDP"} /\ rx # <<>>
       THEN LET n == IF len[t] < Len(rx) THEN len[t] ELSE Len(rx) IN
            /\ g_recv_buf' = IF n = 1 THEN Head(rx) ELSE [Head(rx) EXCEPT !.kind = "data"]
            /\ rx' = SubSeq(rx, n + 1, Len(rx)) /\ e2u_size' = 1 /\ UNCHANGED sr
       ELSE /\ sr # "SOCK_ESTABLISHED"
            /\ e2u_size' = 0 /\ sr' = "SOCK_CLOSED" /\ rx' = <<>> /\ UNCHANGED g_recv_buf
    /\ len' = [len EXCEPT ![t] = 0] /\ KeepActive
    /\ UNCHANGED <<flag_connect_pw_auth, authed, seg_auth_timer>>

Authenticate(t) ==
    /\ at[t] = "auth"
    /\ IF Server /\ password /\ ~flag_connect_pw_auth
       THEN /\ flag_connect_pw_auth' = check_connect_pw_auth
            /\ authed' = IF check_connect_pw_auth THEN authed \cup {g_recv_buf.conn} ELSE authed
            /\ e2u_size' = 0 /\ Go(t, "auth_stop")
       ELSE Go(t, "put") /\ UNCHANGED <<flag_connect_pw_auth, authed, e2u_size>>
    /\ UNCHANGED <<sr, rx, len, g_recv_buf, clocks>>

StopAuth(t) ==
    /\ at[t] = "auth_stop" /\ seg_auth_timer' = Stopped(seg_auth_timer)
    /\ Go(t, IF flag_connect_pw_auth THEN "put" ELSE "bad")
    /\ UNCHANGED <<sr, rx, len, g_recv_buf, e2u_size, flag_connect_pw_auth, authed,
                   seg_inactivity_timer>>

\* The UART takes the chunk unless its peer has sent XOFF; then the loop begins again.
Puts(t) == at[t] = "put" /\ e2u_size > 0 /\ (XonXoff => isXON)

Put(t) ==
    /\ at[t] = "put"
    /\ e2u_size' = IF Puts(t) THEN 0 ELSE e2u_size
    /\ IF e2u_size' = 0 THEN Return(t) ELSE Go(t, IF mode \in MqttModes THEN "put" ELSE "rsr")
    /\ UNCHANGED <<sr, rx, len, g_recv_buf, flag_connect_pw_auth, authed, clocks>>

ether_to_uart(t) ==
    /\ \/ Look(t) \/ Receive(t) \/ Authenticate(t) \/ StopAuth(t) \/ Put(t)
       \/ /\ Disconnect(t, "bad", "bad_wait", "back")
          /\ UNCHANGED <<rx, len, g_recv_buf, e2u_size, flag_connect_pw_auth, authed, clocks>>
    /\ UNCHANGED <<config, ir_con, conn, accepted, state, mixed, serial, seg_e2u_sem,
                   flag_auth_time, flag_inactivity, seg_timer_sem, status, faults>>

(***************************************************************************)
(* seg_task: one pass of do_seg.                                           *)
(***************************************************************************)
Seg(a, b) == Step("seg_task", a, b)
Then(l)   == Go("seg_task", l)
Do(p, l)  == Call("seg_task", p, l)
Terminated(l) == Do("status", l)

AtRest ==
    /\ \A t \in Tasks \ {"seg_task"} : at[t] \in {"wait", "bad_wait"}
    /\ at["seg_recv_task"] = "wait" => ~seg_e2u_sem
    /\ at["seg_timer_task"] = "wait" => ~seg_timer_sem

\* A pass begins: the handler of the mode looks at the socket. A pass that finds
\* nothing to do changes nothing and is left out.
Finds(states, l) == sr \in states /\ Lock("seg_task", l)
Ended            == {"SOCK_FIN_WAIT", "SOCK_CLOSED"}

proc_SEG_udp == Finds({"SOCK_CLOSED"}, "open")

proc_SEG_tcp_client ==
    \/ Finds({"SOCK_INIT"}, "connect")
    \/ ir_con /\ Finds({"SOCK_ESTABLISHED"}, "new")
    \/ Finds({"SOCK_CLOSE_WAIT"}, "drain") \/ Finds(Ended, "closed")

proc_SEG_tcp_client_over_tls ==
    \/ Finds({"SOCK_INIT"}, "connect")
    \/ first_established /\ Finds({"SOCK_ESTABLISHED"}, "new")
    \/ Finds({"SOCK_CLOSE_WAIT"}, "drain") \/ Finds(Ended, "closed")

proc_SEG_mqtt_client ==
    \/ Finds({"SOCK_INIT"}, "connect")
    \/ first_established /\ Finds({"SOCK_ESTABLISHED"}, "new")
    \/ Finds({"SOCK_CLOSE_WAIT"}, "fin") \/ Finds(Ended, "closed")

proc_SEG_mqtts_client ==
    \/ Finds({"SOCK_INIT"}, "connect")
    \/ first_established /\ Finds({"SOCK_ESTABLISHED"}, "new")
    \/ ~first_established /\ rx # <<>> /\ Finds({"SOCK_ESTABLISHED"}, "yield")
    \/ Finds({"SOCK_CLOSE_WAIT"}, "fin") \/ Finds(Ended, "closed")

proc_SEG_tcp_server ==
    \/ ir_con /\ Finds({"SOCK_ESTABLISHED"}, "new")
    \/ Finds({"SOCK_CLOSE_WAIT"}, "drain") \/ Finds(Ended, "closed")

proc_SEG_tcp_mixed ==
    \/ mixed_state = "MIXED_CLIENT" /\ Finds({"SOCK_INIT"}, "connect")
    \/ ir_con /\ Finds({"SOCK_ESTABLISHED"}, "new")
    \/ Finds({"SOCK_CLOSE_WAIT"}, "drain") \/ Finds(Ended, "closed")

do_seg ==
    \/ mode = "UDP" /\ proc_SEG_udp
    \/ mode = "TCP_CLIENT" /\ proc_SEG_tcp_client
    \/ mode = "SSL_TCP_CLIENT" /\ proc_SEG_tcp_client_over_tls
    \/ mode = "MQTT_CLIENT" /\ proc_SEG_mqtt_client
    \/ mode = "MQTTS_CLIENT" /\ proc_SEG_mqtts_client
    \/ mode = "TCP_SERVER" /\ proc_SEG_tcp_server
    \/ mode = "TCP_MIXED" /\ proc_SEG_tcp_mixed

Begin ==
    /\ at["seg_task"] = "wait"
    /\ calm => AtRest
    /\ do_seg
    /\ UNCHANGED <<config, socket, state, mixed, serial, network, flags, timers, status, len,
                   history>>

\* No DNS answer, no address, or an address that cannot be right.
check_tcp_connect_exception == Fault

\* check_tcp_connect_exception, then connect(), which waits for the answer.
Connect ==
    /\ at["seg_task"] = "connect"
    /\ LET after == CASE mode = "TCP_MIXED"  -> "counted"
                      [] mode = "TCP_CLIENT" -> "leave"
                      [] OTHER               -> "handshake" IN
       \/ /\ check_tcp_connect_exception /\ UNCHANGED <<sr, ir_con, conn, accepted>>
          /\ IF mode = "TCP_MIXED" THEN Terminated("giveup") ELSE Then("leave")
       \/ /\ sr = "SOCK_INIT" /\ conn < MaxConn /\ sr' = "SOCK_ESTABLISHED"
          /\ conn' = conn + 1 /\ accepted' = FALSE
          /\ ir_con' = (mode \in {"TCP_CLIENT", "TCP_MIXED"}) /\ Then(after)
          /\ UNCHANGED faults
       \/ /\ sr' = "SOCK_CLOSED"
          /\ Terminated(IF mode = "TCP_MIXED" THEN after ELSE "leave")
          /\ UNCHANGED <<ir_con, conn, accepted, faults>>
    /\ UNCHANGED <<config, rx, state, mixed, serial, network, flags, timers, status, len, authed>>

\* wiz_tls_connect, mqtt_transport_connect and the subscriptions, as the mode has them.
Handshake ==
    /\ at["seg_task"] = "handshake"
    /\ \/ /\ sr = "SOCK_ESTABLISHED" /\ first_established' = TRUE /\ Then("leave")
          /\ authed' = authed \cup {conn}
       \/ Terminated("leave") /\ UNCHANGED <<first_established, authed>>
    /\ UNCHANGED <<config, socket, state, mixed_state, reconnection_count, tls, serial,
                   network, flags, timers, status, len, faults>>

\* A mixed client counts its attempts, the one that succeeded too.
Attempt ==
    \/ /\ at["seg_task"] = "counted" /\ reconnection_count' = reconnection_count + 1
       /\ IF reconnection_count + 1 >= Retries THEN Terminated("giveup") ELSE Then("leave")
       /\ UNCHANGED <<mixed_state, ring>>
    \/ /\ at["seg_task"] = "giveup" /\ Then("leave")
       /\ reconnection_count' = 0 /\ ring' = 0 /\ mixed_state' = "MIXED_SERVER"

CountAttempt ==
    /\ Attempt
    /\ UNCHANGED <<config, socket, state, first_established, tls, u2e_size, seg_u2e_sem, isXON,
                   network, flags, timers, status, len, history>>

\* A new connection: flags and timers, the flush of the ring, then the announcement.
Establish ==
    /\ Seg("new", "announce") /\ ir_con' = FALSE /\ Flush
    /\ flag_inactivity' = IF Inactivity THEN FALSE ELSE flag_inactivity
    /\ LET auth == mode = "TCP_SERVER" /\ password IN
       /\ flag_auth_time' = IF auth THEN FALSE ELSE flag_auth_time
       /\ seg_auth_timer' = IF auth THEN "running" ELSE seg_auth_timer
    /\ seg_inactivity_timer' = IF Inactivity THEN "running" ELSE seg_inactivity_timer
    /\ first_established' = FALSE
    /\ UNCHANGED <<config, sr, rx, conn, accepted, state, mixed_state, reconnection_count, tls,
                   u2e_size, seg_u2e_sem, isXON, network, flag_connect_pw_auth, seg_timer_sem,
                   status, len, history>>

set_device_status(s) == working_state' = s

Announce ==
    /\ Seg("announce", IF mode = "TCP_MIXED" THEN "mixed" ELSE "leave")
    /\ set_device_status("ST_CONNECT") /\ ready' = conn
    /\ UNCHANGED <<config, socket, mixed, serial, network, flags, timers, status, len, history>>

\* Mutant: after the announcement of a client's connection nobody is woken.
EstablishMixed_NoGive ==
    /\ Seg("mixed", "leave") /\ reconnection_count' = 0 /\ mixed_state' = "MIXED_SERVER"
    /\ IF mixed_state = "MIXED_SERVER"
       THEN /\ ring' = 0 /\ flag_auth_time' = FALSE
            /\ seg_auth_timer' = IF password THEN "running" ELSE seg_auth_timer
       ELSE UNCHANGED <<ring, flag_auth_time, seg_auth_timer>>
    /\ UNCHANGED <<config, socket, state, first_established, tls, u2e_size, seg_u2e_sem, isXON,
                   network, flag_connect_pw_auth, flag_inactivity, seg_inactivity_timer,
                   seg_timer_sem, status, len, history>>

\* Mixed mode only, after the announcement: a server flushes the ring and starts
\* the timer of the password, a client wakes seg_u2e_task and becomes a server.
EstablishMixed ==
    /\ Seg("mixed", "leave") /\ reconnection_count' = 0 /\ mixed_state' = "MIXED_SERVER"
    /\ IF mixed_state = "MIXED_SERVER"
       THEN /\ ring' = 0 /\ flag_auth_time' = FALSE /\ UNCHANGED seg_u2e_sem
            /\ seg_auth_timer' = IF password THEN "running" ELSE seg_auth_timer
       ELSE /\ seg_u2e_sem' = (seg_u2e_sem \/ ring + u2e_size > 0)
            /\ UNCHANGED <<ring, flag_auth_time, seg_auth_timer>>
    /\ UNCHANGED <<config, socket, state, first_established, tls, u2e_size, isXON, network,
                   flag_connect_pw_auth, flag_inactivity, seg_inactivity_timer, seg_timer_sem,
                   status, len, history>>

\* The peer has closed: the chunks that are left go to the UART first.
CloseWait ==
    \/ /\ at["seg_task"] = "drain"
       /\ IF rx # <<>> \/ e2u_size # 0 THEN Do("rsr", "drain") ELSE Then("fin")
       /\ UNCHANGED sr
    \/ Disconnect("seg_task", "fin", "fin_wait", "leave")

Drain ==
    /\ CloseWait
    /\ UNCHANGED <<config, ir_con, rx, conn, accepted, state, mixed, serial, network, flags,
                   timers, status, len, history>>

\* The socket is closed: TCP client and mixed mode report it before the
\* termination, the others after it.
Closed ==
    /\ at["seg_task"] = "closed"
    /\ IF mode \in {"TCP_CLIENT", "TCP_MIXED"}
       THEN Terminated("open") /\ set_device_status("ST_OPEN") /\ UNCHANGED ready
       ELSE Terminated("report") /\ UNCHANGED state
    /\ UNCHANGED <<config, socket, mixed, serial, network, flags, timers, status, len, history>>

\* Mutant: the device keeps the status of the connection that has ended.
Report_KeepsStatus ==
    /\ Seg("report", "open")
    /\ UNCHANGED <<config, socket, state, mixed, serial, network, flags, timers, status, len,
                   history>>

Report ==
    /\ Seg("report", "open") /\ set_device_status("ST_OPEN") /\ UNCHANGED ready
    /\ UNCHANGED <<config, socket, mixed, serial, network, flags, timers, status, len, history>>

\* wiz_tls_init may fail, and then nothing else happens.
InitTls ==
    /\ mode \in TlsModes /\ Fault /\ tls' = FALSE /\ Then("leave")
    /\ UNCHANGED <<sr, ir_con, rx, working_state, ring, u2e_size, e2u_size>>

\* The buffers are emptied (a mixed client keeps what the UART sent), and the
\* socket is opened again; socket() may fail, or mqtt_transport_init after it.
OpenSocket ==
    /\ e2u_size' = 0 /\ rx' = <<>>
    /\ IF mode = "TCP_MIXED" /\ ~Server THEN UNCHANGED <<ring, u2e_size>>
       ELSE u2e_size' = 0 /\ ring' = IF mode \in {"UDP", "TCP_MIXED"} THEN 0 ELSE ring
    /\ \/ /\ sr' = CASE mode = "UDP" -> "SOCK_UDP" [] Server -> "SOCK_LISTEN" [] OTHER -> "SOCK_INIT"
          /\ working_state' = IF mode = "UDP" THEN "ST_UDP" ELSE working_state
          /\ tls' = (mode \in TlsModes) /\ ir_con' = FALSE
          /\ \/ Then("leave") /\ UNCHANGED faults
             \/ mode \in MqttModes /\ Fault /\ Terminated("leave")
       \/ /\ Fault /\ tls' = FALSE /\ IF mode = "UDP" THEN Then("leave") ELSE Terminated("leave")
          /\ UNCHANGED <<sr, ir_con, working_state>>

Reopen ==
    /\ at["seg_task"] = "open"
    /\ InitTls \/ OpenSocket
    /\ UNCHANGED <<config, conn, accepted, ready, mixed_state, reconnection_count,
                   first_established, seg_u2e_sem, isXON, g_recv_buf, seg_e2u_sem, flags,
                   timers, status, len, authed>>

\* mqtt_transport_yield hands a message to mqtt_subscribeMessageHandler: seg_task
\* calls it in MQTTS mode, seg_mqtt_yield_task whenever a connection is announced.
Yield(t) ==
    /\ \/ t = "seg_task" /\ at[t] = "yield"
       \/ t = "seg_mqtt_yield_task" /\ at[t] = "wait" /\ working_state = "ST_CONNECT"
    /\ mode \in MqttModes
    /\ IF rx = <<>> THEN t = "seg_task" /\ Go(t, "leave") /\ UNCHANGED <<rx, g_recv_buf, e2u_size>>
       ELSE /\ g_recv_buf' = Head(rx) /\ rx' = Tail(rx) /\ e2u_size' = 1
            /\ Call(t, "put", IF t = "seg_task" THEN "leave" ELSE "wait")
    /\ UNCHANGED <<config, sr, ir_con, conn, accepted, state, mixed, serial, seg_e2u_sem,
                   flags, timers, status, len, history>>

seg_task ==
    \/ Begin \/ Connect \/ Handshake \/ CountAttempt \/ Establish \/ Announce \/ EstablishMixed
    \/ Drain \/ Closed \/ Report \/ Reopen

(***************************************************************************)
(* The other tasks, the timers and the outside world.                      *)
(***************************************************************************)
U2e(a, b) == Step("seg_u2e_task", a, b)

\* What fits of the ring goes to g_send_buf, and from there to the socket.
uart_to_ether ==
    \/ /\ U2e("fetch", "send")
       /\ LET n == IF ring < MaxBytes - u2e_size THEN ring ELSE MaxBytes - u2e_size IN
          ring' = ring - n /\ u2e_size' = u2e_size + n
       /\ UNCHANGED <<mixed_state, seg_u2e_sem>>
    \/ /\ U2e("send", "leave")
       /\ u2e_size' = IF sr \in Open \cup {"SOCK_UDP"} THEN 0 ELSE u2e_size
       /\ UNCHANGED <<ring, mixed_state, seg_u2e_sem>>

\* The bytes go out on the connection announced; in mixed mode bytes that come
\* while no connection is announced make the server a client.
Forward ==
    \/ /\ U2e("wait", "lock") /\ seg_u2e_sem /\ seg_u2e_sem' = FALSE
       /\ UNCHANGED <<ring, u2e_size, mixed_state>>
    \/ /\ at["seg_u2e_task"] = "lock" /\ Lock("seg_u2e_task", "check")
       /\ UNCHANGED <<ring, u2e_size, mixed_state, seg_u2e_sem>>
    \/ /\ at["seg_u2e_task"] = "check"
       /\ IF /\ ring + u2e_size > 0 /\ mode = "TCP_MIXED" /\ mixed_state = "MIXED_SERVER"
             /\ working_state = "ST_OPEN"
          THEN Call("seg_u2e_task", "status", "client")
          ELSE /\ Go("seg_u2e_task",
                     IF ring + u2e_size > 0 /\ (working_state = "ST_CONNECT" \/ mode = "UDP")
                     THEN "fetch" ELSE "leave")
       /\ UNCHANGED <<ring, u2e_size, mixed_state, seg_u2e_sem>>
    \/ /\ U2e("client", "leave") /\ mixed_state' = "MIXED_CLIENT"
       /\ UNCHANGED <<ring, u2e_size, seg_u2e_sem>>
    \/ uart_to_ether

seg_u2e_task ==
    /\ Forward
    /\ IF at["seg_u2e_task"] = "fetch" THEN KeepActive ELSE UNCHANGED seg_inactivity_timer
    /\ UNCHANGED <<config, socket, state, reconnection_count, first_established, tls, isXON,
                   network, flags, seg_auth_timer, seg_timer_sem, status, len, history>>

seg_recv_task ==
    /\ seg_e2u_sem /\ seg_e2u_sem' = FALSE
    /\ at["seg_recv_task"] = "wait" /\ (calm => at["seg_task"] = "wait")
    /\ Call("seg_recv_task", IF mode \in MqttModes THEN "put" ELSE "rsr", "wait")
    /\ UNCHANGED <<config, socket, state, mixed, serial, g_recv_buf, e2u_size, flags, timers,
                   status, len, history>>

\* A timer that has expired is handled once: the flag is cleared, then the socket
\* is closed. The end of a handled expiry goes back to look at the password.
seg_timer_task ==
    /\ \/ /\ at["seg_timer_task"] = "wait" /\ seg_timer_sem /\ seg_timer_sem' = FALSE
          /\ calm => at["seg_task"] = "wait"
          /\ Go("seg_timer_task", "inactivity") /\ UNCHANGED <<flag_inactivity, flag_auth_time>>
       \/ /\ at["seg_timer_task"] = "inactivity" /\ flag_inactivity' = FALSE
          /\ IF flag_inactivity THEN Call("seg_timer_task", "status", "auth_time")
             ELSE Go("seg_timer_task", "auth_time")
          /\ UNCHANGED <<seg_timer_sem, flag_auth_time>>
       \/ /\ at["seg_timer_task"] = "auth_time"
          /\ IF password /\ flag_auth_time /\ ~flag_connect_pw_auth
             THEN flag_auth_time' = FALSE /\ Call("seg_timer_task", "status", "wait")
             ELSE Go("seg_timer_task", "wait") /\ UNCHANGED <<flag_auth_time>>
          /\ UNCHANGED <<seg_timer_sem, flag_inactivity>>
    /\ UNCHANGED <<config, socket, state, mixed, serial, network, flag_connect_pw_auth, clocks,
                   status, len, history>>

\* auth_timer_callback and inactivity_timer_callback. In mixed mode the timer of
\* the password is created to go on.
auth_timer_callback ==
    /\ seg_auth_timer = "running" /\ flag_auth_time' = TRUE /\ seg_timer_sem' = TRUE
    /\ seg_auth_timer' = IF mode = "TCP_MIXED" THEN "running" ELSE "stopped"
    /\ UNCHANGED <<flag_inactivity, seg_inactivity_timer>>

inactivity_timer_callback ==
    /\ seg_inactivity_timer = "running" /\ flag_inactivity' = TRUE /\ seg_timer_sem' = TRUE
    /\ seg_inactivity_timer' = "stopped" /\ UNCHANGED <<flag_auth_time, seg_auth_timer>>

Expire ==
    /\ calm => at["seg_timer_task"] = "wait" /\ ~seg_timer_sem
    /\ auth_timer_callback \/ inactivity_timer_callback
    /\ UNCHANGED <<config, socket, state, mixed, serial, network, flag_connect_pw_auth,
                   control, history>>

\* The UART interrupt stores a byte when the status permits it; XON and XOFF are not stored.
check_serial_store_permitted ==
    \/ working_state \in {"ST_CONNECT", "ST_UDP"}
    \/ working_state = "ST_OPEN" /\ mode = "TCP_MIXED"

UartInput ==
    /\ check_serial_store_permitted
    /\ \/ "uart" \in load /\ ring < MaxBytes /\ ring' = ring + 1 /\ seg_u2e_sem' = TRUE /\ UNCHANGED isXON
       \/ XonXoff /\ isXON' \in BOOLEAN /\ UNCHANGED <<ring, seg_u2e_sem>>
    /\ UNCHANGED <<config, socket, state, mixed, u2e_size, network, flags, timers, control,
                   history>>

\* The peer, and the chip: connections, data, and the ways a connection ends.
PeerConnects ==
    /\ sr = "SOCK_LISTEN" /\ conn < MaxConn
    /\ sr' = "SOCK_ESTABLISHED" /\ conn' = conn + 1 /\ accepted' = TRUE /\ ir_con' = TRUE
    /\ UNCHANGED <<rx, seg_e2u_sem>>

PeerSends ==
    /\ "peer" \in load /\ sr \in {"SOCK_ESTABLISHED", "SOCK_UDP"} /\ Len(rx) < MaxRx
    /\ \E kind \in IF mode \in {"TCP_SERVER", "TCP_MIXED"} /\ password THEN Chunks ELSE {"data"} :
           rx' = Append(rx, [conn |-> conn, kind |-> kind])
    /\ seg_e2u_sem' = TRUE /\ UNCHANGED <<sr, ir_con, conn, accepted>>

PeerCloses ==
    /\ \/ sr = "SOCK_ESTABLISHED" /\ sr' = "SOCK_CLOSE_WAIT"
       \/ sr \in Open /\ sr' = "SOCK_CLOSED"
    /\ UNCHANGED <<ir_con, rx, conn, accepted, seg_e2u_sem>>

Finished ==
    /\ sr = "SOCK_FIN_WAIT" /\ sr' = "SOCK_CLOSED"
    /\ UNCHANGED <<ir_con, rx, conn, accepted, seg_e2u_sem>>

Network ==
    /\ PeerConnects \/ PeerSends \/ PeerCloses \/ Finished
    /\ UNCHANGED <<config, state, mixed, serial, g_recv_buf, e2u_size, flags, timers, control,
                   history>>

TaskStep(t) == process_socket_termination(t) \/ ether_to_uart(t) \/ Yield(t)

Next ==
    \/ \E t \in Tasks : TaskStep(t)
    \/ seg_task \/ seg_u2e_task \/ seg_recv_task \/ seg_timer_task
    \/ Expire \/ UartInput \/ Network

\* Tasks run on; one that waits for the semaphore gets it in its turn. The chip
\* finishes what it has begun, and the timer of the password expires.
Fairness ==
    /\ SF_vars(seg_task) /\ SF_vars(seg_u2e_task)
    /\ \A t \in Tasks : IF t = "seg_timer_task" THEN SF_vars(TaskStep(t)) ELSE WF_vars(TaskStep(t))
    /\ WF_vars(seg_recv_task) /\ WF_vars(seg_timer_task)
    /\ WF_vars(Finished /\ Network) /\ WF_vars(auth_timer_callback /\ Expire)

Spec == Init /\ [][Next]_vars /\ Fairness

-----------------------------------------------------------------------------
\* The values the variables of seg.c, the chip and the tasks can have.
TypeOK ==
    /\ mode \in Modes /\ password \in BOOLEAN /\ load \in Loads
    /\ sr \in Open \cup {"SOCK_CLOSED", "SOCK_INIT", "SOCK_LISTEN", "SOCK_FIN_WAIT", "SOCK_UDP"}
    /\ {ir_con, accepted, first_established, tls, seg_u2e_sem, seg_e2u_sem, isXON,
        flag_connect_pw_auth, flag_auth_time, flag_inactivity, seg_timer_sem} \subseteq BOOLEAN
    /\ conn \in 0..MaxConn /\ ready \in 0..conn /\ authed \subseteq 1..conn
    /\ working_state \in {"ST_OPEN", "ST_CONNECT", "ST_UDP"}
    /\ mixed_state \in {"MIXED_SERVER", "MIXED_CLIENT"} /\ reconnection_count \in 0..Retries
    /\ ring \in 0..MaxBytes /\ u2e_size \in 0..MaxBytes /\ e2u_size \in 0..1
    /\ seg_auth_timer \in Timers /\ seg_inactivity_timer \in Timers
    /\ seg_critical_sem \in Tasks \cup {"free"} /\ faults \in 0..MaxFaults

\* While the device reports a connection (ST_CONNECT), it is the socket's last one and the
\* one seg_task announced, with its handshakes behind it: bytes of the UART never leave on
\* the word of an earlier connection (seg.c:393, 449, 565, 604, 1084, 1244).
StatusOfConnection ==
    working_state = "ST_CONNECT" =>
        /\ ready = conn
        /\ mode \in TlsModes \cup MqttModes => conn \in authed

\* A TCP server with a connection password gives the UART nothing of a connection that has
\* not sent it (seg.c:1560), whatever the one before had sent.
PasswordGate ==
    [][\A t \in Tasks :
        (mode = "TCP_SERVER" /\ password /\ Puts(t) /\ at'[t] # "put")
            => g_recv_buf.conn \in authed]_vars

\* A connection that has ended is cleared away and the socket opened again (seg.c:425):
\* nothing keeps seg_critical_sem for ever.
Reopens == sr \in {"SOCK_CLOSE_WAIT", "SOCK_CLOSED"} ~> sr \in {"SOCK_INIT", "SOCK_LISTEN", "SOCK_UDP"}

\* In mixed mode bytes of the UART do not wait in the ring for ever: they are taken to be
\* sent, on a connection opened for them if need be, or given up with the attempts
\* (seg.c:1183, 1254, 2217), whoever has taken the semaphore they gave.
SerialServed == (mode = "TCP_MIXED" /\ ring > 0) ~> ring = 0

\* The connection password is asked of the peers that connect to the device only: "TCP
\* server mode only (+ mixed_server)" (seg.c:1247).
PasswordOfServer ==
    [][\A t \in Tasks : (at[t] = "auth" /\ at'[t] = "auth_stop") => accepted]_vars
=============================================================================
