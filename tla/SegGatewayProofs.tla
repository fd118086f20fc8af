-------------------------- MODULE SegGatewayProofs --------------------------
(***************************************************************************)
(* Proofs about SegGateway, for every set of modes and loads and every     *)
(* bound.  Reported says where each task can be, that no connection is     *)
(* reported while the socket waits for one, and that one that needs        *)
(* handshakes has them behind it; a step of another task can only end a    *)
(* connection (Falls), so that the steps of seg_task are what is left to   *)
(* look at.  Gate and OnItsWay follow a chunk from the chip to the UART:   *)
(* the flag that lets it pass is of the connection the socket has, and is  *)
(* cleared before the socket can have another one.                         *)
(***************************************************************************)
EXTENDS SegGateway, TLAPS

S == "seg_task"
R == "seg_recv_task"

Ending == {"status", "timers", "tls", "end", "end_wait", "close"}
Giving == {"rsr", "recv", "auth", "auth_stop", "put", "bad", "bad_wait"}
Own    == {"wait", "connect", "new", "open", "drain", "fin", "fin_wait", "closed", "yield",
           "handshake", "counted", "giveup", "announce", "mixed", "report"}
Served == {"lock", "check", "fetch", "send", "client"}
Timed  == {"inactivity", "auth_time", "lock_end", "lock_close"}
Labels == Ending \cup Giving \cup Own \cup Served \cup Timed \cup {"leave"}
Landing(l) == IF l = "leave" THEN "wait" ELSE l

\* Where each task can be, and where it goes on after the procedure it is in.
Control == at \in [Tasks -> Labels] /\ back \in [Tasks -> Labels]

SegPlaces ==
  /\ at[S] \in Own \cup Ending \cup Giving
  /\ at[S] \in Ending => back[S] \in {"leave", "open", "report", "giveup", "counted"}
  /\ at[S] \in Giving => back[S] \in {"drain", "leave"}

RecvPlaces ==
  /\ at[R] \in Giving \cup {"wait"}
  /\ at[R] \in Giving => back[R] = "wait"

U2ePlaces ==
  /\ at["seg_u2e_task"] \in Ending \cup Served \cup {"wait"}
  /\ at["seg_u2e_task"] \in Ending => back["seg_u2e_task"] = "client"

TimerPlaces ==
  /\ at["seg_timer_task"] \in Ending \cup Timed \cup {"wait"}
  /\ at["seg_timer_task"] \in Ending \cup {"lock_end", "lock_close"}
        => back["seg_timer_task"] \in {"wait", "auth_time"}

YieldPlaces ==
  /\ at["seg_mqtt_yield_task"] \in {"wait", "put"}
  /\ at["seg_mqtt_yield_task"] = "put"
        => back["seg_mqtt_yield_task"] = "wait" /\ mode \in MqttModes

Places == Control /\ SegPlaces /\ RecvPlaces /\ U2ePlaces /\ TimerPlaces /\ YieldPlaces

\* seg_task is in process_socket_termination, to go on at l.
EndingFor(l) == at[S] \in Ending /\ back[S] = l

\* The states of the socket, those of one that waits for a connection, and those it comes to
\* without a new connection.
States  == Open \cup {"SOCK_CLOSED", "SOCK_INIT", "SOCK_LISTEN", "SOCK_FIN_WAIT", "SOCK_UDP"}
Waiting == {"SOCK_INIT", "SOCK_LISTEN"}
Seen    == sr \in States /\ status \in [Tasks -> States]

\* No connection is reported while the socket waits for one, or is opened to wait.
Opening ==
  /\ at[S] = "open" \/ EndingFor("open") => working_state # "ST_CONNECT"
  /\ sr \in Waiting => working_state # "ST_CONNECT" /\ at[S] \notin {"new", "announce"}
  /\ mode = "UDP" => working_state # "ST_CONNECT" /\ at[S] \notin {"new", "announce"}
  /\ working_state = "ST_CONNECT" => ready = conn

\* A connection that needs handshakes has them behind it, or is in them, or is
\* being ended because they failed.
Guarded == mode \in TlsModes \cup MqttModes
Sure ==
  Guarded =>
    /\ sr # "SOCK_LISTEN"
    /\ sr = "SOCK_ESTABLISHED" => at[S] = "handshake" \/ EndingFor("leave") \/ conn \in authed
    /\ at[S] \in {"new", "announce"} \/ working_state = "ST_CONNECT" => conn \in authed
    /\ at[S] \in {"timers", "tls"} /\ status[S] = "SOCK_CLOSED" => sr = "SOCK_CLOSED"

Reported == Places /\ Seen /\ Opening /\ Sure

-----------------------------------------------------------------------------
(* Control: a step moves one task.                                         *)

\* What a move of task t to label l does to the labels.
Moves(t, l) == at' = [at EXCEPT ![t] = l]

\* A task goes on at a label, or at "wait" when it leaves.
LEMMA Gone ==
  ASSUME NEW t \in Tasks, NEW l \in Labels, Goto(t, l)
  PROVE  Moves(t, Landing(l))
BY DEF Goto, Jump, Moves, Landing

\* A task in process_socket_termination stays there or goes on where it was called.
LEMMA TerminatePlaces ==
  ASSUME Control, NEW t \in Tasks, Terminate(t)
  PROVE  /\ \/ /\ at[t] \in Ending \cup {"lock_end", "lock_close"} /\ back' = back
               /\ \E l \in Ending : Moves(t, l)
            \/ /\ t = "seg_timer_task" /\ at[t] \in {"timers", "tls"} /\ back' = back
               /\ \E l \in {"lock_end", "lock_close"} : Moves(t, l)
            \/ /\ at[t] \in {"timers", "tls", "close"} /\ back' = [back EXCEPT ![t] = "wait"]
               /\ Moves(t, IF at[t] = "close" /\ t = "seg_timer_task" THEN back[t] ELSE Landing(back[t]))
<1>1. CASE Step(t, "status", "timers")
  BY <1>1 DEF Step, Go, Goto, Jump, Moves, Ending
<1>2. ASSUME Chosen(t), at[t] \in {"timers", "tls"}
      PROVE  \/ back' = back /\ \E l \in {"end", "close"} : Moves(t, l)
             \/ t = "seg_timer_task" /\ back' = back /\ \E l \in {"lock_end", "lock_close"} : Moves(t, l)
             \/ back' = [back EXCEPT ![t] = "wait"] /\ Moves(t, Landing(back[t]))
  <2>1. CASE status[t] = "SOCK_CLOSED"
    <3>1. Return(t)
      BY <1>2, <2>1 DEF Chosen, Open
    <3> QED BY <3>1, Gone DEF Return, Control
  <2>2. CASE status[t] # "SOCK_CLOSED" /\ t = "seg_timer_task"
    BY <1>2, <2>2 DEF Chosen, Go, Goto, Jump, Moves, Landing
  <2>3. CASE status[t] # "SOCK_CLOSED" /\ t # "seg_timer_task"
    BY <1>2, <2>3 DEF Chosen, Go, Goto, Jump, Moves, Landing
  <2> QED BY <2>1, <2>2, <2>3
<1>3. CASE at[t] = "timers" /\ (IF mode \in TlsModes THEN Go(t, "tls") /\ UNCHANGED status ELSE Chosen(t) /\ Forget(t))
  BY <1>2, <1>3 DEF Go, Goto, Jump, Moves, Ending
<1>4. CASE at[t] = "tls" /\ Chosen(t)
  BY <1>2, <1>4 DEF Ending
<1>5. CASE \/ at[t] = "lock_end" /\ Lock(t, "end")
           \/ at[t] = "lock_close" /\ Lock(t, "close")
  BY <1>5 DEF Lock, Jump, Moves, Ending
<1>6. CASE Disconnect(t, "end", "end_wait", "close")
  BY <1>6 DEF Disconnect, Step, Go, Goto, Jump, Moves, Ending
<1>7. CASE Close(t)
  BY <1>7 DEF Close, Return, Goto, Jump, Moves, Landing
<1> QED BY <1>1, <1>3, <1>4, <1>5, <1>6, <1>7 DEF Terminate

\* A task in ether_to_uart, too.
LEMMA GivePlaces ==
  ASSUME Control, NEW t \in Tasks, ether_to_uart(t)
  PROVE  /\ at[t] \in Giving
         /\ \/ back' = back /\ \E l \in Giving : Moves(t, l)
            \/ back' = [back EXCEPT ![t] = "wait"] /\ Moves(t, Landing(back[t]))
<1>1. CASE Look(t)
  BY <1>1 DEF Look, Return, Go, Goto, Jump, Moves, Landing, Giving
<1>2. CASE Receive(t)
  BY <1>2 DEF Receive, Step, Go, Goto, Jump, Moves, Landing, Giving
<1>3. CASE Authenticate(t)
  BY <1>3 DEF Authenticate, Go, Goto, Jump, Moves, Landing, Giving
<1>4. CASE StopAuth(t)
  BY <1>4 DEF StopAuth, Go, Goto, Jump, Moves, Landing, Giving
<1>5. CASE Put(t)
  BY <1>5 DEF Put, Return, Go, Goto, Jump, Moves, Landing, Giving
<1>6. CASE Disconnect(t, "bad", "bad_wait", "back")
  BY <1>6 DEF Disconnect, Step, Return, Go, Goto, Jump, Moves, Landing, Giving
<1> QED BY <1>1, <1>2, <1>3, <1>4, <1>5, <1>6 DEF ether_to_uart

\* Another task's step leaves the control of a task alone.
Untouched(t) == at'[t] = at[t] /\ back'[t] = back[t]

\* A move of one task is a move of no other.
LEMMA MovesOne ==
  ASSUME Control, NEW t \in Tasks, NEW l \in Labels, NEW b \in Labels, Moves(t, l),
         back' = back \/ back' = [back EXCEPT ![t] = b]
  PROVE  Control' /\ at'[t] = l /\ \A u \in Tasks \ {t} : Untouched(u)
BY DEF Control, Moves, Untouched

\* The steps of seg_task itself, and where they lead.
LEMMA SegMoves ==
  ASSUME Control, seg_task
  PROVE  /\ at[S] \in Own
         /\ \/ back' = back /\ \E l \in Own : Moves(S, l)
            \/ /\ \E b \in {"leave", "open", "report", "giveup", "counted"} : back' = [back EXCEPT ![S] = b]
               /\ Moves(S, "status")
            \/ back' = [back EXCEPT ![S] = "drain"] /\ Moves(S, "rsr")
<1> USE DEF Seg, Step, Then, Go, Do, Call, Terminated, Goto, Jump, Moves, S, Own
<1>1. CASE Begin
  BY <1>1 DEF Begin, do_seg, Finds, Lock, proc_SEG_udp, proc_SEG_tcp_client,
     proc_SEG_tcp_client_over_tls, proc_SEG_mqtt_client, proc_SEG_mqtts_client,
     proc_SEG_tcp_server, proc_SEG_tcp_mixed
<1>2. CASE Connect
  BY <1>2 DEF Connect
<1>3. CASE Handshake
  BY <1>3 DEF Handshake
<1>4. CASE CountAttempt
  BY <1>4 DEF CountAttempt, Attempt
<1>5. CASE Establish
  BY <1>5 DEF Establish
<1>6. CASE Announce
  BY <1>6 DEF Announce
<1>7. CASE EstablishMixed
  BY <1>7 DEF EstablishMixed
<1>8. CASE Drain
  BY <1>8 DEF Drain, CloseWait, Disconnect
<1>9. CASE Closed
  BY <1>9 DEF Closed
<1>10. CASE Report
  BY <1>10 DEF Report
<1>11. CASE Reopen
  BY <1>11 DEF Reopen, InitTls, OpenSocket
<1> QED
  BY <1>1, <1>2, <1>3, <1>4, <1>5, <1>6, <1>7, <1>8, <1>9, <1>10, <1>11 DEF seg_task

\* The steps of the other tasks outside the two procedures.
LEMMA U2eMoves ==
  ASSUME Control, seg_u2e_task
  PROVE  /\ at["seg_u2e_task"] \in Served \cup {"wait"}
         /\ \/ back' = back /\ \E l \in Served \cup {"wait"} : Moves("seg_u2e_task", l)
            \/ back' = [back EXCEPT !["seg_u2e_task"] = "client"] /\ Moves("seg_u2e_task", "status")
BY DEF seg_u2e_task, Forward, uart_to_ether, U2e, Step, Go, Goto, Call, Lock, Jump, Moves, Served

\* Where the timer task goes.
LEMMA TimerMoves ==
  ASSUME Control, seg_timer_task
  PROVE  /\ at["seg_timer_task"] \in {"wait", "inactivity", "auth_time"}
         /\ \/ back' = back /\ \E l \in {"wait", "inactivity", "auth_time"} : Moves("seg_timer_task", l)
            \/ /\ \E b \in {"wait", "auth_time"} : back' = [back EXCEPT !["seg_timer_task"] = b]
               /\ Moves("seg_timer_task", "status")
BY DEF seg_timer_task, Go, Goto, Call, Jump, Moves

\* seg_recv_task only ever calls ether_to_uart and waits.
LEMMA RecvMoves ==
  ASSUME Control, seg_recv_task
  PROVE  /\ at[R] = "wait" /\ back' = [back EXCEPT ![R] = "wait"]
         /\ \E l \in {"put", "rsr"} : Moves(R, l)
BY DEF seg_recv_task, Call, Goto, Jump, Moves, R

\* The two steps in which seg_task and the MQTT task look for a message.
LEMMA YieldMoves ==
  ASSUME Control, NEW t \in Tasks, Yield(t)
  PROVE  /\ mode \in MqttModes /\ mode' = mode
         /\ \/ /\ t = S /\ at[t] = "yield"
               /\ \/ back' = back /\ Moves(t, "wait")
                  \/ back' = [back EXCEPT ![t] = "leave"] /\ Moves(t, "put")
            \/ /\ t = "seg_mqtt_yield_task" /\ at[t] = "wait"
               /\ back' = [back EXCEPT ![t] = "wait"] /\ Moves(t, "put")
BY DEF Yield, Go, Call, Goto, Jump, Moves, S, config

\* The settings do not change.
LEMMA ConfigStays ==
  ASSUME Next
  PROVE  UNCHANGED config
BY DEF Next, TaskStep, process_socket_termination, ether_to_uart, Yield, seg_task, Begin, Connect,
   Handshake, CountAttempt, Establish, Announce, EstablishMixed, Drain, Closed, Report, Reopen,
   seg_u2e_task, seg_recv_task, seg_timer_task, Expire, UartInput, Network, config

\* What is not a task's step leaves the control of every task alone.
LEMMA OutsideMoves ==
  ASSUME Expire \/ UartInput \/ Network
  PROVE  UNCHANGED control
BY DEF Expire, UartInput, Network, control

\* The places of the tasks that have not moved.
LEMMA OthersPlaces ==
  ASSUME Places, mode' = mode, NEW t \in Tasks, \A u \in Tasks \ {t} : Untouched(u)
  PROVE  /\ t # S => SegPlaces'
         /\ t # R => RecvPlaces'
         /\ t # "seg_u2e_task" => U2ePlaces'
         /\ t # "seg_timer_task" => TimerPlaces'
         /\ t # "seg_mqtt_yield_task" => YieldPlaces'
BY DEF Places, SegPlaces, RecvPlaces, U2ePlaces, TimerPlaces, YieldPlaces, Untouched, Tasks, S, R

\* A step of process_socket_termination: only three tasks are ever in it.
LEMMA TerminateStaysPlaced ==
  ASSUME Places, mode' = mode, NEW t \in Tasks, Terminate(t)
  PROVE  Places'
<1> USE DEF Labels, Ending, Giving, Own, Served, Timed, S, R
<1>1. t \in {S, "seg_u2e_task", "seg_timer_task"}
  BY TerminatePlaces DEF Places, RecvPlaces, YieldPlaces, Tasks
<1>2. \E l \in Labels, b \in Labels :
         Moves(t, l) /\ (back' = back \/ back' = [back EXCEPT ![t] = b])
  BY <1>1, TerminatePlaces, SMTT(60) DEF Places, SegPlaces, U2ePlaces, TimerPlaces, Landing
<1>3. Control' /\ \A u \in Tasks \ {t} : Untouched(u)
  BY <1>2, MovesOne DEF Places
<1>4. CASE t = S
  <2>1. SegPlaces'
    BY <1>4, TerminatePlaces DEF Places, SegPlaces, Control, Moves, Landing
  <2> QED BY <1>3, <1>4, <2>1, OthersPlaces DEF Places
<1>5. CASE t = "seg_u2e_task"
  <2>1. U2ePlaces'
    BY <1>5, TerminatePlaces DEF Places, U2ePlaces, Control, Moves, Landing
  <2> QED BY <1>3, <1>5, <2>1, OthersPlaces DEF Places
<1>6. CASE t = "seg_timer_task"
  <2>1. TimerPlaces'
    BY <1>6, TerminatePlaces DEF Places, TimerPlaces, Control, Moves, Landing
  <2> QED BY <1>3, <1>6, <2>1, OthersPlaces DEF Places
<1> QED BY <1>1, <1>4, <1>5, <1>6

\* A step of ether_to_uart keeps the two tasks that call it in their places.
LEMMA GiveStaysPlaced ==
  ASSUME Places, mode' = mode, NEW t \in Tasks, ether_to_uart(t)
  PROVE  Places'
<1> USE DEF Labels, Ending, Giving, Own, Served, Timed, S, R
<1>1. t \in {S, R, "seg_mqtt_yield_task"}
  BY GivePlaces DEF Places, U2ePlaces, TimerPlaces, Tasks
<1>2. \E l \in Labels, b \in Labels :
         Moves(t, l) /\ (back' = back \/ back' = [back EXCEPT ![t] = b])
  BY <1>1, GivePlaces DEF Places, SegPlaces, RecvPlaces, YieldPlaces, Landing
<1>3. Control' /\ \A u \in Tasks \ {t} : Untouched(u)
  BY <1>2, MovesOne DEF Places
<1>4. CASE t = S
  <2>1. SegPlaces'
    BY <1>4, GivePlaces DEF Places, SegPlaces, Control, Moves, Landing
  <2> QED BY <1>3, <1>4, <2>1, OthersPlaces DEF Places
<1>5. CASE t = R
  <2>1. RecvPlaces'
    BY <1>5, GivePlaces DEF Places, RecvPlaces, Control, Moves, Landing
  <2> QED BY <1>3, <1>5, <2>1, OthersPlaces DEF Places
<1>6. CASE t = "seg_mqtt_yield_task"
  <2>1. at[t] = "put" /\ mode \in MqttModes
    BY <1>6, GivePlaces DEF Places, YieldPlaces
  <2>2. Put(t)
    BY <2>1 DEF ether_to_uart, Look, Receive, Authenticate, StopAuth, Disconnect, Step
  <2>3. YieldPlaces'
    BY <1>6, <2>1, <2>2 DEF Put, Return, Go, Goto, Jump, Places, YieldPlaces, Control
  <2> QED BY <1>3, <1>6, <2>3, OthersPlaces DEF Places
<1> QED BY <1>1, <1>4, <1>5, <1>6

\* A yield keeps the tasks in their places.
LEMMA YieldStaysPlaced ==
  ASSUME Places, NEW t \in Tasks, Yield(t)
  PROVE  Places'
<1> USE DEF Labels, Ending, Giving, Own, Served, Timed, S, R
<1>1. t \in {S, "seg_mqtt_yield_task"} /\ mode' = mode /\ mode \in MqttModes
  BY YieldMoves DEF Places
<1>2. \E l \in Labels, b \in Labels :
         Moves(t, l) /\ (back' = back \/ back' = [back EXCEPT ![t] = b])
  BY <1>1, YieldMoves, SMTT(60) DEF Places
<1>3. Control' /\ \A u \in Tasks \ {t} : Untouched(u)
  BY <1>2, MovesOne DEF Places
<1>4. CASE t = S
  <2>1. SegPlaces'
    BY <1>4, YieldMoves DEF Places, SegPlaces, Control, Moves
  <2> QED BY <1>1, <1>3, <1>4, <2>1, OthersPlaces DEF Places
<1>5. CASE t = "seg_mqtt_yield_task"
  <2>1. YieldPlaces'
    BY <1>1, <1>5, YieldMoves DEF Places, YieldPlaces, Control, Moves
  <2> QED BY <1>1, <1>3, <1>5, <2>1, OthersPlaces DEF Places
<1> QED BY <1>1, <1>4, <1>5

\* Every task stays where it belongs.
LEMMA PlacesStep ==
  ASSUME Places, [Next]_vars
  PROVE  Places'
<1> USE DEF Labels, Ending, Giving, Own, Served, Timed, S, R
<1>1. ASSUME UNCHANGED control, mode' = mode PROVE Places'
  BY <1>1 DEF control, Places, Control, SegPlaces, RecvPlaces, U2ePlaces, TimerPlaces, YieldPlaces
<1>2. CASE UNCHANGED vars
  BY <1>1, <1>2 DEF vars, config
<1>3. CASE Next
  <2>1. mode' = mode
    BY <1>3, ConfigStays DEF config
  <2>2. ASSUME NEW t \in Tasks, TaskStep(t) PROVE Places'
    BY <2>1, <2>2, TerminateStaysPlaced, GiveStaysPlaced, YieldStaysPlaced, SMTT(60)
       DEF TaskStep, process_socket_termination
  <2>3. ASSUME NEW t \in Tasks, NEW l \in Labels, NEW b \in Labels, Moves(t, l),
               back' = back \/ back' = [back EXCEPT ![t] = b]
        PROVE  Control' /\ \A u \in Tasks \ {t} : Untouched(u)
    BY <2>3, MovesOne DEF Places
  <2>4. CASE seg_task
    <3>1. Control' /\ \A u \in Tasks \ {S} : Untouched(u)
      BY <2>3, <2>4, SegMoves, ZenonT(60) DEF Places, Tasks
    <3>2. SegPlaces'
      BY <2>4, SegMoves DEF Places, SegPlaces, Control, Moves, Tasks
    <3> QED BY <2>1, <3>1, <3>2, OthersPlaces DEF Places, Tasks
  <2>5. CASE seg_u2e_task
    <3>1. Control' /\ \A u \in Tasks \ {"seg_u2e_task"} : Untouched(u)
      BY <2>3, <2>5, U2eMoves, ZenonT(60) DEF Places, Tasks
    <3>2. U2ePlaces'
      BY <2>5, U2eMoves DEF Places, U2ePlaces, Control, Moves, Tasks
    <3> QED BY <2>1, <3>1, <3>2, OthersPlaces DEF Places, Tasks
  <2>6. CASE seg_recv_task
    <3>1. Control' /\ \A u \in Tasks \ {R} : Untouched(u)
      BY <2>3, <2>6, RecvMoves, ZenonT(60) DEF Places, Tasks
    <3>2. RecvPlaces'
      BY <2>6, RecvMoves DEF Places, RecvPlaces, Control, Moves, Tasks
    <3> QED BY <2>1, <3>1, <3>2, OthersPlaces DEF Places, Tasks
  <2>7. CASE seg_timer_task
    <3>1. Control' /\ \A u \in Tasks \ {"seg_timer_task"} : Untouched(u)
      BY <2>3, <2>7, TimerMoves, ZenonT(60) DEF Places, Tasks
    <3>2. TimerPlaces'
      BY <2>7, TimerMoves DEF Places, TimerPlaces, Control, Moves, Tasks
    <3> QED BY <2>1, <3>1, <3>2, OthersPlaces DEF Places, Tasks
  <2>8. CASE Expire \/ UartInput \/ Network
    BY <1>1, <2>1, <2>8, OutsideMoves
  <2> QED BY <1>3, <2>2, <2>4, <2>5, <2>6, <2>7, <2>8 DEF Next
<1> QED BY <1>2, <1>3

-----------------------------------------------------------------------------
(* The connection that is reported.                                        *)

\* What a step does to the socket that brings no connection.
Falls ==
  /\ sr' = sr \/ sr' = "SOCK_CLOSED"
       \/ (sr # "SOCK_CLOSED" /\ sr' \in {"SOCK_FIN_WAIT", "SOCK_CLOSE_WAIT"})
  /\ conn' = conn /\ working_state' = working_state /\ ready' = ready /\ mode' = mode
  /\ authed \subseteq authed'

\* A step of a task other than seg_task can at most end a connection.
LEMMA TaskFalls ==
  ASSUME Places, Seen, NEW t \in Tasks, TaskStep(t)
  PROVE  Falls /\ Seen'
<1> USE DEF Falls, Seen, States, Open, state, config, mixed, history
<1>1. CASE process_socket_termination(t)
  <2>1. UNCHANGED <<conn, working_state, ready, mode, authed>>
    BY <1>1 DEF process_socket_termination
  <2>2. Terminate(t)
    BY <1>1 DEF process_socket_termination
  <2>3. /\ sr' = sr \/ sr' = "SOCK_CLOSED" \/ (sr # "SOCK_CLOSED" /\ sr' = "SOCK_FIN_WAIT")
        /\ status' = status \/ \E s \in States : status' = [status EXCEPT ![t] = s]
    BY <2>2 DEF Terminate, Disconnect, Close, Forget
  <2> QED BY <2>1, <2>3
<1>2. CASE ether_to_uart(t)
  <2>1. UNCHANGED <<conn, working_state, ready, mode, status>>
    BY <1>2 DEF ether_to_uart
  <2>2. sr' = sr \/ sr' = "SOCK_CLOSED" \/ (sr # "SOCK_CLOSED" /\ sr' = "SOCK_FIN_WAIT")
    BY <1>2 DEF ether_to_uart, Look, Receive, Authenticate, StopAuth, Put, Disconnect
  <2>3. authed \subseteq authed'
    BY <1>2 DEF ether_to_uart, Look, Receive, Authenticate, StopAuth, Put
  <2> QED BY <2>1, <2>2, <2>3
<1>3. CASE Yield(t)
  BY <1>3 DEF Yield
<1> QED BY <1>1, <1>2, <1>3 DEF TaskStep

\* The other tasks, the timers, the UART, and the network but for a new connection.
LEMMA OutsideFalls ==
  ASSUME Seen, \/ seg_u2e_task \/ seg_recv_task \/ seg_timer_task \/ Expire \/ UartInput
               \/ (Network /\ ~PeerConnects)
  PROVE  Falls /\ Seen' /\ status' = status
<1> USE DEF Falls, Seen, States, Open, state, config, history, socket, control
<1>1. CASE seg_u2e_task
  BY <1>1 DEF seg_u2e_task
<1>2. CASE seg_recv_task
  BY <1>2 DEF seg_recv_task
<1>3. CASE seg_timer_task
  BY <1>3 DEF seg_timer_task
<1>4. CASE Expire
  BY <1>4 DEF Expire
<1>5. CASE UartInput
  BY <1>5 DEF UartInput
<1>6. CASE Network /\ ~PeerConnects
  BY <1>6 DEF Network, PeerSends, PeerCloses, Finished
<1> QED BY <1>1, <1>2, <1>3, <1>4, <1>5, <1>6

\* What only ends connections keeps what is reported of them.
LEMMA FallsKeeps ==
  ASSUME Opening, Sure, Seen, Falls, Untouched(S), status'[S] = status[S]
  PROVE  Opening' /\ Sure'
<1>1. sr' \in Waiting => sr' = sr
  BY DEF Falls, Waiting
<1>2. Opening'
  BY <1>1 DEF Opening, Falls, Untouched, EndingFor
<1>3. Sure'
  BY <1>1 DEF Sure, Guarded, Falls, Untouched, EndingFor, Waiting
<1> QED BY <1>2, <1>3

\* seg_task in one of the procedures.
LEMMA SegTerminates ==
  ASSUME Reported, Terminate(S), Falls
  PROVE  Opening' /\ Sure'
<1> USE DEF S
<1>1. S \in Tasks /\ Control /\ at[S] \in Ending
  BY TerminatePlaces DEF Reported, Places, SegPlaces, Tasks, Own, Giving, Ending
<1>2. back[S] \in {"leave", "open", "report", "giveup", "counted"}
  BY <1>1 DEF Reported, Places, SegPlaces
<1>3. \/ at'[S] \in Ending /\ back'[S] = back[S]
      \/ at'[S] = Landing(back[S]) /\ back'[S] = "wait"
  BY <1>1, TerminatePlaces DEF Control, Moves
<1>4. Opening'
  <2>1. sr' \in Waiting => sr' = sr
    BY DEF Falls, Waiting
  <2>2. at'[S] \notin {"new", "announce"} /\ (at'[S] = "open" \/ EndingFor("open")' => back[S] = "open")
    BY <1>2, <1>3 DEF Landing, Ending, EndingFor
  <2>3. at'[S] = "open" \/ EndingFor("open")' => EndingFor("open")
    BY <1>1, <2>2 DEF EndingFor
  <2> QED BY <2>1, <2>2, <2>3 DEF Reported, Opening, Falls
<1>5. Sure'
  <2>1. ASSUME at'[S] \notin Ending PROVE sr' = "SOCK_CLOSED" \/ ~Guarded
    <3>1. CASE at[S] \in {"timers", "tls"}
      <4>1. Chosen(S)
        BY <2>1, <3>1 DEF Terminate, Step, Lock, Disconnect, Close, Go, Goto, Jump, Ending,
           Reported, Places, Control, Tasks
      <4>2. status[S] = "SOCK_CLOSED"
        BY <2>1, <4>1 DEF Chosen, Go, Goto, Jump, Ending, Reported, Places, Control, Tasks
      <4> QED BY <3>1, <4>2 DEF Reported, Sure, Falls
    <3>2. CASE at[S] = "close"
      BY <3>2 DEF Terminate, Step, Disconnect, Close
    <3>3. CASE at[S] \notin {"timers", "tls", "close"}
      BY <1>1, <2>1, <3>3, TerminatePlaces DEF Moves, Control
    <3> QED BY <3>1, <3>2, <3>3
  <2>2. at'[S] \in {"timers", "tls"} /\ status'[S] = "SOCK_CLOSED" /\ Guarded => sr' = "SOCK_CLOSED"
    <3>1. CASE at[S] = "status"
      BY <1>1, <3>1 DEF Terminate, Step, Disconnect, Close, Reported, Seen
    <3>2. CASE at[S] = "timers" /\ at'[S] \in {"timers", "tls"}
      <4>1. status' = status
        BY <3>2 DEF Terminate, Step, Disconnect, Close, Chosen, Return, Go, Goto, Jump,
           Reported, Places, Control, SegPlaces, Tasks, Ending
      <4> QED BY <3>2, <4>1 DEF Reported, Sure, Falls
    <3>3. CASE at[S] \notin {"status", "timers"}
      BY <1>2, <1>3, <3>3 DEF Terminate, Step, Lock, Disconnect, Close, Chosen, Return, Go, Goto,
         Jump, Reported, Places, Control, Tasks, Landing
    <3> QED BY <3>1, <3>2, <3>3
  <2>3. at'[S] \notin {"new", "announce"}
    BY <1>2, <1>3 DEF Landing, Ending
  <2>4. sr' \in {"SOCK_ESTABLISHED", "SOCK_LISTEN"} => sr' = sr
    BY DEF Falls
  <2>5. at'[S] \in Ending => back'[S] = back[S]
    BY <1>2, <1>3 DEF Landing, Ending
  <2> QED
    BY <1>1, <2>1, <2>2, <2>3, <2>4, <2>5 DEF Reported, Sure, Guarded, Falls, EndingFor, Ending
<1> QED BY <1>4, <1>5

\* seg_task in ether_to_uart keeps what is reported.
LEMMA SegGives ==
  ASSUME Reported, ether_to_uart(S) \/ Yield(S), Falls
  PROVE  Opening' /\ Sure'
<1> USE DEF S
<1>1. S \in Tasks /\ Control
  BY DEF Reported, Places, Tasks
<1>2. at'[S] \in Giving \cup {"wait", "drain"} /\ at[S] \in Giving \cup {"yield"}
  BY <1>1, GivePlaces, YieldMoves DEF Reported, Places, SegPlaces, Control, Moves, Landing, Giving
<1>3. sr' \in Waiting \cup {"SOCK_ESTABLISHED"} => sr' = sr
  BY DEF Falls, Waiting
<1>4. Opening'
  BY <1>2, <1>3 DEF Reported, Opening, Falls, EndingFor, Ending, Giving
<1>5. Sure'
  BY <1>2, <1>3 DEF Reported, Sure, Guarded, Falls, EndingFor, Ending, Giving, Waiting
<1> QED BY <1>4, <1>5

\* A peer that connects finds the device reporting no connection.
LEMMA PeerConnectsKeeps ==
  ASSUME Reported, Network, PeerConnects
  PROVE  Opening' /\ Sure' /\ Seen'
<1>1. /\ sr = "SOCK_LISTEN" /\ sr' = "SOCK_ESTABLISHED"
      /\ UNCHANGED <<mode, working_state, ready, authed, at, back, status>>
  BY DEF Network, PeerConnects, state, config, control, history
<1>2. Seen'
  BY <1>1 DEF Reported, Seen, States, Open
<1>3. Opening'
  BY <1>1 DEF Reported, Opening, EndingFor, Waiting
<1>4. Sure'
  BY <1>1 DEF Reported, Sure, Guarded
<1> QED BY <1>2, <1>3, <1>4

\* seg_task at a step of its own.
LEMMA SegOpens ==
  ASSUME Reported, seg_task
  PROVE  Opening'
<1> USE DEF Reported, Opening, Seg, Step, Then, Go, Do, Call, Terminated, Goto, Jump, EndingFor,
   Ending,
        Waiting, S, state, config, socket, set_device_status, Places, Control, Tasks
<1>1. CASE Begin
  BY <1>1 DEF Begin, do_seg, Finds, Lock, Ended, proc_SEG_udp, proc_SEG_tcp_client,
     proc_SEG_tcp_client_over_tls, proc_SEG_mqtt_client, proc_SEG_mqtts_client,
     proc_SEG_tcp_server, proc_SEG_tcp_mixed
<1>2. CASE Connect
  BY <1>2 DEF Connect
<1>3. CASE Handshake
  BY <1>3 DEF Handshake
<1>4. CASE CountAttempt
  BY <1>4 DEF CountAttempt, Attempt
<1>5. CASE Establish
  BY <1>5 DEF Establish
<1>6. CASE Announce
  BY <1>6 DEF Announce
<1>7. CASE EstablishMixed
  BY <1>7 DEF EstablishMixed
<1>8. CASE Drain
  BY <1>8 DEF Drain, CloseWait, Disconnect, Open
<1>9. CASE Closed
  BY <1>9 DEF Closed
<1>10. CASE Report
  BY <1>10 DEF Report
<1>11. CASE Reopen
  BY <1>11 DEF Reopen, InitTls, OpenSocket
<1> QED
  BY <1>1, <1>2, <1>3, <1>4, <1>5, <1>6, <1>7, <1>8, <1>9, <1>10, <1>11 DEF seg_task

\* What seg_task announces of a connection it has seen for itself.
LEMMA SegSure ==
  ASSUME Reported, seg_task
  PROVE  Sure' /\ Seen'
<1> USE DEF Reported, Opening, Sure, Seen, States, Guarded, TlsModes, MqttModes, Seg, Step, Then,
        Go, Do, Call, Terminated, Goto, Jump, EndingFor, Ending, Waiting, Open, S, state, config,
        socket, history, set_device_status, Places, Control, Tasks
<1>1. CASE Begin
  BY <1>1 DEF Begin, do_seg, Finds, Lock, Ended, proc_SEG_udp, proc_SEG_tcp_client,
     proc_SEG_tcp_client_over_tls, proc_SEG_mqtt_client, proc_SEG_mqtts_client,
     proc_SEG_tcp_server, proc_SEG_tcp_mixed
<1>2. CASE Connect
  BY <1>2 DEF Connect
<1>3. CASE Handshake
  BY <1>3 DEF Handshake
<1>4. CASE CountAttempt
  BY <1>4 DEF CountAttempt, Attempt
<1>5. CASE Establish
  BY <1>5 DEF Establish
<1>6. CASE Announce
  BY <1>6 DEF Announce
<1>7. CASE EstablishMixed
  BY <1>7 DEF EstablishMixed
<1>8. CASE Drain
  BY <1>8 DEF Drain, CloseWait, Disconnect
<1>9. CASE Closed
  BY <1>9 DEF Closed
<1>10. CASE Report
  BY <1>10 DEF Report
<1>11. CASE Reopen
  BY <1>11 DEF Reopen, InitTls, OpenSocket, Server
<1> QED
  BY <1>1, <1>2, <1>3, <1>4, <1>5, <1>6, <1>7, <1>8, <1>9, <1>10, <1>11 DEF seg_task

\* Every step keeps the places and what is reported.
LEMMA ReportedStep ==
  ASSUME Reported, [Next]_vars
  PROVE  Reported'
<1>1. Places'
  BY PlacesStep DEF Reported
<1>2. Opening' /\ Sure' /\ Seen'
  <2>1. CASE UNCHANGED vars
    BY <2>1 DEF Reported, Opening, Sure, Seen, Guarded, EndingFor, vars, config, socket, state,
       control, history
  <2>2. CASE PeerConnects /\ Network
    BY <2>2, PeerConnectsKeeps
  <2>3. CASE seg_task
    BY <2>3, SegOpens, SegSure
  <2>4. CASE \/ seg_u2e_task \/ seg_recv_task \/ seg_timer_task \/ Expire \/ UartInput
             \/ (Network /\ ~PeerConnects)
    <3>1. Falls /\ Seen' /\ status' = status
      BY <2>4, OutsideFalls DEF Reported
    <3>2. Untouched(S)
      BY <2>4, U2eMoves, RecvMoves, TimerMoves, OutsideMoves
         DEF Reported, Places, Control, Untouched, Moves, control, S, R, Tasks
    <3> QED BY <3>1, <3>2, FallsKeeps DEF Reported
  <2>5. ASSUME NEW t \in Tasks, TaskStep(t) PROVE Opening' /\ Sure' /\ Seen'
    <3>1. Falls /\ Seen'
      BY <2>5, TaskFalls DEF Reported
    <3>2. CASE t = S
      BY <2>5, <3>1, <3>2, SegTerminates, SegGives DEF TaskStep, process_socket_termination
    <3>3. CASE t # S
      <4>1. Untouched(S)
        BY <2>5, <3>3, TerminatePlaces, GivePlaces, YieldMoves
           DEF TaskStep, process_socket_termination, Reported, Places, Control, Untouched,
              Moves, S, Tasks
      <4>2. status'[S] = status[S]
        BY <2>5, <3>3 DEF TaskStep, process_socket_termination, Terminate, Forget, ether_to_uart,
           Yield, Reported, Seen, S, Tasks
      <4> QED BY <3>1, <4>1, <4>2, FallsKeeps DEF Reported
    <3> QED BY <3>2, <3>3
  <2> QED BY <2>1, <2>2, <2>3, <2>4, <2>5 DEF Next
<1> QED BY <1>1, <1>2 DEF Reported

\* At the start nothing is reported.
LEMMA ReportedInit ==
  ASSUME Init
  PROVE  Reported
BY DEF Init, Reported, Places, Control, SegPlaces, RecvPlaces, U2ePlaces, TimerPlaces, YieldPlaces,
   Seen, States, Open, Opening, Sure, EndingFor, Waiting, Labels, Ending, Giving, Own, Served,
   Timed, S, R, Tasks

\* While the device reports a connection it is the socket's last one and the one that was
\* announced, its handshakes behind it, whatever the tasks and the network do.
THEOREM StatusRight == Spec => []StatusOfConnection
<1>1. Reported => StatusOfConnection
  BY DEF Reported, Opening, Sure, Guarded, StatusOfConnection
<1> QED BY <1>1, ReportedInit, ReportedStep, PTL DEF Spec

-----------------------------------------------------------------------------
(* The types of the variables.                                             *)

\* A chunk of connection c or of one before; a password came over a connection.
Chunk(c) == {x \in [conn : 0..c, kind : {"none", "data", "password"}] :
                x.kind = "password" => x.conn > 0}

SocketTypes ==
  /\ conn \in 0..MaxConn /\ (sr \in Open => conn > 0) /\ (sr = "SOCK_UDP" => mode = "UDP")
  /\ ready \in 0..conn /\ authed \subseteq 1..conn
  /\ rx \in Seq(Chunk(conn)) /\ g_recv_buf \in Chunk(conn)
  /\ len \in [Tasks -> Nat] /\ e2u_size \in 0..1

Booleans ==
  /\ ir_con \in BOOLEAN /\ accepted \in BOOLEAN /\ first_established \in BOOLEAN
  /\ tls \in BOOLEAN /\ seg_u2e_sem \in BOOLEAN /\ seg_e2u_sem \in BOOLEAN /\ isXON \in BOOLEAN
  /\ flag_connect_pw_auth \in BOOLEAN /\ flag_auth_time \in BOOLEAN
  /\ flag_inactivity \in BOOLEAN /\ seg_timer_sem \in BOOLEAN

Counters ==
  /\ ring \in 0..MaxBytes /\ u2e_size \in 0..MaxBytes /\ faults \in 0..MaxFaults
  /\ reconnection_count \in 0..Retries
  /\ reconnection_count < Retries \/ at[S] = "giveup" \/ EndingFor("giveup")

Enumerated ==
  /\ working_state \in {"ST_OPEN", "ST_CONNECT", "ST_UDP"}
  /\ mixed_state \in {"MIXED_SERVER", "MIXED_CLIENT"}
  /\ seg_auth_timer \in Timers /\ seg_inactivity_timer \in Timers
  /\ seg_critical_sem \in Tasks \cup {"free"}
  /\ mode \in Modes /\ password \in BOOLEAN /\ load \in Loads

Types == SocketTypes /\ Booleans /\ Counters /\ Enumerated

\* The flags stay flags.
LEMMA BooleansStep ==
  ASSUME Booleans, Enumerated, [Next]_vars
  PROVE  Booleans'
<1> USE DEF Booleans, Enumerated, config, socket, state, mixed, serial, network, flags, clocks,
   timers,
        history, control
<1>1. ASSUME NEW t \in Tasks, process_socket_termination(t) PROVE Booleans'
  <2>1. /\ UNCHANGED <<ir_con, accepted, first_established, seg_u2e_sem, seg_e2u_sem, isXON>>
        /\ UNCHANGED seg_timer_sem
    BY <1>1 DEF process_socket_termination
  <2>2. tls' = tls \/ tls' = FALSE
    BY <1>1 DEF process_socket_termination, Terminate
  <2>3. UNCHANGED flags \/ reset_SEG_timeflags
    BY <1>1 DEF process_socket_termination, Terminate
  <2> QED BY <2>1, <2>2, <2>3, ZenonT(60) DEF reset_SEG_timeflags
<1>2. ASSUME NEW t \in Tasks, ether_to_uart(t) PROVE Booleans'
  BY <1>2 DEF ether_to_uart, Look, Receive, Authenticate, StopAuth, Put, check_connect_pw_auth
<1>3. ASSUME NEW t \in Tasks, Yield(t) PROVE Booleans'
  BY <1>3 DEF Yield
<1>4. CASE Begin
  BY <1>4 DEF Begin
<1>5. CASE Connect
  <2>1. /\ UNCHANGED <<first_established, tls, seg_u2e_sem, seg_e2u_sem, isXON, flags>>
        /\ UNCHANGED seg_timer_sem
    BY <1>5 DEF Connect
  <2>2. /\ accepted' = accepted \/ accepted' = FALSE
        /\ ir_con' = ir_con \/ ir_con' = (mode \in {"TCP_CLIENT", "TCP_MIXED"})
    BY <1>5 DEF Connect
  <2>3. (mode \in {"TCP_CLIENT", "TCP_MIXED"}) \in BOOLEAN
    OBVIOUS
  <2>4. ir_con' \in BOOLEAN
    BY <2>2, <2>3
  <2> QED BY <2>1, <2>2, <2>4
<1>6. CASE Handshake
  BY <1>6, ZenonT(60) DEF Handshake
<1>7. CASE CountAttempt
  BY <1>7 DEF CountAttempt
<1>8. CASE Establish
  BY <1>8 DEF Establish
<1>9. CASE Announce \/ Drain \/ Closed \/ Report
  BY <1>9 DEF Announce, Drain, Closed, Report
<1>10. CASE EstablishMixed
  BY <1>10 DEF EstablishMixed
<1>11. CASE Reopen
  <2>1. /\ UNCHANGED <<accepted, first_established, seg_u2e_sem, seg_e2u_sem, isXON, flags>>
        /\ UNCHANGED seg_timer_sem
    BY <1>11 DEF Reopen
  <2>2. /\ tls' = FALSE \/ tls' = (mode \in TlsModes)
        /\ ir_con' = ir_con \/ ir_con' = FALSE
    BY <1>11 DEF Reopen, InitTls, OpenSocket
  <2>3. (mode \in TlsModes) \in BOOLEAN
    OBVIOUS
  <2>4. tls' \in BOOLEAN /\ ir_con' \in BOOLEAN
    BY <2>2, <2>3
  <2> QED BY <2>1, <2>4
<1>12. CASE seg_u2e_task
  BY <1>12 DEF seg_u2e_task, Forward, uart_to_ether
<1>13. CASE seg_recv_task
  BY <1>13 DEF seg_recv_task
<1>14. CASE seg_timer_task
  BY <1>14, ZenonT(60) DEF seg_timer_task
<1>15. CASE Expire
  BY <1>15 DEF Expire, auth_timer_callback, inactivity_timer_callback
<1>16. CASE UartInput
  BY <1>16 DEF UartInput
<1>17. CASE Network
  BY <1>17, ZenonT(60) DEF Network, PeerConnects, PeerSends, PeerCloses, Finished
<1>18. CASE UNCHANGED vars
  BY <1>18 DEF vars
<1> QED
  BY <1>1, <1>2, <1>3, <1>4, <1>5, <1>6, <1>7, <1>8, <1>9, <1>10, <1>11, <1>12, <1>13, <1>14, <1>15,
     <1>16, <1>17, <1>18 DEF Next, TaskStep, seg_task

\* The counters stay numbers, within their bounds.
LEMMA CountersStep ==
  ASSUME Reported, Counters, Enumerated, [Next]_vars
  PROVE  Counters'
<1> DEFINE Counted == reconnection_count < Retries \/ at[S] = "giveup" \/ EndingFor("giveup")
<1>a. Retries \in Nat /\ Retries > 0 /\ MaxBytes \in Nat /\ MaxFaults \in Nat
  BY GatewayAssumption
<1> USE <1>a DEF Counters, config, socket, state, mixed, serial, network, flags, clocks, timers,
        history, control, Fault
<1> USE DEF Reported, Places
<1>1. ASSUME NEW t \in Tasks, process_socket_termination(t) PROVE Counters'
  <2>1. UNCHANGED <<ring, u2e_size, faults, reconnection_count>>
    BY <1>1 DEF process_socket_termination
  <2>2. CASE t = S
    <3>1. \/ at'[S] \in Ending /\ back'[S] = back[S] /\ at[S] \in Ending
          \/ at'[S] = Landing(back[S]) /\ at[S] \in Ending
      BY <1>1, <2>2, TerminatePlaces DEF process_socket_termination, Control, SegPlaces, Moves,
         S, Own, Giving, Ending
    <3> QED BY <2>1, <3>1 DEF EndingFor, Landing, Ending
  <2>3. CASE t # S
    <3>1. Untouched(S)
      BY <1>1, <2>3, TerminatePlaces DEF process_socket_termination, Control, Untouched, Moves,
         S, Tasks
    <3> QED BY <2>1, <3>1 DEF EndingFor, Untouched
  <2> QED BY <2>2, <2>3
<1>2. ASSUME NEW t \in Tasks, ether_to_uart(t) \/ Yield(t) PROVE Counters'
  <2>1. UNCHANGED <<ring, u2e_size, faults, reconnection_count>>
    BY <1>2 DEF ether_to_uart, Yield
  <2>2. at[S] = "giveup" \/ EndingFor("giveup") => Untouched(S)
    BY <1>2, GivePlaces, YieldMoves DEF Control, Untouched, Moves, S, Tasks, EndingFor, Ending,
       Giving
  <2> QED BY <2>1, <2>2 DEF EndingFor, Untouched
<1>3. CASE seg_task
  <2> USE DEF Seg, Step, Then, Go, Do, Call, Terminated, Goto, Jump, EndingFor, Ending, S,
     Control, Tasks
  <2>4. CASE Begin
    BY <2>4 DEF Begin
  <2>5. CASE Connect
    BY <2>5 DEF Connect, check_tcp_connect_exception
  <2>6. CASE Handshake
    BY <2>6 DEF Handshake
  <2>7. CASE CountAttempt
    BY <2>7 DEF CountAttempt, Attempt
  <2>8. CASE Establish
    BY <2>8 DEF Establish, Flush
  <2>9. CASE Announce \/ Drain \/ Closed \/ Report
    BY <2>9 DEF Announce, Drain, Closed, Report, CloseWait, Disconnect
  <2>10. CASE EstablishMixed
    BY <2>10 DEF EstablishMixed
  <2>11. CASE Reopen
    BY <2>11 DEF Reopen, InitTls, OpenSocket
  <2> QED BY <1>3, <2>4, <2>5, <2>6, <2>7, <2>8, <2>9, <2>10, <2>11 DEF seg_task
<1>4. CASE seg_u2e_task \/ seg_recv_task \/ seg_timer_task \/ Expire \/ UartInput \/ Network
  <2>1. Untouched(S)
    BY <1>4, U2eMoves, RecvMoves, TimerMoves, OutsideMoves
       DEF Control, Untouched, Moves, S, R, Tasks
  <2>2. UNCHANGED <<faults, reconnection_count>>
    BY <1>4 DEF seg_u2e_task, seg_recv_task, seg_timer_task, Expire, UartInput, Network
  <2>3. ring' \in 0..MaxBytes /\ u2e_size' \in 0..MaxBytes
    <3>1. CASE seg_u2e_task
      BY <3>1 DEF seg_u2e_task, Forward, uart_to_ether
    <3>2. CASE UartInput
      BY <3>2 DEF UartInput
    <3> QED BY <1>4, <3>1, <3>2 DEF seg_recv_task, seg_timer_task, Expire, Network
  <2> QED BY <2>1, <2>2, <2>3 DEF EndingFor, Untouched
<1>5. CASE UNCHANGED vars
  BY <1>5 DEF vars, EndingFor
<1> QED BY <1>1, <1>2, <1>3, <1>4, <1>5 DEF Next, TaskStep

\* The states, modes and timers stay among those there are.
LEMMA EnumeratedStep ==
  ASSUME Reported, Enumerated, [Next]_vars
  PROVE  Enumerated'
<1> USE DEF Enumerated, Timers, config, socket, state, mixed, serial, network, flags, clocks,
   timers,
        history, control, KeepActive, Stopped
<1> USE DEF Lock, Goto, Go, Call, Return, Seg, Step, Then, Do, Terminated, Jump
<1>1. ASSUME NEW t \in Tasks, process_socket_termination(t) PROVE Enumerated'
  <2>1. Terminate(t) /\ UNCHANGED <<config, state, mixed_state>>
    BY <1>1 DEF process_socket_termination
  <2>2. seg_auth_timer' \in Timers /\ seg_inactivity_timer' \in Timers
    BY <2>1 DEF Terminate, timers_stop, Close
  <2>3. seg_critical_sem' \in Tasks \cup {"free"}
    BY <2>1 DEF Terminate, Chosen, Close, Disconnect
  <2> QED BY <2>1, <2>2, <2>3
<1>2. ASSUME NEW t \in Tasks, ether_to_uart(t) PROVE Enumerated'
  <2>1. UNCHANGED <<config, state, mixed_state>>
    BY <1>2 DEF ether_to_uart
  <2>2. seg_auth_timer' \in Timers /\ seg_inactivity_timer' \in Timers
    BY <1>2 DEF ether_to_uart, Look, Receive, Authenticate, StopAuth, Put
  <2>3. seg_critical_sem' \in Tasks \cup {"free"}
    BY <1>2 DEF ether_to_uart, Look, Receive, Authenticate, StopAuth, Put, Disconnect
  <2> QED BY <2>1, <2>2, <2>3
<1>3. ASSUME NEW t \in Tasks, Yield(t) PROVE Enumerated'
  BY <1>3 DEF Yield
<1>4. CASE Begin
  BY <1>4 DEF Begin, do_seg, Finds, Tasks, proc_SEG_udp, proc_SEG_tcp_client,
     proc_SEG_tcp_client_over_tls, proc_SEG_mqtt_client, proc_SEG_mqtts_client,
     proc_SEG_tcp_server, proc_SEG_tcp_mixed
<1>5. CASE Connect \/ Handshake
  BY <1>5 DEF Connect, Handshake
<1>6. CASE CountAttempt
  BY <1>6 DEF CountAttempt, Attempt
<1>7. CASE Establish
  BY <1>7 DEF Establish
<1>8. CASE Announce \/ Closed \/ Report
  BY <1>8 DEF Announce, Closed, Report, set_device_status
<1>9. CASE Drain
  BY <1>9 DEF Drain, CloseWait, Disconnect
<1>10. CASE EstablishMixed
  BY <1>10 DEF EstablishMixed
<1>11. CASE Reopen
  BY <1>11 DEF Reopen, InitTls, OpenSocket
<1>12. CASE seg_u2e_task
  BY <1>12 DEF seg_u2e_task, Forward, uart_to_ether, U2e, Tasks
<1>13. CASE seg_recv_task \/ seg_timer_task
  BY <1>13 DEF seg_recv_task, seg_timer_task
<1>14. CASE Expire
  BY <1>14 DEF Expire, auth_timer_callback, inactivity_timer_callback
<1>15. CASE UartInput \/ Network
  BY <1>15 DEF UartInput, Network
<1>16. CASE UNCHANGED vars
  BY <1>16 DEF vars
<1> QED
  BY <1>1, <1>2, <1>3, <1>4, <1>5, <1>6, <1>7, <1>8, <1>9, <1>10, <1>11, <1>12, <1>13, <1>14, <1>15,
     <1>16 DEF Next, TaskStep, seg_task

\* What has come is of a connection that was, also when there are more.
LEMMA ChunkGrows ==
  ASSUME NEW c \in Nat, NEW d \in Nat, c <= d
  PROVE  Chunk(c) \subseteq Chunk(d) /\ Seq(Chunk(c)) \subseteq Seq(Chunk(d))
<1>1. Chunk(c) \subseteq Chunk(d)
  BY DEF Chunk
<1>2. ASSUME NEW s \in Seq(Chunk(c)) PROVE s \in Seq(Chunk(d))
  BY <1>1
<1> QED BY <1>1, <1>2

\* The head of what waits, as it is or as data of the same connection, and what is left.
LEMMA Taken ==
  ASSUME NEW c \in Nat, NEW q \in Seq(Chunk(c)), q # <<>>, NEW n \in 0..Len(q)
  PROVE  /\ Head(q) \in Chunk(c) /\ [Head(q) EXCEPT !.kind = "data"] \in Chunk(c)
         /\ SubSeq(q, n + 1, Len(q)) \in Seq(Chunk(c)) /\ Tail(q) \in Seq(Chunk(c))
<1>1. Head(q) \in Chunk(c) /\ Tail(q) \in Seq(Chunk(c))
  OBVIOUS
<1>2. [Head(q) EXCEPT !.kind = "data"] \in Chunk(c)
  BY <1>1 DEF Chunk
<1>3. \A i \in (n + 1)..Len(q) : q[i] \in Chunk(c)
  OBVIOUS
<1>4. SubSeq(q, n + 1, Len(q)) \in Seq(Chunk(c))
  BY <1>3
<1> QED BY <1>1, <1>2, <1>4

\* The socket, its buffer and what has been taken from it keep their types.
LEMMA SocketTypesStep ==
  ASSUME Reported, SocketTypes, Enumerated, [Next]_vars
  PROVE  SocketTypes'
<1> USE DEF SocketTypes, config, socket, state, mixed, serial, network, flags, clocks, timers,
        history, control
<1>a. MaxConn \in Nat /\ MaxRx \in Nat /\ conn \in Nat
  BY GatewayAssumption
<1>b. <<>> \in Seq(Chunk(conn))
  OBVIOUS
<1>1. ASSUME NEW t \in Tasks, process_socket_termination(t) PROVE SocketTypes'
  <2>1. UNCHANGED <<conn, ready, authed, g_recv_buf, len, e2u_size>>
    BY <1>1 DEF process_socket_termination
  <2>2. rx' = rx \/ rx' = <<>>
    BY <1>1 DEF process_socket_termination, Terminate, Close
  <2>3. sr' \in Open => sr' = sr
    BY <1>1 DEF process_socket_termination, Terminate, Close, Disconnect, Open
  <2>4. mode' = mode /\ (sr' = "SOCK_UDP" => sr' = sr)
    BY <1>1 DEF process_socket_termination, Terminate, Close, Disconnect
  <2> QED BY <2>1, <2>2, <2>3, <2>4, <1>b
<1>2. ASSUME NEW t \in Tasks, ether_to_uart(t) PROVE SocketTypes'
  <2>1. UNCHANGED <<conn, ready>>
    BY <1>2 DEF ether_to_uart
  <2>2. mode' = mode /\ (sr' \in Open \cup {"SOCK_UDP"} => sr' = sr)
    BY <1>2 DEF ether_to_uart, Look, Receive, Authenticate, StopAuth, Put, Disconnect, Open
  <2>3. len' \in [Tasks -> Nat]
    BY <1>2 DEF ether_to_uart, Look, Receive, Authenticate, StopAuth, Put
  <2>4. e2u_size' \in 0..1
    BY <1>2 DEF ether_to_uart, Look, Receive, Authenticate, StopAuth, Put
  <2>5. authed' \subseteq 1..conn
    <3>1. \/ authed' = authed
          \/ check_connect_pw_auth /\ authed' = authed \cup {g_recv_buf.conn}
      <4>1. CASE Authenticate(t)
        BY <4>1 DEF Authenticate
      <4>2. CASE ~Authenticate(t)
        BY <1>2, <4>2 DEF ether_to_uart, Look, Receive, StopAuth, Put
      <4> QED BY <4>1, <4>2
    <3>2. check_connect_pw_auth => g_recv_buf.conn \in 1..conn
      BY <1>a DEF Chunk, check_connect_pw_auth
    <3> QED BY <3>1, <3>2
  <2>6. rx' \in Seq(Chunk(conn)) /\ g_recv_buf' \in Chunk(conn)
    <3>1. CASE Receive(t) /\ rx # <<>>
      <4> DEFINE n == IF len[t] < Len(rx) THEN len[t] ELSE Len(rx)
      <4>1. n \in 0..Len(rx)
        BY <1>a
      <4>2. \/ /\ g_recv_buf' = Head(rx) \/ g_recv_buf' = [Head(rx) EXCEPT !.kind = "data"]
               /\ rx' = SubSeq(rx, n + 1, Len(rx))
            \/ rx' = <<>> /\ g_recv_buf' = g_recv_buf
        BY <3>1 DEF Receive
      <4> HIDE DEF n
      <4>3. /\ Head(rx) \in Chunk(conn) /\ [Head(rx) EXCEPT !.kind = "data"] \in Chunk(conn)
            /\ SubSeq(rx, n + 1, Len(rx)) \in Seq(Chunk(conn))
        BY <1>a, <3>1, <4>1, Taken
      <4> QED BY <4>2, <4>3, <1>b
    <3>2. CASE Receive(t) /\ rx = <<>>
      BY <3>2, <1>b DEF Receive
    <3>3. CASE ~Receive(t)
      BY <1>2, <3>3 DEF ether_to_uart, Look, Authenticate, StopAuth, Put
    <3> QED BY <3>1, <3>2, <3>3
  <2> QED BY <2>1, <2>2, <2>3, <2>4, <2>5, <2>6
<1>3. ASSUME NEW t \in Tasks, Yield(t) PROVE SocketTypes'
  <2>1. UNCHANGED <<mode, sr, conn, ready, authed, len>>
    BY <1>3 DEF Yield
  <2>2. CASE rx = <<>>
    BY <1>3, <2>1, <2>2 DEF Yield
  <2>3. CASE rx # <<>>
    <3>1. Head(rx) \in Chunk(conn) /\ Tail(rx) \in Seq(Chunk(conn))
      BY <2>3, <1>a
    <3>2. g_recv_buf' = Head(rx) /\ rx' = Tail(rx) /\ e2u_size' = 1
      BY <1>3, <2>3 DEF Yield
    <3> QED BY <2>1, <3>1, <3>2
  <2> QED BY <2>2, <2>3
<1>4. CASE Connect
  <2>1. UNCHANGED <<mode, rx, ready, authed, g_recv_buf, len, e2u_size>>
    BY <1>4 DEF Connect
  <2>2. \/ conn' = conn /\ (sr' = sr \/ sr' = "SOCK_CLOSED")
        \/ conn < MaxConn /\ conn' = conn + 1 /\ sr' = "SOCK_ESTABLISHED"
    BY <1>4 DEF Connect
  <2>3. CASE conn' = conn /\ (sr' = sr \/ sr' = "SOCK_CLOSED")
    BY <2>1, <2>3 DEF Open
  <2>4. CASE conn < MaxConn /\ conn' = conn + 1 /\ sr' = "SOCK_ESTABLISHED"
    <3>1. conn' \in 0..MaxConn /\ conn' > 0 /\ conn <= conn' /\ conn' \in Nat
      BY <2>4, <1>a
    <3>2. Chunk(conn) \subseteq Chunk(conn') /\ Seq(Chunk(conn)) \subseteq Seq(Chunk(conn'))
      BY <3>1, <1>a, ChunkGrows
    <3> QED BY <2>1, <2>4, <3>1, <3>2
  <2> QED BY <2>2, <2>3, <2>4
<1>5. CASE PeerConnects /\ Network
  <2>1. UNCHANGED <<mode, rx, ready, authed, g_recv_buf, len, e2u_size>>
    BY <1>5 DEF PeerConnects, Network
  <2>2. conn < MaxConn /\ conn' = conn + 1 /\ sr' = "SOCK_ESTABLISHED"
    BY <1>5 DEF PeerConnects
  <2>3. conn' \in 0..MaxConn /\ conn' > 0 /\ conn <= conn' /\ conn' \in Nat
    BY <2>2, <1>a
  <2>4. Chunk(conn) \subseteq Chunk(conn') /\ Seq(Chunk(conn)) \subseteq Seq(Chunk(conn'))
    BY <2>3, <1>a, ChunkGrows
  <2> QED BY <2>1, <2>2, <2>3, <2>4
<1>6. CASE Network /\ ~PeerConnects
  <2>1. UNCHANGED <<conn, ready, authed, g_recv_buf, len, e2u_size>>
    BY <1>6 DEF PeerSends, PeerCloses, Finished, Network
  <2>2. mode' = mode /\ (sr' \in Open => sr \in Open) /\ (sr' = "SOCK_UDP" => sr' = sr)
    BY <1>6 DEF PeerSends, PeerCloses, Finished, Network, Open
  <2>3. rx' \in Seq(Chunk(conn))
    <3>1. CASE PeerSends
      <4>1. PICK kind \in IF mode \in {"TCP_SERVER", "TCP_MIXED"} /\ password THEN Chunks ELSE {"data"} :
              rx' = Append(rx, [conn |-> conn, kind |-> kind])
        BY <3>1 DEF PeerSends
      <4>2. kind \in {"data", "password"}
        BY <4>1, GatewayAssumption
      <4>3. kind = "password" => mode # "UDP"
        BY <4>1
      <4>4. kind = "password" => conn > 0
        BY <3>1, <4>3 DEF PeerSends, Open
      <4>5. [conn |-> conn, kind |-> kind] \in Chunk(conn)
        BY <1>a, <4>2, <4>4 DEF Chunk
      <4> QED BY <4>1, <4>5
    <3>2. CASE PeerCloses \/ Finished
      BY <3>2 DEF PeerCloses, Finished
    <3> QED BY <1>6, <3>1, <3>2 DEF Network
  <2> QED BY <2>1, <2>2, <2>3
<1>7. CASE Handshake
  <2>1. /\ UNCHANGED <<sr, conn, ready, rx, g_recv_buf, len, e2u_size, mode>>
        /\ authed' = authed \/ (sr = "SOCK_ESTABLISHED" /\ authed' = authed \cup {conn})
    BY <1>7 DEF Handshake
  <2>2. sr = "SOCK_ESTABLISHED" => conn \in 1..conn
    BY <1>a DEF Open
  <2> QED BY <2>1, <2>2
<1>8. CASE Announce
  BY <1>8, <1>a DEF Announce
<1>9. CASE Reopen
  <2>1. UNCHANGED <<conn, ready, authed, g_recv_buf, len>>
    BY <1>9 DEF Reopen
  <2>2. sr' \in Open => sr' = sr
    BY <1>9 DEF Reopen, InitTls, OpenSocket, Open
  <2>3. (rx' = rx \/ rx' = <<>>) /\ (e2u_size' = e2u_size \/ e2u_size' = 0)
    BY <1>9 DEF Reopen, InitTls, OpenSocket
  <2>4. rx' \in Seq(Chunk(conn))
    BY <2>3, <1>b
  <2>6. e2u_size' \in 0..1
    BY <2>3
  <2>5. mode' = mode /\ (sr' = "SOCK_UDP" => sr = "SOCK_UDP" \/ mode = "UDP")
    BY <1>9 DEF Reopen, InitTls, OpenSocket
  <2> QED BY <2>1, <2>2, <2>4, <2>5, <2>6
<1>10. CASE Drain
  <2>1. sr' \in Open \cup {"SOCK_UDP"} => sr' = sr
    BY <1>10 DEF Drain, CloseWait, Disconnect, Open
  <2> QED BY <1>10, <2>1 DEF Drain
<1>11. CASE Begin \/ CountAttempt \/ Establish \/ EstablishMixed \/ Closed \/ Report
  BY <1>11 DEF Begin, CountAttempt, Establish, EstablishMixed, Closed, Report
<1>12. CASE seg_u2e_task \/ seg_recv_task \/ seg_timer_task \/ Expire \/ UartInput
  BY <1>12 DEF seg_u2e_task, seg_recv_task, seg_timer_task, Expire, UartInput
<1>13. CASE UNCHANGED vars
  BY <1>13 DEF vars
<1> QED
  BY <1>1, <1>2, <1>3, <1>4, <1>5, <1>6, <1>7, <1>8, <1>9, <1>10, <1>11, <1>12, <1>13
     DEF Next, TaskStep, seg_task

\* The start has the types and the reports.
LEMMA InitialTypes ==
  ASSUME Init
  PROVE  Reported /\ Types
<1>1. SocketTypes
  <2>1. MaxConn \in Nat
    BY GatewayAssumption
  <2> QED BY <2>1 DEF Init, SocketTypes, Chunk, NoChunk, Open
<1>2. Booleans
  BY DEF Init, Booleans
<1>3. Counters /\ Enumerated
  <2>1. password \in BOOLEAN
    BY GatewayAssumption DEF Init
  <2>2. Retries \in Nat \ {0} /\ MaxBytes \in Nat /\ MaxFaults \in Nat
    BY GatewayAssumption
  <2> QED BY <2>1, <2>2 DEF Init, Counters, Enumerated, Timers
<1> QED BY <1>1, <1>2, <1>3, ReportedInit DEF Types

\* The variables of the gateway keep their types.
THEOREM TypeCorrect == Spec => []TypeOK
<1> DEFINE IInv == Reported /\ Types
<1>1. Init => IInv
  BY InitialTypes
<1>2. IInv /\ [Next]_vars => IInv'
  BY ReportedStep, SocketTypesStep, BooleansStep, CountersStep, EnumeratedStep DEF Types
<1>3. IInv => TypeOK
  BY DEF Reported, Seen, States, Types, SocketTypes, Booleans, Counters, Enumerated, TypeOK
<1> QED BY <1>1, <1>2, <1>3, PTL DEF Spec

-----------------------------------------------------------------------------
(* The password of a TCP server, when passes of seg_task and the work of   *)
(* the other tasks do not overlap.                                         *)

\* No load has a peer that sends and tasks that overlap.
CalmPeers == \A l \in Loads : "peer" \in l => "races" \notin l

\* Nothing comes from a peer that sends nothing.
Quiet == "peer" \notin load => rx = <<>> /\ e2u_size = 0

\* What waits in the chip is of the last connection.
Chunked == \A i \in 1..Len(rx) : rx[i].conn = conn
Empty   == sr \in Waiting => rx = <<>>

\* seg_recv_task has done its work, but for a wait for SOCK_CLOSED, while seg_task runs.
Single == calm /\ at[S] # "wait" => at[R] \in {"wait", "bad_wait"}

Gated == mode = "TCP_SERVER" /\ password /\ calm
Asked == flag_connect_pw_auth => conn \in authed

\* A socket that is closed to be opened again has forgotten the password, one that is open
\* has it of its own connection, and so has a chunk on its way to the UART.
Gate ==
  Gated =>
    /\ sr \notin {"SOCK_UDP", "SOCK_INIT"}
    /\ sr = "SOCK_LISTEN" => /\ at[S] = "wait" /\ at[R] \in {"wait", "bad_wait", "rsr"}
                             /\ ~flag_connect_pw_auth
    /\ at[S] \in {"open", "report"} \/ (EndingFor("report") /\ at[S] \notin {"status", "timers"})
          => ~flag_connect_pw_auth
    /\ at[S] # "counted" /\ (at[S] \in Ending => back[S] \in {"report", "leave"})
    /\ sr \in Open => Asked

OnItsWay(t) ==
  Gated =>
    /\ at[t] = "auth" /\ e2u_size = 0 => sr \notin Open \cup {"SOCK_LISTEN"}
    /\ at[t] = "auth" /\ e2u_size # 0 => g_recv_buf.conn = conn /\ Asked
    /\ at[t] = "auth_stop" => e2u_size = 0
    /\ at[t] = "put" /\ e2u_size # 0 => g_recv_buf.conn \in authed

Guard == /\ Reported /\ Booleans /\ SocketTypes /\ Quiet /\ Chunked /\ Empty /\ Single /\ Gate
         /\ OnItsWay(S) /\ OnItsWay(R)

\* What the chip holds is of the last connection, nothing while the socket waits for one.
LEMMA ChipStep ==
  ASSUME Reported, SocketTypes, Quiet, Chunked, Empty, [Next]_vars
  PROVE  Quiet' /\ Chunked' /\ Empty'
<1> USE DEF Quiet, Chunked, Empty, Waiting, config, socket, state, network, history
<1>a. rx \in Seq(Chunk(conn)) /\ load' = load
  BY ConfigStays DEF SocketTypes, vars
<1>b. ASSUME NEW n \in Nat
      PROVE  /\ \A i \in 1..Len(SubSeq(rx, n + 1, Len(rx))) : SubSeq(rx, n + 1, Len(rx))[i].conn = conn
             /\ rx = <<>> => SubSeq(rx, n + 1, Len(rx)) = <<>>
  BY <1>a
<1>1. ASSUME NEW t \in Tasks, process_socket_termination(t) PROVE Quiet' /\ Chunked' /\ Empty'
  <2>1. conn' = conn /\ e2u_size' = e2u_size /\ (rx' = rx \/ rx' = <<>>)
    BY <1>1 DEF process_socket_termination, Terminate, Close
  <2>2. sr' \in Waiting => sr' = sr
    BY <1>1 DEF process_socket_termination, Terminate, Close, Disconnect, Open
  <2> QED BY <1>a, <2>1, <2>2
<1>2. ASSUME NEW t \in Tasks, ether_to_uart(t) PROVE Quiet' /\ Chunked' /\ Empty'
  <2>1. conn' = conn
    BY <1>2 DEF ether_to_uart
  <2>2. sr' \in Waiting => sr' = sr
    BY <1>2 DEF ether_to_uart, Look, Receive, Authenticate, StopAuth, Put, Disconnect, Open
  <2>3. \/ rx' = rx /\ (e2u_size' = e2u_size \/ e2u_size' = 0)
        \/ rx' = <<>> /\ e2u_size' = 0
        \/ rx # <<>> /\ \E n \in Nat : rx' = SubSeq(rx, n + 1, Len(rx))
    <3>1. CASE Receive(t)
      <4>1. len[t] \in Nat /\ Len(rx) \in Nat
        BY <1>a DEF SocketTypes
      <4> QED BY <3>1, <4>1 DEF Receive
    <3>2. CASE ~Receive(t)
      BY <1>2, <3>2 DEF ether_to_uart, Look, Authenticate, StopAuth, Put
    <3> QED BY <3>1, <3>2
  <2>4. CASE rx # <<>> /\ \E n \in Nat : rx' = SubSeq(rx, n + 1, Len(rx))
    <3>1. \A i \in 1..Len(rx') : rx'[i].conn = conn
      BY <1>b, <2>4
    <3> QED BY <1>a, <2>1, <2>2, <2>4, <3>1
  <2> QED BY <1>a, <2>1, <2>2, <2>3, <2>4
<1>3. ASSUME NEW t \in Tasks, Yield(t) PROVE Quiet' /\ Chunked' /\ Empty'
  <2>1. conn' = conn /\ sr' = sr
    BY <1>3 DEF Yield
  <2>2. \/ rx' = rx /\ e2u_size' = e2u_size
        \/ rx # <<>> /\ rx' = Tail(rx)
    BY <1>3 DEF Yield
  <2>3. rx # <<>> => \A i \in 1..Len(Tail(rx)) : Tail(rx)[i].conn = conn
    BY <1>a
  <2> QED BY <1>a, <2>1, <2>2, <2>3
<1>4. CASE Connect \/ (PeerConnects /\ Network)
  <2>1. rx' = rx /\ e2u_size' = e2u_size
    BY <1>4 DEF Connect, PeerConnects, Network
  <2>2. \/ sr' = sr /\ conn' = conn
        \/ sr' \notin Waiting /\ (conn' = conn \/ sr \in Waiting)
    BY <1>4 DEF Connect, PeerConnects, Network
  <2> QED BY <1>a, <2>1, <2>2
<1>5. CASE Network /\ ~PeerConnects
  <2>1. CASE PeerSends
    <3>1. /\ conn' = conn /\ sr' = sr /\ sr \notin Waiting /\ "peer" \in load
          /\ \E kind : rx' = Append(rx, [conn |-> conn, kind |-> kind])
      BY <1>5, <2>1 DEF PeerSends
    <3> QED BY <1>a, <3>1
  <2>2. CASE PeerCloses \/ Finished
    BY <1>a, <1>5, <2>2 DEF Network, PeerCloses, Finished
  <2> QED BY <1>5, <2>1, <2>2 DEF Network
<1>6. CASE Reopen
  BY <1>a, <1>6 DEF Reopen, InitTls, OpenSocket
<1>7. CASE Drain
  BY <1>a, <1>7 DEF Drain, CloseWait, Disconnect, Open
<1>8. CASE \/ Begin \/ Handshake \/ CountAttempt \/ Establish \/ Announce \/ EstablishMixed
           \/ Closed \/ Report
  BY <1>a, <1>8 DEF Begin, Handshake, CountAttempt, Establish, Announce, EstablishMixed, Closed,
     Report
<1>9. CASE seg_u2e_task \/ seg_recv_task \/ seg_timer_task \/ Expire \/ UartInput
  BY <1>a, <1>9 DEF seg_u2e_task, seg_recv_task, seg_timer_task, Expire, UartInput
<1>10. CASE UNCHANGED vars
  BY <1>10 DEF vars
<1> QED
  BY <1>1, <1>2, <1>3, <1>4, <1>5, <1>6, <1>7, <1>8, <1>9, <1>10 DEF Next, TaskStep, seg_task

\* A step of a task leaves the others where they are.
LEMMA OneMoves ==
  ASSUME Places, NEW t \in Tasks, NEW u \in Tasks \ {t},
         \/ TaskStep(t) \/ (t = S /\ seg_task) \/ (t = R /\ seg_recv_task)
         \/ (t = "seg_u2e_task" /\ seg_u2e_task) \/ (t = "seg_timer_task" /\ seg_timer_task)
  PROVE  Untouched(u)
<1>1. Control
  BY DEF Places
<1>2. CASE TaskStep(t)
  BY <1>1, <1>2, TerminatePlaces, GivePlaces, YieldMoves
     DEF TaskStep, process_socket_termination, Control, Untouched, Moves
<1>3. CASE ~TaskStep(t)
  BY <1>1, <1>3, SegMoves, U2eMoves, RecvMoves, TimerMoves DEF Control, Untouched, Moves
<1> QED BY <1>2, <1>3

\* The two tasks do not pass a chunk on at the same time.
LEMMA SingleStep ==
  ASSUME Places, Single, [Next]_vars
  PROVE  Single'
<1> USE DEF Single, calm
<1>a. load' = load
  BY ConfigStays DEF config, vars
<1>1. CASE UNCHANGED control
  BY <1>a, <1>1 DEF control
<1>2. ASSUME NEW t \in Tasks, TaskStep(t) PROVE Single'
  <2>1. CASE t = R
    <3>1. at'[S] = at[S]
      BY <1>2, <2>1, OneMoves DEF Untouched, Tasks, S, R
    <3>2. at[R] = "bad_wait" => at'[R] = "wait"
      <4>1. ether_to_uart(R)
        BY <1>2, <2>1, TerminatePlaces, YieldMoves
           DEF TaskStep, process_socket_termination, Places, RecvPlaces, Giving, Ending, S, R
      <4>2. at[R] = "bad_wait" => Return(R) /\ back[R] = "wait"
        BY <4>1 DEF ether_to_uart, Look, Receive, Authenticate, StopAuth, Put, Disconnect, Step,
           Places, RecvPlaces, Giving
      <4> QED BY <4>2 DEF Return, Goto, Jump, Places, Control, R, Tasks
    <3>3. at[R] # "wait"
      BY <1>2, <2>1, TerminatePlaces, GivePlaces, YieldMoves
         DEF TaskStep, process_socket_termination, Places, RecvPlaces, Giving, Ending, S, R
    <3> QED BY <1>a, <3>1, <3>2, <3>3
  <2>2. CASE t = S
    <3>1. at'[R] = at[R]
      BY <1>2, <2>2, OneMoves DEF Untouched, Tasks, S, R
    <3>2. at[S] # "wait"
      BY <1>2, <2>2, TerminatePlaces, GivePlaces, YieldMoves
         DEF TaskStep, process_socket_termination, Places, Giving, Ending, S
    <3> QED BY <1>a, <3>1, <3>2
  <2>3. CASE t \notin {S, R}
    BY <1>a, <1>2, <2>3, OneMoves DEF Untouched, Tasks, S, R
  <2> QED BY <2>1, <2>2, <2>3
<1>3. CASE seg_task
  <2>1. at'[R] = at[R]
    BY <1>3, OneMoves DEF Untouched, Tasks, S, R
  <2>2. at[S] = "wait" => (calm => at[R] \in {"wait", "bad_wait"})
    BY <1>3 DEF seg_task, Begin, AtRest, Tasks, S, R, Connect, Handshake, CountAttempt, Attempt,
       Establish, Announce, EstablishMixed, Drain, CloseWait, Disconnect, Closed, Report, Reopen,
       Seg, Step
  <2> QED BY <1>a, <2>1, <2>2
<1>4. CASE seg_recv_task
  <2>1. calm => at[S] = "wait"
    BY <1>4 DEF seg_recv_task, S
  <2>2. at'[S] = at[S]
    BY <1>4, OneMoves DEF Untouched, Tasks, S, R
  <2> QED BY <1>a, <2>1, <2>2
<1>5. CASE seg_u2e_task \/ seg_timer_task
  BY <1>a, <1>5, OneMoves DEF Untouched, Tasks, S, R
<1> QED
  BY <1>1, <1>2, <1>3, <1>4, <1>5, OutsideMoves DEF Next, vars

\* A step that moves neither task and hands nothing over.
LEMMA GateOutside ==
  ASSUME Gated, Gated', Gate, OnItsWay(S), OnItsWay(R), Untouched(S), Untouched(R),
         sr' = sr \/ sr' \in {"SOCK_CLOSED", "SOCK_FIN_WAIT"} \/ (sr \in Open /\ sr' \in Open),
         UNCHANGED <<conn, e2u_size, g_recv_buf, authed>>,
         flag_connect_pw_auth' = flag_connect_pw_auth \/ flag_connect_pw_auth' = FALSE
  PROVE  Gate' /\ OnItsWay(S)' /\ OnItsWay(R)'
<1>1. Asked => Asked'
  BY DEF Asked
<1>2. sr' \in Open \cup {"SOCK_LISTEN"} => (sr \in Open /\ sr' \in Open) \/ sr' = sr
  BY DEF Open
<1>3. Gate'
  BY <1>1, <1>2 DEF Gate, Untouched, EndingFor, Open
<1>4. OnItsWay(S)' /\ OnItsWay(R)'
  BY <1>1, <1>2 DEF OnItsWay, Untouched, Open
<1> QED BY <1>3, <1>4

\* seg_task or seg_recv_task passes a chunk on while the other one does not.
LEMMA GateGives ==
  ASSUME Guard, Gated, Gated', NEW t \in {S, R}, NEW u \in {S, R} \ {t}, ether_to_uart(t),
         Untouched(u), at[u] \in {"wait", "bad_wait"}, t = R => at[S] = "wait"
  PROVE  Gate' /\ OnItsWay(S)' /\ OnItsWay(R)'
<1> USE DEF Guard, Places, Reported
<1>a. /\ mode = "TCP_SERVER" /\ password /\ Server /\ mode \notin MqttModes
      /\ t \in Tasks /\ Control /\ at[t] \in Giving
  BY GivePlaces DEF Gated, Server, MqttModes, Tasks, S, R
<1>b. /\ sr \notin {"SOCK_UDP", "SOCK_INIT"}
      /\ sr = "SOCK_LISTEN" => at[t] \in {"bad_wait", "rsr"} /\ t = R /\ ~flag_connect_pw_auth /\ rx = <<>>
      /\ sr \in Open => Asked
  BY <1>a DEF Gate, Empty, Waiting, Giving, S, R
<1>c. at'[u] \in {"wait", "bad_wait"} /\ back'[u] = back[u] /\ conn' = conn
  BY DEF Untouched, ether_to_uart, socket
<1>d. t = S => back[t] \in {"drain", "leave"}
  BY <1>a DEF SegPlaces
<1>e. t = R => back[t] = "wait" /\ at'[S] = "wait"
  BY <1>a, <1>c DEF RecvPlaces, Untouched, S, R
<1>f. ASSUME at'[t] \in Giving \cup {"wait", "drain"},
             sr' = sr \/ sr' \in {"SOCK_CLOSED", "SOCK_FIN_WAIT"},
             sr' \in Open => Asked',
             sr' = "SOCK_LISTEN" => t = R /\ at'[t] \in {"wait", "bad_wait", "rsr"} /\ ~flag_connect_pw_auth'
      PROVE  Gate'
  <2>1. at'[S] \in Giving \cup {"wait", "drain"}
    BY <1>c, <1>e, <1>f DEF Giving, S, R
  <2>2. sr' = "SOCK_LISTEN" => at'[S] = "wait" /\ at'[R] \in {"wait", "bad_wait", "rsr"} /\ ~flag_connect_pw_auth'
    BY <1>e, <1>f
  <2>3. sr' \notin {"SOCK_UDP", "SOCK_INIT"}
    BY <1>b, <1>f
  <2> QED BY <1>f, <2>1, <2>2, <2>3 DEF Gate, EndingFor, Ending, Giving
<1>g. OnItsWay(t)' => OnItsWay(S)' /\ OnItsWay(R)'
  BY <1>c DEF OnItsWay, S, R
<1> USE DEF Go, Goto, Jump, Control
<1>1. CASE Look(t)
  <2>1. /\ UNCHANGED <<sr, flag_connect_pw_auth, authed, e2u_size, g_recv_buf>>
        /\ at'[t] \in {"recv", "wait", "drain"} /\ (rx = <<>> => at'[t] # "recv")
        /\ t = R => at'[t] # "drain"
    BY <1>1, <1>a, <1>d, <1>e DEF Look, Return
  <2>2. Gate'
    BY <1>b, <1>c, <1>f, <2>1 DEF Asked, Giving
  <2>3. OnItsWay(t)'
    BY <2>1 DEF OnItsWay
  <2> QED BY <2>2, <2>3, <1>g
<1>2. CASE Receive(t)
  <2>1. /\ UNCHANGED <<flag_connect_pw_auth, authed>>
        /\ at'[t] = "auth" /\ sr # "SOCK_LISTEN"
    BY <1>2, <1>a, <1>b DEF Receive, Step
  <2>2. \/ /\ sr \in Open /\ sr' = sr /\ rx # <<>>
           /\ g_recv_buf'.conn = Head(rx).conn /\ e2u_size' = 1
        \/ e2u_size' = 0 /\ sr' = "SOCK_CLOSED"
    <3>1. CASE sr \in Open \cup {"SOCK_UDP"} /\ rx # <<>>
      <4>1. Head(rx) \in Chunk(conn)
        BY <3>1 DEF SocketTypes
      <4>2. [Head(rx) EXCEPT !.kind = "data"].conn = Head(rx).conn
        BY <4>1 DEF Chunk
      <4> QED BY <1>2, <1>b, <3>1, <4>2 DEF Receive
    <3>2. CASE ~(sr \in Open \cup {"SOCK_UDP"} /\ rx # <<>>)
      BY <1>2, <3>2 DEF Receive
    <3> QED BY <3>1, <3>2
  <2>3. rx # <<>> => Head(rx).conn = conn
    BY DEF Chunked, SocketTypes
  <2>4. Asked' <=> Asked
    BY <1>c, <2>1 DEF Asked
  <2>5. Gate'
    BY <1>b, <1>c, <1>f, <2>1, <2>2, <2>4 DEF Giving, Open
  <2>6. OnItsWay(t)'
    BY <1>b, <1>c, <2>1, <2>2, <2>3, <2>4 DEF OnItsWay, Open
  <2> QED BY <2>5, <2>6, <1>g
<1>3. CASE Authenticate(t)
  <2>1. at[t] = "auth" /\ sr' = sr /\ g_recv_buf' = g_recv_buf
    BY <1>3 DEF Authenticate
  <2>2. sr # "SOCK_LISTEN" /\ (sr \in Open => e2u_size # 0)
    BY <1>a, <1>b, <2>1 DEF OnItsWay, Gated
  <2>3. e2u_size # 0 => g_recv_buf.conn = conn /\ Asked
    BY <2>1 DEF OnItsWay
  <2>4. CASE ~flag_connect_pw_auth
    <3>1. /\ e2u_size' = 0 /\ at'[t] = "auth_stop"
          /\ flag_connect_pw_auth' => g_recv_buf.conn \in authed'
      BY <1>3, <1>a, <2>4 DEF Authenticate
    <3>2. sr' \in Open => Asked'
      BY <1>c, <2>1, <2>2, <2>3, <3>1 DEF Asked
    <3>3. Gate'
      BY <1>f, <2>1, <2>2, <3>1, <3>2 DEF Giving
    <3>4. OnItsWay(t)'
      BY <3>1 DEF OnItsWay
    <3> QED BY <3>3, <3>4, <1>g
  <2>5. CASE flag_connect_pw_auth
    <3>1. at'[t] = "put" /\ UNCHANGED <<flag_connect_pw_auth, authed, e2u_size>>
      BY <1>3, <1>a, <2>5 DEF Authenticate
    <3>2. Gate'
      BY <1>b, <1>c, <1>f, <2>1, <2>2, <3>1 DEF Asked, Giving
    <3>3. OnItsWay(t)'
      BY <2>1, <2>3, <2>5, <3>1 DEF OnItsWay, Asked
    <3> QED BY <3>2, <3>3, <1>g
  <2> QED BY <2>4, <2>5
<1>4. CASE StopAuth(t) \/ Put(t)
  <2>1. /\ UNCHANGED <<sr, g_recv_buf, flag_connect_pw_auth, authed>>
        /\ at[t] \in {"auth_stop", "put"} /\ (e2u_size' = e2u_size \/ e2u_size' = 0)
    BY <1>4 DEF StopAuth, Put
  <2>2. /\ at'[t] \in {"put", "bad", "rsr", "wait", "drain"}
        /\ at'[t] = "put" => at[t] = "auth_stop" /\ e2u_size' = e2u_size
    BY <1>4, <1>a, <1>d, <1>e DEF StopAuth, Put, Return
  <2>3. Gate'
    BY <1>b, <1>c, <1>f, <2>1, <2>2 DEF Asked, Giving
  <2>4. OnItsWay(t)'
    BY <2>1, <2>2 DEF OnItsWay
  <2> QED BY <2>3, <2>4, <1>g
<1>5. CASE Disconnect(t, "bad", "bad_wait", "back")
  <2>1. UNCHANGED <<g_recv_buf, flag_connect_pw_auth, authed, e2u_size>>
    BY <1>5, <1>a DEF ether_to_uart, Disconnect, Step, Look, Receive, Authenticate, StopAuth, Put
  <2>2. /\ at'[t] \in {"bad_wait", "wait", "drain"} /\ (t = R => at'[t] # "drain")
        /\ sr' = sr \/ (sr' \in {"SOCK_CLOSED", "SOCK_FIN_WAIT"})
    BY <1>5, <1>a, <1>d, <1>e DEF Disconnect, Step, Return
  <2>3. Gate'
    BY <1>b, <1>c, <1>f, <2>1, <2>2 DEF Asked, Giving, Open
  <2>4. OnItsWay(t)'
    BY <2>2 DEF OnItsWay
  <2> QED BY <2>3, <2>4, <1>g
<1> QED BY <1>1, <1>2, <1>3, <1>4, <1>5 DEF ether_to_uart

\* seg_task in process_socket_termination.
LEMMA GateTerminates ==
  ASSUME Guard, Gated, Gated', Terminate(S), Falls, Untouched(R),
         UNCHANGED <<conn, e2u_size, g_recv_buf, authed>>
  PROVE  Gate' /\ OnItsWay(S)' /\ OnItsWay(R)'
<1> USE DEF Guard, Reported, Places
<1>1. /\ S \in Tasks /\ at[S] \in Ending /\ at[S] # "wait" /\ back[S] \in {"report", "leave"}
      /\ mode \notin TlsModes /\ sr # "SOCK_LISTEN"
  BY TerminatePlaces DEF SegPlaces, Gated, Gate, Tasks, Own, Giving, Ending, TlsModes, S
<1>2. at[R] \in {"wait", "bad_wait"} /\ at'[R] = at[R]
  BY <1>1 DEF Single, Gated, Untouched
<1>3. \/ at'[S] \in Ending /\ back'[S] = back[S]
      \/ at'[S] = Landing(back[S]) /\ back'[S] = "wait"
  BY <1>1, TerminatePlaces DEF Control, Moves, S
<1>4. /\ flag_connect_pw_auth' = flag_connect_pw_auth \/ flag_connect_pw_auth' = FALSE
      /\ at[S] = "timers" => flag_connect_pw_auth' = FALSE
      /\ at[S] = "status" => at'[S] = "timers"
  BY <1>1 DEF Terminate, Step, Go, Goto, Jump, Disconnect, Close, reset_SEG_timeflags, Gated,
     Control, flags
<1>5. /\ sr' \notin {"SOCK_UDP", "SOCK_INIT", "SOCK_LISTEN"}
      /\ sr' \in Open => Asked'
  <2>1. sr' \in Open => sr' = sr
    BY DEF Terminate, Disconnect, Close, Open
  <2> QED BY <1>1, <1>4, <2>1 DEF Falls, Gate, Asked
<1>6. ASSUME at'[S] \in {"open", "report"} \/ (EndingFor("report")' /\ at'[S] \notin {"status", "timers"})
      PROVE  ~flag_connect_pw_auth'
  <2>1. back[S] = "report" /\ EndingFor("report")
    BY <1>1, <1>3, <1>6 DEF EndingFor, Landing, Ending
  <2> QED BY <1>1, <1>4, <1>6, <2>1 DEF Gate
<1>7. at'[S] # "counted" /\ (at'[S] \in Ending => back'[S] \in {"report", "leave"})
  BY <1>1, <1>3 DEF Landing, Ending
<1>8. at'[S] \notin {"auth", "auth_stop", "put"}
  BY <1>1, <1>3 DEF Landing, Ending
<1> QED BY <1>2, <1>5, <1>6, <1>7, <1>8 DEF Gate, OnItsWay

\* seg_task at a step of its own.
LEMMA GateSeg ==
  ASSUME Guard, Gated, Gated', seg_task
  PROVE  Gate' /\ OnItsWay(S)' /\ OnItsWay(R)'
<1> USE DEF Guard, Reported, Places
<1>1. at'[R] = at[R] /\ S \in Tasks /\ Control
  BY OneMoves DEF Untouched, Tasks, S, R
<1>2. at'[R] \in {"wait", "bad_wait"}
  <2>1. CASE at[S] # "wait"
    BY <1>1, <2>1 DEF Single, Gated
  <2>2. CASE at[S] = "wait"
    BY <1>1, <2>2 DEF Gated, seg_task, Begin, AtRest, Tasks, S, R, Connect, Handshake, CountAttempt,
       Attempt, Establish, Announce, EstablishMixed, Drain, CloseWait, Disconnect, Closed, Report,
       Reopen, Seg, Step
  <2> QED BY <2>1, <2>2
<1>3. at'[S] \notin {"auth", "auth_stop", "put"}
  BY <1>1, SegMoves DEF Control, Moves, Own
<1>4. OnItsWay(S)' /\ OnItsWay(R)'
  BY <1>2, <1>3 DEF OnItsWay
<1>5. Gate'
  <2>1. mode = "TCP_SERVER" /\ Server /\ mode \notin TlsModes \cup MqttModes
    BY DEF Gated, Server, TlsModes, MqttModes
  <2> USE <1>1, <1>2, <2>1 DEF Gated, Gate, Asked, Control, Seg, Step, Then, Go, Do, Call,
     Terminated,
          Goto, Jump, EndingFor, Ending, Open, S, config, socket, state, flags, history
  <2>2. CASE Begin
    BY <2>2 DEF Begin, do_seg, Finds, Ended, Lock, proc_SEG_tcp_server
  <2>3. CASE Connect
    BY <2>3 DEF Connect
  <2>4. CASE Handshake
    BY <2>4 DEF Handshake
  <2>5. CASE CountAttempt
    BY <2>5 DEF CountAttempt, Attempt
  <2>6. CASE Establish
    BY <2>6 DEF Establish
  <2>7. CASE Announce \/ EstablishMixed
    BY <2>7 DEF Announce, EstablishMixed
  <2>8. CASE Drain
    BY <2>8 DEF Drain, CloseWait, Disconnect
  <2>9. CASE Closed \/ Report
    BY <2>9 DEF Closed, Report
  <2>10. CASE Reopen
    BY <2>10 DEF Reopen, InitTls, OpenSocket
  <2> QED BY <2>2, <2>3, <2>4, <2>5, <2>6, <2>7, <2>8, <2>9, <2>10 DEF seg_task
<1> QED BY <1>4, <1>5

\* Every step keeps what is on its way to the UART behind the password.
LEMMA GateStep ==
  ASSUME Guard, [Next]_vars
  PROVE  Gate' /\ OnItsWay(S)' /\ OnItsWay(R)'
<1> USE DEF Guard, Reported, Places
<1>1. Gated' <=> Gated
  BY ConfigStays DEF Gated, calm, config, vars
<1>2. CASE ~Gated
  BY <1>1, <1>2 DEF Gate, OnItsWay
<1>3. CASE Gated
  <2>a. Gated' /\ mode = "TCP_SERVER" /\ mode \notin MqttModes
    BY <1>1, <1>3 DEF Gated, MqttModes
  <2>b. Gate /\ OnItsWay(S) /\ OnItsWay(R)
    OBVIOUS
  <2>1. ASSUME NEW t \in Tasks, process_socket_termination(t)
        PROVE  Gate' /\ OnItsWay(S)' /\ OnItsWay(R)'
    <3>1. Terminate(t) /\ UNCHANGED <<conn, e2u_size, g_recv_buf, authed>>
      BY <2>1 DEF process_socket_termination, network, history
    <3>2. t # R
      BY <3>1, TerminatePlaces DEF RecvPlaces, Giving, Ending
    <3>3. Untouched(R)
      BY <2>1, <3>2, OneMoves DEF TaskStep, Tasks, R
    <3>4. CASE t = S
      <4>1. Falls
        BY <2>1, TaskFalls DEF TaskStep
      <4> QED BY <1>3, <2>a, <3>1, <3>3, <3>4, <4>1, GateTerminates
    <3>5. CASE t # S
      <4>1. Untouched(S)
        BY <2>1, <3>5, OneMoves DEF TaskStep, Tasks, S
      <4>2. sr' = sr \/ sr' \in {"SOCK_CLOSED", "SOCK_FIN_WAIT"}
        BY <3>1 DEF Terminate, Disconnect, Close
      <4>3. flag_connect_pw_auth' = flag_connect_pw_auth \/ flag_connect_pw_auth' = FALSE
        BY <3>1 DEF Terminate, reset_SEG_timeflags, flags
      <4> QED BY <1>3, <2>a, <2>b, <3>1, <3>3, <4>1, <4>2, <4>3, GateOutside
    <3> QED BY <3>4, <3>5
  <2>2. ASSUME NEW t \in Tasks, ether_to_uart(t) PROVE Gate' /\ OnItsWay(S)' /\ OnItsWay(R)'
    <3>1. t \in {S, R} /\ at[t] \in Giving
      BY <2>2, <2>a, GivePlaces DEF U2ePlaces, TimerPlaces, YieldPlaces, Tasks, S, R, Ending,
         Served, Timed, Giving
    <3>2. CASE t = S
      <4>1. Untouched(R) /\ at[S] # "wait"
        BY <2>2, <3>1, <3>2, OneMoves DEF TaskStep, Tasks, S, R, Giving
      <4>2. at[R] \in {"wait", "bad_wait"} /\ R \in {S, R} \ {t} /\ t # R
        BY <1>3, <3>2, <4>1 DEF Single, Gated, S, R
      <4> QED BY <1>3, <2>2, <2>a, <3>1, <3>2, <4>1, <4>2, GateGives
    <3>3. CASE t = R
      <4>1. Untouched(S) /\ S \in {S, R} \ {t}
        BY <2>2, <3>3, OneMoves DEF TaskStep, Tasks, S, R
      <4>2. CASE at[S] = "wait"
        BY <1>3, <2>2, <2>a, <3>1, <3>3, <4>1, <4>2, GateGives
      <4>3. CASE at[S] # "wait"
        <5>1. at[R] = "bad_wait"
          BY <1>3, <3>1, <3>3, <4>3 DEF Single, Gated, Giving
        <5>2. Return(R) /\ back[R] = "wait" /\ UNCHANGED <<sr, conn, e2u_size, g_recv_buf, authed, flag_connect_pw_auth>>
          BY <2>2, <3>3, <5>1 DEF ether_to_uart, Disconnect, Step, Look, Receive, Authenticate,
             StopAuth, Put, RecvPlaces, Giving, socket
        <5>3. at'[R] = "wait"
          BY <5>1, <5>2 DEF Return, Goto, Jump, Control, Tasks, R
        <5> QED BY <1>3, <2>b, <4>1, <4>3, <5>2, <5>3 DEF Gate, OnItsWay, Asked, EndingFor,
           Untouched
      <4> QED BY <4>2, <4>3
    <3> QED BY <3>1, <3>2, <3>3
  <2>3. ASSUME NEW t \in Tasks, Yield(t) PROVE FALSE
    BY <2>3, <2>a, YieldMoves
  <2>4. CASE seg_task
    BY <1>3, <2>a, <2>4, GateSeg
  <2>5. CASE seg_recv_task
    <3>1. at[R] = "wait" /\ at'[R] = "rsr" /\ Untouched(S)
      BY <2>5, <2>a, OneMoves DEF seg_recv_task, Call, Goto, Jump, Control, Tasks, S, R
    <3>2. UNCHANGED <<sr, conn, e2u_size, g_recv_buf, authed, flag_connect_pw_auth>>
      BY <2>5 DEF seg_recv_task, socket, flags, history
    <3> QED BY <1>3, <2>b, <3>1, <3>2 DEF Gate, OnItsWay, Asked, EndingFor, Untouched
  <2>6. CASE PeerConnects /\ Network
    <3>1. /\ sr = "SOCK_LISTEN" /\ sr' = "SOCK_ESTABLISHED"
          /\ UNCHANGED <<at, back, e2u_size, g_recv_buf, authed, flag_connect_pw_auth>>
      BY <2>6 DEF PeerConnects, Network, flags, control, history
    <3> QED BY <1>3, <2>b, <3>1 DEF Gate, OnItsWay, Asked, EndingFor, Ending, Open
  <2>7. CASE seg_u2e_task \/ seg_timer_task \/ Expire \/ UartInput \/ (Network /\ ~PeerConnects)
    <3>1. UNCHANGED <<conn, e2u_size, g_recv_buf, authed, flag_connect_pw_auth>>
      BY <2>7 DEF seg_u2e_task, seg_timer_task, Expire, UartInput, Network, PeerSends, PeerCloses,
         Finished, socket, network, flags, history
    <3>2. \/ sr' = sr \/ sr' \in {"SOCK_CLOSED", "SOCK_FIN_WAIT"}
          \/ sr \in Open /\ sr' \in Open
      BY <2>7 DEF seg_u2e_task, seg_timer_task, Expire, UartInput, Network, PeerSends, PeerCloses,
         Finished, socket, Open
    <3>3. Untouched(S) /\ Untouched(R)
      BY <2>7, OneMoves, OutsideMoves DEF Untouched, control, Tasks, S, R
    <3> QED BY <1>3, <2>a, <2>b, <3>1, <3>2, <3>3, GateOutside
  <2>8. CASE UNCHANGED vars
    BY <2>8, <2>b DEF Gate, OnItsWay, Gated, calm, Asked, EndingFor, vars, config, socket,
       network, flags, control,
       history
  <2> QED BY <2>1, <2>2, <2>3, <2>4, <2>5, <2>6, <2>7, <2>8 DEF Next, TaskStep
<1> QED BY <1>2, <1>3

\* With CalmPeers, a TCP server with a connection password gives the UART nothing of a
\* connection that has not sent it: the hand-over of PasswordGate in every step.
THEOREM PasswordHeld == ASSUME CalmPeers PROVE Spec => PasswordGate
<1> DEFINE IInv == Guard /\ Types
<1> DEFINE Gives == \A t \in Tasks :
                      (mode = "TCP_SERVER" /\ password /\ Puts(t) /\ at'[t] # "put")
                          => g_recv_buf.conn \in authed
<1>1. Init => IInv
  <2>1. Init => Reported /\ Types
    BY InitialTypes
  <2>2. Init => Quiet /\ Chunked /\ Empty /\ Single /\ Gate /\ OnItsWay(S) /\ OnItsWay(R)
    BY DEF Init, Quiet, Chunked, Empty, Single, Gate, OnItsWay, EndingFor, Ending, Open, Waiting,
       Tasks, S, R
  <2> QED BY <2>1, <2>2 DEF Guard, Types
<1>2. IInv /\ [Next]_vars => IInv'
  BY ReportedStep, SocketTypesStep, BooleansStep, CountersStep, EnumeratedStep, ChipStep,
     SingleStep,
     GateStep DEF Guard, Types, Reported
<1>3. IInv /\ [Next]_vars => [Gives]_vars
  <2> SUFFICES ASSUME IInv, NEW t \in Tasks, mode = "TCP_SERVER", password, Puts(t)
               PROVE  g_recv_buf.conn \in authed
    OBVIOUS
  <2>1. at[t] = "put" /\ e2u_size # 0
    BY DEF Puts, Guard, SocketTypes
  <2>2. calm
    BY <2>1, CalmPeers DEF CalmPeers, Guard, Quiet, calm, Types, Enumerated
  <2>3. t \in {S, R}
    BY <2>1 DEF Guard, Reported, Places, U2ePlaces, TimerPlaces, YieldPlaces, Tasks, S, R, Ending,
       Served, Timed, MqttModes
  <2> QED BY <2>1, <2>2, <2>3 DEF Guard, OnItsWay, Gated
<1> HIDE DEF IInv, Gives
<1>4. Spec => [][Gives]_vars
  BY <1>1, <1>2, <1>3, PTL DEF Spec
<1> QED BY <1>4 DEF PasswordGate, Gives
=============================================================================
