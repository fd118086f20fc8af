---------------------------- MODULE ModbusGateway ----------------------------
(***************************************************************************)
(* The gateway between a Modbus/TCP client and a slave on the serial line  *)
(* (port/app/modbus, and the Modbus cases of seg_u2e_task and              *)
(* seg_recv_task in seg.c).  Two tasks share it: the one that turns a      *)
(* request from the socket into a serial frame and writes it, and the one  *)
(* that collects the bytes of the reply, checks them and sends the reply.  *)
(* What they share is the transaction identifier, the buffer of the last   *)
(* request and, in ASCII, the position in the frame.  The RTU receiver     *)
(* knows the end of a frame by a timer, the ASCII receiver by CR LF.       *)
(*                                                                         *)
(* A message is named by the number of the request it carries or answers;  *)
(* a request has its number for a transaction identifier.  A serial frame  *)
(* is Parts symbols of one message, the last of them standing for the      *)
(* checksum: it is right when the symbols are those of one message, in     *)
(* order.                                                                  *)
(***************************************************************************)
EXTENDS Naturals, Sequences, SequencesExt

CONSTANTS
  Requests,    \* the transaction identifiers a client takes in turn
  Parts,       \* symbols of a message on the line, its checksum's among them
  Room,        \* symbols the receive buffer has room for (MB_SER_PDU_SIZE_MAX)
  MB_RETRY_MAX,
  Tokens,      \* bound: tokens of seg_u2e_sem that are told apart
  Faults,      \* bound: damaged replies
  Loads        \* the protocols, and what may happen, of one instance

\* bad, lost, babble: what may be done to a reply on the line, a symbol changed,
\* a symbol lost, symbols added.  eager: the client gives up on a reply that may
\* still come.  t35: the timer of the RTU receiver has been given its time.
Load == [protocol : {"rtu", "ascii"}, damage : SUBSET {"bad", "lost", "babble", "lf"},
         eager : BOOLEAN, t35 : BOOLEAN]

ASSUME ModbusConstants ==
  /\ Requests \in Nat \ {0} /\ Parts \in Nat \ {0, 1} /\ Room \in Nat /\ Room >= Parts
  /\ MB_RETRY_MAX \in Nat /\ Tokens \in Nat \ {0} /\ Faults \in Nat
  /\ Loads \subseteq Load

VARIABLES
  load,        \* the load of this behaviour
  asked,       \* the client's request that waits for its reply, 0 if none
  turn,        \* the identifier of its next request
  answer,      \* the last reply it took: [tid, m]
  rx,          \* requests in the receive buffer of the socket
  seg_e2u_sem, seg_u2e_sem,
  recvpc,      \* seg_recv_task: "wait", or "write" in the loop of mb.c
  tid,         \* mbTCPtid1, mbTCPtid2
  aucTCPBuf,   \* the symbols of the last request
  cur, left,   \* the position in it, and usRTUBufferPos or usASCIIBufferPos
  rtulast,     \* usRTULastFrameLen
  wire,        \* the symbols the slave has got of the frame on the line
  reply,       \* those of its reply that are still to come
  faults,
  ring,        \* bytes from the line that no task has read
  rcv,         \* eRcvState
  frame,       \* ucRTUBuf or ucASCIIBuf up to the position
  timer,       \* the T3.5 timer runs
  finish,      \* mb_state_rtu_finish or mb_state_ascii_finish
  u2epc,       \* seg_u2e_task: "wait", "read", "check" or "again"
  retries,     \* mb_retry_count
  again,       \* symbols mbRTURetransmit has still to write
  repeats      \* retransmissions since the last request

client == <<asked, turn, answer>>
down   == <<rx, seg_e2u_sem, recvpc, tid, aucTCPBuf, cur, left, rtulast>>
line   == <<wire, reply, faults>>
up     == <<ring, rcv, frame, timer, finish, u2epc, retries, again, repeats, seg_u2e_sem>>
vars   == <<load, client, down, line, up>>

-----------------------------------------------------------------------------
(* Symbols and frames *)

Sym(k, m, i) == [k |-> k, m |-> m, i |-> i]
Noise        == Sym("data", 0, 0)
START        == Sym("start", 0, 0)
CR           == Sym("cr", 0, 0)
LF           == Sym("lf", 0, 0)

Symbols == [k : {"data", "start", "cr", "lf"}, m : 0..Requests, i : 0..Parts]

Body(m) == [i \in 1..Parts |-> Sym("data", m, i)]

\* A message as it goes over the line.
OnLine(m) == IF load.protocol = "rtu" THEN Body(m) ELSE <<START>> \o Body(m) \o <<CR, LF>>

\* Mutant: frames are passed on without a look at the checksum.
Checked_Unseen(s) == IF s = <<>> THEN {0} ELSE {s[1].m}

\* usMBCRC16 and prvucMBLRC over what was received: the messages it fits.  The
\* sum of no characters at all is right as well, and gives a stub of a reply.
Checked(s) == {m \in 1..Requests : s = Body(m)}
                \cup (IF load.protocol = "ascii" /\ s = <<>> THEN {0} ELSE {})

Token(n) == IF n < Tokens THEN n + 1 ELSE n

-----------------------------------------------------------------------------
Init ==
  /\ load \in Loads
  /\ asked = 0 /\ turn = 1 /\ answer = [tid |-> 0, m |-> 0]
  /\ rx = <<>> /\ seg_e2u_sem = 0 /\ seg_u2e_sem = 0 /\ recvpc = "wait"
  /\ tid = 0 /\ aucTCPBuf = <<>> /\ cur = 1 /\ left = 0 /\ rtulast = 0
  /\ wire = <<>> /\ reply = <<>> /\ faults = 0
  /\ ring = <<>> /\ frame = <<>> /\ timer = FALSE /\ finish = FALSE
  /\ rcv = (IF load.protocol = "rtu" THEN "init" ELSE "idle")
  /\ u2epc = "wait" /\ retries = 0 /\ again = 0 /\ repeats = 0

\* Nothing of a request or a reply is under way any more.
Quiet ==
  /\ rx = <<>> /\ recvpc = "wait" /\ wire = <<>> /\ reply = <<>>
  /\ ring = <<>> /\ ~timer /\ u2epc = "wait" /\ seg_u2e_sem = 0 /\ seg_e2u_sem = 0

-----------------------------------------------------------------------------
(* The client *)

\* A request arrives; the interrupt of the chip wakes seg_recv_task.
Ask ==
  /\ rx' = Append(rx, turn) /\ seg_e2u_sem' = Token(seg_e2u_sem)
  /\ asked' = turn /\ turn' = (turn % Requests) + 1
  /\ UNCHANGED <<load, answer, recvpc, tid, aucTCPBuf, cur, left, rtulast, line, up>>

\* After a reply, or when no reply will come any more; an eager client does not
\* wait so long.
Client ==
  /\ asked = 0 \/ Quiet \/ (load.eager /\ Len(rx) < 2)
  /\ Ask

\* The client takes a reply for its own by the transaction identifier.
ClientTakes(m) ==
  IF tid = asked THEN answer' = [tid |-> tid, m |-> m] /\ asked' = 0 /\ UNCHANGED turn
  ELSE UNCHANGED client

-----------------------------------------------------------------------------
(* seg_recv_task *)

\* mbTCPGet and mbTCPPackage: all that is in the socket is one message, with
\* the identifier of the first request in it.
Package ==
  LET m == IF Len(rx) = 1 THEN Head(rx) ELSE 0
  IN /\ tid' = Head(rx)
     /\ aucTCPBuf' = Body(m) /\ rx' = <<>>

\* Mutant: the frame is remembered without its checksum.
RecvTake_ShortLast ==
  /\ recvpc = "wait" /\ seg_e2u_sem > 0
  /\ seg_e2u_sem' = seg_e2u_sem - 1
  /\ \/ /\ rx # <<>>
        /\ Package
        /\ cur' = 1 /\ left' = Parts /\ repeats' = 0
        /\ rtulast' = IF load.protocol = "rtu" THEN Parts - 1 ELSE rtulast
        /\ recvpc' = IF load.protocol = "rtu" THEN "write" ELSE "start"
     \/ /\ rx = <<>>
        /\ UNCHANGED <<tid, aucTCPBuf, rx, cur, left, rtulast, recvpc, repeats>>
  /\ UNCHANGED <<load, client, line, ring, rcv, frame, timer, finish, u2epc, retries, again,
                 seg_u2e_sem>>

\* MBtcp2rtuFrame and MBtcp2asciiFrame: the frame with its checksum, and where
\* writing it begins; RTU remembers it for a retransmission.
RecvTake ==
  /\ recvpc = "wait" /\ seg_e2u_sem > 0
  /\ seg_e2u_sem' = seg_e2u_sem - 1
  /\ \/ /\ rx # <<>>
        /\ Package
        /\ cur' = 1 /\ left' = Parts /\ repeats' = 0
        /\ rtulast' = IF load.protocol = "rtu" THEN Parts ELSE rtulast
        /\ recvpc' = IF load.protocol = "rtu" THEN "write" ELSE "start"
     \/ /\ rx = <<>>
        /\ UNCHANGED <<tid, aucTCPBuf, rx, cur, left, rtulast, recvpc, repeats>>
  /\ UNCHANGED <<load, client, line, ring, rcv, frame, timer, finish, u2epc, retries, again,
                 seg_u2e_sem>>

Write(s) == wire' = Append(wire, s) /\ UNCHANGED <<reply, faults>>

\* One round of the loops of mbTCPtoRTU and mbTCPtoASCII.  What is left is
\* usASCIIBufferPos in ASCII, which the receiver uses as well.
RecvWrite ==
  /\ \/ /\ recvpc = "start" /\ Write(START)
        /\ recvpc' = "write" /\ UNCHANGED <<cur, left>>
     \/ /\ recvpc = "write" /\ left > 0
        /\ Write(IF cur \in DOMAIN aucTCPBuf THEN aucTCPBuf[cur] ELSE Noise)
        /\ cur' = cur + 1 /\ left' = left - 1
        /\ UNCHANGED recvpc
     \/ /\ recvpc = "write" /\ left = 0
        /\ \/ load.protocol = "rtu" /\ recvpc' = "wait" /\ UNCHANGED line
           \/ load.protocol = "ascii" /\ recvpc' = "end" /\ Write(CR)
        /\ UNCHANGED <<cur, left>>
     \/ /\ recvpc = "end" /\ Write(LF)
        /\ recvpc' = "wait" /\ UNCHANGED <<cur, left>>
  /\ UNCHANGED <<load, client, rx, seg_e2u_sem, tid, aucTCPBuf, rtulast, up>>

-----------------------------------------------------------------------------
(* The serial line and the slave *)

\* What damage makes of the reply m.
Damaged(m) ==
  LET whole == OnLine(m)
      body  == {i \in DOMAIN whole : whole[i].k = "data"}
      long  == [i \in 1..(Room + 1) |-> Noise]
  IN UNION {
       {[whole EXCEPT ![i] = Noise] : i \in IF "bad" \in load.damage THEN body ELSE {}},
       {RemoveAt(whole, i) : i \in IF "lost" \in load.damage THEN body ELSE {}},
       IF "babble" \notin load.damage THEN {}
       ELSE IF load.protocol = "rtu" THEN {long} ELSE {<<START>> \o long \o <<CR, LF>>},
       IF "lf" \in load.damage THEN {Front(whole)} ELSE {} }

\* The slave has a frame when the line falls silent, or at the LF; it answers
\* one it can read and leaves others alone.
SlaveAnswers ==
  /\ wire # <<>> /\ reply = <<>>
  /\ IF load.protocol = "rtu" THEN recvpc = "wait" /\ u2epc # "again" ELSE Last(wire) = LF
  /\ wire' = <<>>
  /\ \/ \E m \in 1..Requests : wire = OnLine(m) /\ reply' = OnLine(m) /\ UNCHANGED faults
     \/ /\ faults < Faults /\ faults' = faults + 1
        /\ \E m \in 1..Requests : wire = OnLine(m) /\ reply' \in Damaged(m)
     \/ (\A m \in 1..Requests : wire # OnLine(m)) /\ UNCHANGED <<reply, faults>>
  /\ UNCHANGED <<load, client, down, up>>

\* One byte of the reply: the interrupt of the UART stores it and wakes
\* seg_u2e_task.
SlaveByte ==
  /\ reply # <<>>
  /\ reply' = Tail(reply) /\ ring' = Append(ring, Head(reply))
  /\ seg_u2e_sem' = Token(seg_u2e_sem)
  /\ UNCHANGED <<load, client, rx, seg_e2u_sem, recvpc, tid, aucTCPBuf, cur, left, rtulast, wire,
                 faults, rcv, frame, timer, finish, u2epc, retries, again, repeats>>

-----------------------------------------------------------------------------
(* The receivers *)

\* RTU_Uart_RX, one byte; every byte starts the timer anew.
ReceiveRTU(b) ==
  /\ timer' = TRUE
  /\ CASE rcv = "idle" -> frame' = <<b>> /\ rcv' = "rcv"
       [] rcv = "rcv" /\ Len(frame) < Room -> frame' = Append(frame, b) /\ UNCHANGED rcv
       [] rcv = "rcv" /\ Len(frame) >= Room -> rcv' = "error" /\ UNCHANGED frame
       [] OTHER -> UNCHANGED <<frame, rcv>>
  /\ UNCHANGED <<left, finish>>

\* The first n symbols of the receive buffer.
Kept(n) == [i \in 1..n |-> IF i <= Len(frame) THEN frame[i] ELSE Noise]

\* ASCII_Uart_RX, one byte.
ReceiveASCII(b) ==
  /\ CASE rcv = "idle" ->
            left' = 0 /\ frame' = <<>> /\ rcv' = (IF b = START THEN "rcv" ELSE rcv)
       [] rcv = "rcv" /\ left < Room /\ b = CR -> rcv' = "end" /\ UNCHANGED <<left, frame>>
       [] rcv = "rcv" /\ left < Room /\ b # CR ->
            frame' = Append(Kept(left), b) /\ left' = left + 1 /\ UNCHANGED rcv
       [] rcv = "rcv" /\ left >= Room -> rcv' = "error" /\ UNCHANGED <<left, frame>>
       [] rcv = "end" /\ b = LF -> rcv' = "idle" /\ UNCHANGED <<left, frame>>
       [] OTHER -> UNCHANGED <<left, frame, rcv>>
  /\ finish' = (finish \/ (rcv = "end" /\ b = LF))
  /\ UNCHANGED timer

\* Mutant: the end of the startup phase goes by.
Expire_Startup ==
  /\ timer /\ (load.t35 => ring = <<>> /\ reply = <<>>)
  /\ timer' = FALSE /\ rcv' = (IF rcv = "init" THEN "init" ELSE "idle")
  /\ IF rcv = "rcv" THEN finish' = TRUE /\ seg_u2e_sem' = Token(seg_u2e_sem)
     ELSE UNCHANGED <<finish, seg_u2e_sem>>
  /\ UNCHANGED <<load, client, rx, seg_e2u_sem, recvpc, tid, aucTCPBuf, cur, left, rtulast, line,
                 ring, frame, u2epc, retries, again, repeats>>

\* xMBRTUTimerT35Expired: a frame that was being received is complete.  With
\* its time set the timer outlasts the gaps within a reply.
Expire ==
  /\ timer /\ (load.t35 => ring = <<>> /\ reply = <<>>)
  /\ timer' = FALSE /\ rcv' = "idle"
  /\ IF rcv = "rcv" THEN finish' = TRUE /\ seg_u2e_sem' = Token(seg_u2e_sem)
     ELSE UNCHANGED <<finish, seg_u2e_sem>>
  /\ UNCHANGED <<load, client, rx, seg_e2u_sem, recvpc, tid, aucTCPBuf, cur, left, rtulast, line,
                 ring, frame, u2epc, retries, again, repeats>>

-----------------------------------------------------------------------------
(* seg_u2e_task *)

U2eTake ==
  /\ u2epc = "wait" /\ seg_u2e_sem > 0
  /\ seg_u2e_sem' = seg_u2e_sem - 1
  /\ retries' = 0 /\ u2epc' = "read"
  /\ UNCHANGED <<load, client, rx, seg_e2u_sem, recvpc, tid, aucTCPBuf, cur, left, rtulast, line,
                 ring, rcv, frame, timer, finish, again, repeats>>

\* The bytes there are, one after the other; ASCII stops at the end of a frame.
U2eRead ==
  /\ u2epc = "read"
  /\ \/ /\ ring # <<>> /\ ring' = Tail(ring)
        /\ IF load.protocol = "rtu" THEN ReceiveRTU(Head(ring)) ELSE ReceiveASCII(Head(ring))
        /\ u2epc' = IF load.protocol = "ascii" /\ rcv = "end" /\ rcv' = "idle" THEN "check" ELSE "read"
     \/ /\ ring = <<>> /\ u2epc' = "check"
        /\ UNCHANGED <<ring, rcv, frame, timer, finish, left>>
  /\ UNCHANGED <<load, client, rx, seg_e2u_sem, recvpc, tid, aucTCPBuf, cur, rtulast, line,
                 seg_u2e_sem, retries, again, repeats>>

\* mbRTUtoTCP: a frame with a right checksum goes to the client; another makes
\* the task send the last request again, up to a limit.
ConvertRTU ==
  /\ UNCHANGED <<aucTCPBuf, line>>
  /\ IF Checked(frame) # {}
     THEN /\ \E m \in Checked(frame) : ClientTakes(m)
          /\ retries' = 0 /\ u2epc' = "wait" /\ UNCHANGED <<again, repeats>>
     ELSE IF retries < MB_RETRY_MAX
     THEN /\ retries' = retries + 1 /\ again' = rtulast /\ u2epc' = "again"
          /\ repeats' = IF repeats <= MB_RETRY_MAX THEN repeats + 1 ELSE repeats
          /\ UNCHANGED client
     ELSE retries' = 0 /\ u2epc' = "wait" /\ UNCHANGED <<client, again, repeats>>

\* mbASCIItoTCP: the characters are decoded in place, in the buffer of the
\* request; a frame with a wrong checksum is dropped.
ConvertASCII ==
  LET s == Kept(left)
  IN /\ aucTCPBuf' = [i \in DOMAIN aucTCPBuf |->
                        IF i \in cur..(cur + left - 1) THEN s[i - cur + 1] ELSE aucTCPBuf[i]]
     /\ IF Checked(s) # {} THEN \E m \in Checked(s) : ClientTakes(m) ELSE UNCHANGED client
     /\ u2epc' = "wait" /\ UNCHANGED <<line, retries, again, repeats>>

U2eCheck ==
  /\ u2epc = "check" /\ finish' = FALSE
  /\ IF finish
     THEN IF load.protocol = "rtu" THEN ConvertRTU ELSE ConvertASCII
     ELSE u2epc' = "wait" /\ UNCHANGED <<client, line, aucTCPBuf, retries, again, repeats>>
  /\ UNCHANGED <<load, rx, seg_e2u_sem, recvpc, tid, cur, left, rtulast, ring, rcv, frame, timer,
                 seg_u2e_sem>>

\* mbRTURetransmit: what the buffer holds now.
U2eAgain ==
  /\ u2epc = "again"
  /\ \/ again > 0 /\ Write(aucTCPBuf[rtulast - again + 1]) /\ again' = again - 1 /\ UNCHANGED u2epc
     \/ again = 0 /\ u2epc' = "wait" /\ UNCHANGED <<line, again>>
  /\ UNCHANGED <<load, client, down, ring, rcv, frame, timer, finish, retries, repeats,
                 seg_u2e_sem>>

-----------------------------------------------------------------------------
seg_recv_task == RecvTake \/ RecvWrite
seg_u2e_task  == U2eTake \/ U2eRead \/ U2eCheck \/ U2eAgain
Slave         == SlaveAnswers \/ SlaveByte

Next == seg_recv_task \/ seg_u2e_task \/ Slave \/ Client \/ Expire

\* Both tasks run when they can, the timer expires, the slave answers and the
\* client asks again when nothing is to be expected any more.
Fairness ==
  WF_vars(seg_recv_task) /\ WF_vars(seg_u2e_task) /\ WF_vars(Slave) /\ WF_vars(Client)
    /\ WF_vars(Expire)

Spec == Init /\ [][Next]_vars /\ Fairness

-----------------------------------------------------------------------------
(* Properties *)

\* The variables keep their types, the positions stay within the buffers, with a
\* client that waits for its reply (Patient).
TypeOK ==
  /\ load \in Loads /\ asked \in 0..Requests /\ turn \in 1..Requests
  /\ answer \in [tid : 0..Requests, m : 0..Requests] /\ rx \in Seq(1..Requests) /\ Len(rx) <= 2
  /\ seg_e2u_sem \in 0..Tokens /\ seg_u2e_sem \in 0..Tokens
  /\ recvpc \in {"wait", "start", "write", "end"} /\ tid \in 0..Requests
  /\ aucTCPBuf \in Seq(Symbols) /\ Len(aucTCPBuf) <= Parts
  /\ cur \in 1..(Parts + 1) /\ left \in 0..Room /\ rtulast \in {0, Parts}
  /\ wire \in Seq(Symbols) /\ reply \in Seq(Symbols) /\ faults \in 0..Faults
  /\ ring \in Seq(Symbols) /\ rcv \in {"init", "idle", "rcv", "end", "error"}
  /\ frame \in Seq(Symbols) /\ Len(frame) <= Room /\ timer \in BOOLEAN /\ finish \in BOOLEAN
  /\ u2epc \in {"wait", "read", "check", "again"} /\ retries \in 0..MB_RETRY_MAX
  /\ again \in 0..Parts /\ repeats \in 0..(MB_RETRY_MAX + 1)

\* A reply the client takes for its own answers the request whose identifier
\* it carries, damaged replies and retransmissions between them
\* (mbtcp.c, mbTCPtid1; mbrtu.c, MBrtu2tcpFrame).
RepliesAnswer == answer.m = answer.tid

\* The two tasks that write to the line never mix their bytes: what the slave
\* gets is the beginning of one frame, and one whole frame when both have
\* written what they had to (mb.c, mbTCPtoRTU, mbRTURetransmit).
FramesWhole ==
  /\ \E m \in 1..Requests : IsPrefix(wire, OnLine(m))
  /\ wire # <<>> /\ recvpc = "wait" /\ u2epc # "again" => \E m \in 1..Requests : wire = OnLine(m)

\* Once replies are no longer damaged a client that asks again is answered:
\* neither receiver is stuck (mbrtu.c, RTU_Uart_RX; mbascii.c, ASCII_Uart_RX).
Served == []<>(asked = 0)

\* A request is sent again MB_RETRY_MAX times at most (mb.h, MB_RETRY_MAX).
RetriesLimited == repeats <= MB_RETRY_MAX
=============================================================================
