------------------------------ MODULE SpiSlave ------------------------------
(***************************************************************************)
(* The SPI interface that takes the place of the UART: the interrupt and   *)
(* the task of platform_handler/src/spiHandler.c, what seg.c and segcp.c   *)
(* do on it (ether_to_spi, the end of uart_to_ether, proc_SEGCP_serial),   *)
(* and the master that the repository gives as its peer,                   *)
(* main/SPI_Mode_Master.  The master owns the clock: every byte it sends   *)
(* takes one from the slave.  It writes a header of four bytes, then polls *)
(* until the header of the answer comes, or two seconds have gone.         *)
(*                                                                         *)
(* The interrupt is raised at Half bytes in the receive FIFO and collects  *)
(* a header; it switches itself off and leaves the rest to the task that   *)
(* current_state names.  Whoever answers last switches it on again.        *)
(*                                                                         *)
(* Packet k of the network peer is bytes of value k.  A byte of an empty   *)
(* transmit FIFO reads NoByte.  The zeros spi_read_blocking sends are left *)
(* out, as is what becomes of the DMA channels.  Names that ChipBus has    *)
(* are not taken again: SpiInit, SpiNext, spiVars and the like.            *)
(***************************************************************************)
EXTENDS Naturals, Sequences, SequencesExt

CONSTANTS
  Packets,       \* bound: packets the network peer sends
  Rounds,        \* bound: rounds of the master's AT test
  DATA_BUF_SIZE,
  Tokens,        \* bound: tokens of a semaphore that are told apart
  Cores,         \* cores of the chip; each enables an interrupt for itself
  Stack,         \* what the header nobody wrote may hold
  Loads          \* the programs of the master, and what may happen

\* echo, at: the loop of the master's main and its AT command test.
\* slow: spi_reset_timer runs out before the master comes, or in the middle of
\* an exchange.
\* stream: a packet comes before the last has been answered; burst: before it
\* has been read.
\* refuse: the connection closes and opens between the exchanges of the master.
\* cut: it closes at any moment.  error: an AT command is answered by an error.
\* late: the slave's waits do not keep up with the line.
Load == [program : {"echo", "at"},
         may : SUBSET {"slow", "stream", "burst", "refuse", "cut", "error", "late"}]

ASSUME SpiConstants ==
  /\ Packets \in 0 .. 255 /\ Rounds \in Nat /\ DATA_BUF_SIZE \in 1 .. 9
  /\ Tokens \in Nat \ {0} /\ Cores # {} /\ Loads \subseteq Load

SPI_MASTER_WRITE_CMD    == 160
SPI_MASTER_READ_LEN_CMD == 176
SPI_SLAVE_WRITE_LEN_CMD == 177
SPI_ACK   == 10
SPI_NACK  == 11
SPI_DUMMY == 255
Letters   == 65 .. 90
CRLF      == <<13, 10>>

\* The FIFOs of the PL022.
Depth == 8
Half  == 4
NoByte   == 0
Byte     == 0 .. 255
Word     == 0 .. 65535
Positive == 1 .. 32767   \* of a signed length

Size(n) == <<n % 256, n \div 256>>
Value(b) == b[1] + 256 * b[2]
Times(x, n) == [i \in 1 .. n |-> x]

ReadRequest     == <<SPI_MASTER_READ_LEN_CMD>> \o Times(SPI_DUMMY, 3)
WriteRequest(n) == <<SPI_MASTER_WRITE_CMD>> \o Size(n) \o <<SPI_DUMMY>>
DataHeader(n)  == <<SPI_SLAVE_WRITE_LEN_CMD>> \o Size(n) \o <<SPI_DUMMY>>
Answer(b)      == <<b>> \o Times(SPI_DUMMY, 3)

\* The two commands of the AT test: a name, and a parameter or the line's end.
Name  == <<76, 73>>
Param == <<1, 13, 10>>
GetCommand == Name \o CRLF
SetCommand == Name \o Param
StoredValue == <<2>>
Error   == <<69, 10>>

VARIABLES
  load,
  op,          \* the master's exchange: "idle", "read", "write", "set", "get"
  at,          \* where it is in it
  out,         \* the bytes it has still to clock out
  half,        \* 1 for the header, 2 for the data
  want,        \* the bytes it has still to take
  acked,       \* is_ack
  inbuf,       \* in_buf
  result,      \* how the last exchange ended
  trig,        \* spi_read_triggered
  rounds,
  rx, tx,      \* the FIFOs of the slave
  irq,         \* the cores that have SPI0_IRQ enabled
  handling,    \* the cores that run its handler
  int,         \* DATA0_SPI_INT_PIN is high
  s,           \* current_state and the statics of the interrupt
  seg_spi_pending_sem, seg_u2e_sem, segcp_uart_sem,
  task,        \* place of spi_data_transfer_task
  u2e, ulen,   \* place of seg_u2e_task, and its len
  segcp,       \* place of segcp_serial_task
  recv,        \* place of seg_recv_task
  timer,       \* spi_reset_timer runs
  resetting,   \* its callback has done the first half of platform_spi_reset
  e2u_size, u2e_size,
  g_send_buf,
  data_buffer, \* the ring buffer, which ether_to_spi uses as a plain one
  gSEGCPREQ,
  sent,        \* packets the network peer has sent
  g_recv_buf,  \* the last of them
  conn,        \* the connection is up
  net,         \* what has been given to the socket
  done         \* the last AT command that was carried out

master == <<op, at, out, half, want, acked, inbuf, result, rounds>>
line   == <<rx, tx>>
seg    == <<recv, sent, g_recv_buf, conn, net>>
sems   == <<seg_spi_pending_sem, seg_u2e_sem, segcp_uart_sem>>
others == <<u2e, ulen, segcp>>
atcmds == <<gSEGCPREQ, done>>
spiVars == <<load, master, trig, line, irq, handling, int, s, sems, task, others, timer, resetting,
            e2u_size, u2e_size, g_send_buf, data_buffer, seg, atcmds>>

May(x) == x \in load.may
Errors == IF May("error") THEN {Error} ELSE {}
Give(n) == IF n < Tokens THEN n + 1 ELSE n

SpiInit ==
  /\ load \in Loads
  /\ op = "idle" /\ at = "" /\ out = <<>> /\ half = 1 /\ want = 0 /\ acked = FALSE
  /\ inbuf = <<>> /\ result = "" /\ trig = FALSE /\ rounds = 0
  /\ rx = <<>> /\ tx = <<>> /\ irq \in {{c} : c \in Cores} /\ handling = {} /\ int = TRUE
  /\ s = [state |-> "command", command |-> 0, data_length |-> 0, dummy_count |-> 0,
          length_bytes |-> <<0, 0>>, length_index |-> 0,
          atcmd_bytes |-> <<0, 0, 0, 0>>, atcmd_index |-> 0]
  /\ seg_spi_pending_sem = 0 /\ seg_u2e_sem = 0 /\ segcp_uart_sem = 0
  /\ task = "wait" /\ u2e = "wait" /\ ulen = 0 /\ segcp = "wait" /\ recv = "wait"
  /\ timer = FALSE /\ resetting = FALSE
  /\ e2u_size = 0 /\ u2e_size = 0 /\ g_send_buf = <<>>
  /\ data_buffer = Times(0, DATA_BUF_SIZE + 4) /\ gSEGCPREQ = <<>>
  /\ sent = 0 /\ g_recv_buf = <<>> /\ conn = TRUE /\ net = <<>> /\ done = <<>>

-----------------------------------------------------------------------------
(* The interrupt.  A handler returns the statics after a byte, and whether  *)
(* the loop goes on, or returns after it has given the semaphore, with the  *)
(* interrupt left on ("give") or switched off ("off").                      *)

Goto(v, x) == [v EXCEPT !.state = x]

OnCommand(v, b) ==
  LET c == [v EXCEPT !.command = b]
  IN  CASE b = SPI_MASTER_WRITE_CMD /\ conn  -> <<[Goto(c, "length") EXCEPT !.length_index = 0], "on">>
        [] b = SPI_MASTER_WRITE_CMD /\ ~conn -> <<Goto(c, "nack"), "give">>
        [] b = SPI_MASTER_READ_LEN_CMD       -> <<Goto(c, "dummy"), "on">>
        [] b \in Letters -> <<[Goto(c, "atcmd") EXCEPT !.atcmd_bytes[v.atcmd_index + 1] = b,
                                                       !.atcmd_index = @ + 1], "on">>
        [] OTHER -> <<c, "on">>

\* Mutant: a write that fills the buffer is refused.
OnLength_Full(v, b) ==
  LET i == v.length_index + 1
      w == [v EXCEPT !.length_bytes[i] = b, !.length_index = i]
      n == Value(w.length_bytes)
      f == [w EXCEPT !.data_length = n]
  IN  CASE i < 2 -> <<w, "on">>
        [] i = 2 /\ n >= DATA_BUF_SIZE -> <<Goto(f, "nack"), "off">>
        [] i = 2 /\ n < DATA_BUF_SIZE  -> <<[Goto(f, "dummy") EXCEPT !.length_index = 0], "on">>

OnLength(v, b) ==
  LET i == v.length_index + 1
      w == [v EXCEPT !.length_bytes[i] = b, !.length_index = i]
      n == Value(w.length_bytes)
      f == [w EXCEPT !.data_length = n]
  IN  CASE i < 2 -> <<w, "on">>
        [] i = 2 /\ n > DATA_BUF_SIZE  -> <<Goto(f, "nack"), "off">>
        [] i = 2 /\ n <= DATA_BUF_SIZE -> <<[Goto(f, "dummy") EXCEPT !.length_index = 0], "on">>

OnDummy(v, b) ==
  LET n == (v.dummy_count + 1) % 256
      z == [v EXCEPT !.dummy_count = 0]
  IN  CASE b # SPI_DUMMY -> <<Goto(v, "nack"), "off">>
        [] b = SPI_DUMMY /\ v.command = SPI_MASTER_WRITE_CMD /\ n = 1 -> <<Goto(z, "read"), "off">>
        [] b = SPI_DUMMY /\ v.command = SPI_MASTER_READ_LEN_CMD /\ n = 3 -> <<Goto(z, "write"), "off">>
        [] OTHER -> <<[v EXCEPT !.dummy_count = n], "on">>

OnAtcmd(v, b) ==
  LET i == v.atcmd_index + 1
      w == [v EXCEPT !.atcmd_bytes[i] = b]
  IN  IF i = 4 THEN <<[w EXCEPT !.atcmd_index = 0], "off">>
               ELSE <<[w EXCEPT !.atcmd_index = i], "on">>

OnByte(v, b) ==
  CASE v.state = "command" -> OnCommand(v, b)
    [] v.state = "length"  -> OnLength(v, b)
    [] v.state = "dummy"   -> OnDummy(v, b)
    [] v.state = "atcmd"   -> OnAtcmd(v, b)
    [] OTHER               -> <<Goto(v, "command"), "on">>

isrless == <<load, master, trig, tx, int, seg_u2e_sem, segcp_uart_sem, task, others, timer,
             resetting, e2u_size, u2e_size, g_send_buf, data_buffer, seg, atcmds>>

Interrupt ==
  /\ Len(rx) >= Half
  /\ \E c \in irq \ handling : handling' = handling \cup {c}
  /\ UNCHANGED <<isrless, rx, irq, s, seg_spi_pending_sem>>

\* A round of its loop: spi_is_readable, and the byte.
HandleByte ==
  \E c \in handling :
    \/ /\ rx = <<>>
       /\ handling' = handling \ {c}
       /\ UNCHANGED <<isrless, rx, irq, s, seg_spi_pending_sem>>
    \/ /\ rx # <<>> /\ rx' = Tail(rx)
       /\ LET r == OnByte(s, Head(rx))
          IN  /\ s' = r[1]
              /\ handling' = IF r[2] = "on" THEN handling ELSE handling \ {c}
              /\ irq' = IF r[2] = "off" THEN irq \ {c} ELSE irq
              /\ seg_spi_pending_sem' = IF r[2] = "on" THEN seg_spi_pending_sem
                                                       ELSE Give(seg_spi_pending_sem)
       /\ UNCHANGED isrless

on_spi_rx == Interrupt \/ HandleByte

-----------------------------------------------------------------------------
(* The line.  spi_write_blocking fills the transmit FIFO, waits until it    *)
(* has gone out and throws away what came in meanwhile.                     *)

Sending ==
  \/ task \in {"data", "header", "ack", "atack", "nack"}
  \/ u2e = "ack"
  \/ segcp \in {"reply", "ack"}

\* The waits of the slave are faster than a byte.
Prompt ==
  \/ May("late")
  \/ /\ ~(Sending /\ tx = <<>>)
     /\ ~(task \in {"bytes", "atbytes"} /\ rx # <<>>)

\* One byte out and one in.
Received == IF tx = <<>> THEN NoByte ELSE Head(tx)

ClockByte(b) ==
  /\ Prompt
  /\ tx' = IF tx = <<>> THEN tx ELSE Tail(tx)
  /\ rx' = IF Len(rx) < Depth THEN Append(rx, b) ELSE rx

Push(bytes) == tx' = tx \o bytes /\ rx' = <<>>
Pushed      == tx = <<>> /\ rx' = <<>> /\ UNCHANGED tx

SwitchOn == \E c \in Cores : irq' = irq \cup {c}

\* vTaskEnterCritical keeps every other task from its next call of the kernel.
Critical == task \in {"data", "header", "ack", "bytes"} \/ segcp = "reply"

\* A falling edge of the pin is an interrupt of the master's.
Lower == int' = FALSE /\ trig' = (trig \/ (int /\ load.program = "echo"))
Raise == int' = TRUE /\ UNCHANGED trig

-----------------------------------------------------------------------------
(* spi_data_transfer_task *)

taskless == <<load, master, seg_u2e_sem, segcp_uart_sem, others, resetting, u2e_size, seg, handling>>

\* The semaphore has been taken, and the case of current_state entered.
Case(x) ==
  /\ task = "wait" /\ seg_spi_pending_sem > 0 /\ ~Critical
  /\ s.state = x
  /\ seg_spi_pending_sem' = seg_spi_pending_sem - 1

\* Mutant: the reset timer is not stopped before the data goes out.
SlaveDataWrite_NoStop ==
  /\ Case("write")
  /\ IF e2u_size # 0
       THEN Push(SubSeq(data_buffer, 1, e2u_size + 4)) /\ task' = "data"
       ELSE task' = "header" /\ \E h \in Stack : Push(h)
  /\ UNCHANGED <<taskless, trig, irq, int, s, timer, e2u_size, g_send_buf, data_buffer, atcmds>>

SlaveDataWrite ==
  /\ Case("write")
  /\ timer' = FALSE
  /\ IF e2u_size # 0
       THEN Push(SubSeq(data_buffer, 1, e2u_size + 4)) /\ task' = "data"
       ELSE task' = "header" /\ \E h \in Stack : Push(h)
  /\ UNCHANGED <<taskless, trig, irq, int, s, e2u_size, g_send_buf, data_buffer, atcmds>>

SlaveDataRead ==
  /\ Case("read")
  /\ Push(Answer(SPI_ACK))
  /\ task' = "ack" /\ g_send_buf' = <<>>
  /\ UNCHANGED <<taskless, trig, irq, int, s, timer, e2u_size, data_buffer, atcmds>>

Atcmd ==
  /\ Case("atcmd")
  /\ IF SubSeq(s.atcmd_bytes, 3, 4) = CRLF
       THEN /\ gSEGCPREQ' = s.atcmd_bytes
            /\ task' = "atdone" /\ UNCHANGED line
       ELSE /\ gSEGCPREQ' = SubSeq(s.atcmd_bytes, 1, 2)
            /\ Push(Answer(SPI_ACK)) /\ task' = "atack"
  /\ UNCHANGED <<taskless, trig, irq, int, s, timer, e2u_size, g_send_buf, data_buffer, done>>

Refuse ==
  /\ Case("nack")
  /\ Push(Answer(SPI_NACK)) /\ task' = "nack"
  /\ UNCHANGED <<taskless, trig, irq, int, s, timer, e2u_size, g_send_buf, data_buffer, atcmds>>

Default ==
  /\ \E x \in {"command", "length", "dummy"} : Case(x)
  /\ UNCHANGED <<taskless, trig, line, irq, int, s, task, timer, e2u_size, g_send_buf,
                 data_buffer, atcmds>>

\* The answer has gone out.
TaskSent ==
  /\ task \in {"data", "header", "ack", "atack", "nack"} /\ Pushed
  /\ task' = [data |-> "written", header |-> "listen", ack |-> "bytes",
              atack |-> "atbytes", nack |-> "listen"][task]
  /\ UNCHANGED <<taskless, trig, irq, int, s, seg_spi_pending_sem, timer, e2u_size, g_send_buf,
                 data_buffer, atcmds>>

\* Mutant: the pin is left low.
Written_PinLow ==
  /\ task = "written"
  /\ e2u_size' = 0 /\ s' = Goto(s, "command") /\ SwitchOn /\ UNCHANGED <<int, trig>>
  /\ task' = "wait"
  /\ UNCHANGED <<taskless, line, seg_spi_pending_sem, timer, g_send_buf, data_buffer, atcmds>>

Written ==
  /\ task = "written"
  /\ e2u_size' = 0 /\ s' = Goto(s, "command") /\ SwitchOn /\ Raise
  /\ task' = "wait"
  /\ UNCHANGED <<taskless, line, seg_spi_pending_sem, timer, g_send_buf, data_buffer, atcmds>>

Listen ==
  /\ task = "listen"
  /\ s' = Goto(s, "command") /\ SwitchOn
  /\ task' = "wait"
  /\ UNCHANGED <<taskless, trig, line, int, seg_spi_pending_sem, timer, e2u_size, g_send_buf,
                 data_buffer, atcmds>>

\* A byte of spi_read_blocking.
ReadByte ==
  /\ task = "bytes" /\ Len(g_send_buf) < s.data_length /\ rx # <<>>
  /\ g_send_buf' = Append(g_send_buf, Head(rx)) /\ rx' = Tail(rx)
  /\ UNCHANGED <<taskless, trig, tx, irq, int, s, seg_spi_pending_sem, task, timer, e2u_size,
                 data_buffer, atcmds>>

DataRead ==
  /\ task = "bytes" /\ Len(g_send_buf) = s.data_length
  /\ u2e_size' = s.data_length
  /\ seg_u2e_sem' = Give(seg_u2e_sem)
  /\ s' = Goto(s, "command")
  /\ task' = "wait"
  /\ UNCHANGED <<load, master, trig, line, irq, handling, int, seg_spi_pending_sem, segcp_uart_sem, others,
                 timer, resetting, e2u_size, g_send_buf, data_buffer, seg, atcmds>>

atcmd_size == Value(SubSeq(s.atcmd_bytes, 3, 4))

ReadCommandByte ==
  /\ task = "atbytes" /\ Len(gSEGCPREQ) < atcmd_size + 2 /\ rx # <<>>
  /\ gSEGCPREQ' = Append(gSEGCPREQ, Head(rx)) /\ rx' = Tail(rx)
  /\ UNCHANGED <<taskless, trig, tx, irq, int, s, seg_spi_pending_sem, task, timer, e2u_size,
                 g_send_buf, data_buffer, done>>

CommandRead ==
  /\ \/ task = "atdone"
     \/ task = "atbytes" /\ Len(gSEGCPREQ) = atcmd_size + 2
  /\ s' = Goto(s, "command")
  /\ segcp_uart_sem' = Give(segcp_uart_sem)
  /\ task' = "wait"
  /\ UNCHANGED <<load, master, trig, line, irq, handling, int, seg_spi_pending_sem, seg_u2e_sem, others, timer,
                 resetting, e2u_size, u2e_size, g_send_buf, data_buffer, seg, atcmds>>

spi_data_transfer_task ==
  \/ SlaveDataWrite \/ SlaveDataRead \/ Atcmd \/ Refuse \/ Default
  \/ TaskSent \/ Written \/ Listen \/ ReadByte \/ DataRead \/ ReadCommandByte \/ CommandRead

-----------------------------------------------------------------------------
(* The other tasks *)

u2eless == <<load, handling, master, trig, int, s, seg_spi_pending_sem, segcp_uart_sem, task, segcp, timer,
             resetting, e2u_size, g_send_buf, data_buffer, recv, sent, g_recv_buf, conn, atcmds>>

\* uart_to_ether is called, and takes u2e_size for its len.
TakeData ==
  /\ u2e = "wait" /\ seg_u2e_sem > 0 /\ ~Critical
  /\ seg_u2e_sem' = seg_u2e_sem - 1
  /\ IF u2e_size # 0 /\ conn THEN u2e' = "send" /\ ulen' = u2e_size
                             ELSE UNCHANGED <<u2e, ulen>>
  /\ UNCHANGED <<u2eless, line, irq, u2e_size, net>>

\* The socket takes the data; the answer follows whatever came of it.
SendData ==
  /\ u2e = "send" /\ ~Critical
  /\ net' = Append(net, SubSeq(g_send_buf, 1, ulen))
  /\ u2e_size' = (u2e_size + 65536 - ulen) % 65536
  /\ Push(Answer(SPI_ACK)) /\ u2e' = "ack"
  /\ UNCHANGED <<u2eless, irq, seg_u2e_sem, ulen>>

\* Mutant: the interrupt stays off after a write.
DataAcked_Off ==
  /\ u2e = "ack" /\ Pushed
  /\ u2e' = "wait"
  /\ UNCHANGED <<u2eless, irq, seg_u2e_sem, ulen, u2e_size, net>>

DataAcked ==
  /\ u2e = "ack" /\ Pushed
  /\ SwitchOn
  /\ u2e' = "wait"
  /\ UNCHANGED <<u2eless, seg_u2e_sem, ulen, u2e_size, net>>

seg_u2e_task == TakeData \/ SendData \/ DataAcked

segcpless == <<load, handling, master, s, seg_spi_pending_sem, seg_u2e_sem, task, u2e, ulen, timer,
               resetting, e2u_size, u2e_size, g_send_buf, seg, gSEGCPREQ>>

\* The head of the buffer is overwritten.
Over(bytes) == bytes \o SubSeq(data_buffer, Len(bytes) + 1, Len(data_buffer))

\* proc_SEGCP leaves a value, an error, or for a parameter it has stored nothing.
AnswersTo(request) ==
  CASE request = SetCommand -> {<<>>} \cup Errors
    [] request = GetCommand -> {StoredValue} \cup Errors
    [] OTHER                -> {Error}

ProcessCommand ==
  /\ segcp = "wait" /\ segcp_uart_sem > 0 /\ ~Critical
  /\ segcp_uart_sem' = segcp_uart_sem - 1
  /\ done' = gSEGCPREQ
  /\ \E rep \in AnswersTo(gSEGCPREQ) :
       IF rep # <<>>
         THEN /\ data_buffer' = Over(DataHeader(Len(rep)) \o rep)
              /\ Push(DataHeader(Len(rep)) \o rep) /\ Lower /\ segcp' = "reply"
         ELSE /\ Push(Answer(SPI_ACK)) /\ segcp' = "ack"
              /\ UNCHANGED <<data_buffer, int, trig>>
  /\ UNCHANGED <<segcpless, irq>>

Replied ==
  /\ segcp \in {"reply", "ack"} /\ Pushed
  /\ SwitchOn
  /\ IF segcp = "reply" THEN Raise ELSE UNCHANGED <<int, trig>>
  /\ segcp' = "wait"
  /\ UNCHANGED <<segcpless, segcp_uart_sem, data_buffer, done>>

segcp_serial_task == ProcessCommand \/ Replied

\* No task has anything under way.
Idling ==
  /\ task = "wait" /\ seg_spi_pending_sem = 0
  /\ u2e = "wait" /\ seg_u2e_sem = 0
  /\ segcp = "wait" /\ segcp_uart_sem = 0
  /\ recv = "wait" /\ ~resetting

\* Nor has the interrupt.
Quiet == Idling /\ handling = {} /\ ~(irq # {} /\ Len(rx) >= Half)

\* The bytes the master polls with make no difference.
Unmoved ==
  /\ Idling
  /\ \/ irq = {} /\ handling = {}
     \/ s.state = "command" /\ \A i \in DOMAIN rx : rx[i] = SPI_DUMMY

recvless == <<load, handling, master, line, irq, s, sems, task, others, resetting, u2e_size, g_send_buf,
              conn, net, atcmds>>

\* The next packet has come, and is read from the socket.
ReceivePacket ==
  /\ recv = "wait" /\ conn /\ sent < Packets /\ ~Critical
  /\ load.program = "echo"
  /\ \/ May("burst")
     \/ e2u_size = 0 /\ (May("stream") \/ sent = Len(net))
     \/ op = "idle" /\ ~trig /\ int /\ Quiet
  /\ \E n \in 1 .. DATA_BUF_SIZE :
       /\ g_recv_buf' = Times(sent + 1, n)
       /\ e2u_size' = n
  /\ sent' = sent + 1 /\ recv' = "copy"
  /\ UNCHANGED <<recvless, trig, int, timer, data_buffer>>

SignalPacket ==
  /\ recv = "copy" /\ ~Critical
  /\ data_buffer' = Over(DataHeader(e2u_size) \o g_recv_buf)
  /\ timer' = TRUE
  /\ Lower
  /\ recv' = "wait"
  /\ UNCHANGED <<recvless, e2u_size, sent, g_recv_buf>>

ether_to_spi == ReceivePacket \/ SignalPacket

resetless == <<load, handling, master, sems, task, others, g_send_buf, data_buffer, seg, atcmds>>

\* spi_reset_timer_callback: the state, and then the interface.  The timer runs
\* out when the master has nothing more to do, or waits for the pin.
ResetState ==
  /\ timer /\ ~resetting /\ ~Critical
  /\ \/ May("slow")
     \/ op = "idle" /\ Quiet /\ ~trig
     \/ at = "data" /\ want = 0 /\ Quiet
  /\ timer' = FALSE /\ resetting' = TRUE
  /\ s' = Goto(s, "command")
  /\ e2u_size' = 0 /\ u2e_size' = 0
  /\ Raise
  /\ UNCHANGED <<resetless, line, irq>>

Reconfigure ==
  /\ resetting
  /\ rx' = <<>> /\ tx' = <<>>
  /\ SwitchOn
  /\ resetting' = FALSE
  /\ UNCHANGED <<resetless, trig, int, s, timer, e2u_size, u2e_size>>

platform_spi_reset == ResetState \/ Reconfigure

\* The connection is lost, and seg.c clears both sizes, or it is up again.
Connection ==
  /\ \/ May("cut")
     \/ May("refuse") /\ op \in {"idle", "read"} /\ Quiet /\ e2u_size = 0
  /\ recv = "wait" /\ u2e # "send"
  /\ conn' = ~conn
  /\ IF conn THEN e2u_size' = 0 /\ u2e_size' = 0 ELSE UNCHANGED <<e2u_size, u2e_size>>
  /\ UNCHANGED <<load, master, trig, line, irq, handling, int, s, sems, task, others, timer, resetting,
                 g_send_buf, data_buffer, recv, sent, g_recv_buf, net, atcmds>>

-----------------------------------------------------------------------------
(* The master *)

slave == <<irq, handling, int, s, sems, task, others, timer, resetting, e2u_size, u2e_size, g_send_buf,
           data_buffer, seg, atcmds>>

\* An exchange of the master's, with the bytes of its header.
Exchange(x, bytes) ==
  op' = x /\ at' = "out" /\ out' = bytes /\ half' = 1 /\ want' = 0

\* It has ended so.  data_send follows data_read whatever came of that; an
\* error is -2, and so is the length it is given.
Return == op' = "idle" /\ at' = "" /\ UNCHANGED <<out, half, want>>

End(how, length) ==
  /\ result' = how
  /\ CASE op = "read"  -> Exchange("write", WriteRequest(length)) /\ UNCHANGED trig
       [] op = "write" -> Return /\ trig' = FALSE
       [] OTHER        -> Return /\ UNCHANGED trig

Fail(how) == End(how, 65534)

\* The loop of main sees the flag; the AT test writes and reads a parameter.
Begin ==
  /\ op = "idle"
  /\ ~resetting \/ May("slow")
  /\ CASE load.program = "echo" -> /\ trig /\ Exchange("read", ReadRequest)
                                   /\ UNCHANGED rounds
       [] load.program = "at"   -> /\ rounds < 2 * Rounds /\ rounds' = rounds + 1
                                   /\ IF rounds % 2 = 0
                                        THEN Exchange("set", Name \o Size(Len(Param)))
                                        ELSE Exchange("get", GetCommand)
  /\ inbuf' = <<>>
  /\ UNCHANGED <<load, slave, line, acked, result, trig>>

\* spi_write_blocking
Out ==
  /\ at = "out"
  /\ IF out = <<>>
       THEN /\ at' = CASE op = "read" -> "len" [] op = "get" -> "low" [] OTHER -> "ack"
            /\ UNCHANGED <<line, out>>
       ELSE /\ ClockByte(Head(out)) /\ out' = Tail(out) /\ UNCHANGED at
  /\ UNCHANGED <<load, slave, op, half, want, acked, inbuf, result, rounds, trig>>

\* spi_read_with_timeout takes bytes until one is the header, or SPI_NACK.
Found(b) == Received \in {b, SPI_NACK}

\* check_ack_blocking
Ack ==
  /\ at = "ack" /\ ClockByte(SPI_DUMMY)
  /\ IF Found(SPI_ACK) THEN at' = "fill" /\ want' = 3 /\ acked' = (Received = SPI_ACK)
                       ELSE UNCHANGED <<at, want, acked>>
  /\ UNCHANGED <<load, slave, op, out, half, inbuf, result, rounds, trig>>

Fill ==
  /\ at = "fill" /\ want > 0 /\ ClockByte(SPI_DUMMY)
  /\ want' = IF Found(SPI_DUMMY) THEN want - 1 ELSE want
  /\ UNCHANGED <<load, slave, op, at, out, half, acked, inbuf, result, rounds, trig>>

\* The answer has come: the data follows, or the exchange is at its end.
Acked ==
  /\ at = "fill" /\ want = 0
  /\ IF acked /\ half = 1
       THEN /\ half' = 2 /\ at' = "out"
            /\ out' = IF op = "write" THEN inbuf ELSE Param
            /\ UNCHANGED <<op, want, result, trig>>
       ELSE Fail(IF acked THEN "ok" ELSE "nack")
  /\ UNCHANGED <<load, slave, line, acked, inbuf, rounds>>

\* read_data_len_blocking
DataLength ==
  /\ at \in {"len", "size", "last"} /\ ClockByte(SPI_DUMMY)
  /\ CASE at = "len"  -> IF Found(SPI_SLAVE_WRITE_LEN_CMD) THEN at' = "size" /\ UNCHANGED inbuf
                                                           ELSE UNCHANGED <<at, inbuf>>
       [] at = "size" -> /\ inbuf' = Append(inbuf, Received)
                         /\ at' = IF Len(inbuf) = 1 THEN "last" ELSE at
       [] at = "last" -> IF Found(SPI_DUMMY) THEN at' = "length" /\ UNCHANGED inbuf
                                             ELSE UNCHANGED <<at, inbuf>>
  /\ UNCHANGED <<load, slave, op, out, half, want, acked, result, rounds, trig>>

\* The length is signed for the master.
Length ==
  /\ at = "length"
  /\ IF Value(inbuf) \in Positive
       THEN /\ want' = Value(inbuf) /\ inbuf' = <<>> /\ at' = "data"
            /\ UNCHANGED <<op, out, half, result, trig>>
       ELSE /\ inbuf' = <<>>
            /\ IF Value(inbuf) = 0 THEN End("ok", 0) ELSE Fail("error")
  /\ UNCHANGED <<load, slave, line, acked, rounds>>

TakeByte ==
  /\ at = "data" /\ want > 0 /\ ClockByte(SPI_DUMMY)
  /\ inbuf' = Append(inbuf, Received) /\ want' = want - 1
  /\ UNCHANGED <<load, slave, op, at, out, half, acked, result, rounds, trig>>

\* It waits for the pin: to fall before the answer to an AT command, to rise
\* after the data.
Fallen ==
  /\ at = "low" /\ ~int
  /\ at' = "len"
  /\ UNCHANGED <<load, slave, line, op, out, half, want, acked, inbuf, result, rounds, trig>>

Risen ==
  /\ at = "data" /\ want = 0 /\ int
  /\ ~resetting \/ May("slow")
  /\ End("ok", Len(inbuf))
  /\ UNCHANGED <<load, slave, line, acked, inbuf, rounds>>

\* TIMEOUT_MS have gone.
Timeout ==
  /\ at \in {"ack", "fill", "len", "last"} /\ (at = "fill" => want > 0)
  /\ Unmoved
  /\ Fail("timeout")
  /\ UNCHANGED <<load, slave, line, acked, inbuf, rounds>>

Master == Begin \/ Out \/ Ack \/ Fill \/ Acked \/ DataLength \/ Length \/ TakeByte \/ Fallen \/ Risen

-----------------------------------------------------------------------------
SpiNext ==
  \/ on_spi_rx \/ spi_data_transfer_task \/ seg_u2e_task \/ segcp_serial_task
  \/ ether_to_spi \/ platform_spi_reset \/ Connection
  \/ Master \/ Timeout

\* The interrupt, the tasks and the timer's are run; the master goes on, and
\* gives up in the end.
SpiFairness ==
  /\ WF_spiVars(on_spi_rx) /\ WF_spiVars(spi_data_transfer_task) /\ WF_spiVars(seg_u2e_task)
  /\ WF_spiVars(segcp_serial_task) /\ WF_spiVars(SignalPacket) /\ WF_spiVars(platform_spi_reset)
  /\ WF_spiVars(Master) /\ SF_spiVars(Timeout)

SpiSpec == SpiInit /\ [][SpiNext]_spiVars /\ SpiFairness

-----------------------------------------------------------------------------
SpiTypeOK ==
  /\ load \in Loads
  /\ op \in {"idle", "read", "write", "set", "get"} /\ half \in 1 .. 2 /\ want \in Nat
  /\ \A q \in {rx, tx, out, inbuf, g_send_buf, data_buffer, gSEGCPREQ, s.atcmd_bytes} :
       q \in Seq(Byte)
  /\ Len(rx) <= Depth /\ irq \subseteq Cores /\ handling \subseteq Cores
  /\ s.state \in {"command", "length", "dummy", "atcmd", "read", "write", "nack"}
  /\ Len(s.atcmd_bytes) = 4 /\ s.atcmd_index \in 0 .. 3 /\ s.length_index \in 0 .. 2 /\ s.dummy_count \in 0 .. 2
  /\ \A n \in {seg_spi_pending_sem, seg_u2e_sem, segcp_uart_sem} : n \in 0 .. Tokens
  /\ e2u_size \in 0 .. DATA_BUF_SIZE /\ u2e_size \in Word
  /\ sent \in 0 .. Packets

Packet(k, n) == Times(k, n)
Whole(bytes) == \E k \in 1 .. sent, n \in 1 .. DATA_BUF_SIZE : bytes = Packet(k, n)

\* What the master reads is a packet, and what it writes goes to the socket
\* once, as it was: no answer is split between two packets, cut short or shifted
\* (spiHandler.c:269-276, 287-296, seg.c:1693-1701).
EchoesWhole ==
  /\ \A i \in DOMAIN net : Whole(net[i])
  /\ \A i, j \in DOMAIN net : i < j => net[i][1] < net[j][1]

\* When nothing disturbs them master and slave stay in step: every exchange
\* comes to its end without an error, data_send returns 1 for data that has gone
\* to the socket, and an AT command the master counts as done was carried out as
\* it was sent (spiHandler.c:287-317, seg.c:1391-1416, segcp.c:1602-1629).
InStep ==
  [][op # "idle" /\ op' # op /\ load.may = {} =>
       /\ result' = "ok"
       /\ op = "write" => net # <<>> /\ Last(net) = inbuf
       /\ op = "set" => done = SetCommand
       /\ op = "get" => done = GetCommand /\ inbuf = StoredValue]_spiVars

\* The interrupt that has been switched off for an answer is switched on again:
\* every path that takes a header ends with somebody listening
\* (spiHandler.c:84-127, 275-319, seg.c:1416, segcp.c:1624-1628).
ListensAgain == irq = {} ~> irq # {}

\* The master's exchange ends, by its answer or by its two seconds: it is not
\* left waiting for the pin (SPI_Mode_Master.c:198, 283, 294, 307).
ExchangesEnd == op # "idle" ~> op = "idle"
=============================================================================
