----------------------------- MODULE SerialPath -----------------------------
(***************************************************************************)
(* The path of a byte from the UART to the network in gateway mode: the    *)
(* UART interrupt with the detector of the escape sequence, the millisecond *)
(* timer, the ring buffer of bufferHandler, seg_u2e_task with data packing *)
(* into g_send_buf, and the tasks that flush the ring: seg_task when a     *)
(* connection begins and segcp_serial_task when command mode is entered.   *)
(* Working mode TCP server.                                                *)
(*                                                                         *)
(* The interrupts run on one core and do not nest; the tasks run on both.  *)
(* A step is what one of them does up to its next access to rd, wr,        *)
(* working_state or a semaphore another one uses.                          *)
(***************************************************************************)
EXTENDS Integers, Sequences

CONSTANTS
    Loads,        \* configurations of the device and of its UART peer
    Ids           \* bytes are numbered modulo Ids

ASSUME SerialAssumption ==
    /\ Ids \in Nat \ {0}
    /\ \A load \in Loads :
        /\ load.size \in Nat \ {0, 1}             \* SEG_DATA_BUF_SIZE
        /\ load.send \in Nat \ {0}                \* DATA_BUF_SIZE
        /\ load.gap \in Nat \ {0}                 \* modeswitch_gap_time, in ticks
        /\ load.pack \in {"none", "time", "size", "delim"}
        /\ load.time \in Nat \ {0} /\ load.bytes \in 1..load.send
                                         \* packing_time in ticks, packing_size
        /\ load.kinds \subseteq {"data", "delim", "plus"}
                                         \* what the UART peer sends, and how many
        /\ load.ahead \in Nat             \* bytes it lets wait in the ring at most
        /\ load.start \in {"OPEN", "CONNECT"}      \* working_state at first
        /\ load.reconnects \in BOOLEAN    \* connections come and go
        /\ load.fails \in BOOLEAN         \* send() may return an error

VARIABLES
    load,                   \* the one in use
    ring, rd, wr,           \* data0_buffer_rx; a byte that has been read or
                            \* flushed is forgotten, its cell has Stale
    g_send_buf, u2e_size,   \* one cell more than the array has; a byte sent is forgotten
    working_state, opmode,
    trigger,                \* ch_tmp[0 .. triggercode_idx-1]
    modeswitch_time, enable_modeswitch_timer, sw_modeswitch_at_mode_on,
    serial_input_time, enable_serial_input_timer, flag_serial_input_time_elapse,
    seg_u2e_sem, segcp_uart_sem,
    seg_critical_sem,       \* "free" or the task that holds it
    isr,                    \* the byte the UART interrupt is storing
    u2e,                    \* seg_u2e_task: [pc, len, i, r, ch]; a local variable
                            \* that is dead has its value of Waiting
    seg, segcp,             \* where seg_task and segcp_serial_task are
    next                    \* number of the next byte (history)

buffer  == <<ring, rd, wr>>
user    == <<g_send_buf, u2e_size>>
mode    == <<working_state, opmode>>
escape  == <<trigger, modeswitch_time, enable_modeswitch_timer, sw_modeswitch_at_mode_on>>
delimit == <<serial_input_time, enable_serial_input_timer, flag_serial_input_time_elapse>>
sems    == <<seg_u2e_sem, segcp_uart_sem, seg_critical_sem>>
vars    == <<load, buffer, user, mode, escape, delimit, sems, isr, u2e, seg, segcp, next>>

Size     == load.size
SendSize == load.send
Gap      == load.gap
pack     == load.pack
Ahead    == load.ahead

None  == [id |-> -1, kind |-> "none"]
Bytes == [id : 0..(Ids - 1), kind : (load.kinds \ {"plus"}) \cup {"data"}]
NoBytes == [k \in 0..SendSize |-> None]
Stale == [id |-> -1, kind |-> "stale"]
Empty == [k \in 0..(Size - 1) |-> Stale]
Idle  == [at |-> -1, ch |-> None]

Waiting == [pc |-> "wait", len |-> 0, i |-> 0, r |-> 0, ch |-> None]

Init ==
    /\ load \in Loads
    /\ ring = Empty /\ rd = 0 /\ wr = 0
    /\ g_send_buf = NoBytes /\ u2e_size = 0
    /\ working_state = load.start /\ opmode = "GW"
    /\ trigger = <<>> /\ modeswitch_time = 0 /\ enable_modeswitch_timer = FALSE
    /\ sw_modeswitch_at_mode_on = FALSE
    /\ serial_input_time = 0 /\ enable_serial_input_timer = FALSE
    /\ flag_serial_input_time_elapse = FALSE
    /\ seg_u2e_sem = FALSE /\ segcp_uart_sem = FALSE /\ seg_critical_sem = "free"
    /\ isr = Idle
    /\ u2e = Waiting
    /\ seg = "idle" /\ segcp = "idle" /\ next = 0

-----------------------------------------------------------------------------
(* The macros of bufferHandler.h.                                          *)

get_data_buffer_usedsize == (Size + wr - rd) % Size
Moved(p)                 == (p + 1) % Size

\* Once n more bytes have been put.
is_data_buffer_full(n) == (Size + rd - (wr + n) - 1) % Size = 0

data_buffer_flush == wr' = 0 /\ rd' = 0 /\ ring' = Empty

\* What put_byte_to_data_buffer makes of the ring, for a sequence of bytes.
PutAll(q) ==
    /\ ring' = [k \in 0..(Size - 1) |->
                  IF \E n \in 1..Len(q) : (wr + n - 1) % Size = k
                  THEN q[CHOOSE n \in 1..Len(q) : (wr + n - 1) % Size = k]
                  ELSE ring[k]]
    /\ wr' = (wr + Len(q)) % Size
    /\ UNCHANGED rd

-----------------------------------------------------------------------------
(* on_uart_rx: one byte.  The bytes a failed escape sequence held back are *)
(* put back before it; the byte itself is stored at the index read before. *)

check_serial_store_permitted == working_state \in {"CONNECT", "ATMODE"}

\* Whether ch goes on with the escape sequence.
Continues(ch) ==
    /\ opmode = "GW" /\ ch.kind = "plus"
    /\ CASE trigger = <<>>   -> modeswitch_time >= Gap
         [] Len(trigger) = 3 -> FALSE
         [] OTHER            -> modeswitch_time <= Gap
\* Whether ch ends it.
Breaks(ch) == opmode = "GW" /\ trigger # <<>> /\ ~Continues(ch)
              /\ (Len(trigger) = 3 => modeswitch_time < Gap)
\* The end of a complete sequence, after the gap: ch is swallowed.
Swallows(ch) == Continues(ch) \/ (opmode = "GW" /\ trigger # <<>> /\ ~Breaks(ch))

Restored(ch) == IF Breaks(ch) THEN trigger ELSE <<>>

\* The UART peer is followed until the switch to command mode is over; the
\* commands are not a part of this module.
Listening == opmode = "GW" \/ segcp # "idle"

\* In the buffers "+" is a byte like any other.
Stored(ch) == IF ch.kind = "plus" THEN [ch EXCEPT !.kind = "data"] ELSE ch

\* The UART peer stays below the size of the ring and no delimiter is looked
\* for: then the bytes are numbered.
Counted == Ahead < Size /\ pack # "delim"

Receive ==
    \E kind \in load.kinds :
      LET ch   == [id |-> next, kind |-> kind]
          back == Restored(ch)
          full == is_data_buffer_full(Len(back))
      IN  /\ isr = Idle /\ Listening
          /\ Ahead < Size => get_data_buffer_usedsize + Len(trigger) + 1 <= Ahead
          /\ next' = IF Counted THEN (next + 1) % Ids ELSE next
          /\ modeswitch_time' = IF opmode = "GW" THEN 0 ELSE modeswitch_time
          /\ trigger' = IF Continues(ch) THEN Append(trigger, Stored(ch))
                        ELSE IF Breaks(ch) THEN <<>> ELSE trigger
          /\ enable_modeswitch_timer' =
               IF Continues(ch) /\ trigger = <<>> THEN TRUE
               ELSE IF Breaks(ch) THEN FALSE ELSE enable_modeswitch_timer
          /\ IF Swallows(ch) \/ ~full THEN PutAll(back) ELSE data_buffer_flush
          /\ isr' = IF ~Swallows(ch) /\ check_serial_store_permitted
                    THEN [at |-> wr', ch |-> Stored(ch)] ELSE Idle
          /\ UNCHANGED <<load, user, mode, sw_modeswitch_at_mode_on, delimit, sems,
                         u2e, seg, segcp>>

\* init_time_delimiter_timer
InitTimeDelimiter ==
    IF opmode = "GW" /\ pack = "time"
    THEN /\ enable_serial_input_timer' = TRUE /\ serial_input_time' = 0
         /\ UNCHANGED flag_serial_input_time_elapse
    ELSE UNCHANGED delimit

\* Mutant: only a byte put into an empty ring wakes the task.
Store_WakesWhenEmpty ==
    /\ isr # Idle
    /\ ring' = [ring EXCEPT ![isr.at] = isr.ch] /\ wr' = Moved(isr.at) /\ isr' = Idle
    /\ InitTimeDelimiter
    /\ seg_u2e_sem' = (seg_u2e_sem \/ wr = rd)
    /\ UNCHANGED <<load, rd, user, mode, escape, segcp_uart_sem, seg_critical_sem,
                   u2e, seg, segcp, next>>

Store ==
    /\ isr # Idle
    /\ ring' = [ring EXCEPT ![isr.at] = isr.ch] /\ wr' = Moved(isr.at) /\ isr' = Idle
    /\ InitTimeDelimiter
    /\ IF opmode = "GW" THEN seg_u2e_sem' = TRUE /\ UNCHANGED segcp_uart_sem
                        ELSE segcp_uart_sem' = TRUE /\ UNCHANGED seg_u2e_sem
    /\ UNCHANGED <<load, rd, user, mode, escape, seg_critical_sem, u2e, seg, segcp, next>>

-----------------------------------------------------------------------------
(* seg_timer_msec: the timer of the time delimiter, then that of the       *)
(* escape sequence.                                                        *)

TimeUp == enable_serial_input_timer /\ serial_input_time >= load.time

\* The gap after the escape sequence is over, or after a part of it.
GapTime == IF modeswitch_time < Gap THEN modeswitch_time + 1 ELSE modeswitch_time
GapUp   == enable_modeswitch_timer /\ GapTime >= Gap

seg_timer_msec ==
    /\ isr = Idle
    /\ IF ~enable_serial_input_timer THEN UNCHANGED delimit
       ELSE /\ serial_input_time' = IF TimeUp THEN 0 ELSE serial_input_time + 1
            /\ enable_serial_input_timer' = ~TimeUp
            /\ flag_serial_input_time_elapse' = (flag_serial_input_time_elapse \/ TimeUp)
    /\ seg_u2e_sem' = (seg_u2e_sem \/ TimeUp)
    /\ modeswitch_time' = GapTime
    /\ IF GapUp THEN enable_modeswitch_timer' = FALSE /\ trigger' = <<>>
                ELSE UNCHANGED <<enable_modeswitch_timer, trigger>>
    /\ IF GapUp /\ Len(trigger) = 3
       THEN sw_modeswitch_at_mode_on' = TRUE /\ segcp_uart_sem' = TRUE
       ELSE UNCHANGED <<sw_modeswitch_at_mode_on, segcp_uart_sem>>
    /\ IF GapUp /\ Len(trigger) # 3 THEN PutAll(trigger) ELSE UNCHANGED buffer
    /\ UNCHANGED <<load, user, mode, seg_critical_sem, isr, u2e, seg, segcp, next>>

-----------------------------------------------------------------------------
(* seg_u2e_task, protocol SEG_SERIAL_PROTOCOL_NONE: uart_to_ether with     *)
(* get_serial_data in it.                                                  *)

U2E(pc) == u2e.pc = pc
Others  == UNCHANGED <<load, mode, escape, segcp_uart_sem, isr, seg, segcp, next>>

TakeSem ==
    /\ U2E("wait") /\ seg_u2e_sem
    /\ seg_u2e_sem' = FALSE /\ u2e' = [u2e EXCEPT !.pc = "lock"]
    /\ Others /\ UNCHANGED <<buffer, user, delimit, seg_critical_sem>>

TakeCritical ==
    /\ U2E("lock") /\ seg_critical_sem = "free"
    /\ seg_critical_sem' = "u2e" /\ u2e' = [u2e EXCEPT !.pc = "check"]
    /\ Others /\ UNCHANGED <<buffer, user, delimit, seg_u2e_sem>>

\* Something to send and a connection to send it on?
Check ==
    /\ U2E("check")
    /\ LET go == /\ get_data_buffer_usedsize # 0 \/ u2e_size # 0
                 /\ working_state = "CONNECT"
       IN  u2e' = [u2e EXCEPT !.pc = IF go THEN "get" ELSE "unlock"]
    /\ Others /\ UNCHANGED <<buffer, user, delimit, seg_u2e_sem, seg_critical_sem>>

Unlock ==
    /\ U2E("unlock")
    /\ seg_critical_sem' = "free" /\ u2e' = Waiting
    /\ Others /\ UNCHANGED <<buffer, user, delimit, seg_u2e_sem>>

\* Where the copying loop goes on.
Loop(i, len) == IF i < len THEN "getc" ELSE "packed"

\* Mutant: the room left in g_send_buf is not looked at.
GetLen_Unbounded ==
    /\ U2E("get")
    /\ u2e' = [u2e EXCEPT !.pc = Loop(0, get_data_buffer_usedsize),
                          !.len = get_data_buffer_usedsize, !.i = 0]
    /\ Others /\ UNCHANGED <<buffer, user, delimit, seg_u2e_sem, seg_critical_sem>>

GetLen ==
    /\ U2E("get")
    /\ LET used == get_data_buffer_usedsize
           full == used + u2e_size >= SendSize
           len  == IF full THEN SendSize - u2e_size ELSE used
       IN  u2e' = IF full /\ pack = "delim" /\ used = 1
                  THEN [u2e EXCEPT !.pc = "first"]
                  ELSE [u2e EXCEPT !.pc = Loop(0, len), !.len = len, !.i = 0]
    /\ Others /\ UNCHANGED <<buffer, user, delimit, seg_u2e_sem, seg_critical_sem>>

\* data_buffer_getc: wait for a byte and read it; the index is moved after.
Getc(pc, after) ==
    /\ U2E(pc) /\ rd # wr
    /\ u2e' = [u2e EXCEPT !.pc = after, !.r = rd, !.ch = ring[rd]]
    /\ ring' = [ring EXCEPT ![rd] = Stale]
    /\ Others /\ UNCHANGED <<rd, wr, user, delimit, seg_u2e_sem, seg_critical_sem>>

\* The body of the copying loop, with the delimiters that end it early.
Copy ==
    /\ U2E("move")
    /\ rd' = Moved(u2e.r)
    /\ g_send_buf' = [g_send_buf EXCEPT ![u2e_size] = u2e.ch]
    /\ u2e_size' = u2e_size + 1
    /\ LET ends == \/ pack = "delim" /\ u2e.ch.kind = "delim"
                   \/ pack = "size" /\ u2e_size + 1 = load.bytes
       IN  u2e' = IF ends THEN [Waiting EXCEPT !.pc = "clear", !.len = u2e_size + 1]
                  ELSE [Waiting EXCEPT !.pc = Loop(u2e.i + 1, u2e.len), !.len = u2e.len,
                                       !.i = u2e.i + 1]
    /\ Others /\ UNCHANGED <<ring, wr, delimit, seg_u2e_sem, seg_critical_sem>>

\* One byte for a full g_send_buf: is it the delimiter?
CopyFirst ==
    /\ U2E("move1")
    /\ rd' = Moved(u2e.r)
    /\ g_send_buf' = [g_send_buf EXCEPT ![u2e_size] = u2e.ch]
    /\ LET len == SendSize - u2e_size
       IN  u2e' = IF u2e.ch.kind = "delim"
                  THEN [u2e EXCEPT !.pc = IF u2e_size > 0 THEN "clear" ELSE "unlock",
                                   !.len = u2e_size]
                  ELSE [Waiting EXCEPT !.pc = Loop(0, len), !.len = len]
    /\ Others /\ UNCHANGED <<ring, wr, u2e_size, delimit, seg_u2e_sem, seg_critical_sem>>

\* The loop is over: what get_serial_data returns.
Packed ==
    /\ U2E("packed")
    /\ LET send == \/ pack = "none" /\ u2e_size # 0
                   \/ pack = "time" /\ u2e_size # 0 /\ flag_serial_input_time_elapse
       IN  /\ u2e' = [Waiting EXCEPT !.pc = IF send THEN "clear" ELSE "unlock",
                                     !.len = IF send THEN u2e_size ELSE 0]
           /\ flag_serial_input_time_elapse' =
                (flag_serial_input_time_elapse
                   /\ ~(send /\ pack = "time" /\ get_data_buffer_usedsize = 0))
    /\ Others /\ UNCHANGED <<buffer, user, serial_input_time, enable_serial_input_timer,
                             seg_u2e_sem, seg_critical_sem>>

ClearDelimiter ==
    /\ U2E("clear")
    /\ serial_input_time' = 0 /\ enable_serial_input_timer' = FALSE
    /\ flag_serial_input_time_elapse' = FALSE
    /\ u2e' = [u2e EXCEPT !.pc = "send"]
    /\ Others /\ UNCHANGED <<buffer, user, seg_u2e_sem, seg_critical_sem>>

\* send() takes all it is given or fails; i is sent_len.
Send ==
    /\ U2E("send")
    /\ \E sent \in {u2e.len} \cup (IF load.fails THEN {0} ELSE {}) :
         u2e' = [u2e EXCEPT !.pc = "sent",
                            !.i = IF working_state = "CONNECT" THEN sent ELSE 0]
    /\ Others /\ UNCHANGED <<buffer, user, delimit, seg_u2e_sem, seg_critical_sem>>

Sent ==
    /\ U2E("sent")
    /\ u2e_size' = u2e_size - u2e.i
    /\ g_send_buf' = IF u2e.i > 0 THEN NoBytes ELSE g_send_buf
    /\ u2e' = [Waiting EXCEPT !.pc = "unlock"]
    /\ Others /\ UNCHANGED <<buffer, delimit, seg_u2e_sem, seg_critical_sem>>

seg_u2e_task ==
    \/ TakeSem \/ TakeCritical \/ Check \/ Unlock \/ GetLen
    \/ Getc("getc", "move") \/ Getc("first", "move1")
    \/ Copy \/ CopyFirst \/ Packed \/ ClearDelimiter \/ Send \/ Sent

-----------------------------------------------------------------------------
(* seg_task, TCP server: a connection is established, and it is over.      *)

reset_SEG_timeflags ==
    /\ serial_input_time' = 0 /\ enable_serial_input_timer' = FALSE
    /\ flag_serial_input_time_elapse' = FALSE

SegFrame == UNCHANGED <<load, g_send_buf, opmode, escape, seg_u2e_sem,
                        segcp_uart_sem, isr, u2e, segcp, next>>

\* Mutant: do_seg runs without seg_critical_sem.
Accept_NoLock ==
    /\ load.reconnects /\ seg = "idle" /\ opmode = "GW" /\ working_state = "OPEN"
    /\ isr = Idle
    /\ wr' = 0 /\ ring' = Empty /\ seg' = "flush"
    /\ SegFrame /\ UNCHANGED <<rd, u2e_size, working_state, delimit, seg_critical_sem>>

\* A connection takes longer than an interrupt.
Accept ==
    /\ load.reconnects /\ seg = "idle" /\ opmode = "GW" /\ working_state = "OPEN"
    /\ seg_critical_sem = "free" /\ isr = Idle
    /\ seg_critical_sem' = "seg" /\ wr' = 0 /\ ring' = Empty /\ seg' = "flush"
    /\ SegFrame /\ UNCHANGED <<rd, u2e_size, working_state, delimit>>

Flushed ==
    /\ seg = "flush" /\ rd' = 0 /\ seg' = "connect"
    /\ SegFrame /\ UNCHANGED <<ring, wr, u2e_size, working_state, delimit, seg_critical_sem>>

Connected ==
    /\ seg = "connect" /\ working_state' = "CONNECT"
    /\ seg_critical_sem' = "free" /\ seg' = "idle"
    /\ SegFrame /\ UNCHANGED <<ring, rd, wr, u2e_size, delimit>>

\* Mutant: what is left of the last connection in g_send_buf is kept.
Closed_KeepsData ==
    /\ load.reconnects /\ seg = "idle" /\ opmode = "GW" /\ working_state = "CONNECT"
    /\ seg_critical_sem = "free"
    /\ working_state' = "OPEN" /\ reset_SEG_timeflags
    /\ SegFrame /\ UNCHANGED <<ring, rd, wr, u2e_size, seg, seg_critical_sem>>

Closed ==
    /\ load.reconnects /\ seg = "idle" /\ opmode = "GW" /\ working_state = "CONNECT"
    /\ seg_critical_sem = "free"
    /\ working_state' = "OPEN" /\ u2e_size' = 0 /\ reset_SEG_timeflags
    /\ SegFrame /\ UNCHANGED <<ring, rd, wr, seg, seg_critical_sem>>

seg_task == Accept \/ Flushed \/ Connected \/ Closed

-----------------------------------------------------------------------------
(* segcp_serial_task: the switch to command mode, init_trigger_modeswitch  *)
(* first, without seg_critical_sem, then process_socket_termination.       *)

SegcpFrame == UNCHANGED <<load, g_send_buf, trigger, modeswitch_time,
                          enable_modeswitch_timer, seg_u2e_sem, seg_critical_sem,
                          isr, u2e, seg, next>>

SwitchMode ==
    /\ segcp = "idle" /\ segcp_uart_sem
    /\ opmode = "GW" /\ sw_modeswitch_at_mode_on
    /\ segcp_uart_sem' = FALSE /\ opmode' = "AT" /\ working_state' = "ATMODE"
    /\ u2e_size' = 0 /\ segcp' = "flush"
    /\ SegcpFrame /\ UNCHANGED <<ring, rd, wr, delimit, sw_modeswitch_at_mode_on>>

FlushWr ==
    /\ segcp = "flush" /\ wr' = 0 /\ ring' = Empty /\ segcp' = "flushed"
    /\ SegcpFrame /\ UNCHANGED <<rd, u2e_size, mode, delimit, segcp_uart_sem,
                                 sw_modeswitch_at_mode_on>>

FlushRd ==
    /\ segcp = "flushed" /\ rd' = 0 /\ segcp' = "terminate" /\ reset_SEG_timeflags
    /\ SegcpFrame /\ UNCHANGED <<ring, wr, u2e_size, mode, segcp_uart_sem,
                                 sw_modeswitch_at_mode_on>>

process_socket_termination ==
    /\ segcp = "terminate" /\ seg_critical_sem = "free"
    /\ segcp' = "idle" /\ sw_modeswitch_at_mode_on' = FALSE
    /\ SegcpFrame /\ UNCHANGED <<ring, rd, wr, u2e_size, mode, delimit, segcp_uart_sem>>

segcp_serial_task == SwitchMode \/ FlushWr \/ FlushRd \/ process_socket_termination

Next == Receive \/ Store \/ seg_timer_msec \/ seg_u2e_task \/ seg_task \/ segcp_serial_task

\* The tasks run and the interrupts fire; the UART peer and the network
\* peer need not do anything.
Fairness == WF_vars(Store) /\ WF_vars(seg_timer_msec) /\ WF_vars(seg_u2e_task)
            /\ WF_vars(segcp_serial_task)

Spec     == Init /\ [][Next]_vars
LiveSpec == Spec /\ Fairness

-----------------------------------------------------------------------------
(* Properties.                                                             *)

TypeOK ==
    /\ ring \in [0..(Size - 1) -> Bytes \cup {Stale}]
    /\ rd \in 0..(Size - 1) /\ wr \in 0..(Size - 1)
    /\ g_send_buf \in [0..SendSize -> Bytes \cup {None, Stale}]
    /\ u2e_size \in -SendSize..SendSize
    /\ working_state \in {"OPEN", "CONNECT", "ATMODE"}
    /\ opmode \in {"GW", "AT"}
    /\ Len(trigger) <= 3 /\ modeswitch_time \in 0..Gap
    /\ {enable_modeswitch_timer, sw_modeswitch_at_mode_on, enable_serial_input_timer,
        flag_serial_input_time_elapse, seg_u2e_sem, segcp_uart_sem} \subseteq BOOLEAN
    /\ serial_input_time \in 0..load.time
    /\ seg_critical_sem \in {"free", "u2e", "seg"}
    /\ isr \in [at : {-1} \cup 0..(Size - 1), ch : Bytes \cup {None}]
    /\ u2e.len \in 0..(Size + SendSize) /\ u2e.i \in 0..(Size + SendSize) /\ u2e.r \in 0..(Size - 1)
    /\ seg \in {"idle", "flush", "connect"}
    /\ segcp \in {"idle", "flush", "flushed", "terminate"}

\* Without a delimiter, no byte is written behind the end of g_send_buf,
\* whatever the UART peer sends and however the interrupt's flush races with
\* the copying loop (get_serial_data, seg.c:1421-1479).
SendBufInBounds == pack # "delim" => g_send_buf[SendSize] = None

\* The ring is not flushed for a new connection while seg_u2e_task works on
\* an old one: it is past its test of the connection's state.
NoFlushUnderCopy ==
    seg \in {"flush", "connect"} => u2e.pc \in {"wait", "lock"}

\* The bytes on their way to the peer: those in g_send_buf, in the ring,
\* in the interrupt and held back as a part of an escape sequence.
BytesOf(q)  == [n \in 1..Len(q) |-> q[n].id]
InSendBuf   == IF U2E("sent") /\ u2e.i > 0 THEN <<>>
               ELSE [n \in 1..(u2e_size + IF U2E("move") THEN 1 ELSE 0) |->
                       IF n > u2e_size THEN u2e.ch ELSE g_send_buf[n - 1]]
InRing      == LET from == rd + IF U2E("move") THEN 1 ELSE 0
               IN  [n \in 1..((Size + wr - from) % Size) |-> ring[(from + n - 1) % Size]]
InInterrupt == IF isr = Idle THEN <<>> ELSE <<isr.ch>>
OnTheWay    == IF Counted /\ working_state = "CONNECT"
               THEN BytesOf(InSendBuf \o InRing \o InInterrupt \o trigger)
               ELSE <<>>

Stream == INSTANCE SerialStream WITH
            up <- (Counted /\ working_state = "CONNECT"), fifo <- OnTheWay

\* While the ring does not overflow, and without a delimiter, the bytes that
\* arrive while a connection is up reach its peer in order, each once, and no
\* byte of an earlier connection does: through the wrap of
\* the ring, the two steps of each of its ends, a send that fails and is
\* tried again, packing, a connection that ends at any point, and an escape
\* sequence begun and not completed. Not when a connection ends in the middle
\* of such a sequence: nothing forgets triggercode_idx (seg.c:1882, 2176), and
\* the bytes held back go to the next peer. No load of the run does both.
StreamSpec == Stream!Spec

\* A byte that is on its way to the peer leaves.
Delivered ==
    \A id \in 0..(Ids - 1) :
      LET waiting == \E n \in 1..Len(OnTheWay) : OnTheWay[n] = id
      IN  waiting ~> ~waiting

\* The switch to command mode, once begun, closes the socket and ends.
ModeSwitchEnds == (segcp = "terminate") ~> (segcp = "idle")
=============================================================================
