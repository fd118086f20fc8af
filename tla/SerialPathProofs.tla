--------------------------- MODULE SerialPathProofs ---------------------------
(***************************************************************************)
(* For every size of the two buffers, every packing and every behaviour of *)
(* the UART peer and of the network: the variables of the serial path keep *)
(* their types, g_send_buf is not written behind its end, and the ring is  *)
(* not flushed for a new connection under the copying loop. SerialPath     *)
(* implements SerialStream while no part of an escape sequence outlives    *)
(* the connection it was sent on.                                          *)
(***************************************************************************)
EXTENDS SerialPath, SequenceTheorems, TLAPS

Cells   == 0..(Size - 1)
Places  == {"wait", "lock", "check", "unlock", "get", "getc", "move", "first", "move1",
            "packed", "clear", "send", "sent"}
Anybody == Bytes \cup {None, Stale}

\* The types of all variables, finer than TypeOK where the steps need it.
Types ==
  /\ load \in Loads
  /\ ring \in [Cells -> Bytes \cup {Stale}] /\ rd \in Cells /\ wr \in Cells
  /\ g_send_buf \in [0..SendSize -> Anybody] /\ u2e_size \in Int
  /\ working_state \in {"OPEN", "CONNECT", "ATMODE"} /\ opmode \in {"GW", "AT"}
  /\ trigger \in Seq(Bytes) /\ Len(trigger) <= 3 /\ modeswitch_time \in 0..Gap
  /\ enable_modeswitch_timer \in BOOLEAN /\ sw_modeswitch_at_mode_on \in BOOLEAN
  /\ serial_input_time \in 0..load.time /\ enable_serial_input_timer \in BOOLEAN
  /\ flag_serial_input_time_elapse \in BOOLEAN
  /\ seg_u2e_sem \in BOOLEAN /\ segcp_uart_sem \in BOOLEAN
  /\ seg_critical_sem \in {"free", "u2e", "seg"}
  /\ isr \in [at : Cells, ch : Bytes] \cup {Idle}
  /\ u2e \in [pc : Places, len : Nat, i : Nat, r : Cells, ch : Anybody]
  /\ seg \in {"idle", "flush", "connect"}
  /\ segcp \in {"idle", "flush", "flushed", "terminate"} /\ next \in 0..(Ids - 1)

\* seg_critical_sem belongs to the task that is past its lock.
Locked ==
  /\ seg_critical_sem = "u2e" <=> u2e.pc \notin {"wait", "lock"}
  /\ seg_critical_sem = "seg" <=> seg # "idle"

\* The switch to command mode has taken g_send_buf away.
Switched == u2e_size <= 0 /\ opmode = "AT" /\ working_state = "ATMODE" /\ seg = "idle"

\* What the copying loop still has to copy has room in g_send_buf; what is being
\* sent is what was in it, unless the switch to command mode came in between.
Room ==
  /\ u2e_size <= SendSize /\ -SendSize <= u2e_size
  /\ u2e_size < 0 => Switched /\ u2e.pc \in {"wait", "lock", "check", "unlock"}
  /\ u2e.len <= SendSize /\ u2e.i <= u2e.len
  /\ u2e.pc \in {"getc", "move"} => /\ u2e.i < u2e.len
                                    /\ u2e_size + (u2e.len - u2e.i) <= SendSize
  /\ u2e.pc \in {"first", "move1"} => pack = "delim"
  /\ u2e.pc \in {"clear", "send", "sent"} => u2e_size = u2e.len \/ (u2e_size = 0 /\ Switched)
  /\ u2e.pc = "sent" => u2e.i \in {0, u2e.len}
  /\ u2e.pc \in {"wait", "lock", "check", "get", "first", "move1"} => u2e.i = 0

IInv == Types /\ Locked /\ Room /\ SendBufInBounds

-----------------------------------------------------------------------------
(* Sizes and indices.                                                      *)

\* What SerialAssumption says of the configuration in use.
LEMMA LoadType ==
  ASSUME load \in Loads
  PROVE  /\ Size \in Nat /\ Size > 1 /\ SendSize \in Nat /\ SendSize > 0
         /\ Gap \in Nat /\ Gap > 0 /\ load.time \in Nat /\ load.time > 0
         /\ load.bytes \in 1..SendSize /\ load.start \in {"OPEN", "CONNECT"}
         /\ Ids \in Nat /\ Ids > 0 /\ load.kinds \subseteq {"data", "delim", "plus"}
BY SerialAssumption DEF Size, SendSize, Gap

\* The same of the states of the right types.
LEMMA Basics ==
  ASSUME Types
  PROVE  /\ load \in Loads /\ 0 \in Cells /\ 0 \in 0..load.time /\ u2e_size \in Int
         /\ Size \in Nat /\ Size > 1 /\ SendSize \in Nat /\ SendSize > 0
         /\ Empty \in [Cells -> Bytes \cup {Stale}]
<1>1. load \in Loads /\ u2e_size \in Int
  BY DEF Types
<1> QED BY <1>1, LoadType DEF Cells, Empty

\* An index of the ring, moved or sought, is one; so is a used size.
LEMMA Indices ==
  ASSUME Types
  PROVE  /\ get_data_buffer_usedsize \in Cells
         /\ \A p \in Cells : Moved(p) \in Cells
         /\ \A n \in Nat : (wr + n) % Size \in Cells
<1>1. Size \in Nat /\ Size > 1 /\ wr \in Nat /\ rd \in Nat /\ rd < Size
  BY LoadType DEF Types, Cells
<1>2. \A x \in Nat : x % Size \in Cells
  BY <1>1 DEF Cells
<1>3. Size + wr - rd \in Nat
  BY <1>1
<1>4. \A p \in Cells : p + 1 \in Nat
  BY DEF Cells
<1>5. \A n \in Nat : wr + n \in Nat
  BY <1>1
<1> QED BY <1>2, <1>3, <1>4, <1>5 DEF get_data_buffer_usedsize, Moved

\* Putting bytes, or flushing, leaves a ring of bytes.
LEMMA PutAllType ==
  ASSUME Types, NEW q \in Seq(Bytes), PutAll(q)
  PROVE  ring' \in [Cells -> Bytes \cup {Stale}] /\ wr' \in Cells /\ rd' \in Cells
<1>1. wr' \in Cells /\ rd' \in Cells
  BY Indices DEF PutAll, Types
<1>2. ASSUME NEW k \in Cells PROVE ring'[k] \in Bytes \cup {Stale}
  <2> DEFINE P(n) == (wr + n - 1) % Size = k
  <2>1. ring'[k] = IF \E n \in 1..Len(q) : P(n) THEN q[CHOOSE n \in 1..Len(q) : P(n)] ELSE ring[k]
    BY DEF PutAll, Cells
  <2> HIDE DEF P
  <2>2. CASE \E n \in 1..Len(q) : P(n)
    <3>1. (CHOOSE n \in 1..Len(q) : P(n)) \in 1..Len(q)
      BY <2>2
    <3> QED BY <2>1, <2>2, <3>1
  <2>3. CASE ~(\E n \in 1..Len(q) : P(n))
    BY <2>1, <2>3 DEF Types
  <2> QED BY <2>2, <2>3
<1>3. ring' = [k \in Cells |-> ring'[k]]
  BY DEF PutAll, Cells
<1> QED BY <1>1, <1>2, <1>3

\* An emptied ring is a ring.
LEMMA FlushType ==
  ASSUME Types, data_buffer_flush
  PROVE  ring' \in [Cells -> Bytes \cup {Stale}] /\ wr' \in Cells /\ rd' \in Cells
<1>1. 0 \in Cells
  BY LoadType DEF Types, Cells
<1> QED BY <1>1 DEF data_buffer_flush, Empty, Cells

-----------------------------------------------------------------------------
(* The interrupts.                                                         *)

\* A byte that is received, and what it makes of a part of an escape sequence.
LEMMA ReceiveTypes ==
  ASSUME Types, Receive
  PROVE  Types'
<1>1. PICK kind \in load.kinds :
      LET ch   == [id |-> next, kind |-> kind]
          back == Restored(ch)
          full == is_data_buffer_full(Len(back))
      IN  /\ isr = Idle /\ Listening
          /\ next' = IF Counted THEN (next + 1) % Ids ELSE next
          /\ modeswitch_time' = IF opmode = "GW" THEN 0 ELSE modeswitch_time
          /\ trigger' = IF Continues(ch) THEN Append(trigger, Stored(ch))
                        ELSE IF Breaks(ch) THEN <<>> ELSE trigger
          /\ enable_modeswitch_timer' =
               IF Continues(ch) /\ trigger = <<>> THEN TRUE
               ELSE IF Breaks(ch) THEN FALSE ELSE enable_modeswitch_timer
          /\ IF Swallows(ch) \/ ~full THEN PutAll(back) ELSE data_buffer_flush
          /\ isr' = IF ~Swallows(ch) /\ check_serial_store_permitted
                    THEN [at |-> wr', ch |-> Stored(ch)] ELSE Idle
          /\ UNCHANGED <<load, user, mode, sw_modeswitch_at_mode_on, delimit, sems,
                         u2e, seg, segcp>>
  BY DEF Receive
<1> DEFINE ch   == [id |-> next, kind |-> kind]
           back == Restored(ch)
<1>2. Stored(ch) \in Bytes
  BY LoadType DEF Types, Stored, Bytes
<1>3. back \in Seq(Bytes)
  BY DEF Restored, Types
<1>4. ring' \in [Cells -> Bytes \cup {Stale}] /\ wr' \in Cells /\ rd' \in Cells
  BY <1>1, <1>3, PutAllType, FlushType
<1>5. next' \in 0..(Ids - 1)
  <2>1. next + 1 \in Nat /\ Ids \in Nat /\ Ids > 0
    BY LoadType DEF Types
  <2> QED BY <1>1, <2>1 DEF Types
<1>6. modeswitch_time' \in 0..Gap /\ enable_modeswitch_timer' \in BOOLEAN
  <2>1. 0 \in 0..Gap /\ modeswitch_time \in 0..Gap /\ enable_modeswitch_timer \in BOOLEAN
    BY LoadType DEF Types
  <2>2. modeswitch_time' = 0 \/ modeswitch_time' = modeswitch_time
    BY <1>1
  <2>3. enable_modeswitch_timer' = TRUE \/ enable_modeswitch_timer' = FALSE
          \/ enable_modeswitch_timer' = enable_modeswitch_timer
    BY <1>1, Zenon
  <2>4. enable_modeswitch_timer' \in BOOLEAN
    BY <2>1, <2>3, Zenon
  <2> QED BY <2>1, <2>2, <2>4
<1>7. trigger' \in Seq(Bytes) /\ Len(trigger') <= 3
  <2>1. CASE Continues(ch)
    <3>1. trigger' = Append(trigger, Stored(ch)) /\ Len(trigger) # 3
      BY <1>1, <2>1 DEF Continues
    <3>2. trigger \in Seq(Bytes) /\ Len(trigger) <= 3 /\ Len(trigger) \in Nat
      BY DEF Types
    <3>3. \A b \in Bytes : /\ Append(trigger, b) \in Seq(Bytes)
                            /\ Len(Append(trigger, b)) = Len(trigger) + 1
      BY <3>2
    <3> HIDE DEF ch
    <3> DEFINE n == Len(trigger)
    <3>4. n \in Nat /\ n <= 3 /\ n # 3
      BY <3>1, <3>2
    <3> HIDE DEF n
    <3>5. n + 1 <= 3
      BY <3>4
    <3> QED BY <1>2, <3>1, <3>3, <3>5 DEF n
  <2>2. CASE ~Continues(ch)
    BY <1>1, <2>2 DEF Types
  <2> QED BY <2>1, <2>2
<1>8. isr' \in [at : Cells, ch : Bytes] \cup {Idle}
  BY <1>1, <1>2, <1>4
<1>9. load' = load /\ UNCHANGED <<user, mode, sw_modeswitch_at_mode_on, delimit, sems, u2e, seg, segcp>>
  BY <1>1
<1>10. /\ Size' = Size /\ SendSize' = SendSize /\ Gap' = Gap
      /\ Bytes' = Bytes /\ Cells' = Cells /\ Anybody' = Anybody
  BY <1>9 DEF Size, SendSize, Gap, Bytes, Cells, Anybody
<1> QED BY <1>4, <1>5, <1>6, <1>7, <1>8, <1>9, <1>10 DEF Types, user, mode, delimit, sems

\* The interrupt handler keeps the types as it stores a byte.
LEMMA StoreTypes ==
  ASSUME Types, Store
  PROVE  Types'
<1>1. isr \in [at : Cells, ch : Bytes] /\ load \in Loads
  BY DEF Types, Store
<1>2. ring' \in [Cells -> Bytes \cup {Stale}] /\ wr' \in Cells /\ isr' = Idle
  BY <1>1, Indices DEF Types, Store
<1>3. /\ serial_input_time' \in 0..load.time /\ enable_serial_input_timer' \in BOOLEAN
      /\ flag_serial_input_time_elapse' \in BOOLEAN
  <2>1. /\ load.time \in Nat /\ serial_input_time \in 0..load.time
        /\ enable_serial_input_timer \in BOOLEAN /\ flag_serial_input_time_elapse \in BOOLEAN
    BY LoadType DEF Types
  <2>2. 0 \in 0..load.time
    BY <2>1
  <2>3. serial_input_time' = 0 \/ serial_input_time' = serial_input_time
    BY DEF Store, InitTimeDelimiter, delimit
  <2>4. /\ enable_serial_input_timer' = TRUE \/ enable_serial_input_timer' = enable_serial_input_timer
        /\ flag_serial_input_time_elapse' = flag_serial_input_time_elapse
    BY DEF Store, InitTimeDelimiter, delimit
  <2>5. enable_serial_input_timer' \in BOOLEAN
    BY <2>1, <2>4, Zenon
  <2> QED BY <2>1, <2>2, <2>3, <2>4, <2>5
<1>4. seg_u2e_sem' \in BOOLEAN /\ segcp_uart_sem' \in BOOLEAN
  BY DEF Types, Store
<1>5. UNCHANGED <<load, rd, user, mode, escape, seg_critical_sem, u2e, seg, segcp, next>>
  BY DEF Store
<1>6. /\ Size' = Size /\ SendSize' = SendSize /\ Gap' = Gap
      /\ Bytes' = Bytes /\ Cells' = Cells /\ Anybody' = Anybody
  BY <1>5 DEF Size, SendSize, Gap, Bytes, Cells, Anybody
<1> QED BY <1>2, <1>3, <1>4, <1>5, <1>6 DEF Types, user, mode, escape

\* The millisecond timer keeps the types.
LEMMA TimerTypes ==
  ASSUME Types, seg_timer_msec
  PROVE  Types'
<1>1. load \in Loads /\ load' = load
  BY DEF Types, seg_timer_msec
<1>2. ring' \in [Cells -> Bytes \cup {Stale}] /\ wr' \in Cells /\ rd' \in Cells
  BY PutAllType DEF Types, seg_timer_msec, buffer
<1>3. /\ serial_input_time' \in 0..load.time /\ enable_serial_input_timer' \in BOOLEAN
      /\ flag_serial_input_time_elapse' \in BOOLEAN
  <2>1. /\ load.time \in Nat /\ serial_input_time \in 0..load.time
        /\ enable_serial_input_timer \in BOOLEAN /\ flag_serial_input_time_elapse \in BOOLEAN
    BY LoadType DEF Types
  <2>2. serial_input_time' \in 0..load.time
    BY <2>1 DEF seg_timer_msec, TimeUp, delimit
  <2>3. enable_serial_input_timer' \in BOOLEAN /\ flag_serial_input_time_elapse' \in BOOLEAN
    BY <2>1, Zenon DEF seg_timer_msec, TimeUp, delimit
  <2> QED BY <2>2, <2>3
<1>4. seg_u2e_sem' \in BOOLEAN /\ segcp_uart_sem' \in BOOLEAN /\ sw_modeswitch_at_mode_on' \in BOOLEAN
  BY DEF Types, seg_timer_msec, TimeUp
<1>5. /\ modeswitch_time' \in 0..Gap /\ enable_modeswitch_timer' \in BOOLEAN
      /\ trigger' \in Seq(Bytes) /\ Len(trigger') <= 3
  <2>1. /\ Gap \in Nat /\ modeswitch_time \in 0..Gap /\ enable_modeswitch_timer \in BOOLEAN
        /\ trigger \in Seq(Bytes) /\ Len(trigger) <= 3
    BY LoadType DEF Types
  <2>2. GapTime \in 0..Gap
    BY <2>1 DEF GapTime
  <2>3. modeswitch_time' \in 0..Gap /\ (trigger' = <<>> \/ trigger' = trigger)
    BY <2>2 DEF seg_timer_msec
  <2>4. enable_modeswitch_timer' \in BOOLEAN
    BY <2>1, Zenon DEF seg_timer_msec
  <2>5. <<>> \in Seq(Bytes) /\ Len(<<>>) = 0
    OBVIOUS
  <2>6. trigger' \in Seq(Bytes) /\ Len(trigger') <= 3
    <3>1. CASE trigger' = trigger
      BY <2>1, <3>1
    <3>2. CASE trigger' = <<>>
      BY <2>5, <3>2
    <3> QED BY <2>3, <3>1, <3>2
  <2> QED BY <2>3, <2>4, <2>6
<1>6. UNCHANGED <<load, user, mode, seg_critical_sem, isr, u2e, seg, segcp, next>>
  BY DEF seg_timer_msec
<1>7. /\ load' \in Loads /\ Size' = Size /\ SendSize' = SendSize /\ Gap' = Gap
      /\ Bytes' = Bytes /\ Cells' = Cells /\ Anybody' = Anybody
  BY <1>1 DEF Size, SendSize, Gap, Bytes, Cells, Anybody
<1> QED BY <1>1, <1>2, <1>3, <1>4, <1>5, <1>6, <1>7 DEF Types, user, mode

\* The interrupts touch neither seg_critical_sem nor g_send_buf.
LEMMA InterruptStep ==
  ASSUME IInv, Receive \/ Store \/ seg_timer_msec
  PROVE  IInv'
<1>1. Types'
  BY ReceiveTypes, StoreTypes, TimerTypes DEF IInv
<1>2. UNCHANGED <<load, g_send_buf, u2e_size, working_state, opmode, seg_critical_sem, u2e, seg>>
  BY DEF Receive, Store, seg_timer_msec, user, mode, sems
<1> QED BY <1>1, <1>2 DEF IInv, Locked, Room, Switched, SendBufInBounds, SendSize, pack

-----------------------------------------------------------------------------
(* seg_u2e_task.                                                           *)

\* The record of its local variables, and the other variables it changes.
Locals == [pc : Places, len : Nat, i : Nat, r : Cells, ch : Anybody]
Changed ==
  /\ ring \in [Cells -> Bytes \cup {Stale}] /\ rd \in Cells /\ wr \in Cells
  /\ g_send_buf \in [0..SendSize -> Anybody] /\ u2e_size \in Int
  /\ serial_input_time \in 0..load.time /\ enable_serial_input_timer \in BOOLEAN
  /\ flag_serial_input_time_elapse \in BOOLEAN
  /\ seg_u2e_sem \in BOOLEAN /\ seg_critical_sem \in {"free", "u2e", "seg"}

\* What the steps of the task start from.
LEMMA LocalsType == Types => Changed /\ u2e \in Locals
BY DEF Types, Changed, Locals

\* A step that changes nothing else keeps the types.
LEMMA OthersTypes ==
  ASSUME Types, Others, Changed', u2e' \in Locals
  PROVE  Types'
<1>1. /\ load' = load /\ Size' = Size /\ SendSize' = SendSize /\ Gap' = Gap
      /\ Bytes' = Bytes /\ Cells' = Cells /\ Anybody' = Anybody
  BY DEF Others, Size, SendSize, Gap, Bytes, Cells, Anybody
<1> QED BY <1>1 DEF Types, Changed, Locals, Others, mode, escape

\* Records of Locals: those it begins anew, and those it goes on with.
LEMMA LocalsExcept ==
  ASSUME Types, NEW p \in Places, NEW n \in Nat, NEW k \in Nat, NEW c \in Cells, NEW b \in Anybody
  PROVE  /\ Waiting \in Locals /\ [Waiting EXCEPT !.pc = p] \in Locals
         /\ [Waiting EXCEPT !.pc = p, !.len = n] \in Locals
         /\ [Waiting EXCEPT !.pc = p, !.len = n, !.i = k] \in Locals
         /\ [u2e EXCEPT !.pc = p] \in Locals
         /\ [u2e EXCEPT !.pc = p, !.i = k] \in Locals
         /\ [u2e EXCEPT !.pc = p, !.len = n] \in Locals
         /\ [u2e EXCEPT !.pc = p, !.len = n, !.i = k] \in Locals
         /\ [u2e EXCEPT !.pc = p, !.r = c, !.ch = b] \in Locals
<1>1. u2e \in Locals /\ 0 \in Cells /\ None \in Anybody
  BY LocalsType, Basics DEF Anybody
<1> QED BY <1>1 DEF Locals, Waiting, Places

\* Taking and giving the semaphores, and the test between them.
LEMMA LockSteps ==
  ASSUME IInv, TakeSem \/ TakeCritical \/ Check \/ Unlock
  PROVE  IInv'
<1>1. Types /\ u2e \in Locals /\ Changed
  BY LocalsType DEF IInv
<1>2. /\ Others /\ UNCHANGED <<buffer, user, delimit>>
  BY DEF TakeSem, TakeCritical, Check, Unlock
<1>3. u2e' \in Locals
  <2>1. \A p \in Places : [u2e EXCEPT !.pc = p] \in Locals
    BY <1>1 DEF Locals
  <2>2. Waiting \in Locals
    BY <1>1, LoadType DEF Waiting, Locals, Types, Cells, Places, Anybody
  <2> QED BY <2>1, <2>2 DEF TakeSem, TakeCritical, Check, Unlock, Places
<1>4. seg_critical_sem' \in {"free", "u2e", "seg"} /\ seg_u2e_sem' \in BOOLEAN
  BY <1>1 DEF TakeSem, TakeCritical, Check, Unlock, Changed
<1>5. Types'
  <2>1. Changed'
    BY <1>1, <1>2, <1>4 DEF Changed, Others, buffer, user, delimit, Cells, Size, SendSize,
       Bytes, Anybody
  <2> QED BY <1>1, <1>2, <1>3, <2>1, OthersTypes
<1>6. UNCHANGED <<load, g_send_buf, u2e_size, working_state, opmode, seg>>
  BY <1>2 DEF Others, user, mode
<1>7. Locked' /\ Room'
  <2>1. CASE TakeSem
    <3>1. u2e'.pc = "lock" /\ u2e'.len = u2e.len /\ u2e'.i = u2e.i /\ u2e.pc = "wait" /\ UNCHANGED seg_critical_sem
      BY <1>1, <2>1 DEF TakeSem, Locals, U2E
    <3> QED BY <1>6, <3>1 DEF IInv, Locked, Room, Switched, SendSize, pack
  <2>2. CASE TakeCritical
    <3>1. /\ u2e'.pc = "check" /\ u2e'.len = u2e.len /\ u2e'.i = u2e.i /\ u2e.pc = "lock"
          /\ seg_critical_sem = "free" /\ seg_critical_sem' = "u2e"
      BY <1>1, <2>2 DEF TakeCritical, Locals, U2E
    <3> QED BY <1>6, <3>1 DEF IInv, Locked, Room, Switched, SendSize, pack
  <2>3. CASE Check
    <3>1. /\ u2e'.pc = "unlock" \/ (u2e'.pc = "get" /\ working_state = "CONNECT")
          /\ u2e'.len = u2e.len /\ u2e'.i = u2e.i /\ u2e.pc = "check" /\ UNCHANGED seg_critical_sem
      BY <1>1, <2>3 DEF Check, Locals, U2E
    <3> QED BY <1>6, <3>1 DEF IInv, Locked, Room, Switched, SendSize, pack
  <2>4. CASE Unlock
    <3>1. /\ u2e'.pc = "wait" /\ u2e'.len = 0 /\ u2e'.i = 0 /\ u2e.pc = "unlock"
          /\ seg_critical_sem' = "free"
      BY <2>4 DEF Unlock, Waiting, U2E
    <3>2. SendSize \in Nat
      BY <1>1, LoadType DEF Types
    <3> QED BY <1>6, <3>1, <3>2 DEF IInv, Locked, Room, Switched, SendSize, pack
  <2> QED BY <2>1, <2>2, <2>3, <2>4
<1> QED BY <1>5, <1>6, <1>7 DEF IInv, SendBufInBounds, pack, SendSize

\* How much the copying loop is to take.
LEMMA GetLenStep ==
  ASSUME IInv, GetLen
  PROVE  IInv'
<1> DEFINE used == get_data_buffer_usedsize
           full == used + u2e_size >= SendSize
           len  == IF full THEN SendSize - u2e_size ELSE used
<1>1. /\ Types /\ u2e \in Locals /\ Changed /\ Others /\ u2e.pc = "get"
      /\ UNCHANGED <<buffer, user, delimit, seg_u2e_sem, seg_critical_sem>>
      /\ UNCHANGED <<load, g_send_buf, u2e_size, working_state, opmode, seg>>
  BY LocalsType DEF IInv, GetLen, U2E, Others, user, mode
<1>2. used \in Nat /\ SendSize \in Nat /\ SendSize > 0 /\ u2e_size \in Int /\ 0 <= u2e_size /\ u2e_size <= SendSize
  <2>1. used \in Nat /\ SendSize \in Nat /\ SendSize > 0 /\ u2e_size \in Int
    BY <1>1, Indices, Basics DEF Cells
  <2> HIDE DEF used
  <2> QED BY <1>1, <2>1 DEF IInv, Room, Switched
<1>3. u2e' = IF full /\ pack = "delim" /\ used = 1
             THEN [u2e EXCEPT !.pc = "first"]
             ELSE [u2e EXCEPT !.pc = Loop(0, len), !.len = len, !.i = 0]
  BY DEF GetLen
<1>4. len \in Nat /\ u2e_size + len <= SendSize
  BY <1>2
<1> HIDE DEF used, full, len
<1>5. \/ u2e'.pc = "first" /\ pack = "delim" /\ u2e'.len = u2e.len /\ u2e'.i = u2e.i
      \/ /\ u2e'.pc = IF 0 < len THEN "getc" ELSE "packed"
         /\ u2e'.len = len /\ u2e'.i = 0
  BY <1>1, <1>3 DEF Locals, Loop
<1>6. u2e' \in Locals
  BY <1>1, <1>3, <1>4 DEF Locals, Loop, Places
<1>7. Types'
  <2>1. Changed'
    BY <1>1 DEF Changed, buffer, user, delimit, Cells, Size, SendSize, Bytes, Anybody
  <2> QED BY <1>1, <1>6, <2>1, OthersTypes
<1>8. Locked'
  BY <1>1, <1>5 DEF IInv, Locked
<1>9. Room'
  <2>1. SendSize' = SendSize /\ pack' = pack
    BY <1>1 DEF SendSize, pack
  <2> QED BY <1>1, <1>2, <1>4, <1>5, <2>1 DEF IInv, Room, Switched
<1> QED BY <1>1, <1>7, <1>8, <1>9 DEF IInv, SendBufInBounds, pack, SendSize

\* A byte is read from the ring.
LEMMA GetcStep ==
  ASSUME IInv, Getc("getc", "move") \/ Getc("first", "move1")
  PROVE  IInv'
<1>1. /\ Types /\ u2e \in Locals /\ Changed /\ Others
      /\ UNCHANGED <<rd, wr, user, delimit, seg_u2e_sem, seg_critical_sem>>
      /\ UNCHANGED <<load, g_send_buf, u2e_size, working_state, opmode, seg>>
      /\ ring' = [ring EXCEPT ![rd] = Stale]
  BY LocalsType DEF IInv, Getc, Others, user, mode
<1>2. ring[rd] \in Anybody /\ rd \in Cells
  BY <1>1 DEF Changed, Anybody
<1>3. \/ u2e.pc = "getc" /\ u2e' = [u2e EXCEPT !.pc = "move", !.r = rd, !.ch = ring[rd]]
      \/ u2e.pc = "first" /\ u2e' = [u2e EXCEPT !.pc = "move1", !.r = rd, !.ch = ring[rd]]
  BY DEF Getc, U2E
<1>4. /\ u2e'.len = u2e.len /\ u2e'.i = u2e.i
      /\ (u2e.pc = "getc" /\ u2e'.pc = "move") \/ (u2e.pc = "first" /\ u2e'.pc = "move1")
  BY <1>1, <1>3 DEF Locals
<1>5. u2e' \in Locals
  BY <1>1, <1>2, <1>3 DEF Locals, Places
<1>6. Types'
  <2>1. ring' \in [Cells -> Bytes \cup {Stale}]
    BY <1>1 DEF Changed
  <2>2. Changed'
    BY <1>1, <2>1 DEF Changed, user, delimit, Cells, Size, SendSize, Bytes, Anybody
  <2> QED BY <1>1, <1>5, <2>2, OthersTypes
<1>7. Locked'
  BY <1>1, <1>4 DEF IInv, Locked
<1>8. Room'
  <2>1. SendSize' = SendSize /\ pack' = pack
    BY <1>1 DEF SendSize, pack
  <2> QED BY <1>1, <1>4, <2>1 DEF IInv, Room, Switched
<1> QED BY <1>1, <1>6, <1>7, <1>8 DEF IInv, SendBufInBounds, pack, SendSize

\* The byte is written to g_send_buf: Room says that there is a place for it.
LEMMA CopyStep ==
  ASSUME IInv, Copy
  PROVE  IInv'
<1> DEFINE ends == \/ pack = "delim" /\ u2e.ch.kind = "delim"
                   \/ pack = "size" /\ u2e_size + 1 = load.bytes
<1>1. /\ Types /\ u2e \in Locals /\ Changed /\ Others /\ u2e.pc = "move"
      /\ UNCHANGED <<ring, wr, delimit, seg_u2e_sem, seg_critical_sem>>
      /\ UNCHANGED <<load, working_state, opmode, seg>>
      /\ rd' = Moved(u2e.r) /\ g_send_buf' = [g_send_buf EXCEPT ![u2e_size] = u2e.ch]
      /\ u2e_size' = u2e_size + 1
  BY LocalsType DEF IInv, Copy, U2E, Others, mode
<1>2. /\ SendSize \in Nat /\ u2e_size \in Nat /\ u2e_size < SendSize /\ u2e.len \in Nat /\ u2e.i \in Nat
      /\ u2e.i < u2e.len /\ u2e_size + (u2e.len - u2e.i) <= SendSize /\ u2e.len <= SendSize
      /\ u2e.ch \in Anybody /\ u2e.r \in Cells
  BY <1>1, Basics DEF IInv, Room, Locals
<1>3. u2e' = IF ends THEN [Waiting EXCEPT !.pc = "clear", !.len = u2e_size + 1]
             ELSE [Waiting EXCEPT !.pc = Loop(u2e.i + 1, u2e.len), !.len = u2e.len, !.i = u2e.i + 1]
  BY DEF Copy
<1> HIDE DEF ends
<1>4. \/ u2e'.pc = "clear" /\ u2e'.len = u2e_size + 1 /\ u2e'.i = 0
      \/ /\ u2e'.pc = IF u2e.i + 1 < u2e.len THEN "getc" ELSE "packed"
         /\ u2e'.len = u2e.len /\ u2e'.i = u2e.i + 1
  BY <1>3 DEF Waiting, Loop
<1>5. u2e' \in Locals
  <2>1. u2e_size + 1 \in Nat /\ u2e.i + 1 \in Nat /\ Loop(u2e.i + 1, u2e.len) \in Places
    BY <1>2 DEF Loop, Places
  <2>2. 0 \in Cells
    BY <1>1, Basics
  <2> QED BY <1>2, <1>3, <2>1, <2>2 DEF Locals, Waiting, Places, Anybody
<1>6. Types'
  <2>1. rd' \in Cells /\ g_send_buf' \in [0..SendSize -> Anybody] /\ u2e_size' \in Int
    BY <1>1, <1>2, Indices DEF Changed
  <2>2. Changed'
    BY <1>1, <2>1 DEF Changed, delimit, Cells, Size, SendSize, Bytes, Anybody
  <2> QED BY <1>1, <1>5, <2>2, OthersTypes
<1>7. Locked'
  BY <1>1, <1>4 DEF IInv, Locked
<1>8. Room'
  <2>1. SendSize' = SendSize /\ pack' = pack
    BY <1>1 DEF SendSize, pack
  <2> QED BY <1>1, <1>2, <1>4, <2>1 DEF IInv, Room, Switched
<1>9. SendBufInBounds'
  <2>1. g_send_buf'[SendSize] = g_send_buf[SendSize]
    BY <1>1, <1>2 DEF Changed
  <2> QED BY <1>1, <2>1 DEF IInv, SendBufInBounds, pack, SendSize
<1> QED BY <1>6, <1>7, <1>8, <1>9 DEF IInv

\* The one byte looked at with a full g_send_buf: only with a delimiter, for which
\* SendBufInBounds claims nothing.
LEMMA CopyFirstStep ==
  ASSUME IInv, CopyFirst
  PROVE  IInv'
<1> DEFINE len == SendSize - u2e_size
<1>1. /\ Types /\ u2e \in Locals /\ Changed /\ Others /\ u2e.pc = "move1"
      /\ UNCHANGED <<ring, wr, u2e_size, delimit, seg_u2e_sem, seg_critical_sem>>
      /\ UNCHANGED <<load, working_state, opmode, seg>>
      /\ rd' = Moved(u2e.r) /\ g_send_buf' = [g_send_buf EXCEPT ![u2e_size] = u2e.ch]
  BY LocalsType DEF IInv, CopyFirst, U2E, Others, mode
<1>2. /\ SendSize \in Nat /\ u2e_size \in Nat /\ u2e_size <= SendSize /\ u2e.len \in Nat
      /\ u2e.i = 0 /\ u2e.ch \in Anybody /\ u2e.r \in Cells /\ pack = "delim"
  BY <1>1, Basics DEF IInv, Room, Locals
<1>3. u2e' = IF u2e.ch.kind = "delim"
             THEN [u2e EXCEPT !.pc = IF u2e_size > 0 THEN "clear" ELSE "unlock", !.len = u2e_size]
             ELSE [Waiting EXCEPT !.pc = Loop(0, len), !.len = len]
  BY DEF CopyFirst
<1>4. len \in Nat /\ u2e_size + len <= SendSize /\ len <= SendSize
  BY <1>2
<1> HIDE DEF len
<1>5. \/ /\ u2e'.pc = IF u2e_size > 0 THEN "clear" ELSE "unlock"
         /\ u2e'.len = u2e_size /\ u2e'.i = 0
      \/ u2e'.pc = (IF 0 < len THEN "getc" ELSE "packed") /\ u2e'.len = len /\ u2e'.i = 0
  BY <1>1, <1>2, <1>3 DEF Waiting, Loop, Locals
<1>6. u2e' \in Locals
  <2>1. 0 \in Cells /\ Loop(0, len) \in Places
    BY <1>1, Basics DEF Loop, Places
  <2>2. [u2e EXCEPT !.pc = IF u2e_size > 0 THEN "clear" ELSE "unlock", !.len = u2e_size] \in Locals
    BY <1>1, <1>2 DEF Locals, Places
  <2>3. [Waiting EXCEPT !.pc = Loop(0, len), !.len = len] \in Locals
    BY <1>4, <2>1 DEF Locals, Waiting, Anybody
  <2> QED BY <1>3, <2>2, <2>3
<1>7. Types'
  <2>1. rd' \in Cells /\ g_send_buf' \in [0..SendSize -> Anybody]
    BY <1>1, <1>2, Indices DEF Changed
  <2>2. Changed'
    BY <1>1, <2>1 DEF Changed, delimit, Cells, Size, SendSize, Bytes, Anybody
  <2> QED BY <1>1, <1>6, <2>2, OthersTypes
<1>8. Locked'
  BY <1>1, <1>5 DEF IInv, Locked
<1>9. Room' /\ SendBufInBounds'
  <2>1. SendSize' = SendSize /\ pack' = pack
    BY <1>1 DEF SendSize, pack
  <2> QED BY <1>1, <1>2, <1>4, <1>5, <2>1 DEF IInv, Room, Switched, SendBufInBounds
<1> QED BY <1>7, <1>8, <1>9 DEF IInv

\* The loop is over, the time delimiter is cleared, the send is tried.
LEMMA SendSteps ==
  ASSUME IInv, Packed \/ ClearDelimiter \/ Send
  PROVE  IInv'
<1>1. /\ Types /\ u2e \in Locals /\ Changed /\ Others
      /\ UNCHANGED <<buffer, user, seg_u2e_sem, seg_critical_sem>>
      /\ UNCHANGED <<load, g_send_buf, u2e_size, working_state, opmode, seg>>
  BY LocalsType DEF IInv, Packed, ClearDelimiter, Send, Others, user, mode
<1>2. /\ SendSize \in Nat /\ u2e_size \in Int /\ u2e_size <= SendSize /\ u2e.len \in Nat /\ u2e.i \in Nat
      /\ load.time \in Nat
  <2>1. load \in Loads /\ load.time \in Nat
    BY <1>1, Basics, LoadType
  <2> QED BY <1>1, <2>1, Basics DEF IInv, Room, Locals
<1>3. /\ serial_input_time' \in 0..load.time /\ enable_serial_input_timer' \in BOOLEAN
      /\ flag_serial_input_time_elapse' \in BOOLEAN
  <2>1. serial_input_time \in 0..load.time /\ 0 \in 0..load.time
    BY <1>1, <1>2 DEF Changed
  <2>2. serial_input_time' \in 0..load.time
    BY <2>1 DEF Packed, ClearDelimiter, Send, delimit
  <2>3. enable_serial_input_timer \in BOOLEAN /\ flag_serial_input_time_elapse \in BOOLEAN
    BY <1>1 DEF Changed
  <2>4. enable_serial_input_timer' \in BOOLEAN /\ flag_serial_input_time_elapse' \in BOOLEAN
    <3>1. CASE Packed
      BY <2>3, <3>1, Zenon DEF Packed
    <3>2. CASE ClearDelimiter \/ Send
      BY <2>3, <3>2 DEF ClearDelimiter, Send, delimit
    <3> QED BY <3>1, <3>2
  <2> QED BY <2>2, <2>4
<1>4. u2e' \in Locals /\ Locked' /\ Room'
  <2>0. SendSize' = SendSize /\ pack' = pack
    BY <1>1 DEF SendSize, pack
  <2>1. CASE Packed
    <3>1. u2e.pc = "packed" /\ u2e_size >= 0
      BY <1>2, <2>1 DEF Packed, U2E, IInv, Room
    <3>2. \/ u2e' = [Waiting EXCEPT !.pc = "clear", !.len = u2e_size]
          \/ u2e' = [Waiting EXCEPT !.pc = "unlock", !.len = 0]
      BY <2>1 DEF Packed
    <3>3. \/ u2e'.pc = "clear" /\ u2e'.len = u2e_size /\ u2e'.i = 0
          \/ u2e'.pc = "unlock" /\ u2e'.len = 0 /\ u2e'.i = 0
      BY <3>2 DEF Waiting
    <3>4. u2e' \in Locals
      <4>1. 0 \in Cells /\ u2e_size \in Nat
        BY <1>1, <1>2, <3>1, LoadType DEF Types, Cells
      <4>2. [Waiting EXCEPT !.pc = "clear", !.len = u2e_size] \in Locals
        BY <4>1 DEF Locals, Waiting, Places, Anybody
      <4>3. [Waiting EXCEPT !.pc = "unlock", !.len = 0] \in Locals
        BY <4>1 DEF Locals, Waiting, Places, Anybody
      <4> QED BY <3>2, <4>2, <4>3
    <3> QED BY <1>1, <1>2, <2>0, <3>1, <3>3, <3>4 DEF IInv, Locked, Room, Switched
  <2>2. CASE ClearDelimiter
    <3>1. u2e.pc = "clear" /\ u2e' = [u2e EXCEPT !.pc = "send"]
      BY <2>2 DEF ClearDelimiter, U2E
    <3>2. u2e' \in Locals /\ u2e'.pc = "send" /\ u2e'.len = u2e.len /\ u2e'.i = u2e.i
      BY <1>1, <3>1 DEF Locals, Places
    <3> QED BY <1>1, <1>2, <2>0, <3>1, <3>2 DEF IInv, Locked, Room, Switched
  <2>3. CASE Send
    <3>1. PICK n \in {u2e.len, 0} : u2e.pc = "send" /\ u2e' = [u2e EXCEPT !.pc = "sent", !.i = n]
      BY <2>3 DEF Send, U2E
    <3>2. n \in Nat
      BY <1>2
    <3>3. u2e' \in Locals /\ u2e'.pc = "sent" /\ u2e'.len = u2e.len /\ u2e'.i = n
      BY <1>1, <3>1, <3>2 DEF Locals, Places
    <3> QED BY <1>1, <1>2, <2>0, <3>1, <3>3 DEF IInv, Locked, Room, Switched
  <2> QED BY <2>1, <2>2, <2>3
<1>5. Types'
  <2>1. Changed'
    BY <1>1, <1>3 DEF Changed, buffer, Cells, Size, SendSize, Bytes, Anybody
  <2> QED BY <1>1, <1>4, <2>1, OthersTypes
<1> QED BY <1>1, <1>4, <1>5 DEF IInv, SendBufInBounds, pack, SendSize

\* What has been sent is taken off the size: below zero, when the switch to command
\* mode has set the size to zero in between.
LEMMA SentStep ==
  ASSUME IInv, Sent
  PROVE  IInv'
<1>1. /\ Types /\ u2e \in Locals /\ Changed /\ Others /\ u2e.pc = "sent"
      /\ UNCHANGED <<buffer, delimit, seg_u2e_sem, seg_critical_sem>>
      /\ UNCHANGED <<load, working_state, opmode, seg>>
      /\ u2e_size' = u2e_size - u2e.i /\ g_send_buf' = IF u2e.i > 0 THEN NoBytes ELSE g_send_buf
      /\ u2e' = [Waiting EXCEPT !.pc = "unlock"]
  BY LocalsType DEF IInv, Sent, U2E, Others, mode
<1>2. /\ SendSize \in Nat /\ u2e_size \in Int /\ u2e.len \in Nat /\ u2e.i \in Nat /\ u2e_size >= 0
      /\ u2e.i \in {0, u2e.len} /\ u2e.len <= SendSize
      /\ u2e_size = u2e.len \/ (u2e_size = 0 /\ Switched)
  BY <1>1, Basics DEF IInv, Room, Locals
<1>3. u2e' \in Locals /\ u2e'.pc = "unlock" /\ u2e'.len = 0 /\ u2e'.i = 0
  <2>1. 0 \in Cells
    BY <1>1, Basics
  <2> QED BY <1>1, <2>1 DEF Locals, Waiting, Places, Anybody
<1>4. /\ g_send_buf' \in [0..SendSize -> Anybody]
      /\ g_send_buf'[SendSize] = None \/ g_send_buf'[SendSize] = g_send_buf[SendSize]
  BY <1>1, <1>2 DEF NoBytes, Anybody, Changed
<1>5. Types'
  <2>1. u2e_size' \in Int
    BY <1>1, <1>2
  <2>2. Changed'
    BY <1>1, <1>4, <2>1 DEF Changed, buffer, delimit, Cells, Size, SendSize, Bytes, Anybody
  <2> QED BY <1>1, <1>3, <2>2, OthersTypes
<1>6. SendSize' = SendSize /\ pack' = pack
  BY <1>1 DEF SendSize, pack
<1>7. Locked' /\ Room'
  BY <1>1, <1>2, <1>3, <1>6 DEF IInv, Locked, Room, Switched
<1>8. SendBufInBounds'
  BY <1>4, <1>6 DEF IInv, SendBufInBounds
<1> QED BY <1>5, <1>7, <1>8 DEF IInv

-----------------------------------------------------------------------------
(* seg_task and segcp_serial_task.                                         *)

\* A connection begins and ends with seg_critical_sem free or in seg_task's hands.
LEMMA SegStep ==
  ASSUME IInv, seg_task
  PROVE  IInv'
<1>1. /\ Types /\ 0 \in Cells /\ SendSize \in Nat /\ 0 \in 0..load.time /\ u2e_size \in Int
      /\ Empty \in [Cells -> Bytes \cup {Stale}]
  BY Basics DEF IInv
<1>2. UNCHANGED <<load, g_send_buf, opmode, escape, seg_u2e_sem, segcp_uart_sem, isr, u2e, segcp, next>>
  BY DEF seg_task, Accept, Flushed, Connected, Closed, SegFrame
<1>3. /\ Size' = Size /\ SendSize' = SendSize /\ Gap' = Gap /\ pack' = pack
      /\ Bytes' = Bytes /\ Cells' = Cells /\ Anybody' = Anybody
  BY <1>2 DEF Size, SendSize, Gap, Bytes, Cells, Anybody, pack
<1>4. /\ ring' \in [Cells -> Bytes \cup {Stale}] /\ rd' \in Cells /\ wr' \in Cells
  BY <1>1 DEF seg_task, Accept, Flushed, Connected, Closed, Types
<1>5. /\ serial_input_time' \in 0..load.time /\ enable_serial_input_timer' \in BOOLEAN
      /\ flag_serial_input_time_elapse' \in BOOLEAN
  BY <1>1 DEF seg_task, Accept, Flushed, Connected, Closed, Types, delimit, reset_SEG_timeflags
<1>6. /\ u2e_size' \in Int /\ working_state' \in {"OPEN", "CONNECT", "ATMODE"}
      /\ seg_critical_sem' \in {"free", "u2e", "seg"} /\ seg' \in {"idle", "flush", "connect"}
  BY <1>1 DEF seg_task, Accept, Flushed, Connected, Closed, Types
<1>7. Types'
  BY <1>1, <1>2, <1>3, <1>4, <1>5, <1>6 DEF Types, escape
<1>8. Locked' /\ Room'
  <2>1. CASE Accept
    BY <1>1, <1>2, <1>3, <2>1 DEF Accept, IInv, Locked, Room, Switched
  <2>2. CASE Flushed
    BY <1>1, <1>2, <1>3, <2>2 DEF Flushed, IInv, Locked, Room, Switched
  <2>3. CASE Connected
    BY <1>1, <1>2, <1>3, <2>3 DEF Connected, IInv, Locked, Room, Switched
  <2>4. CASE Closed
    BY <1>1, <1>2, <1>3, <2>4 DEF Closed, IInv, Locked, Room, Switched
  <2> QED BY <2>1, <2>2, <2>3, <2>4 DEF seg_task
<1> QED BY <1>2, <1>3, <1>7, <1>8 DEF IInv, SendBufInBounds

\* The switch to command mode takes no semaphore before its last step.
LEMMA SegcpStep ==
  ASSUME IInv, segcp_serial_task
  PROVE  IInv'
<1>1. /\ Types /\ 0 \in Cells /\ SendSize \in Nat /\ 0 \in 0..load.time /\ u2e_size \in Int
      /\ Empty \in [Cells -> Bytes \cup {Stale}]
  BY Basics DEF IInv
<1>2. UNCHANGED <<load, g_send_buf, trigger, modeswitch_time, enable_modeswitch_timer, seg_u2e_sem,
                  seg_critical_sem, isr, u2e, seg, next>>
  BY DEF segcp_serial_task, SwitchMode, FlushWr, FlushRd, process_socket_termination, SegcpFrame
<1>3. /\ Size' = Size /\ SendSize' = SendSize /\ Gap' = Gap /\ pack' = pack
      /\ Bytes' = Bytes /\ Cells' = Cells /\ Anybody' = Anybody
  BY <1>2 DEF Size, SendSize, Gap, Bytes, Cells, Anybody, pack
<1>4. /\ ring' \in [Cells -> Bytes \cup {Stale}] /\ rd' \in Cells /\ wr' \in Cells
  BY <1>1 DEF segcp_serial_task, SwitchMode, FlushWr, FlushRd, process_socket_termination, Types
<1>5. /\ serial_input_time' \in 0..load.time /\ enable_serial_input_timer' \in BOOLEAN
      /\ flag_serial_input_time_elapse' \in BOOLEAN
  BY <1>1 DEF segcp_serial_task, SwitchMode, FlushWr, FlushRd, process_socket_termination, Types,
              delimit, reset_SEG_timeflags
<1>6. /\ u2e_size' \in Int /\ working_state' \in {"OPEN", "CONNECT", "ATMODE"} /\ opmode' \in {"GW", "AT"}
      /\ segcp' \in {"idle", "flush", "flushed", "terminate"}
      /\ sw_modeswitch_at_mode_on' \in BOOLEAN /\ segcp_uart_sem' \in BOOLEAN
  BY <1>1 DEF segcp_serial_task, SwitchMode, FlushWr, FlushRd, process_socket_termination,
     Types, mode
<1>7. Types'
  BY <1>1, <1>2, <1>3, <1>4, <1>5, <1>6 DEF Types
<1>8. Locked'
  BY <1>2 DEF IInv, Locked
<1>9. Room'
  <2>1. CASE SwitchMode
    <3>1. /\ u2e_size' = 0 /\ opmode' = "AT" /\ working_state' = "ATMODE"
          /\ u2e.len \in Nat /\ u2e.i \in Nat
      BY <1>1, <2>1 DEF SwitchMode, Types
    <3> QED BY <1>1, <1>2, <1>3, <3>1 DEF IInv, Locked, Room, Switched
  <2>2. CASE FlushWr \/ FlushRd \/ process_socket_termination
    BY <1>1, <1>2, <1>3, <2>2 DEF FlushWr, FlushRd, process_socket_termination, mode, IInv,
       Room, Switched
  <2> QED BY <2>1, <2>2 DEF segcp_serial_task
<1> QED BY <1>2, <1>3, <1>7, <1>8, <1>9 DEF IInv, SendBufInBounds

-----------------------------------------------------------------------------
(* Results.                                                                *)

\* At first nothing is stored, nobody waits and no escape sequence is begun.
LEMMA InitHolds == Init => IInv
<1> SUFFICES ASSUME Init PROVE IInv
  OBVIOUS
<1>1. /\ load \in Loads /\ 0 \in Cells /\ 0 \in 0..load.time /\ 0 \in 0..Gap /\ 0 \in 0..(Ids - 1)
      /\ SendSize \in Nat /\ working_state \in {"OPEN", "CONNECT", "ATMODE"}
  BY LoadType DEF Init, Cells
<1>2. ring \in [Cells -> Bytes \cup {Stale}] /\ g_send_buf \in [0..SendSize -> Anybody]
  BY DEF Init, Empty, Cells, NoBytes, Anybody
<1>3. u2e \in [pc : Places, len : Nat, i : Nat, r : Cells, ch : Anybody]
  BY <1>1 DEF Init, Waiting, Places, Anybody
<1>4. trigger \in Seq(Bytes) /\ Len(trigger) <= 3
  BY DEF Init
<1>5. Types
  BY <1>1, <1>2, <1>3, <1>4 DEF Init, Types
<1>6. Locked /\ Room
  BY <1>1 DEF Init, Waiting, Locked, Room
<1>7. SendBufInBounds
  BY <1>1 DEF Init, NoBytes, SendBufInBounds
<1> QED BY <1>5, <1>6, <1>7 DEF IInv

\* Every step of an interrupt or a task keeps the invariant.
LEMMA Inductive == ASSUME IInv, [Next]_vars PROVE IInv'
<1>1. CASE Next
  <2>1. CASE seg_u2e_task
    BY <2>1, LockSteps, GetLenStep, GetcStep, CopyStep, CopyFirstStep, SendSteps, SentStep
       DEF seg_u2e_task
  <2> QED BY <1>1, <2>1, InterruptStep, SegStep, SegcpStep DEF Next
<1>2. CASE UNCHANGED vars
  <2>1. /\ Size' = Size /\ SendSize' = SendSize /\ Gap' = Gap /\ pack' = pack
        /\ Bytes' = Bytes /\ Cells' = Cells /\ Anybody' = Anybody
    BY <1>2 DEF vars, Size, SendSize, Gap, Bytes, Cells, Anybody, pack
  <2>2. Types'
    BY <1>2, <2>1 DEF vars, buffer, user, mode, escape, delimit, sems, IInv, Types
  <2> QED BY <1>2, <2>1, <2>2 DEF vars, user, mode, sems, IInv, Locked, Room, Switched,
     SendBufInBounds
<1> QED BY <1>1, <1>2

\* So it holds in every state.
LEMMA InvariantHolds == Spec => []IInv
<1>1. Init => IInv
  BY InitHolds
<1>2. IInv /\ [Next]_vars => IInv'
  BY Inductive
<1> QED BY <1>1, <1>2, PTL DEF Spec

\* Every variable of the serial path keeps its type: the indices stay in the ring
\* (bufferHandler.h), u2e_size between minus and plus the size of g_send_buf.
THEOREM TypeCorrect == Spec => []TypeOK
<1>1. IInv => TypeOK
  <2> SUFFICES ASSUME IInv PROVE TypeOK
    OBVIOUS
  <2>1. /\ Types /\ Size \in Nat /\ SendSize \in Nat /\ u2e_size \in -SendSize..SendSize
    BY Basics DEF IInv, Room
  <2>2. u2e.len \in 0..(Size + SendSize) /\ u2e.i \in 0..(Size + SendSize) /\ u2e.r \in 0..(Size - 1)
    BY <2>1 DEF IInv, Room, Types, Cells
  <2>3. isr \in [at : {-1} \cup 0..(Size - 1), ch : Bytes \cup {None}]
    BY <2>1 DEF Types, Cells, Idle
  <2> QED BY <2>1, <2>2, <2>3 DEF Types, TypeOK, Cells, Anybody
<1> QED BY <1>1, InvariantHolds, PTL

\* SendBufInBounds: for every size of the ring and of g_send_buf, and every packing
\* without a delimiter, no byte is written behind g_send_buf (seg.c:1421-1479).
THEOREM WritesInBounds == Spec => []SendBufInBounds
<1>1. IInv => SendBufInBounds
  BY DEF IInv
<1> QED BY <1>1, InvariantHolds, PTL

\* NoFlushUnderCopy: seg_critical_sem keeps the flush of a new connection and the
\* copying loop apart.
THEOREM CopiesUndisturbed == Spec => []NoFlushUnderCopy
<1>1. IInv => NoFlushUnderCopy
  BY DEF IInv, Locked, NoFlushUnderCopy
<1> QED BY <1>1, InvariantHolds, PTL

-----------------------------------------------------------------------------
(* The ring: its bytes from a place on, as a sequence.                     *)

\* Bytes and what marks an empty cell.
Things == [id : Int, kind : {"data", "delim", "plus", "none", "stale"}]

\* A cell past the end of a ring of S cells, counted around.
Around(S, p) == IF p < S THEN p ELSE p - S

\* That is what % makes of it.
LEMMA AroundIs ==
  ASSUME NEW S \in Nat, S > 1, NEW p \in 0..(2 * S - 1)
  PROVE  p % S = Around(S, p) /\ Around(S, p) \in 0..(S - 1)
<1>1. CASE p < S
  BY <1>1 DEF Around
<1>2. CASE p >= S
  <2>1. p - S \in 0..(S - 1)
    BY <1>2
  <2>2. p = (p - S) + 1 * S
    BY <1>2
  <2>3. \A r \in 0..(S - 1) : (r + S) % S = r
    OBVIOUS
  <2> QED BY <1>2, <2>1, <2>2, <2>3 DEF Around
<1> QED BY <1>1, <1>2

\* The number of bytes between two places of the ring.
Span(S, from, w) == (S + w - from) % S

\* There are n more of them once n more have been stored.
LEMMA SpanIs ==
  ASSUME NEW S \in Nat, S > 1, NEW from \in 0..S, NEW w \in 0..(S - 1)
  PROVE  /\ Span(S, from, w) \in 0..(S - 1) /\ w = Around(S, from + Span(S, from, w))
         /\ \A n \in Nat : Span(S, from, w) + n < S
                             => Span(S, from, (w + n) % S) = Span(S, from, w) + n
<1>1. Span(S, from, w) = Around(S, S + w - from) /\ Span(S, from, w) \in 0..(S - 1)
  <2>1. S + w - from \in 0..(2 * S - 1)
    OBVIOUS
  <2> QED BY <2>1, AroundIs DEF Span
<1>2. w = Around(S, from + Span(S, from, w))
  BY <1>1 DEF Around
<1>3. ASSUME NEW n \in Nat, Span(S, from, w) + n < S
      PROVE  Span(S, from, (w + n) % S) = Span(S, from, w) + n
  <2>1. w + n \in 0..(2 * S - 1)
    BY <1>1, <1>3
  <2>2. (w + n) % S = Around(S, w + n) /\ Around(S, w + n) \in 0..(S - 1)
    BY <2>1, AroundIs
  <2>3. S + Around(S, w + n) - from \in 0..(2 * S - 1)
    BY <2>2
  <2>4. Span(S, from, (w + n) % S) = Around(S, S + Around(S, w + n) - from)
    BY <2>2, <2>3, AroundIs DEF Span
  <2> QED BY <1>1, <1>3, <2>4 DEF Around
<1> QED BY <1>1, <1>2, <1>3

\* There is one less once one has been taken, also where the place itself comes around.
LEMMA SpanTaken ==
  ASSUME NEW S \in Nat, S > 1, NEW a \in 0..(S - 1), NEW w \in 0..(S - 1)
  PROVE  /\ a = w => Span(S, a, w) = 0
         /\ a # w => Span(S, a, w) > 0 /\ Span(S, a + 1, w) = Span(S, a, w) - 1
         /\ (a + 1) % S \in 0..(S - 1) /\ Span(S, (a + 1) % S, w) = Span(S, a + 1, w)
<1>1. Span(S, a, w) = Around(S, S + w - a) /\ Span(S, a + 1, w) = Around(S, S + w - (a + 1))
  <2>1. S + w - a \in 0..(2 * S - 1) /\ S + w - (a + 1) \in 0..(2 * S - 1)
    OBVIOUS
  <2> QED BY <2>1, AroundIs DEF Span
<1>2. (a + 1) % S = Around(S, a + 1) /\ Around(S, a + 1) \in 0..(S - 1)
  BY AroundIs
<1>3. Span(S, Around(S, a + 1), w) = Around(S, S + w - Around(S, a + 1))
  <2>1. S + w - Around(S, a + 1) \in 0..(2 * S - 1)
    BY <1>2
  <2> QED BY <2>1, AroundIs DEF Span
<1> QED BY <1>1, <1>2, <1>3 DEF Around

\* n bytes of a ring r of S cells, from a place on.
Piece(r, S, from, n) == [k \in 1..n |-> r[(from + k - 1) % S]]

\* A byte of it, without %.
LEMMA PieceAt ==
  ASSUME NEW S \in Nat, S > 1, NEW r, NEW from \in 0..S, NEW n \in 0..(S - 1), NEW k \in 1..n
  PROVE  /\ Around(S, from + k - 1) \in 0..(S - 1)
         /\ Piece(r, S, from, n)[k] = r[Around(S, from + k - 1)]
<1>1. from + k - 1 \in 0..(2 * S - 1)
  OBVIOUS
<1>2. (from + k - 1) % S = Around(S, from + k - 1) /\ Around(S, from + k - 1) \in 0..(S - 1)
  BY <1>1, AroundIs
<1> QED BY <1>2 DEF Piece

\* It is a sequence of n bytes.
LEMMA PieceType ==
  ASSUME NEW S \in Nat, S > 1, NEW r \in [0..(S - 1) -> Things], NEW from \in 0..S, NEW n \in 0..(S - 1)
  PROVE  Piece(r, S, from, n) \in Seq(Things) /\ Len(Piece(r, S, from, n)) = n
<1> DEFINE p == Piece(r, S, from, n)
<1>1. n \in Nat /\ p = [k \in 1..n |-> r[(from + k - 1) % S]]
  BY DEF Piece
<1>2. \A k \in 1..n : p[k] \in Things
  <2>1. ASSUME NEW k \in 1..n
        PROVE  /\ Around(S, from + k - 1) \in 0..(S - 1)
               /\ Piece(r, S, from, n)[k] = r[Around(S, from + k - 1)]
    BY PieceAt
  <2> QED BY <2>1
<1>3. p \in [1..n -> Things]
  BY <1>1, <1>2
<1>4. Len(p) = n
  BY <1>1
<1> HIDE DEF p
<1>5. p \in Seq(Things)
  BY <1>1, <1>3, SeqDef
<1> QED BY <1>4, <1>5 DEF p

\* Both, as the lemmas below use them.
LEMMA PieceIs ==
  ASSUME NEW S \in Nat, S > 1, NEW r \in [0..(S - 1) -> Things], NEW from \in 0..S, NEW n \in 0..(S - 1)
  PROVE  /\ Piece(r, S, from, n) \in Seq(Things)
         /\ Len(Piece(r, S, from, n)) = n
         /\ \A k \in 1..n : Piece(r, S, from, n)[k] = r[Around(S, from + k - 1)]
<1>1. Piece(r, S, from, n) \in Seq(Things) /\ Len(Piece(r, S, from, n)) = n
  BY PieceType
<1>2. ASSUME NEW k \in 1..n
      PROVE  /\ Around(S, from + k - 1) \in 0..(S - 1)
             /\ Piece(r, S, from, n)[k] = r[Around(S, from + k - 1)]
  BY PieceAt
<1> QED BY <1>1, <1>2

\* A ring r2 that differs from r by the bytes q, put from w on.
Put(S, r, w, q, r2) ==
  \A k \in 0..(S - 1) :
    r2[k] = IF \E n \in 1..Len(q) : (w + n - 1) % S = k
            THEN q[CHOOSE n \in 1..Len(q) : (w + n - 1) % S = k] ELSE r[k]

\* Bytes put behind the last one.
LEMMA PiecePut ==
  ASSUME NEW S \in Nat, S > 1, NEW r \in [0..(S - 1) -> Things], NEW from \in 0..S, NEW w \in 0..(S - 1),
         NEW q \in Seq(Things), Span(S, from, w) + Len(q) < S, NEW r2 \in [0..(S - 1) -> Things],
         Put(S, r, w, q, r2)
  PROVE  Piece(r2, S, from, Span(S, from, w) + Len(q)) = Piece(r, S, from, Span(S, from, w)) \o q
<1> DEFINE u == Span(S, from, w)
           m == Len(q)
<1>1. m \in Nat /\ u \in 0..(S - 1) /\ u + m \in 0..(S - 1) /\ u + m < S /\ w = Around(S, from + u)
  <2>1. m \in Nat
    BY LenProperties
  <2>2. u \in 0..(S - 1) /\ w = Around(S, from + u)
    BY SpanIs
  <2> HIDE DEF u, m
  <2>3. u + m < S
    BY DEF u, m
  <2> QED BY <2>1, <2>2, <2>3
<1>2. \A n \in 1..m : (w + n - 1) % S = Around(S, w + n - 1)
  <2>1. ASSUME NEW n \in 1..m PROVE w + n - 1 \in 0..(2 * S - 1)
    BY <1>1
  <2> QED BY <2>1, AroundIs
<1>3. \A k \in 0..(S - 1) :
        r2[k] = IF \E n \in 1..m : Around(S, w + n - 1) = k
                THEN q[CHOOSE n \in 1..m : (w + n - 1) % S = k] ELSE r[k]
  <2> SUFFICES ASSUME NEW k \in 0..(S - 1)
               PROVE  r2[k] = IF \E n \in 1..m : Around(S, w + n - 1) = k
                              THEN q[CHOOSE n \in 1..m : (w + n - 1) % S = k] ELSE r[k]
    OBVIOUS
  <2> DEFINE c == CHOOSE n \in 1..m : (w + n - 1) % S = k
             E == \E n \in 1..m : (w + n - 1) % S = k
  <2>1. r2[k] = IF E THEN q[c] ELSE r[k]
    BY DEF Put
  <2>2. E <=> \E n \in 1..m : Around(S, w + n - 1) = k
    BY <1>2
  <2> HIDE DEF E
  <2> QED BY <2>1, <2>2
<1> HIDE DEF u, m
<1>4. ASSUME NEW k \in 1..(u + m)
      PROVE  r2[Around(S, from + k - 1)] = IF k <= u THEN r[Around(S, from + k - 1)] ELSE q[k - u]
  <2>1. Around(S, from + k - 1) \in 0..(S - 1)
    BY <1>1 DEF Around
  <2>2. CASE k <= u
    <3>1. \A n \in 1..m : Around(S, w + n - 1) # Around(S, from + k - 1)
      BY <1>1, <2>2 DEF Around
    <3> QED BY <1>3, <2>1, <2>2, <3>1
  <2>3. CASE k > u
    <3>1. k - u \in 1..m /\ Around(S, w + (k - u) - 1) = Around(S, from + k - 1)
      BY <1>1, <2>3 DEF Around
    <3>2. \A n \in 1..m : Around(S, w + n - 1) = Around(S, from + k - 1) => n = k - u
      BY <1>1, <2>3 DEF Around
    <3> DEFINE c == CHOOSE n \in 1..m : (w + n - 1) % S = Around(S, from + k - 1)
    <3>3. c \in 1..m /\ (w + c - 1) % S = Around(S, from + k - 1)
      BY <1>2, <3>1
    <3>4. c = k - u
      BY <1>2, <3>2, <3>3
    <3>5. r2[Around(S, from + k - 1)] = q[c]
      BY <1>3, <2>1, <3>1
    <3> HIDE DEF c
    <3>6. ~(k <= u)
      BY <1>1, <2>3
    <3> QED BY <3>4, <3>5, <3>6
  <2> QED BY <2>2, <2>3, <1>1
<1>5. /\ Piece(r2, S, from, u + m) \in Seq(Things)
      /\ Len(Piece(r2, S, from, u + m)) = u + m
      /\ \A k \in 1..(u + m) : Piece(r2, S, from, u + m)[k] = r2[Around(S, from + k - 1)]
  <2>1. ASSUME NEW n \in 0..(S - 1)
        PROVE  /\ Piece(r2, S, from, n) \in Seq(Things)
               /\ Len(Piece(r2, S, from, n)) = n
               /\ \A k \in 1..n : Piece(r2, S, from, n)[k] = r2[Around(S, from + k - 1)]
    BY PieceIs
  <2> QED BY <1>1, <2>1
<1>6. /\ Piece(r, S, from, u) \in Seq(Things)
      /\ Len(Piece(r, S, from, u)) = u
      /\ \A k \in 1..u : Piece(r, S, from, u)[k] = r[Around(S, from + k - 1)]
  <2>1. ASSUME NEW n \in 0..(S - 1)
        PROVE  /\ Piece(r, S, from, n) \in Seq(Things)
               /\ Len(Piece(r, S, from, n)) = n
               /\ \A k \in 1..n : Piece(r, S, from, n)[k] = r[Around(S, from + k - 1)]
    BY PieceIs
  <2> QED BY <1>1, <2>1
<1> DEFINE t == Piece(r, S, from, u) \o q
<1>7. t \in Seq(Things) /\ Len(t) = u + m
      /\ \A k \in 1..(u + m) : t[k] = IF k <= u THEN Piece(r, S, from, u)[k] ELSE q[k - u]
  <2> DEFINE s == Piece(r, S, from, u)
  <2>1. s \in Seq(Things) /\ q \in Seq(Things) /\ Len(s) = u /\ Len(q) = m
    BY <1>6 DEF m
  <2> HIDE DEF s
  <2>2. /\ s \o q \in Seq(Things)
        /\ Len(s \o q) = Len(s) + Len(q)
        /\ \A i \in 1 .. Len(s) + Len(q) : (s \o q)[i] = IF i <= Len(s) THEN s[i] ELSE q[i - Len(s)]
    BY <2>1, ConcatProperties
  <2> QED BY <2>1, <2>2 DEF s
<1>8. \A k \in 1..(u + m) : t[k] = Piece(r2, S, from, u + m)[k]
  <2> HIDE DEF t
  <2> SUFFICES ASSUME NEW k \in 1..(u + m) PROVE t[k] = Piece(r2, S, from, u + m)[k]
    OBVIOUS
  <2>1. k <= u => k \in 1..u
    BY <1>1
  <2> QED BY <1>4, <1>5, <1>6, <1>7, <2>1
<1> HIDE DEF t
<1>9. t = Piece(r2, S, from, u + m)
  BY <1>5, <1>7, <1>8, SeqEqual
<1> QED BY <1>9 DEF t, u, m

\* One byte written behind the last one.
LEMMA PieceStore ==
  ASSUME NEW S \in Nat, S > 1, NEW r \in [0..(S - 1) -> Things], NEW from \in 0..S, NEW w \in 0..(S - 1),
         NEW b \in Things, Span(S, from, w) + 1 < S
  PROVE  Piece([r EXCEPT ![w] = b], S, from, Span(S, from, w) + 1)
           = Piece(r, S, from, Span(S, from, w)) \o <<b>>
<1> DEFINE r2 == [r EXCEPT ![w] = b]
           q == <<b>>
<1>1. q \in Seq(Things) /\ Len(q) = 1 /\ q[1] = b /\ r2 \in [0..(S - 1) -> Things]
  OBVIOUS
<1>2. ASSUME NEW k \in 0..(S - 1)
      PROVE  r2[k] = IF \E n \in 1..Len(q) : (w + n - 1) % S = k
                     THEN q[CHOOSE n \in 1..Len(q) : (w + n - 1) % S = k] ELSE r[k]
  <2>1. (w + 1 - 1) % S = w
    OBVIOUS
  <2>2. 1..Len(q) = {1}
    BY <1>1
  <2>3. r2[k] = IF w = k THEN b ELSE r[k]
    OBVIOUS
  <2>4. (\E n \in 1..Len(q) : (w + n - 1) % S = k) <=> w = k
    BY <2>1, <2>2
  <2>5. w = k => (CHOOSE n \in 1..Len(q) : (w + n - 1) % S = k) = 1
    BY <2>1, <2>2
  <2> HIDE DEF q, r2
  <2> QED BY <1>1, <2>3, <2>4, <2>5
<1> HIDE DEF q, r2
<1>3. Piece(r2, S, from, Span(S, from, w) + Len(q)) = Piece(r, S, from, Span(S, from, w)) \o q
  <2>1. Span(S, from, w) + Len(q) < S
    BY <1>1
  <2>2. Put(S, r, w, q, r2)
    BY <1>2 DEF Put
  <2> QED BY <1>1, <2>1, <2>2, PiecePut
<1> QED BY <1>1, <1>3 DEF q, r2

\* A cell that is overwritten.
Taken(r, p, e) == [r EXCEPT ![p] = e]

\* The first byte taken: what is left begins one place later.
LEMMA PieceTake ==
  ASSUME NEW S \in Nat, S > 1, NEW r \in [0..(S - 1) -> Things], NEW a \in 0..(S - 1), NEW n \in 1..(S - 1),
         NEW e \in Things
  PROVE  Piece(r, S, a, n) = <<r[a]>> \o Piece(Taken(r, a, e), S, a + 1, n - 1)
<1> DEFINE r2 == [r EXCEPT ![a] = e]
           s  == Piece(r2, S, a + 1, n - 1)
           t  == <<r[a]>> \o s
<1>1. r2 \in [0..(S - 1) -> Things] /\ r[a] \in Things /\ a + 1 \in 0..S /\ n - 1 \in 0..(S - 1)
  OBVIOUS
<1>2. /\ s \in Seq(Things)
      /\ Len(s) = n - 1
      /\ \A k \in 1..(n - 1) : s[k] = r2[Around(S, (a + 1) + k - 1)]
  <2> HIDE DEF r2
  <2>1. ASSUME NEW b \in 0..S, NEW l \in 0..(S - 1)
        PROVE  /\ Piece(r2, S, b, l) \in Seq(Things)
               /\ Len(Piece(r2, S, b, l)) = l
               /\ \A k \in 1..l : Piece(r2, S, b, l)[k] = r2[Around(S, b + k - 1)]
    BY <1>1, PieceIs
  <2> QED BY <1>1, <2>1
<1>3. ASSUME NEW k \in 1..(n - 1) PROVE s[k] = r[Around(S, a + k)]
  <2>1. Around(S, a + k) \in 0..(S - 1) /\ Around(S, a + k) # a
    BY DEF Around
  <2>2. r2[Around(S, a + k)] = r[Around(S, a + k)]
    BY <2>1
  <2>3. (a + 1) + k - 1 = a + k
    OBVIOUS
  <2> HIDE DEF r2, s
  <2> QED BY <1>2, <2>2, <2>3
<1> HIDE DEF r2, s
<1>4. <<r[a]>> \in Seq(Things) /\ Len(<<r[a]>>) = 1 /\ <<r[a]>>[1] = r[a]
  BY <1>1
<1>5. t \in Seq(Things) /\ Len(t) = 1 + (n - 1)
      /\ \A k \in 1..(1 + (n - 1)) : t[k] = IF k <= 1 THEN <<r[a]>>[k] ELSE s[k - 1]
  BY <1>2, <1>4, ConcatProperties
<1> HIDE DEF t
<1>6. /\ Piece(r, S, a, n) \in Seq(Things)
      /\ Len(Piece(r, S, a, n)) = n
      /\ \A k \in 1..n : Piece(r, S, a, n)[k] = r[Around(S, a + k - 1)]
  <2>1. a \in 0..S /\ n \in 0..(S - 1)
    OBVIOUS
  <2> QED BY <2>1, PieceIs
<1>7. ASSUME NEW k \in 1..n PROVE t[k] = Piece(r, S, a, n)[k]
  <2>1. CASE k = 1
    <3>1. Around(S, a + 1 - 1) = a
      BY DEF Around
    <3> QED BY <1>4, <1>5, <1>6, <2>1, <3>1
  <2>2. CASE k # 1
    <3>1. k - 1 \in 1..(n - 1) /\ ~(k <= 1) /\ k \in 1..(1 + (n - 1)) /\ a + (k - 1) = a + k - 1
      BY <2>2
    <3>2. t[k] = s[k - 1]
      BY <1>5, <3>1
    <3>3. s[k - 1] = r[Around(S, a + (k - 1))]
      BY <1>3, <3>1
    <3> QED BY <1>6, <3>1, <3>2, <3>3
  <2> QED BY <2>1, <2>2
<1>8. Len(t) = n
  BY <1>5
<1>9. t = Piece(r, S, a, n)
  BY <1>5, <1>6, <1>7, <1>8, SeqEqual
<1> QED BY <1>9 DEF t, s, r2, Taken

\* The place itself comes around.
LEMMA PieceMove ==
  ASSUME NEW S \in Nat, S > 1, NEW r, NEW a \in 0..(S - 1), NEW n \in 0..(S - 1)
  PROVE  Piece(r, S, (a + 1) % S, n) = Piece(r, S, a + 1, n)
<1>1. ASSUME NEW k \in 1..n PROVE (((a + 1) % S) + k - 1) % S = ((a + 1) + k - 1) % S
  <2>1. (a + 1) % S = Around(S, a + 1)
    BY AroundIs
  <2>2. (a + 1) + k - 1 \in 0..(2 * S - 1) /\ Around(S, a + 1) + k - 1 \in 0..(2 * S - 1)
    BY DEF Around
  <2>3. Around(S, Around(S, a + 1) + k - 1) = Around(S, (a + 1) + k - 1)
    BY DEF Around
  <2> QED BY <2>1, <2>2, <2>3, AroundIs
<1> QED BY <1>1 DEF Piece

-----------------------------------------------------------------------------
(* The bytes on their way, as a sequence of the four places they are in.   *)

\* From g_send_buf, the ring, the interrupt and the escape sequence.
Joined(a, b, c, t) == a \o b \o c \o t

\* Sequences may be joined from either end.
LEMMA Associative ==
  ASSUME NEW a \in Seq(Things), NEW b \in Seq(Things), NEW c \in Seq(Things)
  PROVE  (a \o b) \o c = a \o (b \o c)
BY ConcatAssociative

\* The four parts joined are a sequence, and the last three are.
LEMMA JoinedType ==
  ASSUME NEW a \in Seq(Things), NEW b \in Seq(Things), NEW c \in Seq(Things), NEW t \in Seq(Things)
  PROVE  /\ Joined(a, b, c, t) \in Seq(Things)
         /\ Joined(a, b, c, t) = a \o (b \o c \o t)
         /\ b \o c \o t \in Seq(Things)
<1>1. a \o b \in Seq(Things) /\ b \o c \in Seq(Things)
  BY ConcatProperties
<1>2. (a \o b) \o c \in Seq(Things) /\ (b \o c) \o t \in Seq(Things)
  BY <1>1, ConcatProperties
<1>3. ((a \o b) \o c) \o t \in Seq(Things)
  BY <1>2, ConcatProperties
<1>4. (a \o b) \o c = a \o (b \o c)
  BY Associative, ZenonT(60)
<1>5. \A d \in Seq(Things) : (a \o d) \o t = a \o (d \o t)
  BY Associative
<1>6. (a \o (b \o c)) \o t = a \o ((b \o c) \o t)
  BY <1>1, <1>5
<1> QED BY <1>2, <1>3, <1>4, <1>6 DEF Joined

\* A byte that goes on from one place to the next.
LEMMA JoinedMoves ==
  ASSUME NEW a \in Seq(Things), NEW b \in Seq(Things), NEW c \in Seq(Things), NEW t \in Seq(Things),
         NEW x \in Things
  PROVE  /\ Joined(Append(a, x), b, c, t) = Joined(a, <<x>> \o b, c, t)
         /\ Joined(a, b \o <<x>>, <<>>, t) = Joined(a, b, <<x>>, t)
         /\ Joined(a, b \o t, <<>>, <<>>) = Joined(a, b, <<>>, t)
<1>1. /\ a \o b \in Seq(Things) /\ <<x>> \in Seq(Things) /\ <<>> \in Seq(Things)
      /\ b \o <<x>> \in Seq(Things) /\ b \o t \in Seq(Things)
  BY ConcatProperties
<1>2. Append(a, x) \o b = a \o (<<x>> \o b)
  <2>1. Append(a, x) = a \o <<x>>
    BY AppendIsConcat
  <2> QED BY <1>1, <2>1, Associative
<1>3. (a \o (b \o <<x>>)) \o <<>> = (a \o b) \o <<x>>
  <2>1. a \o (b \o <<x>>) = (a \o b) \o <<x>>
    BY <1>1, Associative
  <2>2. a \o (b \o <<x>>) \in Seq(Things)
    BY <1>1, ConcatProperties
  <2> QED BY <2>1, <2>2, ConcatEmptySeq
<1>4. ((a \o (b \o t)) \o <<>>) \o <<>> = ((a \o b) \o <<>>) \o t
  <2>1. a \o (b \o t) = (a \o b) \o t
    BY Associative
  <2>2. a \o (b \o t) \in Seq(Things)
    BY <1>1, ConcatProperties
  <2>3. (a \o b) \o <<>> = a \o b
    BY <1>1, ConcatEmptySeq
  <2>4. (a \o (b \o t)) \o <<>> = a \o (b \o t)
    BY <2>2, ConcatEmptySeq
  <2> QED BY <2>1, <2>3, <2>4
<1> QED BY <1>2, <1>3, <1>4 DEF Joined

\* A byte that arrives.
LEMMA JoinedGrows ==
  ASSUME NEW a \in Seq(Things), NEW b \in Seq(Things), NEW t \in Seq(Things), NEW x \in Things
  PROVE  /\ Joined(a, b, <<>>, Append(t, x)) = Append(Joined(a, b, <<>>, t), x)
         /\ Joined(a, b \o t, <<x>>, <<>>) = Append(Joined(a, b, <<>>, t), x)
<1>1. /\ a \o b \in Seq(Things) /\ <<x>> \in Seq(Things) /\ <<>> \in Seq(Things)
      /\ b \o t \in Seq(Things) /\ Joined(a, b, <<>>, t) \in Seq(Things)
  <2>1. a \o b \in Seq(Things) /\ b \o t \in Seq(Things)
    BY ConcatProperties
  <2>2. <<x>> \in Seq(Things) /\ <<>> \in Seq(Things)
    OBVIOUS
  <2>3. Joined(a, b, <<>>, t) \in Seq(Things)
    BY <2>2, JoinedType
  <2> QED BY <2>1, <2>2, <2>3
<1>2. Joined(a, b, <<>>, t) = (a \o b) \o t
  BY <1>1, ConcatEmptySeq DEF Joined
<1>3. Append((a \o b) \o t, x) = ((a \o b) \o t) \o <<x>>
  BY <1>1, <1>2, AppendIsConcat
<1>4. Joined(a, b, <<>>, Append(t, x)) = (a \o b) \o (t \o <<x>>)
  <2>1. Append(t, x) = t \o <<x>>
    BY AppendIsConcat
  <2> QED BY <1>1, <2>1, ConcatEmptySeq DEF Joined
<1>5. (a \o b) \o (t \o <<x>>) = ((a \o b) \o t) \o <<x>>
  BY <1>1, Associative
<1>6. Joined(a, b \o t, <<x>>, <<>>) = (a \o (b \o t)) \o <<x>>
  <2>1. a \o (b \o t) \in Seq(Things)
    BY <1>1, ConcatProperties
  <2>2. (a \o (b \o t)) \o <<x>> \in Seq(Things)
    BY <1>1, <2>1, ConcatProperties
  <2> QED BY <2>2, ConcatEmptySeq DEF Joined
<1>7. a \o (b \o t) = (a \o b) \o t
  BY Associative
<1> QED BY <1>2, <1>3, <1>4, <1>5, <1>6, <1>7

\* The two ends of a concatenation.
LEMMA Ends ==
  ASSUME NEW s \in Seq(Things), NEW t \in Seq(Things)
  PROVE  /\ SubSeq(s \o t, 1, Len(s)) = s
         /\ SubSeq(s \o t, Len(s) + 1, Len(s \o t)) = t
<1>1. /\ Len(s) \in Nat /\ Len(t) \in Nat /\ s \o t \in Seq(Things) /\ Len(s \o t) = Len(s) + Len(t)
      /\ \A i \in 1..(Len(s) + Len(t)) : (s \o t)[i] = IF i <= Len(s) THEN s[i] ELSE t[i - Len(s)]
  BY ConcatProperties, LenProperties
<1> DEFINE q == s \o t
           m == Len(s)
           n == Len(t)
<1>2. m \in Nat /\ n \in Nat /\ q \in Seq(Things) /\ Len(q) = m + n
      /\ \A i \in 1..(m + n) : q[i] = IF i <= m THEN s[i] ELSE t[i - m]
  BY <1>1
<1>3. \A i \in 1..(m + n) : q[i] \in Things
  BY <1>2, ElementOfSeq
<1> HIDE DEF q, m, n
<1>4. SubSeq(q, 1, m) = s
  <2>1. SubSeq(q, 1, m) = [i \in 1..m |-> q[i]]
    BY <1>2
  <2>2. s = [i \in 1..m |-> s[i]]
    BY LenProperties DEF m
  <2>3. \A i \in 1..m : q[i] = s[i]
    BY <1>2
  <2> QED BY <2>1, <2>2, <2>3
<1>5. SubSeq(q, m + 1, m + n) = t
  <2>1. SubSeq(q, m + 1, m + n) = [i \in 1..n |-> q[i + m]]
    BY <1>2
  <2>2. t = [i \in 1..n |-> t[i]]
    BY LenProperties DEF n
  <2>3. \A i \in 1..n : q[i + m] = t[i]
    <3>1. ASSUME NEW i \in 1..n PROVE q[i + m] = t[i]
      <4>1. i + m \in 1..(m + n) /\ ~(i + m <= m) /\ (i + m) - m = i
        BY <1>2
      <4>2. q[i + m] = IF i + m <= m THEN s[i + m] ELSE t[(i + m) - m]
        BY <1>2, <4>1
      <4> QED BY <4>1, <4>2
    <3> QED BY <3>1
  <2> QED BY <2>1, <2>2, <2>3
<1> QED BY <1>2, <1>4, <1>5 DEF q, m, n

\* Bytes that leave: those of g_send_buf, or the escape sequence.
LEMMA JoinedShrinks ==
  ASSUME NEW a \in Seq(Things), NEW b \in Seq(Things), NEW c \in Seq(Things), NEW t \in Seq(Things)
  PROVE  /\ Joined(<<>>, b, c, t)
              = SubSeq(Joined(a, b, c, t), Len(a) + 1, Len(Joined(a, b, c, t)))
         /\ Joined(a, b, c, <<>>)
              = SubSeq(Joined(a, b, c, t), 1, Len(Joined(a, b, c, t)) - Len(t))
         /\ Len(Joined(a, b, c, t)) >= Len(a) + Len(t)
<1> DEFINE r == b \o c \o t
           l == a \o b \o c
           q == Joined(a, b, c, t)
<1>1. /\ <<>> \in Seq(Things) /\ r \in Seq(Things) /\ q = a \o r /\ Joined(<<>>, b, c, t) = <<>> \o r
      /\ q \in Seq(Things)
  <2>1. <<>> \in Seq(Things)
    OBVIOUS
  <2>2. ASSUME NEW h \in Seq(Things)
        PROVE  /\ Joined(h, b, c, t) \in Seq(Things)
               /\ Joined(h, b, c, t) = h \o (b \o c \o t)
               /\ b \o c \o t \in Seq(Things)
    BY JoinedType
  <2>3. Joined(<<>>, b, c, t) = <<>> \o r /\ q \in Seq(Things) /\ q = a \o r /\ r \in Seq(Things)
    BY <2>1, <2>2
  <2> QED BY <2>1, <2>3
<1>2. a \o b \in Seq(Things)
  BY ConcatProperties
<1>3. l \in Seq(Things)
  BY <1>2, ConcatProperties
<1>4. q = l \o t /\ Joined(a, b, c, <<>>) = l \o <<>>
  BY DEF Joined
<1> HIDE DEF r, l, q
<1>5. <<>> \o r = r /\ l \o <<>> = l
  BY <1>1, <1>3, ConcatEmptySeq
<1>6. SubSeq(q, Len(a) + 1, Len(q)) = r
  BY <1>1, Ends
<1>7. Len(q) = Len(l) + Len(t) /\ Len(l) \in Nat /\ Len(t) \in Nat /\ SubSeq(q, 1, Len(l)) = l
  BY <1>3, <1>4, Ends, ConcatProperties, LenProperties
<1>8. Len(q) - Len(t) = Len(l)
  BY <1>7
<1>9. Len(q) >= Len(a) + Len(t)
  <2>1. Len(l) = Len(a \o b) + Len(c) /\ Len(a \o b) = Len(a) + Len(b)
    BY <1>2, ConcatProperties DEF l
  <2>2. Len(a) \in Nat /\ Len(b) \in Nat /\ Len(c) \in Nat
    BY LenProperties
  <2> QED BY <1>7, <2>1, <2>2
<1> QED BY <1>1, <1>4, <1>5, <1>6, <1>7, <1>8, <1>9 DEF q

\* The numbers of the bytes.
LEMMA NumbersOf ==
  ASSUME NEW q \in Seq(Things)
  PROVE  /\ BytesOf(q) \in Seq(Int) /\ Len(BytesOf(q)) = Len(q)
         /\ \A x \in Things : BytesOf(Append(q, x)) = Append(BytesOf(q), x.id)
         /\ \A m, n \in Nat : m >= 1 /\ n <= Len(q)
                                => BytesOf(SubSeq(q, m, n)) = SubSeq(BytesOf(q), m, n)
<1> DEFINE l == Len(q)
           s == BytesOf(q)
<1>1. l \in Nat /\ \A i \in 1..l : q[i] \in Things
  BY LenProperties, ElementOfSeq
<1>2. s = [i \in 1..l |-> q[i].id] /\ Len(s) = l /\ \A i \in 1..l : s[i] = q[i].id
  BY <1>1 DEF BytesOf
<1>3. s \in Seq(Int)
  <2>1. \A i \in 1..l : q[i].id \in Int
    BY <1>1 DEF Things
  <2>2. s \in [1..l -> Int]
    BY <1>2, <2>1
  <2> HIDE DEF s
  <2> QED BY <1>1, <2>2, SeqDef
<1>4. ASSUME NEW x \in Things PROVE BytesOf(Append(q, x)) = Append(s, x.id)
  <2> DEFINE p == Append(q, x)
  <2>1. /\ Len(p) = l + 1 /\ p[l + 1] = x
        /\ \A i \in 1..l : p[i] = q[i]
    BY AppendProperties
  <2> HIDE DEF p, l
  <2>2. BytesOf(p) = [i \in 1..(l + 1) |-> p[i].id]
    BY <2>1 DEF BytesOf
  <2> HIDE DEF s
  <2>3. Append(s, x.id) = [i \in 1..(l + 1) |-> IF i = l + 1 THEN x.id ELSE s[i]]
    <3>1. x.id \in Int
      BY DEF Things
    <3> QED BY <1>1, <1>2, <1>3, <3>1
  <2>4. \A i \in 1..(l + 1) : p[i].id = IF i = l + 1 THEN x.id ELSE s[i]
    <3>1. \A i \in 1..(l + 1) : i # l + 1 => i \in 1..l
      BY <1>1
    <3> QED BY <1>2, <2>1, <3>1
  <2> QED BY <2>2, <2>3, <2>4 DEF p
<1>5. ASSUME NEW m \in Nat, NEW n \in Nat, m >= 1, n <= l
      PROVE  BytesOf(SubSeq(q, m, n)) = SubSeq(s, m, n)
  <2> DEFINE p == SubSeq(q, m, n)
             k == IF m <= n THEN n - m + 1 ELSE 0
  <2>0. k \in Nat
    OBVIOUS
  <2> HIDE DEF l, s
  <2>1. p = [i \in 1..(n - m + 1) |-> q[i + m - 1]]
    OBVIOUS
  <2>2. SubSeq(s, m, n) = [i \in 1..(n - m + 1) |-> s[i + m - 1]]
    OBVIOUS
  <2>3. 1..(n - m + 1) = 1..k
    OBVIOUS
  <2> HIDE DEF k
  <2>4. p = [i \in 1..k |-> q[i + m - 1]]
    BY <2>1, <2>3
  <2> HIDE DEF p
  <2>7. Len(p) = k
    BY <2>0, <2>4
  <2>5. BytesOf(p) = [i \in 1..k |-> q[i + m - 1].id]
    BY <2>4, <2>7 DEF BytesOf
  <2>6. \A i \in 1..k : s[i + m - 1] = q[i + m - 1].id
    <3>1. \A i \in 1..k : i + m - 1 \in 1..l
      BY <1>1, <1>5 DEF k
    <3> QED BY <1>2, <3>1
  <2> QED BY <2>2, <2>3, <2>5, <2>6 DEF p
<1> QED BY <1>2, <1>3, <1>4, <1>5 DEF s, l

-----------------------------------------------------------------------------
(* The sequences of the ring and of g_send_buf, and what a step does to    *)
(* them.                                                                   *)

\* All the bytes of the ring from place a on, and the first z of a g_send_buf.
RingOf(r, S, a, w) == Piece(r, S, a, Span(S, a, w))
First(g, z)        == [n \in 1..z |-> g[n - 1]]

\* With those the copying loop has in its hands and those it has sent.
SendBufOf(l, g, z) ==
  IF l.pc = "sent" /\ l.i > 0 THEN <<>>
  ELSE [n \in 1..(z + IF l.pc = "move" THEN 1 ELSE 0) |-> IF n > z THEN l.ch ELSE g[n - 1]]

\* A ring is a sequence of bytes.
LEMMA RingType ==
  ASSUME NEW S \in Nat, S > 1, NEW r \in [0..(S - 1) -> Things], NEW a \in 0..S, NEW w \in 0..(S - 1)
  PROVE  RingOf(r, S, a, w) \in Seq(Things)
<1>1. Span(S, a, w) \in 0..(S - 1)
  BY SpanIs
<1>2. \A n \in 0..(S - 1) : Piece(r, S, a, n) \in Seq(Things)
  BY PieceType
<1> QED BY <1>1, <1>2 DEF RingOf

\* PutAll.
PutRing(S, r, w, q) ==
  [k \in 0..(S - 1) |-> IF \E n \in 1..Len(q) : (w + n - 1) % S = k
                        THEN q[CHOOSE n \in 1..Len(q) : (w + n - 1) % S = k] ELSE r[k]]

\* The ring so built has the bytes of q where they were put and the old ones elsewhere.
LEMMA PutIs ==
  ASSUME NEW S \in Nat, S > 1, NEW r \in [0..(S - 1) -> Things], NEW w \in 0..(S - 1),
         NEW q \in Seq(Things)
  PROVE  PutRing(S, r, w, q) \in [0..(S - 1) -> Things] /\ Put(S, r, w, q, PutRing(S, r, w, q))
<1> DEFINE r2 == PutRing(S, r, w, q)
<1>1. ASSUME NEW k \in 0..(S - 1)
      PROVE  r2[k] = IF \E n \in 1..Len(q) : (w + n - 1) % S = k
                     THEN q[CHOOSE n \in 1..Len(q) : (w + n - 1) % S = k] ELSE r[k]
  BY DEF PutRing
<1> HIDE DEF r2
<1>2. ASSUME NEW k \in 0..(S - 1) PROVE r2[k] \in Things
  <2> DEFINE P(n) == (w + n - 1) % S = k
  <2>1. r2[k] = IF \E n \in 1..Len(q) : P(n) THEN q[CHOOSE n \in 1..Len(q) : P(n)] ELSE r[k]
    BY <1>1
  <2> HIDE DEF P
  <2>2. CASE \E n \in 1..Len(q) : P(n)
    <3>1. (CHOOSE n \in 1..Len(q) : P(n)) \in 1..Len(q)
      BY <2>2
    <3> QED BY <2>1, <2>2, <3>1, ElementOfSeq
  <2>3. CASE ~(\E n \in 1..Len(q) : P(n))
    BY <2>1, <2>3
  <2> QED BY <2>2, <2>3
<1>3. r2 \in [0..(S - 1) -> Things]
  <2>1. r2 = [k \in 0..(S - 1) |-> r2[k]]
    BY DEF r2, PutRing
  <2> QED BY <1>2, <2>1
<1>4. Put(S, r, w, q, r2)
  BY <1>1 DEF Put
<1> QED BY <1>3, <1>4 DEF r2

\* While it does not overflow, the bytes that are put appear behind those that are there.
LEMMA RingPut ==
  ASSUME NEW S \in Nat, S > 1, NEW r \in [0..(S - 1) -> Things], NEW a \in 0..S, NEW w \in 0..(S - 1),
         NEW q \in Seq(Things), Span(S, a, w) + Len(q) < S,
         NEW r2 \in [0..(S - 1) -> Things], Put(S, r, w, q, r2)
  PROVE  /\ Span(S, a, (w + Len(q)) % S) = Span(S, a, w) + Len(q)
         /\ RingOf(r2, S, a, (w + Len(q)) % S) = RingOf(r, S, a, w) \o q
<1>1. Span(S, a, (w + Len(q)) % S) = Span(S, a, w) + Len(q)
  BY SpanIs, LenProperties
<1>2. Piece(r2, S, a, Span(S, a, w) + Len(q)) = Piece(r, S, a, Span(S, a, w)) \o q
  BY PiecePut
<1> QED BY <1>1, <1>2 DEF RingOf

\* Store.
LEMMA RingStore ==
  ASSUME NEW S \in Nat, S > 1, NEW r \in [0..(S - 1) -> Things], NEW a \in 0..S, NEW w \in 0..(S - 1),
         NEW b \in Things, Span(S, a, w) + 1 < S
  PROVE  /\ Span(S, a, (w + 1) % S) = Span(S, a, w) + 1
         /\ RingOf([r EXCEPT ![w] = b], S, a, (w + 1) % S) = RingOf(r, S, a, w) \o <<b>>
<1>1. Span(S, a, (w + 1) % S) = Span(S, a, w) + 1
  BY SpanIs
<1> QED BY <1>1, PieceStore DEF RingOf

\* Getc, and Copy after it.
LEMMA RingTake ==
  ASSUME NEW S \in Nat, S > 1, NEW r \in [0..(S - 1) -> Things], NEW a \in 0..(S - 1), NEW w \in 0..(S - 1),
         NEW e \in Things
  PROVE  /\ a # w => RingOf(r, S, a, w) = <<r[a]>> \o RingOf(Taken(r, a, e), S, a + 1, w)
         /\ RingOf(r, S, (a + 1) % S, w) = RingOf(r, S, a + 1, w)
<1>1. a + 1 \in 0..S
  OBVIOUS
<1>2. ASSUME a # w
      PROVE  RingOf(r, S, a, w) = <<r[a]>> \o RingOf(Taken(r, a, e), S, a + 1, w)
  <2>1. Span(S, a, w) \in 1..(S - 1) /\ Span(S, a + 1, w) = Span(S, a, w) - 1
    <3>1. Span(S, a, w) > 0 /\ Span(S, a + 1, w) = Span(S, a, w) - 1
      BY <1>2, SpanTaken
    <3>2. a \in 0..S
      OBVIOUS
    <3>3. Span(S, a, w) \in 0..(S - 1)
      BY <3>2, SpanIs
    <3> QED BY <3>1, <3>3
  <2>2. ASSUME NEW n \in 1..(S - 1)
        PROVE  Piece(r, S, a, n) = <<r[a]>> \o Piece(Taken(r, a, e), S, a + 1, n - 1)
    BY PieceTake
  <2> QED BY <2>1, <2>2 DEF RingOf
<1>3. RingOf(r, S, (a + 1) % S, w) = RingOf(r, S, a + 1, w)
  <2>1. Span(S, a + 1, w) \in 0..(S - 1)
    BY <1>1, SpanIs
  <2>2. Span(S, (a + 1) % S, w) = Span(S, a + 1, w)
    BY SpanTaken
  <2>3. \A n \in 0..(S - 1) : Piece(r, S, (a + 1) % S, n) = Piece(r, S, a + 1, n)
    BY PieceMove
  <2> QED BY <2>1, <2>2, <2>3 DEF RingOf
<1> QED BY <1>2, <1>3

\* is_data_buffer_full says no while there is room for one byte more.
LEMMA NotFull ==
  ASSUME NEW S \in Nat, S > 1, NEW a \in 0..(S - 1), NEW w \in 0..(S - 1), NEW n \in Nat,
         Span(S, a, w) + n + 1 < S
  PROVE  (S + a - (w + n) - 1) % S # 0
<1>1. w = Around(S, a + Span(S, a, w)) /\ Span(S, a, w) \in 0..(S - 1)
  BY SpanIs
<1> DEFINE u == Span(S, a, w)
           x == S + a - (w + n) - 1
<1> HIDE DEF u
<1>2. x \in 0..(2 * S - 1) /\ Around(S, x) # 0
  BY <1>1 DEF Around, u
<1> HIDE DEF x
<1>3. x % S = Around(S, x)
  BY <1>2, AroundIs
<1> QED BY <1>2, <1>3 DEF x

\* The first bytes of g_send_buf, and one more.
LEMMA FirstIs ==
  ASSUME NEW N \in Nat, NEW g \in [0..N -> Things], NEW z \in 0..N, NEW c \in Things
  PROVE  /\ First(g, z) \in Seq(Things) /\ Len(First(g, z)) = z
         /\ z < N => First([g EXCEPT ![z] = c], z + 1) = Append(First(g, z), c)
<1> DEFINE f == First(g, z)
<1>1. z \in Nat /\ f = [n \in 1..z |-> g[n - 1]] /\ Len(f) = z
  BY DEF First
<1>2. \A n \in 1..z : g[n - 1] \in Things
  OBVIOUS
<1>3. f \in [1..z -> Things]
  BY <1>1, <1>2
<1>4. f \in Seq(Things)
  <2> HIDE DEF f
  <2> QED BY <1>1, <1>3, SeqDef
<1>5. ASSUME z < N PROVE First([g EXCEPT ![z] = c], z + 1) = Append(f, c)
  <2> DEFINE h == [g EXCEPT ![z] = c]
  <2>1. \A n \in 1..(z + 1) : h[n - 1] = IF n = z + 1 THEN c ELSE g[n - 1]
    BY <1>1, <1>5
  <2> HIDE DEF h
  <2>2. First(h, z + 1) = [n \in 1..(z + 1) |-> h[n - 1]]
    BY DEF First
  <2>3. \A n \in 1..z : f[n] = g[n - 1]
    BY <1>1
  <2> HIDE DEF f
  <2>4. Append(f, c) = [n \in 1..(z + 1) |-> IF n = z + 1 THEN c ELSE f[n]]
    BY <1>1, <1>4
  <2>5. \A n \in 1..(z + 1) : n = z + 1 \/ n \in 1..z
    BY <1>1
  <2> QED BY <2>1, <2>2, <2>3, <2>4, <2>5 DEF h
<1> QED BY <1>1, <1>4, <1>5

\* With what the copying loop has done.
LEMMA SendBufIs ==
  ASSUME NEW N \in Nat, NEW g \in [0..N -> Things], NEW z \in 0..N, NEW l, l.ch \in Things
  PROVE  /\ l.pc = "sent" /\ l.i > 0 => SendBufOf(l, g, z) = <<>>
         /\ l.pc = "move" => SendBufOf(l, g, z) = Append(First(g, z), l.ch)
         /\ l.pc # "move" /\ ~(l.pc = "sent" /\ l.i > 0) => SendBufOf(l, g, z) = First(g, z)
         /\ SendBufOf(l, g, z) \in Seq(Things)
<1>1. l.pc = "sent" /\ l.i > 0 => SendBufOf(l, g, z) = <<>>
  BY DEF SendBufOf
<1>2. ASSUME l.pc = "move" PROVE SendBufOf(l, g, z) = Append(First(g, z), l.ch)
  <2>1. SendBufOf(l, g, z) = [n \in 1..(z + 1) |-> IF n > z THEN l.ch ELSE g[n - 1]]
    BY <1>2 DEF SendBufOf
  <2> DEFINE f == First(g, z)
  <2>2. f \in Seq(Things) /\ Len(f) = z /\ \A n \in 1..z : f[n] = g[n - 1]
    BY FirstIs DEF First
  <2> HIDE DEF f
  <2>3. Append(f, l.ch) = [n \in 1..(z + 1) |-> IF n = z + 1 THEN l.ch ELSE f[n]]
    BY <2>2
  <2>4. \A n \in 1..(z + 1) : (n > z <=> n = z + 1) /\ (n = z + 1 \/ n \in 1..z)
    OBVIOUS
  <2> QED BY <2>1, <2>2, <2>3, <2>4 DEF f
<1>3. ASSUME l.pc # "move", ~(l.pc = "sent" /\ l.i > 0)
      PROVE  SendBufOf(l, g, z) = First(g, z)
  <2>1. SendBufOf(l, g, z) = [n \in 1..(z + 0) |-> IF n > z THEN l.ch ELSE g[n - 1]]
    BY <1>3 DEF SendBufOf
  <2>2. 1..(z + 0) = 1..z /\ \A n \in 1..z : ~(n > z)
    OBVIOUS
  <2> QED BY <2>1, <2>2 DEF First
<1>4. First(g, z) \in Seq(Things)
  BY FirstIs
<1>5. Append(First(g, z), l.ch) \in Seq(Things)
  BY <1>4, AppendProperties
<1>6. <<>> \in Seq(Things)
  OBVIOUS
<1> QED BY <1>1, <1>2, <1>3, <1>4, <1>5, <1>6

-----------------------------------------------------------------------------
(* What SerialStream needs beyond the types: where the index of the        *)
(* interrupt and that of the copying loop are, and how full the ring is.   *)

\* A part of an escape sequence is held back only while connections stay, and not
\* longer than the gap; command mode begins once, and stays.
Regime ==
  /\ load.reconnects => trigger = <<>> /\ sw_modeswitch_at_mode_on = FALSE /\ opmode = "GW"
  /\ ~load.reconnects => seg = "idle"
  /\ opmode = "AT" => working_state = "ATMODE"
  /\ opmode = "GW" => segcp = "idle" /\ working_state # "ATMODE"
  /\ trigger # <<>> => enable_modeswitch_timer = TRUE /\ modeswitch_time < Gap

\* Nothing is left of a connection when the next one begins.
Between ==
  /\ working_state = "OPEN" => u2e_size = 0 /\ u2e.pc \in {"wait", "lock", "check", "unlock"}
  /\ seg # "idle" => working_state = "OPEN" /\ isr = Idle /\ wr = 0
  /\ seg = "connect" => rd = 0

\* The interrupt stores where the ring ends, the copying loop has read where it
\* begins, and what waits is as much as the UART peer lets wait.
Waits == IF isr = Idle THEN 0 ELSE 1
Flow ==
  Counted /\ opmode = "GW" =>
    /\ isr # Idle => isr.at = wr
    /\ working_state = "CONNECT" =>
         /\ u2e.pc = "move" => u2e.r = rd /\ rd # wr
         /\ get_data_buffer_usedsize + Waits + Len(trigger) <= Ahead

SInv == Regime /\ Between /\ Flow

\* While connections come and go, the UART peer sends no byte of the escape sequence.
NoneHeld == \A l \in Loads : l.reconnects => "plus" \notin l.kinds

\* The types the operators on sequences ask for.
LEMMA ThingsType ==
  ASSUME IInv
  PROVE  /\ Size \in Nat /\ Size > 1 /\ SendSize \in Nat /\ SendSize > 0 /\ u2e_size \in Int
         /\ u2e_size <= SendSize /\ rd \in 0..(Size - 1) /\ wr \in 0..(Size - 1)
         /\ Bytes \subseteq Things /\ Stale \in Things /\ ring \in [0..(Size - 1) -> Things]
         /\ g_send_buf \in [0..SendSize -> Things] /\ u2e.ch \in Things
         /\ trigger \in Seq(Things) /\ Len(trigger) \in 0..3
<1>1. Types /\ load \in Loads /\ u2e_size <= SendSize
  BY DEF IInv, Room, Types
<1>2. /\ Size \in Nat /\ Size > 1 /\ SendSize \in Nat /\ SendSize > 0 /\ u2e_size \in Int
      /\ load.kinds \subseteq {"data", "delim", "plus"} /\ Ids \in Nat
  BY <1>1, Basics, LoadType
<1>3. Bytes \subseteq Things /\ Stale \in Things /\ None \in Things
  BY <1>2 DEF Bytes, Things, Stale, None
<1>4. /\ ring \in [0..(Size - 1) -> Bytes \cup {Stale}] /\ g_send_buf \in [0..SendSize -> Anybody]
      /\ u2e.ch \in Anybody /\ trigger \in Seq(Bytes) /\ Len(trigger) <= 3
      /\ rd \in 0..(Size - 1) /\ wr \in 0..(Size - 1)
  BY <1>1 DEF Types, Cells
<1>5. trigger \in Seq(Things) /\ Len(trigger) \in Nat
  BY <1>3, <1>4, SeqMonotonic, LenProperties
<1>6. ring \in [0..(Size - 1) -> Things] /\ g_send_buf \in [0..SendSize -> Things] /\ u2e.ch \in Things
  BY <1>3, <1>4 DEF Anybody
<1>7. Len(trigger) \in 0..3
  <2>1. \A n \in Nat : n <= 3 => n \in 0..3
    OBVIOUS
  <2>2. Len(trigger) \in Nat /\ Len(trigger) <= 3
    BY <1>4, <1>5
  <2> QED BY <2>1, <2>2, Zenon
<1> QED BY <1>1, <1>2, <1>3, <1>4, <1>5, <1>6, <1>7, Zenon

\* What a byte does that is received: it goes on with the escape sequence, or it
\* goes to the ring behind what was held back.
LEMMA ReceiveIs ==
  ASSUME IInv, SInv, Receive, Counted, opmode = "GW"
  PROVE  /\ isr = Idle /\ next' = (next + 1) % Ids
         /\ UNCHANGED <<load, user, mode, sw_modeswitch_at_mode_on, sems, u2e, seg, segcp>>
         /\ get_data_buffer_usedsize + Len(trigger) + 1 <= Ahead
         /\ \E x \in Bytes :
              /\ x.id = next
              /\ \/ /\ PutAll(<<>>) /\ trigger' = Append(trigger, x) /\ isr' = Idle
                    /\ "plus" \in load.kinds
                 \/ /\ PutAll(trigger) /\ trigger' = <<>>
                    /\ isr' = IF working_state \in {"CONNECT", "ATMODE"}
                              THEN [at |-> wr', ch |-> x] ELSE Idle
<1>1. PICK kind \in load.kinds :
      LET ch   == [id |-> next, kind |-> kind]
          back == Restored(ch)
          full == is_data_buffer_full(Len(back))
      IN  /\ isr = Idle /\ Listening
          /\ Ahead < Size => get_data_buffer_usedsize + Len(trigger) + 1 <= Ahead
          /\ next' = IF Counted THEN (next + 1) % Ids ELSE next
          /\ trigger' = IF Continues(ch) THEN Append(trigger, Stored(ch))
                        ELSE IF Breaks(ch) THEN <<>> ELSE trigger
          /\ IF Swallows(ch) \/ ~full THEN PutAll(back) ELSE data_buffer_flush
          /\ isr' = IF ~Swallows(ch) /\ check_serial_store_permitted
                    THEN [at |-> wr', ch |-> Stored(ch)] ELSE Idle
          /\ UNCHANGED <<load, user, mode, sw_modeswitch_at_mode_on, delimit, sems,
                         u2e, seg, segcp>>
  BY DEF Receive
<1> DEFINE ch   == [id |-> next, kind |-> kind]
           back == Restored(ch)
           x    == Stored(ch)
<1>2. x \in Bytes /\ x.id = next /\ ch.kind = kind
  <2>1. load.kinds \subseteq {"data", "delim", "plus"} /\ next \in 0..(Ids - 1)
    BY LoadType DEF IInv, Types
  <2> QED BY <2>1 DEF Stored, Bytes
<1>3. get_data_buffer_usedsize + Len(trigger) + 1 <= Ahead /\ next' = (next + 1) % Ids
  BY <1>1 DEF Counted
<1>4. back = <<>> \/ back = trigger
  BY DEF Restored
<1>5. ~is_data_buffer_full(Len(back))
  <2>1. Ahead \in Nat /\ Ahead < Size
    BY SerialAssumption DEF IInv, Types, Counted, Ahead
  <2>2. Len(back) \in Nat /\ Len(back) <= Len(trigger) /\ Len(trigger) \in Nat
    BY <1>4, ThingsType
  <2>3. get_data_buffer_usedsize \in 0..(Size - 1)
    BY Indices DEF IInv, Cells
  <2>4. get_data_buffer_usedsize = Span(Size, rd, wr)
    BY DEF get_data_buffer_usedsize, Span
  <2>5. /\ Size \in Nat /\ Size > 1 /\ rd \in 0..(Size - 1) /\ wr \in 0..(Size - 1)
    BY ThingsType
  <2> DEFINE n == Len(back)
             m == Len(trigger)
             u == get_data_buffer_usedsize
  <2>6. n \in Nat /\ n <= m /\ m \in Nat /\ u \in 0..(Size - 1) /\ u + m + 1 <= Ahead
    BY <1>3, <2>2, <2>3
  <2> HIDE DEF n, m, u
  <2>7. u + n + 1 < Size
    BY <2>1, <2>5, <2>6
  <2>8. Span(Size, rd, wr) + n + 1 < Size
    BY <2>4, <2>7 DEF u
  <2>9. (Size + rd - (wr + n) - 1) % Size # 0
    BY <2>5, <2>6, <2>8, NotFull
  <2> QED BY <2>9 DEF is_data_buffer_full, n
<1>6. PutAll(back)
  BY <1>1, <1>5
<1>7. /\ trigger' = IF Continues(ch) THEN Append(trigger, x) ELSE IF Breaks(ch) THEN <<>> ELSE trigger
      /\ isr' = IF ~Swallows(ch) /\ check_serial_store_permitted THEN [at |-> wr', ch |-> x] ELSE Idle
  BY <1>1
<1>8. ~Continues(ch) /\ ~Breaks(ch) => trigger = <<>>
  <2>1. trigger # <<>> => modeswitch_time < Gap
    BY DEF SInv, Regime
  <2> QED BY <2>1 DEF Breaks
<1> HIDE DEF x
<1>9. CASE Continues(ch)
  <2>1. ~Breaks(ch) /\ Swallows(ch) /\ "plus" \in load.kinds
    BY <1>1, <1>2, <1>9 DEF Breaks, Swallows, Continues
  <2> HIDE DEF ch
  <2>2. PutAll(<<>>) /\ trigger' = Append(trigger, x) /\ isr' = Idle
    BY <1>6, <1>7, <1>9, <2>1 DEF Restored
  <2> QED BY <1>1, <1>2, <1>3, <2>1, <2>2
<1>10. CASE ~Continues(ch)
  <2>1. ~Swallows(ch)
    BY <1>8, <1>10 DEF Swallows
  <2>2. back = trigger /\ trigger' = <<>>
    BY <1>7, <1>8, <1>10 DEF Restored
  <2>3. isr' = IF working_state \in {"CONNECT", "ATMODE"} THEN [at |-> wr', ch |-> x] ELSE Idle
    BY <1>7, <2>1 DEF check_serial_store_permitted
  <2> HIDE DEF ch, back
  <2> QED BY <1>1, <1>2, <1>3, <1>6, <2>2, <2>3
<1> QED BY <1>9, <1>10

\* Bytes that are put make the ring longer by themselves.
LEMMA PutMoves ==
  ASSUME IInv, NEW q \in Seq(Things), PutAll(q), NEW a \in 0..Size, Span(Size, a, wr) + Len(q) < Size
  PROVE  /\ rd' = rd /\ Span(Size, a, wr') = Span(Size, a, wr) + Len(q)
         /\ RingOf(ring', Size, a, wr') = RingOf(ring, Size, a, wr) \o q
<1>1. /\ Size \in Nat /\ Size > 1 /\ ring \in [0..(Size - 1) -> Things] /\ wr \in 0..(Size - 1)
  BY ThingsType
<1>2. rd' = rd /\ wr' = (wr + Len(q)) % Size /\ ring' = PutRing(Size, ring, wr, q)
  BY DEF PutAll, PutRing
<1>3. ring' \in [0..(Size - 1) -> Things] /\ Put(Size, ring, wr, q, ring')
  BY <1>1, <1>2, PutIs
<1>4. /\ Span(Size, a, (wr + Len(q)) % Size) = Span(Size, a, wr) + Len(q)
      /\ RingOf(ring', Size, a, (wr + Len(q)) % Size) = RingOf(ring, Size, a, wr) \o q
  BY <1>1, <1>3, RingPut
<1>5. rd' = rd /\ wr' = (wr + Len(q)) % Size
  BY <1>2
<1> QED BY <1>4, <1>5

\* Putting none leaves the indices alone.
LEMMA PutNone ==
  ASSUME IInv, PutAll(<<>>)
  PROVE  rd' = rd /\ wr' = wr
<1>1. Size \in Nat /\ Size > 1 /\ wr \in 0..(Size - 1) /\ Len(<<>>) = 0
  BY ThingsType
<1>2. (wr + 0) % Size = wr
  BY <1>1
<1> QED BY <1>1, <1>2 DEF PutAll

\* The number of bytes in the ring; none when the indices meet.
LEMMA UsedIs ==
  ASSUME IInv
  PROVE  /\ get_data_buffer_usedsize = Span(Size, rd, wr) /\ get_data_buffer_usedsize \in 0..(Size - 1)
         /\ rd = wr <=> get_data_buffer_usedsize = 0
<1>1. Size \in Nat /\ Size > 1 /\ rd \in 0..(Size - 1) /\ wr \in 0..(Size - 1)
  BY ThingsType
<1>2. get_data_buffer_usedsize = Span(Size, rd, wr)
  BY DEF get_data_buffer_usedsize, Span
<1>3. rd \in 0..Size
  BY <1>1
<1>4. Span(Size, rd, wr) \in 0..(Size - 1)
  BY <1>1, <1>3, SpanIs
<1>5. rd = wr <=> Span(Size, rd, wr) = 0
  BY <1>1, <1>4, SpanTaken
<1> QED BY <1>2, <1>4, <1>5

\* Numbers of bytes.
LEMMA Amounts ==
  ASSUME IInv
  PROVE  Ahead \in Nat /\ Waits \in 0..1 /\ Waits' \in 0..1
<1>1. load \in Loads
  BY DEF IInv, Types
<1> QED BY <1>1, SerialAssumption DEF Ahead, Waits

\* What the UART peer lets wait leaves a cell free.
LEMMA RoomFor ==
  ASSUME IInv, Counted, NEW m \in Nat, get_data_buffer_usedsize + m <= Ahead
  PROVE  Span(Size, rd, wr) + m < Size
<1>1. /\ Ahead \in Nat /\ Ahead < Size /\ Size \in Nat
  BY ThingsType, SerialAssumption DEF IInv, Types, Counted, Ahead
<1>2. get_data_buffer_usedsize = Span(Size, rd, wr) /\ get_data_buffer_usedsize \in Nat
  BY UsedIs
<1>3. \A a, b, c, d \in Nat : a + b <= c /\ c < d => a + b < d
  OBVIOUS
<1> QED BY <1>1, <1>2, <1>3, Zenon

\* A step that puts bytes and takes none keeps what the copying loop counts on.
LEMMA FlowPut ==
  ASSUME IInv, IInv', SInv, Counted, opmode = "GW", load' = load, u2e' = u2e, working_state' = working_state,
         isr' # Idle => isr'.at = wr',
         working_state = "CONNECT" =>
           \E n \in Nat : /\ rd' = rd /\ Span(Size, rd, wr') = Span(Size, rd, wr) + n
                          /\ get_data_buffer_usedsize + n + Waits' + Len(trigger') <= Ahead
  PROVE  Flow'
<1>1. Size' = Size /\ Ahead' = Ahead /\ (opmode' = "GW" => Counted')
  BY DEF Size, Ahead, Counted, pack
<1> SUFFICES ASSUME working_state = "CONNECT"
             PROVE  /\ u2e.pc = "move" => u2e.r = rd' /\ rd' # wr'
                    /\ get_data_buffer_usedsize' + Waits' + Len(trigger') <= Ahead
  BY <1>1 DEF Flow
<1>2. PICK n \in Nat : /\ rd' = rd /\ Span(Size, rd, wr') = Span(Size, rd, wr) + n
                       /\ get_data_buffer_usedsize + n + Waits' + Len(trigger') <= Ahead
  OBVIOUS
<1>3. /\ Size \in Nat /\ Size > 1 /\ rd \in 0..(Size - 1)
      /\ get_data_buffer_usedsize = Span(Size, rd, wr) /\ get_data_buffer_usedsize \in 0..(Size - 1)
      /\ rd = wr <=> get_data_buffer_usedsize = 0
  BY ThingsType, UsedIs
<1>4. get_data_buffer_usedsize' = get_data_buffer_usedsize + n
  BY <1>1, <1>2, <1>3 DEF get_data_buffer_usedsize, Span
<1>5. ASSUME u2e.pc = "move" PROVE u2e.r = rd' /\ rd' # wr'
  <2>1. u2e.r = rd /\ rd # wr
    BY <1>5 DEF SInv, Flow
  <2>2. Span(Size, rd, wr) + n # 0
    BY <1>3, <2>1
  <2>3. Span(Size, rd, rd) = 0
    BY <1>3, SpanTaken
  <2> QED BY <1>2, <2>1, <2>2, <2>3
<1> QED BY <1>2, <1>4, <1>5

\* A byte that is received.
LEMMA ReceiveStream ==
  ASSUME NoneHeld, IInv, IInv', SInv, Receive
  PROVE  SInv'
<1>1. PICK kind \in load.kinds :
      LET ch   == [id |-> next, kind |-> kind]
          back == Restored(ch)
          full == is_data_buffer_full(Len(back))
      IN  /\ isr = Idle
          /\ modeswitch_time' = IF opmode = "GW" THEN 0 ELSE modeswitch_time
          /\ trigger' = IF Continues(ch) THEN Append(trigger, Stored(ch))
                        ELSE IF Breaks(ch) THEN <<>> ELSE trigger
          /\ enable_modeswitch_timer' =
               IF Continues(ch) /\ trigger = <<>> THEN TRUE
               ELSE IF Breaks(ch) THEN FALSE ELSE enable_modeswitch_timer
          /\ IF Swallows(ch) \/ ~full THEN PutAll(back) ELSE data_buffer_flush
          /\ isr' = IF ~Swallows(ch) /\ check_serial_store_permitted
                    THEN [at |-> wr', ch |-> Stored(ch)] ELSE Idle
  BY DEF Receive
<1> DEFINE ch   == [id |-> next, kind |-> kind]
           back == Restored(ch)
<1>2. UNCHANGED <<load, u2e_size, working_state, opmode, sw_modeswitch_at_mode_on, u2e, seg, segcp>>
  BY DEF Receive, user, mode
<1>3. /\ load \in Loads /\ load.reconnects \in BOOLEAN /\ Gap \in Nat /\ Gap > 0 /\ Gap' = Gap
      /\ modeswitch_time \in 0..Gap /\ opmode \in {"GW", "AT"}
  BY <1>2, LoadType, SerialAssumption DEF IInv, Types, Gap
<1>4. ~(Continues(ch) /\ Breaks(ch)) /\ (Continues(ch) \/ Breaks(ch) => opmode = "GW")
      /\ (Continues(ch) => ch.kind = "plus")
  BY DEF Continues, Breaks
<1>5. load.reconnects => trigger' = <<>> /\ back = <<>>
  <2>1. ASSUME load.reconnects PROVE ~Continues(ch) /\ trigger = <<>>
    <3>1. kind # "plus" /\ ch.kind = kind
      BY <1>1, <1>3, <2>1 DEF NoneHeld
    <3> QED BY <1>4, <2>1, <3>1 DEF SInv, Regime
  <2> QED BY <1>1, <2>1 DEF Restored
<1>6. trigger' # <<>> => enable_modeswitch_timer' = TRUE /\ modeswitch_time' < Gap
  <2>1. trigger # <<>> => enable_modeswitch_timer = TRUE /\ modeswitch_time < Gap
    BY DEF SInv, Regime
  <2>2. modeswitch_time' = 0 \/ modeswitch_time' = modeswitch_time
    BY <1>1
  <2>3. CASE Continues(ch)
    <3>1. enable_modeswitch_timer' = TRUE /\ modeswitch_time' = 0
      <4>1. modeswitch_time' = 0
        BY <1>1, <1>4, <2>3
      <4>2. enable_modeswitch_timer' = IF trigger = <<>> THEN TRUE ELSE enable_modeswitch_timer
        BY <1>1, <1>4, <2>3, Zenon
      <4>3. enable_modeswitch_timer' = TRUE
        BY <2>1, <4>2, Zenon
      <4> QED BY <4>1, <4>3
    <3> QED BY <1>3, <3>1
  <2>4. CASE Breaks(ch)
    BY <1>1, <1>4, <2>4
  <2>5. CASE ~Continues(ch) /\ ~Breaks(ch)
    <3>1. trigger' = trigger /\ enable_modeswitch_timer' = enable_modeswitch_timer
      BY <1>1, <2>5, Zenon
    <3> QED BY <1>3, <2>1, <2>2, <3>1
  <2> QED BY <2>3, <2>4, <2>5
<1>7. Regime'
  <2>1. load.reconnects' = load.reconnects
    BY <1>2
  <2> QED BY <1>2, <1>3, <1>5, <1>6, <2>1 DEF SInv, Regime
<1>8. Between'
  <2>1. ASSUME seg # "idle"
        PROVE  isr' = Idle /\ wr' = 0 /\ (seg = "connect" => rd' = 0)
    <3>1. working_state = "OPEN" /\ wr = 0 /\ (seg = "connect" => rd = 0) /\ back = <<>>
      BY <1>3, <1>5, <2>1 DEF SInv, Regime, Between
    <3>2. isr' = Idle
      BY <1>1, <3>1 DEF check_serial_store_permitted
    <3>3. CASE PutAll(back)
      BY <3>1, <3>2, <3>3, PutNone
    <3>4. CASE data_buffer_flush
      BY <3>2, <3>4 DEF data_buffer_flush
    <3> QED BY <1>1, <3>3, <3>4
  <2> QED BY <1>2, <2>1 DEF SInv, Between
<1> HIDE DEF ch, back
<1>9. Flow'
  <2>1. ASSUME Counted, opmode = "GW" PROVE Flow'
    <3>1. PICK x \in Bytes :
            \/ /\ PutAll(<<>>) /\ trigger' = Append(trigger, x) /\ isr' = Idle
               /\ "plus" \in load.kinds
            \/ /\ PutAll(trigger) /\ trigger' = <<>>
               /\ isr' = IF working_state \in {"CONNECT", "ATMODE"}
                         THEN [at |-> wr', ch |-> x] ELSE Idle
      BY <2>1, ReceiveIs
    <3>2. isr' # Idle => isr'.at = wr'
      BY <3>1
    <3>3. get_data_buffer_usedsize + Len(trigger) + 1 <= Ahead /\ get_data_buffer_usedsize \in Nat
      BY <2>1, ReceiveIs, UsedIs
    <3>4. /\ Size \in Nat /\ rd \in 0..Size /\ trigger \in Seq(Things) /\ <<>> \in Seq(Things)
          /\ Len(trigger) \in Nat /\ x \in Things /\ Ahead \in Nat /\ Waits' \in 0..1
      <4>1. Size \in Nat /\ rd \in 0..(Size - 1) /\ trigger \in Seq(Things) /\ Bytes \subseteq Things
        BY ThingsType
      <4>2. rd \in 0..Size
        BY <4>1
      <4> QED BY <4>1, <4>2, Amounts, LenProperties
    <3> DEFINE l == Len(trigger)
               u == get_data_buffer_usedsize
    <3>5. l \in Nat /\ u \in Nat /\ u + l <= Ahead /\ u + 0 <= Ahead /\ u + 0 + 0 + (l + 1) <= Ahead
          /\ u + l + Waits' + 0 <= Ahead
      <4>1. l \in Nat /\ u \in Nat /\ u + l + 1 <= Ahead
        BY <3>3, <3>4
      <4> HIDE DEF l, u
      <4>2. \A a, b, e \in Nat, w \in 0..1 :
              a + b + 1 <= e => /\ a + b <= e /\ a + 0 <= e /\ a + 0 + 0 + (b + 1) <= e
                                /\ a + b + w + 0 <= e
        OBVIOUS
      <4> QED BY <3>4, <4>1, <4>2, Zenon
    <3>6. \E n \in Nat : /\ rd' = rd /\ Span(Size, rd, wr') = Span(Size, rd, wr) + n
                         /\ get_data_buffer_usedsize + n + Waits' + Len(trigger') <= Ahead
      <4>1. CASE PutAll(<<>>) /\ trigger' = Append(trigger, x) /\ isr' = Idle
        <5>1. Len(trigger') = l + 1 /\ Waits' = 0 /\ Len(<<>>) = 0
          BY <3>4, <4>1, AppendProperties DEF Waits
        <5>2. Span(Size, rd, wr) + 0 < Size
          BY <2>1, <3>5, RoomFor
        <5>3. rd' = rd /\ Span(Size, rd, wr') = Span(Size, rd, wr) + 0
          BY <3>4, <4>1, <5>1, <5>2, PutMoves
        <5> QED BY <3>5, <5>1, <5>3
      <4>2. CASE PutAll(trigger) /\ trigger' = <<>>
        <5>1. Span(Size, rd, wr) + l < Size
          BY <2>1, <3>5, RoomFor
        <5>2. rd' = rd /\ Span(Size, rd, wr') = Span(Size, rd, wr) + l
          BY <3>4, <4>2, <5>1, PutMoves
        <5>3. Len(trigger') = 0
          BY <4>2
        <5> QED BY <3>5, <5>2, <5>3
      <4> QED BY <3>1, <4>1, <4>2
    <3> QED BY <1>2, <2>1, <3>2, <3>6, FlowPut
  <2>2. Counted' = Counted
    BY <1>2 DEF Counted, Ahead, Size, pack
  <2>3. CASE ~(Counted /\ opmode = "GW")
    BY <1>2, <2>2, <2>3 DEF Flow
  <2> QED BY <2>1, <2>3
<1> QED BY <1>7, <1>8, <1>9 DEF SInv

\* The byte is stored where the ring ends.
LEMMA StoreStream ==
  ASSUME IInv, IInv', SInv, Store
  PROVE  SInv'
<1>1. /\ UNCHANGED <<load, rd, u2e_size, working_state, opmode, trigger, modeswitch_time,
                     enable_modeswitch_timer, sw_modeswitch_at_mode_on, u2e, seg, segcp>>
      /\ isr # Idle /\ isr' = Idle /\ wr' = Moved(isr.at)
  BY DEF Store, user, mode, escape
<1>2. Regime'
  BY <1>1 DEF SInv, Regime, Gap
<1>3. Between'
  BY <1>1 DEF SInv, Between
<1>4. Flow'
  <2>1. ASSUME Counted, opmode = "GW" PROVE Flow'
    <3>1. Size \in Nat /\ Size > 1 /\ rd \in 0..Size /\ wr \in 0..(Size - 1) /\ Waits = 1 /\ Waits' = 0
      <4>1. Size \in Nat /\ Size > 1 /\ rd \in 0..(Size - 1) /\ wr \in 0..(Size - 1)
        BY ThingsType
      <4>2. rd \in 0..Size
        BY <4>1
      <4> QED BY <1>1, <4>1, <4>2 DEF Waits
    <3>2. ASSUME working_state = "CONNECT"
          PROVE  \E n \in Nat : /\ rd' = rd /\ Span(Size, rd, wr') = Span(Size, rd, wr) + n
                                /\ get_data_buffer_usedsize + n + Waits' + Len(trigger') <= Ahead
      <4>1. isr.at = wr /\ get_data_buffer_usedsize + 1 + Len(trigger) <= Ahead
        BY <1>1, <2>1, <3>1, <3>2 DEF SInv, Flow
      <4>2. Len(trigger) \in Nat /\ get_data_buffer_usedsize \in Nat /\ Ahead \in Nat
        BY ThingsType, UsedIs, Amounts
      <4>3. get_data_buffer_usedsize + 1 <= Ahead
            /\ get_data_buffer_usedsize + 1 + 0 + Len(trigger) <= Ahead
        <5>1. \A a, b, e \in Nat : a + 1 + b <= e => a + 1 <= e /\ a + 1 + 0 + b <= e
          OBVIOUS
        <5> QED BY <4>1, <4>2, <5>1, Zenon
      <4>4. Span(Size, rd, wr) + 1 < Size
        BY <2>1, <4>3, RoomFor
      <4>5. wr' = (wr + 1) % Size
        BY <1>1, <4>1 DEF Moved
      <4>6. Span(Size, rd, wr') = Span(Size, rd, wr) + 1
        BY <3>1, <4>4, <4>5, SpanIs
      <4> QED BY <1>1, <3>1, <4>3, <4>6
    <3> QED BY <1>1, <2>1, <3>2, FlowPut
  <2>2. Counted' = Counted
    BY <1>1 DEF Counted, Ahead, Size, pack
  <2>3. CASE ~(Counted /\ opmode = "GW")
    BY <1>1, <2>2, <2>3 DEF Flow
  <2> QED BY <2>1, <2>3
<1> QED BY <1>2, <1>3, <1>4 DEF SInv

\* What the end of the gap makes of the escape sequence.
LEMMA TimerIs ==
  ASSUME IInv, seg_timer_msec
  PROVE  /\ isr = Idle
         /\ UNCHANGED <<load, u2e_size, working_state, opmode, isr, u2e, seg, segcp, next>>
         /\ \/ /\ trigger' = <<>> /\ Len(trigger) = 3 /\ UNCHANGED buffer
               /\ sw_modeswitch_at_mode_on' = TRUE
            \/ trigger' = <<>> /\ PutAll(trigger) /\ UNCHANGED sw_modeswitch_at_mode_on
            \/ /\ trigger' = trigger /\ UNCHANGED buffer /\ UNCHANGED sw_modeswitch_at_mode_on
               /\ enable_modeswitch_timer' = enable_modeswitch_timer
               /\ enable_modeswitch_timer = TRUE => modeswitch_time' < Gap
<1>1. /\ isr = Idle
      /\ UNCHANGED <<load, u2e_size, working_state, opmode, isr, u2e, seg, segcp, next>>
  BY DEF seg_timer_msec, user, mode
<1>2. CASE GapUp /\ Len(trigger) = 3
  <2>1. trigger' = <<>> /\ UNCHANGED buffer /\ sw_modeswitch_at_mode_on' = TRUE
    BY <1>2 DEF seg_timer_msec
  <2> QED BY <1>1, <1>2, <2>1
<1>3. CASE GapUp /\ Len(trigger) # 3
  <2>1. trigger' = <<>> /\ PutAll(trigger) /\ UNCHANGED sw_modeswitch_at_mode_on
    BY <1>3 DEF seg_timer_msec
  <2> QED BY <1>1, <2>1
<1>4. CASE ~GapUp
  <2>1. /\ trigger' = trigger /\ UNCHANGED buffer /\ UNCHANGED sw_modeswitch_at_mode_on
        /\ enable_modeswitch_timer' = enable_modeswitch_timer
    BY <1>4, Zenon DEF seg_timer_msec
  <2>2. Gap \in Nat /\ modeswitch_time \in 0..Gap
    BY LoadType DEF IInv, Types
  <2>3. GapTime \in Nat
    BY <2>2 DEF GapTime
  <2>4. enable_modeswitch_timer = TRUE => modeswitch_time' < Gap
    BY <1>4, <2>2, <2>3 DEF seg_timer_msec, GapUp
  <2> QED BY <1>1, <2>1, <2>4
<1> QED BY <1>2, <1>3, <1>4

\* The bytes that were held back go to the ring, or they are the escape sequence.
LEMMA TimerStream ==
  ASSUME IInv, IInv', SInv, seg_timer_msec
  PROVE  SInv'
<1>1. /\ isr = Idle /\ isr' = Idle
      /\ UNCHANGED <<load, u2e_size, working_state, opmode, u2e, seg, segcp>>
  BY TimerIs
<1>2. Gap' = Gap /\ load.reconnects' = load.reconnects
  BY <1>1 DEF Gap
<1>3. trigger' = <<>> \/ trigger' = trigger
  BY TimerIs
<1>4. load.reconnects => trigger' = <<>> /\ sw_modeswitch_at_mode_on' = FALSE
  <2>1. load.reconnects => trigger = <<>> /\ sw_modeswitch_at_mode_on = FALSE
    BY DEF SInv, Regime
  <2>2. trigger = <<>> => Len(trigger) # 3
    OBVIOUS
  <2>3. sw_modeswitch_at_mode_on' = sw_modeswitch_at_mode_on \/ Len(trigger) = 3
    BY TimerIs, Zenon
  <2> QED BY <1>3, <2>1, <2>2, <2>3, Zenon
<1>5. trigger' # <<>> => enable_modeswitch_timer' = TRUE /\ modeswitch_time' < Gap
  <2>1. trigger # <<>> => enable_modeswitch_timer = TRUE
    BY DEF SInv, Regime
  <2> QED BY <2>1, TimerIs, Zenon
<1>6. Regime'
  BY <1>1, <1>2, <1>4, <1>5 DEF SInv, Regime
<1>7. Between'
  <2>1. ASSUME seg # "idle" PROVE wr' = wr /\ rd' = rd
    <3>1. trigger = <<>>
      BY <2>1, SerialAssumption DEF SInv, Regime, IInv, Types
    <3>2. CASE PutAll(trigger)
      BY <3>1, <3>2, PutNone
    <3>3. CASE UNCHANGED buffer
      BY <3>3 DEF buffer
    <3> QED BY <3>2, <3>3, TimerIs
  <2> QED BY <1>1, <2>1 DEF SInv, Between
<1>8. Flow'
  <2>1. ASSUME Counted, opmode = "GW" PROVE Flow'
    <3>1. ASSUME working_state = "CONNECT"
          PROVE  \E n \in Nat : /\ rd' = rd /\ Span(Size, rd, wr') = Span(Size, rd, wr) + n
                                /\ get_data_buffer_usedsize + n + Waits' + Len(trigger') <= Ahead
      <4>1. /\ trigger \in Seq(Things) /\ Len(trigger) \in Nat /\ get_data_buffer_usedsize \in Nat
            /\ Ahead \in Nat /\ rd \in 0..Size /\ Waits = 0 /\ Waits' = 0
            /\ Span(Size, rd, wr) \in Nat
        <5>1. rd \in 0..(Size - 1) /\ Size \in Nat /\ trigger \in Seq(Things) /\ Len(trigger) \in 0..3
          BY ThingsType
        <5>2. rd \in 0..Size /\ Len(trigger) \in Nat
          BY <5>1
        <5>3. get_data_buffer_usedsize \in Nat /\ Span(Size, rd, wr) \in Nat
          BY UsedIs
        <5> QED BY <1>1, <5>1, <5>2, <5>3, Amounts DEF Waits
      <4> DEFINE l == Len(trigger)
                 u == get_data_buffer_usedsize
      <4>2. u + 0 + l <= Ahead
        BY <2>1, <3>1, <4>1 DEF SInv, Flow
      <4>3. u + l <= Ahead /\ u + 0 + 0 + l <= Ahead /\ u + l + 0 + 0 <= Ahead /\ u + 0 + 0 + 0 <= Ahead
        <5>1. \A a, b, e \in Nat : a + 0 + b <= e => /\ a + b <= e /\ a + 0 + 0 + b <= e
                                                     /\ a + b + 0 + 0 <= e /\ a + 0 + 0 + 0 <= e
          OBVIOUS
        <5> QED BY <4>1, <4>2, <5>1, Zenon
      <4>4. CASE PutAll(trigger) /\ trigger' = <<>>
        <5>1. Span(Size, rd, wr) + l < Size
          BY <2>1, <4>1, <4>3, RoomFor
        <5>2. rd' = rd /\ Span(Size, rd, wr') = Span(Size, rd, wr) + l
          BY <4>1, <4>4, <5>1, PutMoves
        <5>3. Len(trigger') = 0
          BY <4>4
        <5> QED BY <4>1, <4>3, <5>2, <5>3
      <4>5. CASE UNCHANGED buffer
        <5>1. rd' = rd /\ Span(Size, rd, wr') = Span(Size, rd, wr) + 0
          BY <4>1, <4>5 DEF buffer
        <5>2. Len(trigger') = l \/ Len(trigger') = 0
          BY <1>3
        <5> QED BY <4>1, <4>3, <5>1, <5>2
      <4> QED BY <4>4, <4>5, TimerIs
    <3> QED BY <1>1, <2>1, <3>1, FlowPut
  <2>2. Counted' = Counted
    BY <1>1 DEF Counted, Ahead, Size, pack
  <2>3. CASE ~(Counted /\ opmode = "GW")
    BY <1>1, <2>2, <2>3 DEF Flow
  <2> QED BY <2>1, <2>3
<1> QED BY <1>6, <1>7, <1>8 DEF SInv

\* A step of seg_u2e_task that leaves the bytes where they are.
Rests(l) == l.pc # "move" /\ ~(l.pc = "sent" /\ l.i > 0)
Quiet    == UNCHANGED <<ring, rd, g_send_buf, u2e_size>> /\ Rests(u2e) /\ Rests(u2e')

\* What seg_u2e_task does with the bytes: a byte is taken from the ring, it is put
\* into g_send_buf, what is there is sent, and it is forgotten.
LEMMA TaskIs ==
  ASSUME IInv, seg_u2e_task
  PROVE  /\ UNCHANGED <<load, mode, escape, isr, seg, segcp, next, wr>>
         /\ (u2e.pc \in {"wait", "lock", "check", "unlock"} /\ working_state # "CONNECT")
              => Quiet /\ u2e'.pc \in {"wait", "lock", "check", "unlock"}
         /\ \/ Quiet
            \/ Getc("getc", "move") /\ u2e'.pc = "move" /\ u2e'.r = rd /\ u2e'.ch = ring[rd]
            \/ Copy /\ Rests(u2e')
            \/ Getc("first", "move1") \/ CopyFirst
            \/ /\ UNCHANGED <<ring, rd, g_send_buf, u2e_size>> /\ u2e.pc = "send"
               /\ u2e'.pc = "sent" /\ u2e'.i = u2e.len /\ u2e.len > 0 /\ working_state = "CONNECT"
            \/ /\ UNCHANGED <<ring, rd>> /\ u2e.pc = "sent" /\ u2e.i > 0 /\ u2e'.pc = "unlock"
               /\ g_send_buf' = NoBytes /\ u2e_size' = u2e_size - u2e.i
<1> DEFINE Early == {"wait", "lock", "check", "unlock"}
<1>1. /\ u2e \in Locals /\ u2e.len \in Nat /\ u2e.i \in Nat
      /\ \A p \in Places : /\ [u2e EXCEPT !.pc = p].pc = p
                           /\ [u2e EXCEPT !.pc = p].i = u2e.i
      /\ \A p \in Places, n \in Nat : [Waiting EXCEPT !.pc = p, !.len = n].pc = p
  BY LocalsType DEF IInv, Locals, Waiting
<1>2. UNCHANGED <<load, mode, escape, isr, seg, segcp, next, wr>>
  <2>1. Others /\ wr' = wr
    BY DEF seg_u2e_task, TakeSem, TakeCritical, Check, Unlock, GetLen, Getc, Copy, CopyFirst,
           Packed, ClearDelimiter, Send, Sent, buffer
  <2> QED BY <2>1 DEF Others
<1>3. CASE TakeSem
  <2>1. u2e.pc = "wait" /\ u2e'.pc = "lock" /\ UNCHANGED <<buffer, user>>
    BY <1>1, <1>3 DEF TakeSem, U2E, Places
  <2> QED BY <1>2, <2>1 DEF Quiet, Rests, buffer, user
<1>4. CASE TakeCritical
  <2>1. u2e.pc = "lock" /\ u2e'.pc = "check" /\ UNCHANGED <<buffer, user>>
    BY <1>1, <1>4 DEF TakeCritical, U2E, Places
  <2> QED BY <1>2, <2>1 DEF Quiet, Rests, buffer, user
<1>5. CASE Check
  <2>1. /\ u2e.pc = "check" /\ u2e'.pc \in {"get", "unlock"} /\ UNCHANGED <<buffer, user>>
        /\ u2e'.pc = "get" => working_state = "CONNECT"
    BY <1>1, <1>5 DEF Check, U2E, Places
  <2> QED BY <1>2, <2>1 DEF Quiet, Rests, buffer, user
<1>6. CASE Unlock
  <2>1. u2e.pc = "unlock" /\ u2e'.pc = "wait" /\ UNCHANGED <<buffer, user>>
    BY <1>6 DEF Unlock, U2E, Waiting
  <2> QED BY <1>2, <2>1 DEF Quiet, Rests, buffer, user
<1>7. CASE GetLen
  <2>1. u2e.pc = "get" /\ u2e'.pc \in {"first", "getc", "packed"} /\ UNCHANGED <<buffer, user>>
    BY <1>1, <1>7 DEF GetLen, U2E, Loop, Locals
  <2> QED BY <1>2, <2>1 DEF Quiet, Rests, buffer, user
<1>8. CASE Getc("getc", "move")
  <2>1. u2e.pc = "getc" /\ u2e'.pc = "move" /\ u2e'.r = rd /\ u2e'.ch = ring[rd]
    BY <1>1, <1>8 DEF Getc, U2E, Locals
  <2> QED BY <1>2, <1>8, <2>1
<1>9. CASE Getc("first", "move1")
  <2>1. u2e.pc = "first"
    BY <1>9 DEF Getc, U2E
  <2> QED BY <1>2, <1>9, <2>1
<1>10. CASE Copy
  <2>1. u2e.pc = "move" /\ u2e'.pc \in {"clear", "getc", "packed"}
    BY <1>10 DEF Copy, U2E, Loop, Waiting
  <2> QED BY <1>2, <1>10, <2>1 DEF Rests
<1>11. CASE CopyFirst
  <2>1. u2e.pc = "move1"
    BY <1>11 DEF CopyFirst, U2E
  <2> QED BY <1>2, <1>11, <2>1
<1>12. CASE Packed
  <2>1. u2e.pc = "packed" /\ u2e'.pc \in {"clear", "unlock"} /\ UNCHANGED <<buffer, user>>
    BY <1>12 DEF Packed, U2E, Waiting
  <2> QED BY <1>2, <2>1 DEF Quiet, Rests, buffer, user
<1>13. CASE ClearDelimiter
  <2>1. u2e.pc = "clear" /\ u2e'.pc = "send" /\ UNCHANGED <<buffer, user>>
    BY <1>1, <1>13 DEF ClearDelimiter, U2E, Places
  <2> QED BY <1>2, <2>1 DEF Quiet, Rests, buffer, user
<1>14. CASE Send
  <2>1. PICK sent \in {u2e.len} \cup (IF load.fails THEN {0} ELSE {}) :
          u2e' = [u2e EXCEPT !.pc = "sent", !.i = IF working_state = "CONNECT" THEN sent ELSE 0]
    BY <1>14 DEF Send
  <2>2. u2e.pc = "send" /\ UNCHANGED <<ring, rd, g_send_buf, u2e_size>>
    BY <1>14 DEF Send, U2E, buffer, user
  <2>3. /\ u2e'.pc = "sent" /\ u2e'.i = IF working_state = "CONNECT" THEN sent ELSE 0
        /\ sent = u2e.len \/ sent = 0
    BY <1>1, <2>1 DEF Locals
  <2>4. CASE u2e'.i = 0
    BY <1>2, <2>2, <2>3, <2>4 DEF Quiet, Rests
  <2>5. CASE u2e'.i # 0
    BY <1>1, <1>2, <2>2, <2>3, <2>5
  <2> QED BY <2>4, <2>5
<1>15. CASE Sent
  <2>1. /\ u2e.pc = "sent" /\ u2e'.pc = "unlock" /\ UNCHANGED <<ring, rd>>
        /\ u2e_size' = u2e_size - u2e.i /\ g_send_buf' = IF u2e.i > 0 THEN NoBytes ELSE g_send_buf
    BY <1>15 DEF Sent, U2E, Waiting, buffer
  <2>2. CASE u2e.i > 0
    BY <1>2, <2>1, <2>2
  <2>3. CASE ~(u2e.i > 0)
    <3>1. u2e_size \in Int
      BY LocalsType DEF IInv, Changed
    <3>2. u2e_size' = u2e_size
      BY <1>1, <2>1, <2>3, <3>1
    <3> QED BY <1>2, <2>1, <2>3, <3>2 DEF Quiet, Rests
  <2> QED BY <2>2, <2>3
<1> QED BY <1>3, <1>4, <1>5, <1>6, <1>7, <1>8, <1>9, <1>10, <1>11, <1>12, <1>13, <1>14, <1>15
        DEF seg_u2e_task

\* The bytes that wait in the ring, when one is taken from it.
LEMMA UsedAfter ==
  ASSUME IInv, load' = load, rd' = rd \/ rd' = Moved(rd), wr' = wr
  PROVE  /\ rd' = rd => get_data_buffer_usedsize' = get_data_buffer_usedsize
         /\ rd' = Moved(rd) /\ rd # wr
              => get_data_buffer_usedsize' = get_data_buffer_usedsize - 1
<1>1. /\ Size \in Nat /\ Size > 1 /\ rd \in 0..(Size - 1) /\ wr \in 0..(Size - 1) /\ Size' = Size
      /\ get_data_buffer_usedsize = Span(Size, rd, wr)
  BY ThingsType, UsedIs DEF Size
<1>2. get_data_buffer_usedsize' = Span(Size, rd', wr)
  BY <1>1 DEF get_data_buffer_usedsize, Span
<1>3. rd # wr => Span(Size, (rd + 1) % Size, wr) = Span(Size, rd, wr) - 1
  BY <1>1, SpanTaken
<1> QED BY <1>1, <1>2, <1>3 DEF Moved

\* The copying loop moves the index it has read at.
LEMMA TaskStream ==
  ASSUME IInv, IInv', SInv, seg_u2e_task
  PROVE  SInv'
<1> DEFINE Early == {"wait", "lock", "check", "unlock"}
<1>1. UNCHANGED <<load, mode, escape, isr, seg, segcp, next, wr>>
  BY TaskIs
<1>2. UNCHANGED <<working_state, opmode, trigger, modeswitch_time, enable_modeswitch_timer,
                  sw_modeswitch_at_mode_on, Gap, Size, Ahead, pack, Waits>>
  BY <1>1 DEF mode, escape, Gap, Size, Ahead, pack, Waits
<1>3. Regime'
  BY <1>1, <1>2 DEF SInv, Regime
<1>4. Between'
  <2>1. ASSUME working_state = "OPEN"
        PROVE  Quiet /\ u2e_size = 0 /\ u2e'.pc \in Early
    <3>1. u2e.pc \in Early /\ u2e_size = 0
      BY <2>1 DEF SInv, Between
    <3> QED BY <2>1, <3>1, TaskIs
  <2>2. seg # "idle" => working_state = "OPEN"
    BY DEF SInv, Between
  <2> QED BY <1>1, <1>2, <2>1, <2>2 DEF SInv, Between, Quiet
<1>5. Flow'
  <2>1. ASSUME Counted, opmode = "GW", working_state = "CONNECT"
        PROVE  /\ u2e'.pc = "move" => u2e'.r = rd' /\ rd' # wr
               /\ get_data_buffer_usedsize' + Waits + Len(trigger) <= Ahead
    <3>1. /\ u2e.pc = "move" => u2e.r = rd /\ rd # wr
          /\ get_data_buffer_usedsize + Waits + Len(trigger) <= Ahead
      BY <2>1 DEF SInv, Flow
    <3>2. Len(trigger) \in Nat /\ Ahead \in Nat /\ Waits \in Nat /\ get_data_buffer_usedsize \in Nat
          /\ rd \in 0..(Size - 1) /\ u2e.pc \in Places
      <4>1. Len(trigger) \in 0..3 /\ get_data_buffer_usedsize \in 0..(Size - 1) /\ Waits \in 0..1
        BY ThingsType, UsedIs, Amounts
      <4>2. u2e.pc \in Places
        BY LocalsType DEF IInv, Locals
      <4> QED BY <4>1, <4>2, Amounts, ThingsType
    <3>3. CASE Quiet
      <4>1. rd' = rd /\ u2e'.pc # "move"
        BY <3>3 DEF Quiet, Rests
      <4>2. get_data_buffer_usedsize' = get_data_buffer_usedsize
        BY <1>1, <4>1, UsedAfter
      <4> QED BY <3>1, <4>1, <4>2
    <3>4. CASE Getc("getc", "move") /\ u2e'.pc = "move" /\ u2e'.r = rd
      <4>1. rd' = rd /\ rd # wr
        BY <3>4 DEF Getc
      <4>2. get_data_buffer_usedsize' = get_data_buffer_usedsize
        BY <1>1, <4>1, UsedAfter
      <4> QED BY <3>1, <3>4, <4>1, <4>2
    <3>5. CASE Copy /\ Rests(u2e')
      <4>1. u2e'.pc # "move" /\ rd' = Moved(rd) /\ rd # wr
        BY <3>1, <3>5 DEF Copy, U2E, Rests
      <4>2. get_data_buffer_usedsize' = get_data_buffer_usedsize - 1
        BY <1>1, <4>1, UsedAfter
      <4> HIDE DEF Waits
      <4>3. \A a, b, c, d \in Nat : a + b + c <= d => a - 1 + b + c <= d
        OBVIOUS
      <4> QED BY <3>1, <3>2, <4>1, <4>2, <4>3
    <3>6. ~(Getc("first", "move1") \/ CopyFirst)
      <4>1. ~(u2e.pc \in {"first", "move1"})
        BY <2>1 DEF IInv, Room, Counted
      <4> QED BY <4>1 DEF Getc, CopyFirst, U2E
    <3>7. CASE rd' = rd /\ u2e'.pc # "move"
      <4>1. get_data_buffer_usedsize' = get_data_buffer_usedsize
        BY <1>1, <3>7, UsedAfter
      <4> QED BY <3>1, <3>7, <4>1
    <3> QED BY <3>3, <3>4, <3>5, <3>6, <3>7, TaskIs
  <2>2. Counted' = Counted
    BY <1>2 DEF Counted
  <2> QED BY <1>1, <1>2, <2>1, <2>2 DEF SInv, Flow
<1> QED BY <1>3, <1>4, <1>5 DEF SInv

\* A connection begins with an empty ring, and ends when no byte is copied.
LEMMA SegStream ==
  ASSUME IInv, IInv', SInv, seg_task
  PROVE  SInv'
<1>1. UNCHANGED <<load, opmode, trigger, modeswitch_time, enable_modeswitch_timer,
                  sw_modeswitch_at_mode_on, isr, u2e, segcp, Gap>>
  <2>1. SegFrame
    BY DEF seg_task, Accept, Flushed, Connected, Closed
  <2> QED BY <2>1 DEF SegFrame, escape, Gap
<1>2. /\ Regime /\ Between /\ load.reconnects \in BOOLEAN
  BY SerialAssumption DEF SInv, IInv, Types
<1>3. CASE Accept
  <2>1. /\ load.reconnects /\ opmode = "GW" /\ working_state = "OPEN" /\ isr = Idle /\ wr' = 0
        /\ seg' = "flush" /\ UNCHANGED <<u2e_size, working_state>>
    BY <1>3 DEF Accept
  <2>2. Regime' /\ Between'
    BY <1>1, <1>2, <2>1 DEF Regime, Between
  <2>3. Flow'
    BY <1>1, <2>1 DEF Flow
  <2> QED BY <2>2, <2>3 DEF SInv
<1>4. CASE Flushed
  <2>1. seg = "flush" /\ seg' = "connect" /\ rd' = 0 /\ UNCHANGED <<wr, u2e_size, working_state>>
    BY <1>4 DEF Flushed
  <2>2. working_state = "OPEN" /\ isr = Idle /\ wr = 0 /\ load.reconnects
    BY <1>2, <2>1 DEF Regime, Between
  <2>3. Regime' /\ Between'
    BY <1>1, <1>2, <2>1, <2>2 DEF Regime, Between
  <2>4. Flow'
    BY <1>1, <2>1, <2>2 DEF Flow
  <2> QED BY <2>3, <2>4 DEF SInv
<1>5. CASE Connected
  <2>1. seg = "connect" /\ seg' = "idle" /\ working_state' = "CONNECT" /\ UNCHANGED <<rd, wr>>
    BY <1>5 DEF Connected
  <2>2. /\ working_state = "OPEN" /\ isr = Idle /\ wr = 0 /\ rd = 0 /\ load.reconnects
        /\ u2e.pc # "move" /\ trigger = <<>>
    BY <1>2, <2>1 DEF Regime, Between
  <2>3. Regime' /\ Between'
    BY <1>1, <1>2, <2>1, <2>2 DEF Regime, Between
  <2>4. get_data_buffer_usedsize' = 0 /\ Waits' = 0 /\ Len(trigger') = 0
    <3>1. get_data_buffer_usedsize = 0
      BY <2>2, UsedIs
    <3>2. get_data_buffer_usedsize' = get_data_buffer_usedsize
      BY <1>1, <2>1 DEF get_data_buffer_usedsize, Size
    <3> QED BY <1>1, <2>2, <3>1, <3>2 DEF Waits
  <2>5. Ahead' \in Nat
    BY <1>1, Amounts DEF Ahead
  <2>6. Flow'
    BY <1>1, <2>2, <2>4, <2>5 DEF Flow
  <2> QED BY <2>3, <2>6 DEF SInv
<1>6. CASE Closed
  <2>1. /\ seg = "idle" /\ seg' = "idle" /\ working_state' = "OPEN" /\ u2e_size' = 0
        /\ seg_critical_sem = "free" /\ opmode = "GW" /\ UNCHANGED wr
    BY <1>6 DEF Closed
  <2>2. u2e.pc \in {"wait", "lock"}
    BY <2>1 DEF IInv, Locked
  <2>3. Regime' /\ Between'
    BY <1>1, <1>2, <2>1, <2>2 DEF Regime, Between
  <2>4. Flow'
    BY <1>1, <2>1 DEF SInv, Flow, Counted, Ahead, Size, pack
  <2> QED BY <2>3, <2>4 DEF SInv
<1> QED BY <1>3, <1>4, <1>5, <1>6 DEF seg_task

\* The switch to command mode is for a UART peer whose connection stays.
LEMMA SegcpStream ==
  ASSUME IInv, IInv', SInv, segcp_serial_task
  PROVE  SInv'
<1>1. UNCHANGED <<load, trigger, modeswitch_time, enable_modeswitch_timer, isr, u2e, seg, Gap>>
  <2>1. SegcpFrame
    BY DEF segcp_serial_task, SwitchMode, FlushWr, FlushRd, process_socket_termination
  <2> QED BY <2>1 DEF SegcpFrame, Gap
<1>2. /\ Regime /\ Between /\ load.reconnects \in BOOLEAN /\ opmode \in {"GW", "AT"}
  BY SerialAssumption DEF SInv, IInv, Types
<1>3. /\ opmode' = "AT" /\ working_state' = "ATMODE" /\ ~load.reconnects
  <2>1. CASE SwitchMode
    BY <1>2, <2>1 DEF SwitchMode, Regime
  <2>2. CASE FlushWr \/ FlushRd \/ process_socket_termination
    <3>1. segcp # "idle" /\ UNCHANGED <<opmode, working_state>>
      BY <2>2 DEF FlushWr, FlushRd, process_socket_termination, mode
    <3> QED BY <1>2, <3>1 DEF Regime
  <2> QED BY <2>1, <2>2 DEF segcp_serial_task
<1>4. seg = "idle"
  BY <1>2, <1>3 DEF Regime
<1>5. Regime' /\ Between' /\ Flow'
  BY <1>1, <1>2, <1>3, <1>4 DEF Regime, Between, Flow
<1> QED BY <1>5 DEF SInv

\* SInv holds at first.
LEMMA StreamBegins ==
  ASSUME Init
  PROVE  SInv
<1>1. load \in Loads /\ Size \in Nat /\ Size > 1 /\ Ahead \in Nat /\ load.start \in {"OPEN", "CONNECT"}
  BY SerialAssumption, LoadType DEF Init, Ahead
<1>2. get_data_buffer_usedsize = 0
  <2>1. (Size + 0 - 0) % Size = 0
    BY <1>1
  <2> QED BY <2>1 DEF Init, get_data_buffer_usedsize
<1>3. u2e.pc = "wait" /\ Len(trigger) = 0 /\ Waits = 0
  BY DEF Init, Waiting, Waits
<1> QED BY <1>1, <1>2, <1>3 DEF Init, SInv, Regime, Between, Flow

\* SInv is inductive while IInv holds.
LEMMA StreamInductive ==
  ASSUME NoneHeld, IInv, SInv, [Next]_vars
  PROVE  SInv'
<1>1. IInv'
  BY Inductive
<1>2. CASE Receive
  BY <1>1, <1>2, ReceiveStream
<1>3. CASE Store
  BY <1>1, <1>3, StoreStream
<1>4. CASE seg_timer_msec
  BY <1>1, <1>4, TimerStream
<1>5. CASE seg_u2e_task
  BY <1>1, <1>5, TaskStream
<1>6. CASE seg_task
  BY <1>1, <1>6, SegStream
<1>7. CASE segcp_serial_task
  BY <1>1, <1>7, SegcpStream
<1>8. CASE UNCHANGED vars
  BY <1>8 DEF vars, buffer, user, mode, escape, SInv, Regime, Between, Flow, Counted, Waits,
              get_data_buffer_usedsize, Size, Gap, Ahead, pack
<1> QED BY <1>2, <1>3, <1>4, <1>5, <1>6, <1>7, <1>8 DEF Next

-----------------------------------------------------------------------------
(* The bytes on their way, before and after each step.                     *)

\* Where the ring begins for a reader of OnTheWay, and the byte of an interrupt.
From    == rd + IF u2e.pc = "move" THEN 1 ELSE 0
Held(x) == IF x = Idle THEN <<>> ELSE <<x.ch>>

\* OnTheWay is those four parts joined, and each is a sequence of bytes.
LEMMA WayIs ==
  ASSUME IInv, Counted, working_state = "CONNECT"
  PROVE  /\ OnTheWay = BytesOf(Joined(SendBufOf(u2e, g_send_buf, u2e_size),
                                      RingOf(ring, Size, From, wr), Held(isr), trigger))
         /\ SendBufOf(u2e, g_send_buf, u2e_size) \in Seq(Things) /\ u2e_size \in 0..SendSize
         /\ From \in 0..Size /\ RingOf(ring, Size, From, wr) \in Seq(Things)
         /\ Held(isr) \in Seq(Things)
         /\ isr # Idle => isr.ch \in Things
         /\ trigger \in Seq(Things) /\ <<>> \in Seq(Things)
<1>1. OnTheWay = BytesOf(Joined(SendBufOf(u2e, g_send_buf, u2e_size),
                                RingOf(ring, Size, From, wr), Held(isr), trigger))
  <2>1. InSendBuf = SendBufOf(u2e, g_send_buf, u2e_size)
    BY DEF InSendBuf, SendBufOf, U2E
  <2>2. InRing = RingOf(ring, Size, From, wr)
    BY DEF InRing, RingOf, Piece, Span, From, U2E
  <2>3. InInterrupt = Held(isr)
    BY DEF InInterrupt, Held
  <2> QED BY <2>1, <2>2, <2>3 DEF OnTheWay, Joined
<1>2. /\ Size \in Nat /\ Size > 1 /\ SendSize \in Nat /\ rd \in 0..(Size - 1) /\ wr \in 0..(Size - 1)
      /\ ring \in [0..(Size - 1) -> Things] /\ g_send_buf \in [0..SendSize -> Things]
      /\ u2e.ch \in Things /\ trigger \in Seq(Things) /\ Bytes \subseteq Things
  BY ThingsType
<1>3. u2e_size \in 0..SendSize
  <2>1. ~(u2e_size < 0) /\ u2e_size <= SendSize /\ u2e_size \in Int
    BY ThingsType DEF IInv, Room, Switched
  <2> QED BY <1>2, <2>1
<1>4. SendBufOf(u2e, g_send_buf, u2e_size) \in Seq(Things)
  BY <1>2, <1>3, SendBufIs
<1>5. From \in 0..Size
  BY <1>2 DEF From
<1>6. RingOf(ring, Size, From, wr) \in Seq(Things)
  BY <1>2, <1>5, RingType
<1>7. isr # Idle => isr.ch \in Things
  BY <1>2 DEF IInv, Types
<1>8. <<>> \in Seq(Things)
  OBVIOUS
<1>9. Held(isr) \in Seq(Things)
  <2>1. \A x \in Things : <<x>> \in Seq(Things)
    OBVIOUS
  <2> QED BY <1>7, <1>8, <2>1 DEF Held
<1> QED BY <1>1, <1>2, <1>3, <1>4, <1>5, <1>6, <1>7, <1>8, <1>9

\* The same after a step that leaves the connection up.
LEMMA WayAfter ==
  ASSUME Counted, load' = load, working_state' = "CONNECT"
  PROVE  OnTheWay' = BytesOf(Joined(SendBufOf(u2e', g_send_buf', u2e_size'),
                                    RingOf(ring', Size, From', wr'), Held(isr'), trigger'))
<1>1. Size' = Size /\ Counted'
  BY DEF Size, Counted, Ahead, pack
<1>2. InSendBuf' = SendBufOf(u2e', g_send_buf', u2e_size')
  BY DEF InSendBuf, SendBufOf, U2E
<1>3. InRing' = RingOf(ring', Size, From', wr')
  BY <1>1 DEF InRing, RingOf, Piece, Span, From, U2E
<1>4. InInterrupt' = Held(isr')
  BY DEF InInterrupt, Held
<1> QED BY <1>1, <1>2, <1>3, <1>4 DEF OnTheWay, Joined

\* There is room in the ring, whether the copying loop has moved the index or not.
LEMMA RoomFrom ==
  ASSUME IInv, SInv, Counted, working_state = "CONNECT",
         NEW m \in Nat, get_data_buffer_usedsize + m <= Ahead
  PROVE  opmode = "GW" /\ Span(Size, From, wr) + m < Size
<1>1. opmode = "GW"
  BY DEF SInv, Regime, IInv, Types
<1>2. Span(Size, rd, wr) + m < Size
  BY RoomFor
<1>3. Size \in Nat /\ Size > 1 /\ rd \in 0..(Size - 1) /\ wr \in 0..(Size - 1)
  BY ThingsType
<1>4. Span(Size, rd, wr) \in Nat
  BY UsedIs
<1>5. CASE u2e.pc = "move"
  <2>1. rd # wr /\ From = rd + 1
    BY <1>1, <1>5 DEF SInv, Flow, From
  <2>2. Span(Size, From, wr) = Span(Size, rd, wr) - 1
    BY <1>3, <2>1, SpanTaken
  <2>3. \A a, b, c \in Nat : a + b < c => (a - 1) + b < c
    OBVIOUS
  <2> QED BY <1>1, <1>2, <1>3, <1>4, <2>2, <2>3
<1>6. CASE u2e.pc # "move"
  <2>1. From = rd
    BY <1>3, <1>6 DEF From
  <2> QED BY <1>1, <1>2, <2>1
<1> QED BY <1>5, <1>6

\* A byte that is received comes last.
LEMMA ReceiveArrives ==
  ASSUME IInv, SInv, Receive, Counted, working_state = "CONNECT"
  PROVE  OnTheWay' = Append(OnTheWay, next)
<1>1. opmode = "GW"
  BY DEF SInv, Regime, IInv, Types
<1>2. /\ isr = Idle /\ UNCHANGED <<load, user, working_state, u2e>>
      /\ get_data_buffer_usedsize + Len(trigger) + 1 <= Ahead
  BY <1>1, ReceiveIs DEF mode
<1> DEFINE a == SendBufOf(u2e, g_send_buf, u2e_size)
           b == RingOf(ring, Size, From, wr)
           l == Len(trigger)
           u == get_data_buffer_usedsize
<1>3. /\ OnTheWay = BytesOf(Joined(a, b, <<>>, trigger)) /\ a \in Seq(Things) /\ b \in Seq(Things)
      /\ trigger \in Seq(Things) /\ From \in 0..Size /\ <<>> \in Seq(Things)
  BY <1>2, WayIs DEF Held
<1>4. l \in Nat /\ u \in Nat /\ u + l <= Ahead /\ u + 0 <= Ahead
  <2>1. l \in Nat /\ u \in Nat /\ u + l + 1 <= Ahead /\ Ahead \in Nat
    BY <1>2, ThingsType, UsedIs, Amounts
  <2> HIDE DEF l, u
  <2> QED BY <2>1
<1>5. Span(Size, From, wr) + l < Size /\ Span(Size, From, wr) + Len(<<>>) < Size
  <2>1. Len(<<>>) = 0 /\ 0 \in Nat
    OBVIOUS
  <2> QED BY <1>4, <2>1, RoomFrom
<1>6. PICK x \in Bytes :
        /\ x.id = next
        /\ \/ PutAll(<<>>) /\ trigger' = Append(trigger, x) /\ isr' = Idle
           \/ /\ PutAll(trigger) /\ trigger' = <<>>
              /\ isr' = IF working_state \in {"CONNECT", "ATMODE"}
                        THEN [at |-> wr', ch |-> x] ELSE Idle
  BY <1>1, ReceiveIs
<1>7. x \in Things
  BY <1>6, ThingsType
<1>8. OnTheWay' = BytesOf(Joined(a, RingOf(ring', Size, From', wr'), Held(isr'), trigger'))
  BY <1>2, WayAfter DEF user
<1> DEFINE q == Joined(a, b, <<>>, trigger)
<1>9. q \in Seq(Things)
  BY <1>3, JoinedType
<1>10. BytesOf(Append(q, x)) = Append(BytesOf(q), x.id)
  BY <1>7, <1>9, NumbersOf
<1>11. /\ Joined(a, b, <<>>, Append(trigger, x)) = Append(Joined(a, b, <<>>, trigger), x)
       /\ Joined(a, b \o trigger, <<x>>, <<>>) = Append(Joined(a, b, <<>>, trigger), x)
  <2> HIDE DEF a, b
  <2> QED BY <1>3, <1>7, JoinedGrows, ZenonT(60)
<1>12. CASE PutAll(<<>>) /\ trigger' = Append(trigger, x) /\ isr' = Idle
  <2>1. rd' = rd /\ RingOf(ring', Size, From, wr') = b \o <<>>
    BY <1>3, <1>5, <1>12, PutMoves
  <2>2. b \o <<>> = b
    BY <1>3, ConcatEmptySeq
  <2>3. From' = From
    BY <1>2, <2>1 DEF From
  <2>4. Joined(a, b, <<>>, Append(trigger, x)) = Append(q, x)
    BY <1>11
  <2>5. Held(isr') = <<>>
    BY <1>12 DEF Held
  <2> QED BY <1>3, <1>6, <1>8, <1>10, <1>12, <2>1, <2>2, <2>3, <2>4, <2>5
<1>13. CASE /\ PutAll(trigger) /\ trigger' = <<>>
            /\ isr' = IF working_state \in {"CONNECT", "ATMODE"}
                      THEN [at |-> wr', ch |-> x] ELSE Idle
  <2>1. rd' = rd /\ RingOf(ring', Size, From, wr') = b \o trigger
    BY <1>3, <1>5, <1>13, PutMoves
  <2>2. From' = From
    BY <1>2, <2>1 DEF From
  <2>3. Joined(a, b \o trigger, <<x>>, <<>>) = Append(q, x)
    BY <1>11
  <2>4. Held(isr') = <<x>>
    <3>1. isr' = [at |-> wr', ch |-> x]
      BY <1>13
    <3>2. x # None
      BY <1>6 DEF Bytes, None
    <3>3. isr'.ch = x /\ Idle.ch = None
      BY <3>1 DEF Idle
    <3> QED BY <3>2, <3>3 DEF Held
  <2> QED BY <1>3, <1>6, <1>8, <1>10, <1>13, <2>1, <2>2, <2>3, <2>4
<1> QED BY <1>6, <1>12, <1>13

\* A byte that is stored goes from the interrupt to the ring.
LEMMA StoreKeeps ==
  ASSUME IInv, SInv, Store, Counted, working_state = "CONNECT"
  PROVE  OnTheWay' = OnTheWay
<1>1. /\ UNCHANGED <<load, rd, user, working_state, trigger, u2e>> /\ isr # Idle /\ isr' = Idle
      /\ ring' = [ring EXCEPT ![isr.at] = isr.ch] /\ wr' = Moved(isr.at)
  BY DEF Store, mode, escape
<1>2. opmode = "GW"
  BY DEF SInv, Regime, IInv, Types
<1>3. isr.at = wr /\ get_data_buffer_usedsize + 1 + Len(trigger) <= Ahead
  BY <1>1, <1>2 DEF SInv, Flow, Waits
<1> DEFINE a == SendBufOf(u2e, g_send_buf, u2e_size)
           b == RingOf(ring, Size, From, wr)
           x == isr.ch
<1>4. /\ OnTheWay = BytesOf(Joined(a, b, <<x>>, trigger)) /\ a \in Seq(Things) /\ b \in Seq(Things)
      /\ trigger \in Seq(Things) /\ From \in 0..Size /\ x \in Things /\ <<>> \in Seq(Things)
  BY <1>1, WayIs DEF Held
<1>5. Span(Size, From, wr) + 1 < Size
  <2>1. Len(trigger) \in Nat /\ get_data_buffer_usedsize \in Nat /\ Ahead \in Nat
    BY ThingsType, UsedIs, Amounts
  <2>2. \A c, d, e \in Nat : c + 1 + d <= e => c + 1 <= e
    OBVIOUS
  <2>3. get_data_buffer_usedsize + 1 <= Ahead
    BY <1>3, <2>1, <2>2, Zenon
  <2> QED BY <2>3, RoomFrom
<1>6. RingOf(ring', Size, From, wr') = b \o <<x>>
  <2>1. Size \in Nat /\ Size > 1 /\ wr \in 0..(Size - 1) /\ ring \in [0..(Size - 1) -> Things]
    BY ThingsType
  <2>2. RingOf([ring EXCEPT ![wr] = x], Size, From, (wr + 1) % Size) = b \o <<x>>
    BY <1>4, <1>5, <2>1, RingStore
  <2> QED BY <1>1, <1>3, <2>2 DEF Moved
<1>7. OnTheWay' = BytesOf(Joined(a, RingOf(ring', Size, From, wr'), <<>>, trigger))
  <2>1. From' = From /\ Held(isr') = <<>>
    BY <1>1 DEF From, Held
  <2> QED BY <1>1, <2>1, WayAfter DEF user
<1>8. Joined(a, b \o <<x>>, <<>>, trigger) = Joined(a, b, <<x>>, trigger)
  BY <1>4, JoinedMoves
<1> QED BY <1>4, <1>6, <1>7, <1>8

\* What was held back goes on to the ring, or it was the escape sequence.
LEMMA TimerKeeps ==
  ASSUME IInv, SInv, seg_timer_msec, Counted, working_state = "CONNECT"
  PROVE  \/ OnTheWay' = OnTheWay
         \/ Len(OnTheWay) >= 3 /\ OnTheWay' = SubSeq(OnTheWay, 1, Len(OnTheWay) - 3)
<1>1. isr = Idle /\ UNCHANGED <<load, user, working_state, isr, u2e>>
  BY DEF seg_timer_msec, user, mode
<1>2. opmode = "GW"
  BY DEF SInv, Regime, IInv, Types
<1> DEFINE a == SendBufOf(u2e, g_send_buf, u2e_size)
           b == RingOf(ring, Size, From, wr)
           q == Joined(a, b, <<>>, trigger)
           l == Len(trigger)
<1>3. /\ OnTheWay = BytesOf(q) /\ a \in Seq(Things) /\ b \in Seq(Things)
      /\ trigger \in Seq(Things) /\ From \in 0..Size /\ <<>> \in Seq(Things)
  <2>1. Held(isr) = <<>>
    BY <1>1 DEF Held
  <2>2. OnTheWay = BytesOf(Joined(a, b, Held(isr), trigger))
    BY WayIs
  <2> QED BY <2>1, <2>2, WayIs
<1>4. OnTheWay' = BytesOf(Joined(a, RingOf(ring', Size, From', wr'), <<>>, trigger'))
  BY <1>1, WayAfter DEF user, Held
<1>5. CASE trigger' = <<>> /\ Len(trigger) = 3 /\ UNCHANGED buffer
  <2>1. RingOf(ring', Size, From', wr') = b
    BY <1>1, <1>5 DEF buffer, From
  <2>2. /\ Joined(a, b, <<>>, <<>>) = SubSeq(q, 1, Len(q) - Len(trigger))
        /\ Len(q) >= Len(a) + Len(trigger) /\ q \in Seq(Things)
    <3> HIDE DEF a, b
    <3>1. q \in Seq(Things)
      BY <1>3, JoinedType
    <3>2. ASSUME NEW c \in Seq(Things)
          PROVE  /\ Joined(<<>>, b, c, trigger) = SubSeq(Joined(a, b, c, trigger), Len(a) + 1,
                                                          Len(Joined(a, b, c, trigger)))
                 /\ Joined(a, b, c, <<>>)
                     = SubSeq(Joined(a, b, c, trigger), 1, Len(Joined(a, b, c, trigger)) - Len(trigger))
                 /\ Len(Joined(a, b, c, trigger)) >= Len(a) + Len(trigger)
      BY <1>3, JoinedShrinks
    <3> QED BY <1>3, <3>1, <3>2, Zenon
  <2>3. Len(q) \in Nat /\ Len(a) \in Nat
    BY <1>3, <2>2, LenProperties
  <2>4. Len(BytesOf(q)) = Len(q)
    BY <2>2, NumbersOf
  <2>5. \A m, n \in Nat : m >= 1 /\ n <= Len(q)
                            => BytesOf(SubSeq(q, m, n)) = SubSeq(BytesOf(q), m, n)
    BY <2>2, NumbersOf
  <2> HIDE DEF q, a
  <2>6. Len(q) >= 3 /\ Len(q) - 3 \in Nat /\ Len(q) - 3 <= Len(q)
    BY <1>5, <2>2, <2>3
  <2>7. BytesOf(SubSeq(q, 1, Len(q) - 3)) = SubSeq(BytesOf(q), 1, Len(q) - 3)
    <3>1. 1 \in Nat /\ 1 >= 1
      OBVIOUS
    <3> QED BY <2>5, <2>6, <3>1, Zenon
  <2> QED BY <1>3, <1>4, <1>5, <2>1, <2>2, <2>4, <2>6, <2>7
<1>6. CASE trigger' = <<>> /\ PutAll(trigger)
  <2>1. l \in Nat /\ get_data_buffer_usedsize + l <= Ahead
    <3>1. get_data_buffer_usedsize + 0 + l <= Ahead
      BY <1>1, <1>2 DEF SInv, Flow, Waits
    <3>2. l \in Nat /\ get_data_buffer_usedsize \in Nat
      BY ThingsType, UsedIs
    <3> HIDE DEF l
    <3> QED BY <3>1, <3>2
  <2>2. Span(Size, From, wr) + l < Size
    BY <2>1, RoomFrom
  <2>3. rd' = rd /\ RingOf(ring', Size, From, wr') = b \o trigger
    BY <1>3, <1>6, <2>2, PutMoves
  <2>4. From' = From
    BY <1>1, <2>3 DEF From
  <2>5. Stale \in Things
    BY ThingsType
  <2>6. Joined(a, b \o trigger, <<>>, <<>>) = q
    <3> HIDE DEF a, b
    <3>1. ASSUME NEW c \in Seq(Things), NEW x \in Things
          PROVE  /\ Joined(Append(a, x), b, c, trigger) = Joined(a, <<x>> \o b, c, trigger)
                 /\ Joined(a, b \o <<x>>, <<>>, trigger) = Joined(a, b, <<x>>, trigger)
                 /\ Joined(a, b \o trigger, <<>>, <<>>) = Joined(a, b, <<>>, trigger)
      BY <1>3, JoinedMoves
    <3> QED BY <1>3, <2>5, <3>1
  <2> QED BY <1>3, <1>4, <1>6, <2>3, <2>4, <2>6
<1>7. CASE trigger' = trigger /\ UNCHANGED buffer
  <2>1. RingOf(ring', Size, From', wr') = b
    BY <1>1, <1>7 DEF buffer, From
  <2> QED BY <1>3, <1>4, <1>7, <2>1
<1> QED BY <1>5, <1>6, <1>7, TimerIs

\* What there is in g_send_buf between the steps that take bytes to and from it.
LEMMA RestsIs ==
  ASSUME NEW l, NEW g, NEW z \in Nat, Rests(l)
  PROVE  SendBufOf(l, g, z) = First(g, z)
<1>1. SendBufOf(l, g, z) = [n \in 1..(z + 0) |-> IF n > z THEN l.ch ELSE g[n - 1]]
  BY DEF SendBufOf, Rests
<1>2. 1..(z + 0) = 1..z /\ \A n \in 1..z : ~(n > z)
  OBVIOUS
<1> QED BY <1>1, <1>2 DEF First

\* The byte that the copying loop has in its hand comes behind those in g_send_buf.
LEMMA MovesIs ==
  ASSUME NEW N \in Nat, NEW g \in [0..N -> Things], NEW z \in 0..N,
         NEW l, l.ch \in Things, l.pc = "move"
  PROVE  SendBufOf(l, g, z) = Append(First(g, z), l.ch)
BY SendBufIs

\* The copying loop takes the first byte of the ring to the end of g_send_buf, and
\* send() takes what is there from the front.
LEMMA TaskKeeps ==
  ASSUME IInv, SInv, seg_u2e_task, Counted, working_state = "CONNECT"
  PROVE  \/ OnTheWay' = OnTheWay
         \/ \E n \in 1..Len(OnTheWay) : OnTheWay' = SubSeq(OnTheWay, n + 1, Len(OnTheWay))
<1>1. UNCHANGED <<load, working_state, opmode, trigger, isr, wr>>
  BY TaskIs DEF mode, escape
<1>2. opmode = "GW" /\ (u2e.pc = "move" => u2e.r = rd /\ rd # wr)
  BY DEF SInv, Regime, Flow, IInv, Types
<1> DEFINE z == u2e_size
           g == g_send_buf
           a == SendBufOf(u2e, g, z)
           b == RingOf(ring, Size, From, wr)
           c == Held(isr)
           q == Joined(a, b, c, trigger)
           f == First(g, z)
<1>3. /\ OnTheWay = BytesOf(q) /\ a \in Seq(Things) /\ b \in Seq(Things) /\ c \in Seq(Things)
      /\ trigger \in Seq(Things) /\ From \in 0..Size /\ z \in 0..SendSize
  BY WayIs
<1>4. OnTheWay' = BytesOf(Joined(SendBufOf(u2e', g_send_buf', u2e_size'),
                                 RingOf(ring', Size, From', wr), c, trigger))
  BY <1>1, WayAfter
<1>5. /\ Size \in Nat /\ Size > 1 /\ SendSize \in Nat /\ rd \in 0..(Size - 1) /\ wr \in 0..(Size - 1)
      /\ ring \in [0..(Size - 1) -> Things] /\ g \in [0..SendSize -> Things]
      /\ u2e.ch \in Things /\ Stale \in Things /\ z \in Nat /\ rd + 0 = rd
  BY <1>3, ThingsType
<1>6. f \in Seq(Things) /\ Len(f) = z /\ (Rests(u2e) => a = f)
  <2>1. f \in Seq(Things) /\ Len(f) = z
    BY <1>3, <1>5, FirstIs
  <2> QED BY <1>5, <2>1, RestsIs
<1>7. CASE Quiet
  <2>1. SendBufOf(u2e', g_send_buf', u2e_size') = f /\ a = f
    BY <1>5, <1>6, <1>7, RestsIs DEF Quiet
  <2>2. From' = From /\ ring' = ring
    BY <1>7 DEF Quiet, Rests, From
  <2> QED BY <1>3, <1>4, <2>1, <2>2
<1>8. CASE Getc("getc", "move") /\ u2e'.pc = "move" /\ u2e'.ch = ring[rd]
  <2>1. /\ u2e.pc = "getc" /\ rd # wr /\ rd' = rd /\ ring' = [ring EXCEPT ![rd] = Stale]
        /\ UNCHANGED <<g_send_buf, u2e_size>>
    BY <1>8 DEF Getc, U2E, user
  <2>2. a = f /\ From = rd /\ From' = rd + 1 /\ ring[rd] \in Things /\ u2e'.ch \in Things
    BY <1>5, <1>6, <1>8, <2>1 DEF Rests, From
  <2>3. SendBufOf(u2e', g_send_buf', u2e_size') = Append(f, ring[rd])
    <3>1. SendBufOf(u2e', g, z) = Append(First(g, z), u2e'.ch)
      BY <1>3, <1>5, <1>8, <2>2, MovesIs
    <3> QED BY <1>8, <2>1, <3>1
  <2> DEFINE s == RingOf(ring', Size, rd + 1, wr)
             x == ring[rd]
  <2>4. b = <<x>> \o s
    <3>1. RingOf(ring, Size, rd, wr) = <<ring[rd]>> \o RingOf(Taken(ring, rd, Stale), Size, rd + 1, wr)
      BY <1>5, <2>1, RingTake
    <3> QED BY <2>1, <2>2, <3>1 DEF Taken
  <2>5. s \in Seq(Things)
    <3>1. ring' \in [0..(Size - 1) -> Things] /\ rd + 1 \in 0..Size
      BY <1>5, <2>1
    <3> QED BY <1>5, <3>1, RingType
  <2>6. Joined(Append(f, x), s, c, trigger) = Joined(f, <<x>> \o s, c, trigger)
    <3> HIDE DEF f, s, c, x
    <3> QED BY <1>3, <1>6, <2>2, <2>5, JoinedMoves DEF x
  <2> QED BY <1>3, <1>4, <2>2, <2>3, <2>4, <2>6
<1>9. CASE Copy /\ Rests(u2e')
  <2>1. /\ u2e.pc = "move" /\ rd' = (rd + 1) % Size /\ ring' = ring /\ u2e_size' = z + 1
        /\ g_send_buf' = [g EXCEPT ![z] = u2e.ch]
    BY <1>2, <1>9 DEF Copy, U2E, Moved
  <2>2. z < SendSize
    <3>1. u2e.len \in Nat /\ u2e.i \in Nat
      BY LocalsType DEF IInv, Locals
    <3>2. u2e.i < u2e.len /\ z + (u2e.len - u2e.i) <= SendSize
      BY <2>1 DEF IInv, Room
    <3> HIDE DEF z
    <3> QED BY <1>5, <3>1, <3>2
  <2>3. From = rd + 1 /\ From' = (rd + 1) % Size
    <3>1. (rd + 1) % Size \in 0..(Size - 1)
      BY <1>5, SpanTaken
    <3>2. ((rd + 1) % Size) + 0 = (rd + 1) % Size
      BY <3>1
    <3> QED BY <1>9, <2>1, <3>2 DEF From, Rests
  <2>4. RingOf(ring', Size, From', wr) = b
    BY <1>5, <2>1, <2>3, RingTake
  <2>5. a = Append(f, u2e.ch)
    BY <1>3, <1>5, <2>1, MovesIs
  <2>6. First([g EXCEPT ![z] = u2e.ch], z + 1) = Append(f, u2e.ch)
    BY <1>3, <1>5, <2>2, FirstIs
  <2>7. SendBufOf(u2e', g_send_buf', u2e_size') = First([g EXCEPT ![z] = u2e.ch], z + 1)
    BY <1>5, <1>9, <2>1, RestsIs
  <2> QED BY <1>3, <1>4, <2>4, <2>5, <2>6, <2>7
<1>10. ~(Getc("first", "move1") \/ CopyFirst)
  <2>1. ~(u2e.pc \in {"first", "move1"})
    BY DEF IInv, Room, Counted
  <2> QED BY <2>1 DEF Getc, CopyFirst, U2E
<1>11. CASE /\ UNCHANGED <<ring, rd, g_send_buf, u2e_size>> /\ u2e.pc = "send"
            /\ u2e'.pc = "sent" /\ u2e'.i = u2e.len /\ u2e.len > 0
  <2>1. a = f /\ From' = From /\ SendBufOf(u2e', g_send_buf', u2e_size') = <<>>
    BY <1>6, <1>11 DEF Rests, From, SendBufOf
  <2>2. z > 0
    BY <1>11 DEF IInv, Room, Switched
  <2>3. Joined(<<>>, b, c, trigger) = SubSeq(q, z + 1, Len(q)) /\ Len(q) >= z
    <3> HIDE DEF a, b, c, f, z
    <3>1. /\ Joined(<<>>, b, c, trigger) = SubSeq(q, Len(a) + 1, Len(q))
          /\ Joined(a, b, c, <<>>) = SubSeq(q, 1, Len(q) - Len(trigger))
          /\ Len(q) >= Len(a) + Len(trigger)
      BY <1>3, JoinedShrinks
    <3>2. Len(a) = z /\ Len(trigger) \in Nat /\ Len(q) \in Int
      BY <1>3, <1>6, <2>1, JoinedType, LenProperties
    <3> QED BY <1>5, <3>1, <3>2
  <2>4. q \in Seq(Things) /\ Len(q) \in Nat /\ Len(BytesOf(q)) = Len(q)
    BY <1>3, JoinedType, NumbersOf, LenProperties
  <2>5. \A m, n \in Nat : m >= 1 /\ n <= Len(q)
                            => BytesOf(SubSeq(q, m, n)) = SubSeq(BytesOf(q), m, n)
    BY <2>4, NumbersOf
  <2> HIDE DEF q, z
  <2>6. z + 1 \in Nat /\ z + 1 >= 1 /\ z \in 1..Len(q) /\ Len(q) <= Len(q)
    BY <1>5, <2>2, <2>3, <2>4
  <2>7. BytesOf(SubSeq(q, z + 1, Len(q))) = SubSeq(BytesOf(q), z + 1, Len(q))
    BY <2>4, <2>5, <2>6, Zenon
  <2>8. OnTheWay' = SubSeq(OnTheWay, z + 1, Len(OnTheWay)) /\ z \in 1..Len(OnTheWay)
    BY <1>3, <1>4, <1>11, <2>1, <2>3, <2>4, <2>6, <2>7
  <2> QED BY <2>8
<1>12. CASE /\ UNCHANGED <<ring, rd>> /\ u2e.pc = "sent" /\ u2e.i > 0 /\ u2e'.pc = "unlock"
            /\ g_send_buf' = NoBytes /\ u2e_size' = u2e_size - u2e.i
  <2>1. u2e.i = z /\ u2e_size' = 0
    BY <1>5, <1>12 DEF IInv, Room, Switched
  <2>2. a = <<>> /\ From' = From
    BY <1>12 DEF SendBufOf, From
  <2>3. SendBufOf(u2e', g_send_buf', 0) = First(g_send_buf', 0)
    BY <1>12, RestsIs DEF Rests
  <2>4. First(g_send_buf', 0) = <<>>
    BY DEF First
  <2> QED BY <1>3, <1>4, <1>12, <2>1, <2>2, <2>3, <2>4
<1> QED BY <1>7, <1>8, <1>9, <1>10, <1>11, <1>12, TaskIs

-----------------------------------------------------------------------------
(* SerialPath implements SerialStream.                                     *)

\* A connection is up for the stream.
Up == Counted /\ working_state = "CONNECT"

\* Nothing is on its way when the buffers are empty.
LEMMA Nothing ==
  ASSUME NEW S \in Nat, S > 1, NEW p \in 0..(S - 1), NEW r, NEW g, NEW l, Rests(l)
  PROVE  BytesOf(Joined(SendBufOf(l, g, 0), RingOf(r, S, p, p), <<>>, <<>>)) = <<>>
<1>1. SendBufOf(l, g, 0) = <<>>
  <2>1. SendBufOf(l, g, 0) = First(g, 0)
    BY RestsIs
  <2> QED BY <2>1 DEF First
<1>2. RingOf(r, S, p, p) = <<>>
  <2>1. Span(S, p, p) = 0
    BY SpanTaken
  <2> QED BY <2>1 DEF RingOf, Piece
<1>3. Joined(<<>>, <<>>, <<>>, <<>>) = <<>>
  BY DEF Joined
<1> QED BY <1>1, <1>2, <1>3 DEF BytesOf

\* What a step makes of the connection, and which step a byte arrives with.
LEMMA UpIs ==
  ASSUME IInv, SInv, [Next]_vars
  PROVE  /\ load' = load /\ Counted' = Counted
         /\ next' = next \/ (Receive /\ Counted /\ next' = (next + 1) % Ids)
         /\ \/ working_state' = working_state
            \/ Connected /\ working_state = "OPEN" /\ working_state' = "CONNECT"
            \/ Closed \/ SwitchMode
<1>1. load' = load
  BY DEF Next, vars, Receive, Store, seg_timer_msec, seg_u2e_task, TakeSem, TakeCritical, Check, Unlock,
         GetLen, Getc, Copy, CopyFirst, Packed, ClearDelimiter, Send, Sent, Others, seg_task, Accept,
         Flushed, Connected, Closed, SegFrame, segcp_serial_task, SwitchMode, FlushWr, FlushRd,
         process_socket_termination, SegcpFrame
<1>2. Counted' = Counted
  BY <1>1 DEF Counted, Ahead, Size, pack
<1>3. CASE Receive
  BY <1>1, <1>2, <1>3 DEF Receive, mode
<1>4. CASE Store
  BY <1>1, <1>2, <1>4 DEF Store, mode
<1>5. CASE seg_timer_msec
  BY <1>1, <1>2, <1>5, TimerIs
<1>6. CASE seg_u2e_task
  BY <1>1, <1>2, <1>6, TaskIs DEF mode
<1>7. CASE seg_task
  <2>1. next' = next
    BY <1>7 DEF seg_task, Accept, Flushed, Connected, Closed, SegFrame
  <2>2. Connected => working_state = "OPEN" /\ working_state' = "CONNECT"
    BY DEF Connected, SInv, Between
  <2> QED BY <1>1, <1>2, <1>7, <2>1, <2>2 DEF seg_task, Accept, Flushed
<1>8. CASE segcp_serial_task
  BY <1>1, <1>2, <1>8 DEF segcp_serial_task, SwitchMode, FlushWr, FlushRd,
                          process_socket_termination, SegcpFrame, mode
<1>9. CASE UNCHANGED vars
  BY <1>1, <1>2, <1>9 DEF vars, mode
<1> QED BY <1>3, <1>4, <1>5, <1>6, <1>7, <1>8, <1>9 DEF Next

\* While a connection lasts, each step is one of the stream or none.
LEMMA WhileUp ==
  ASSUME IInv, SInv, [Next]_vars, Up, Up'
  PROVE  \/ OnTheWay' = OnTheWay /\ next' = next
         \/ OnTheWay' = Append(OnTheWay, next) /\ next' = (next + 1) % Ids
         \/ /\ Len(OnTheWay) >= 3 /\ OnTheWay' = SubSeq(OnTheWay, 1, Len(OnTheWay) - 3)
            /\ next' = next
         \/ /\ \E n \in 1..Len(OnTheWay) : OnTheWay' = SubSeq(OnTheWay, n + 1, Len(OnTheWay))
            /\ next' = next
<1>1. Counted /\ working_state = "CONNECT" /\ working_state' = "CONNECT"
  BY DEF Up
<1>2. CASE Receive
  <2>1. opmode = "GW"
    BY <1>1 DEF SInv, Regime, IInv, Types
  <2>2. next' = (next + 1) % Ids
    BY <1>1, <1>2, <2>1, ReceiveIs
  <2> QED BY <1>1, <1>2, <2>2, ReceiveArrives
<1>3. CASE Store
  BY <1>1, <1>3, StoreKeeps DEF Store
<1>4. CASE seg_timer_msec
  BY <1>1, <1>4, TimerKeeps, TimerIs
<1>5. CASE seg_u2e_task
  BY <1>1, <1>5, TaskKeeps, TaskIs
<1>6. CASE seg_task
  BY <1>1, <1>6 DEF seg_task, Accept, Flushed, Connected, Closed, SInv, Between
<1>7. CASE segcp_serial_task
  <2>1. working_state' = "ATMODE"
    BY <1>1, <1>7 DEF segcp_serial_task, SwitchMode, FlushWr, FlushRd, process_socket_termination,
                      SInv, Regime, IInv, Types, mode
  <2> QED BY <1>1, <2>1
<1>8. CASE UNCHANGED vars
  BY <1>1, <1>8, WayIs, WayAfter DEF vars, buffer, user, mode, escape, From
<1> QED BY <1>2, <1>3, <1>4, <1>5, <1>6, <1>7, <1>8 DEF Next

\* A connection begins with nothing on its way.
LEMMA OpensEmpty ==
  ASSUME IInv, SInv, [Next]_vars, ~Up, Up'
  PROVE  OnTheWay' = <<>> /\ next' = next
<1>1. Connected /\ working_state = "OPEN" /\ Counted /\ load' = load /\ working_state' = "CONNECT"
  <2>1. Counted /\ working_state' = "CONNECT" /\ working_state # "CONNECT"
    BY UpIs DEF Up
  <2> QED BY <2>1, UpIs DEF Closed, SwitchMode
<1>2. /\ isr = Idle /\ wr = 0 /\ rd = 0 /\ u2e_size = 0 /\ trigger = <<>> /\ Rests(u2e)
  BY <1>1, SerialAssumption DEF SInv, Regime, Between, Connected, Rests, IInv, Types
<1>3. UNCHANGED <<rd, wr, u2e_size, isr, trigger, u2e, next>>
  BY <1>1 DEF Connected, SegFrame, escape
<1>4. From' = 0 /\ Held(isr') = <<>> /\ trigger' = <<>>
  BY <1>2, <1>3 DEF From, Rests, Held
<1>5. Size \in Nat /\ Size > 1 /\ 0 \in 0..(Size - 1)
  BY ThingsType
<1>6. \A r, g : BytesOf(Joined(SendBufOf(u2e, g, 0), RingOf(r, Size, 0, 0), <<>>, <<>>)) = <<>>
  BY <1>2, <1>5, Nothing
<1> QED BY <1>1, <1>2, <1>3, <1>4, <1>6, WayAfter

\* The variables of SerialStream in terms of those of SerialPath.
LEMMA MappedIs ==
  /\ Up \in BOOLEAN /\ Up' \in BOOLEAN
  /\ ~Up => OnTheWay = <<>>
  /\ ~Up' => OnTheWay' = <<>>
BY DEF Up, OnTheWay, Counted

\* While no part of an escape sequence can be held back over the end of a connection and the UART
\* peer lets no more wait than the ring holds (Counted), for every size of the ring and of
\* g_send_buf, every packing without a delimiter and every interleaving of the interrupts with the
\* three tasks: the bytes that arrive on the UART while a connection is up reach its peer in their
\* order, each once, except an escape sequence (get_serial_data, uart_to_ether, seg.c:1347-1479,
\* and on_uart_rx).
THEOREM StreamKept == ASSUME NoneHeld PROVE Spec => StreamSpec
<1>1. ASSUME IInv, SInv, Init
      PROVE  Stream!Init
  <2>1. next = 0 /\ isr = Idle /\ wr = 0 /\ rd = 0 /\ u2e_size = 0 /\ trigger = <<>> /\ Rests(u2e)
    BY <1>1 DEF Init, Rests, Waiting
  <2>2. Size \in Nat /\ Size > 1 /\ 0 \in 0..(Size - 1)
    BY <1>1, ThingsType
  <2>3. \A r, g : BytesOf(Joined(SendBufOf(u2e, g, 0), RingOf(r, Size, 0, 0), <<>>, <<>>)) = <<>>
    BY <2>1, <2>2, Nothing
  <2>4. From = 0 /\ Held(isr) = <<>>
    BY <2>1 DEF From, Rests, Held
  <2>5. OnTheWay = <<>>
    <3>1. CASE Up
      BY <1>1, <2>1, <2>3, <2>4, <3>1, WayIs DEF Up
    <3> QED BY <3>1, MappedIs
  <2> QED BY <2>1, <2>5, MappedIs DEF Stream!Init, Up
<1>2. ASSUME IInv, SInv, [Next]_vars
      PROVE  [Stream!Next]_(Stream!vars)
  <2>1. next' = next \/ (Receive /\ Counted /\ next' = (next + 1) % Ids)
    BY <1>2, UpIs
  <2>2. CASE Up /\ Up'
    <3>1. (Counted /\ working_state = "CONNECT") /\ (Counted' /\ working_state' = "CONNECT")
      BY <2>2 DEF Up
    <3>2. CASE OnTheWay' = OnTheWay /\ next' = next
      BY <3>1, <3>2 DEF Stream!vars
    <3>3. CASE OnTheWay' = Append(OnTheWay, next) /\ next' = (next + 1) % Ids
      <4>1. Stream!Arrive
        BY <3>1, <3>3 DEF Stream!Arrive
      <4> QED BY <4>1 DEF Stream!Next
    <3>4. CASE /\ Len(OnTheWay) >= 3 /\ OnTheWay' = SubSeq(OnTheWay, 1, Len(OnTheWay) - 3)
               /\ next' = next
      <4>1. Stream!Escape
        BY <3>1, <3>4 DEF Stream!Escape
      <4> QED BY <4>1 DEF Stream!Next
    <3>5. CASE /\ \E n \in 1..Len(OnTheWay) :
                    OnTheWay' = SubSeq(OnTheWay, n + 1, Len(OnTheWay))
               /\ next' = next
      <4>1. Stream!Deliver
        BY <3>1, <3>5 DEF Stream!Deliver
      <4> QED BY <4>1 DEF Stream!Next
    <3> QED BY <1>2, <2>2, <3>2, <3>3, <3>4, <3>5, WhileUp
  <2>3. CASE ~Up /\ Up'
    <3>1. OnTheWay' = <<>> /\ next' = next
      BY <1>2, <2>3, OpensEmpty
    <3>2. Stream!Open
      BY <2>3, <3>1 DEF Stream!Open, Up
    <3> QED BY <3>2 DEF Stream!Next
  <2>4. CASE Up /\ ~Up'
    <3>1. OnTheWay' = <<>>
      BY <2>4, MappedIs
    <3>2. next' = next
      <4>1. working_state' # working_state \/ Counted' # Counted
        BY <2>4 DEF Up
      <4>2. working_state' # working_state
        BY <1>2, <4>1, UpIs
      <4>3. ~Receive
        BY <4>2 DEF Receive, mode
      <4> QED BY <2>1, <4>3
    <3>3. Stream!Close
      BY <2>4, <3>1, <3>2 DEF Stream!Close, Up
    <3> QED BY <3>3 DEF Stream!Next
  <2>5. CASE ~Up /\ ~Up'
    <3>1. OnTheWay = <<>> /\ OnTheWay' = <<>>
      BY <2>5, MappedIs
    <3>2. ~(Counted /\ working_state = "CONNECT") /\ ~(Counted' /\ working_state' = "CONNECT")
      BY <2>5 DEF Up
    <3>3. CASE next' = next
      BY <3>1, <3>2, <3>3 DEF Stream!vars
    <3>4. CASE next' = (next + 1) % Ids
      <4>1. Stream!Arrive
        BY <3>1, <3>2, <3>4 DEF Stream!Arrive
      <4> QED BY <4>1 DEF Stream!Next
    <3> QED BY <2>1, <3>3, <3>4
  <2> QED BY <2>2, <2>3, <2>4, <2>5
<1>3. ASSUME Init PROVE IInv /\ SInv
  BY <1>3, InitHolds, StreamBegins
<1>4. ASSUME IInv, SInv, [Next]_vars PROVE IInv' /\ SInv'
  BY <1>4, Inductive, StreamInductive
<1> QED BY <1>1, <1>2, <1>3, <1>4, PTL DEF Spec, StreamSpec, Stream!Spec
=============================================================================
