------------------------------- MODULE ChipBus -------------------------------
(***************************************************************************)
(* How the tasks of the application reach the W5500: the counting          *)
(* semaphore wizchip_critical_sem, the chip-select line and the PIO state  *)
(* machine that shifts the frames (w5x00_spi.c, wiznet_spi_pio.c).  The    *)
(* WIZnet library calls the registered functions in a fixed order: enter   *)
(* the critical section, select, write the three bytes of the header, read *)
(* or write the data, deselect, leave.  The header is kept in the driver   *)
(* between two of these calls.  One task, Net, brings the bus up at start  *)
(* and resets the chip again at run time (netHandler.c, wizchip_recovery); *)
(* it does so outside the critical section while the tasks of the other    *)
(* core go on.                                                             *)
(*                                                                         *)
(* A byte on the wire is a record: the header counts as one.  The chip     *)
(* takes a frame from the falling edge of the select line and applies      *)
(* every byte of it as it comes.                                           *)
(***************************************************************************)
EXTENDS Naturals, Sequences, SequencesExt

CONSTANTS
  Tasks, Net,   \* the tasks that use the chip; the one that starts and resets it
  Regs,         \* the chip has the registers 0..Regs, Regs is its version
  Asked,        \* the accesses tasks make: a subset of Accesses
  Recoveries,   \* bound: calls of wizchip_recovery
  Free,         \* what of PIO and DMA may be free when the bus is opened
  SlowDMA       \* TRUE: the DMA may be late in feeding the state machine

None  == 0      \* the value of a register after a reset
VERSION == 4    \* VERSIONR of the W5500

Ops == {"read", "write"}

\* One access: a "byte" through the calls for one byte, a "burst" through those
\* for a buffer.  Of the data of a read only the length matters.
Accesses == [op : Ops, form : {"byte", "burst"}, addr : 0..Regs, data : Seq(Nat)]

\* Those the library makes: within the registers, and never of the version.
Sound(a) ==
  /\ Len(a.data) > 0
  /\ a.form = "byte" => Len(a.data) = 1
  /\ a.addr + Len(a.data) <= Regs

ReadVersion == [op |-> "read", form |-> "byte", addr |-> Regs, data |-> <<None>>]

FreeRecords == [room : SUBSET {0, 1}, sms : [{0, 1} -> Nat], dmas : Nat]

ASSUME BusConstants ==
  /\ Net \in Tasks
  /\ Regs \in Nat /\ Recoveries \in Nat
  /\ Asked \subseteq Accesses /\ \A a \in Asked : Sound(a)
  /\ Free \subseteq FreeRecords
  /\ SlowDMA \in BOOLEAN

VARIABLES
  pc,          \* where each task is between the calls of the driver
  acc,         \* the access each task is making
  got,         \* the bytes it has read
  booted,      \* start_task has started the other tasks
  recoveries,  \* calls of wizchip_recovery so far
  held,        \* spi_pio_state: what the driver has claimed
  sem,         \* wizchip_critical_sem
  header,      \* spi_header: <<>> when spi_header_count is 0
  sm,          \* the transfer under way: bytes to send, bytes to read
  cs, rst,     \* levels of the select and reset lines (TRUE is high)
  frame,       \* the bytes the chip has taken since the select line fell
  whole,       \* it has been selected and out of reset ever since
  reg          \* the registers of the chip

vars == <<pc, acc, got, booted, recoveries, held, sem, header, sm, cs, rst, frame, whole, reg>>
wire == <<cs, frame, whole, reg>>
rest == <<booted, recoveries, held>>

-----------------------------------------------------------------------------
(* Bytes on the wire *)

Header(a) == [kind |-> "header", op |-> a.op, n |-> a.addr]
Data(v)   == [kind |-> "data", op |-> "write", n |-> v]
Dummy     == [kind |-> "data", op |-> "read", n |-> 0]

Items == [kind : {"header", "data"}, op : Ops, n : Nat]

\* The data bytes of an access, and the frame the chip should see of it.
Payload(a) == [i \in 1..Len(a.data) |-> IF a.op = "write" THEN Data(a.data[i]) ELSE Dummy]
Frame(a)   == <<Header(a)>> \o Payload(a)

Idle == [tx |-> <<>>, rx |-> 0]

-----------------------------------------------------------------------------
(* Opening the bus *)

Nothing == [funcs |-> FALSE, program |-> FALSE, sm |-> FALSE, dma |-> 0]

Reset == [r \in 0..Regs |-> IF r = Regs THEN VERSION ELSE None]

Init ==
  /\ pc = [t \in Tasks |-> IF t = Net THEN "open" ELSE "idle"]
  /\ acc = [t \in Tasks |-> ReadVersion] /\ got = [t \in Tasks |-> <<>>]
  /\ booted = FALSE /\ recoveries = 0
  /\ held = Nothing /\ sem = 0 /\ header = <<>> /\ sm = Idle
  /\ cs = TRUE /\ rst = TRUE /\ frame = <<>> /\ whole = FALSE
  /\ reg = Reset

\* What wiznet_spi_pio_open has claimed when it returns or fails, with f free:
\* PIO 1 is preferred, PIO 0 is taken for lack of room, and the program is
\* added once there is a state machine to run it.
Claimed(f) ==
  LET pio   == IF 1 \in f.room THEN 1 ELSE 0
      runs  == f.room # {} /\ f.sms[pio] > 0
  IN [funcs |-> TRUE, program |-> runs, sm |-> runs,
      dma |-> IF ~runs THEN 0 ELSE IF f.dmas < 2 THEN f.dmas ELSE 2]

Close(h) == [Nothing EXCEPT !.program = h.program /\ ~h.sm]

Complete(h) == h.program /\ h.sm /\ h.dma = 2

\* wizchip_spi_initialize: a failed open gives no handle, and the call through
\* it is the end of the program.  Only a failure for lack of room leaves the
\* instance taken.
Open(f) ==
  LET h == Claimed(f)
  IN /\ pc[Net] = "open"
     /\ held' = IF Complete(h) \/ f.room = {} THEN h ELSE Close(h)
     /\ pc' = [pc EXCEPT ![Net] = IF Complete(h) THEN "lock_made" ELSE "dead"]
     /\ cs' = TRUE
     /\ UNCHANGED <<acc, got, booted, recoveries, sem, header, sm, rst, frame, whole, reg>>

\* Mutant: the semaphore starts with two tokens.
MakeLock_Two ==
  /\ pc[Net] = "lock_made"
  /\ sem' = 2
  /\ pc' = [pc EXCEPT ![Net] = "reset"]
  /\ UNCHANGED <<acc, got, rest, header, sm, wire, rst>>

\* wizchip_cris_initialize: the counting semaphore with its one token.
MakeLock ==
  /\ pc[Net] = "lock_made"
  /\ sem' = 1
  /\ pc' = [pc EXCEPT ![Net] = "reset"]
  /\ UNCHANGED <<acc, got, rest, header, sm, wire, rst>>

-----------------------------------------------------------------------------
(* Reset and initialisation, at start and at run time *)

\* wizchip_recovery, by the task that follows the link.
Recover ==
  /\ booted /\ pc[Net] = "idle" /\ recoveries < Recoveries
  /\ recoveries' = recoveries + 1
  /\ pc' = [pc EXCEPT ![Net] = "reset"]
  /\ UNCHANGED <<acc, got, booted, held, sem, header, sm, wire, rst>>

\* wizchip_reset: RST low for 100 ms, then high for as long.  The registers
\* are lost, and what is left of a frame under way goes unheard.
ResetLow ==
  /\ pc[Net] = "reset"
  /\ rst' = FALSE /\ reg' = Reset /\ whole' = FALSE
  /\ pc' = [pc EXCEPT ![Net] = "release"]
  /\ UNCHANGED <<acc, got, rest, sem, header, sm, cs, frame>>

ResetHigh ==
  /\ pc[Net] = "release"
  /\ rst' = TRUE
  /\ pc' = [pc EXCEPT ![Net] = "init"]
  /\ UNCHANGED <<acc, got, rest, sem, header, sm, wire>>

\* The access that follows an initialisation: the library writes the sizes of
\* the socket buffers; at start wizchip_check reads the version.
Following == IF booted THEN {a \in Asked : a.op = "write"} ELSE {ReadVersion}

\* Mutant: the semaphore is made again, as a binary one that starts taken.
Initialize_NoToken ==
  /\ pc[Net] = "init"
  /\ cs' = TRUE /\ whole' = (whole /\ cs)
  /\ \E a \in Following : acc' = [acc EXCEPT ![Net] = a]
  /\ pc' = [pc EXCEPT ![Net] = "lock"]
  /\ sem' = 0
  /\ UNCHANGED <<got, rest, header, sm, rst, frame, reg>>

\* wizchip_initialize: frame_end raises the select line, whoever is in a frame;
\* the callbacks are registered, again.
Initialize ==
  /\ pc[Net] = "init"
  /\ cs' = TRUE /\ whole' = (whole /\ cs)
  /\ \E a \in Following : acc' = [acc EXCEPT ![Net] = a]
  /\ pc' = [pc EXCEPT ![Net] = "lock"]
  /\ UNCHANGED <<got, rest, sem, header, sm, rst, frame, reg>>

\* wizchip_check: with the right version start_task goes on to start the other
\* tasks, with a wrong one it stays here.
Check ==
  /\ pc[Net] = "check"
  /\ booted' = (got[Net] = <<VERSION>>)
  /\ pc' = [pc EXCEPT ![Net] = IF got[Net] = <<VERSION>> THEN "idle" ELSE "hung"]
  /\ got' = [got EXCEPT ![Net] = <<>>]
  /\ UNCHANGED <<acc, recoveries, held, sem, header, sm, wire, rst>>

-----------------------------------------------------------------------------
(* One access, as the library makes it *)

Ask(t) ==
  /\ booted /\ pc[t] = "idle"
  /\ \E a \in Asked : acc' = [acc EXCEPT ![t] = a]
  /\ pc' = [pc EXCEPT ![t] = "lock"]
  /\ UNCHANGED <<got, rest, sem, header, sm, wire, rst>>

\* wizchip_critical_section_lock
Lock(t) ==
  /\ pc[t] = "lock" /\ sem > 0
  /\ sem' = sem - 1
  /\ pc' = [pc EXCEPT ![t] = "select"]
  /\ UNCHANGED <<acc, got, rest, header, sm, wire, rst>>

\* wiznet_spi_pio_frame_start: the falling edge begins a frame of the chip.
FrameStart(t) ==
  /\ pc[t] = "select"
  /\ cs' = FALSE /\ frame' = <<>> /\ whole' = rst
  /\ pc' = [pc EXCEPT ![t] = "header"]
  /\ UNCHANGED <<acc, got, rest, sem, header, sm, rst, reg>>

\* pio_spi_transfer: whatever was left in the FIFOs is dropped, the counts are
\* set, the channels and the state machine started; the caller waits.
Transfer(tx, rx) == sm' = [tx |-> tx, rx |-> rx]

\* Mutant: three bytes are a header, even those that follow one.
WriteBuffer_AnyThree(t, buf, len, next) ==
  \/ /\ len = 3
     /\ header' = buf /\ UNCHANGED sm
     /\ pc' = [pc EXCEPT ![t] = next]
  \/ /\ len # 3 /\ header # <<>>
     /\ Transfer(header, 0) /\ UNCHANGED header
     /\ pc' = [pc EXCEPT ![t] = "header_out"]
  \/ /\ len # 3 /\ header = <<>>
     /\ Transfer(buf, 0) /\ UNCHANGED header
     /\ pc' = [pc EXCEPT ![t] = "sending"]

\* wiznet_spi_pio_write_buffer of the len bytes buf: three bytes with none
\* saved are a header and wait for the next call of the library; otherwise a
\* saved header is sent, and after it the bytes.
WriteBuffer(t, buf, len, next) ==
  \/ /\ len = 3 /\ header = <<>>
     /\ header' = buf /\ UNCHANGED sm
     /\ pc' = [pc EXCEPT ![t] = next]
  \/ /\ header # <<>>
     /\ Transfer(header, 0) /\ UNCHANGED header
     /\ pc' = [pc EXCEPT ![t] = "header_out"]
  \/ /\ len # 3 /\ header = <<>>
     /\ Transfer(buf, 0) /\ UNCHANGED header
     /\ pc' = [pc EXCEPT ![t] = "sending"]

\* The library writes the header alone, or one byte of data together with it.
WriteHeader(t) ==
  LET single == acc[t].op = "write" /\ acc[t].form = "byte"
  IN /\ pc[t] = "header"
     /\ WriteBuffer(t, IF single THEN Frame(acc[t]) ELSE <<Header(acc[t])>>,
                    IF single THEN 4 ELSE 3, "data")
     /\ UNCHANGED <<acc, got, rest, sem, wire, rst>>

WriteData(t) ==
  /\ pc[t] = "data" /\ acc[t].op = "write"
  /\ WriteBuffer(t, Payload(acc[t]), Len(acc[t].data), "deselect")
  /\ UNCHANGED <<acc, got, rest, sem, wire, rst>>

\* A transfer without data to read ends when the state machine stalls for lack
\* of bytes, be it because all are sent or because the DMA is late.
Stalled == sm.tx = <<>> \/ SlowDMA

\* The rest of wiznet_spi_pio_write_buffer, once the saved header is out.
HeaderOut(t) ==
  /\ pc[t] = "header_out" /\ Stalled
  /\ header' = <<>>
  /\ Transfer(Payload(acc[t]), 0)
  /\ pc' = [pc EXCEPT ![t] = "sending"]
  /\ UNCHANGED <<acc, got, rest, sem, wire, rst>>

Sent(t) ==
  /\ pc[t] = "sending" /\ Stalled
  /\ sm' = Idle
  /\ pc' = [pc EXCEPT ![t] = "deselect"]
  /\ UNCHANGED <<acc, got, rest, sem, header, wire, rst>>

\* wiznet_spi_pio_read_byte and wiznet_spi_pio_read_buffer: the saved header is
\* sent and the data read in one transfer.
Read(t) ==
  /\ pc[t] = "data" /\ acc[t].op = "read"
  /\ Transfer(header, Len(acc[t].data))
  /\ pc' = [pc EXCEPT ![t] = "reading"]
  /\ UNCHANGED <<acc, got, rest, sem, header, wire, rst>>

\* Mutant: the header stays saved after a read.
ReadDone_KeepsHeader(t) ==
  /\ pc[t] = "reading" /\ sm = Idle
  /\ pc' = [pc EXCEPT ![t] = "deselect"]
  /\ UNCHANGED <<acc, got, rest, sem, header, sm, wire, rst>>

\* Both channels have finished.
ReadDone(t) ==
  /\ pc[t] = "reading" /\ sm = Idle
  /\ header' = <<>>
  /\ pc' = [pc EXCEPT ![t] = "deselect"]
  /\ UNCHANGED <<acc, got, rest, sem, sm, wire, rst>>

\* wiznet_spi_pio_frame_end
FrameEnd(t) ==
  /\ pc[t] = "deselect"
  /\ cs' = TRUE
  /\ pc' = [pc EXCEPT ![t] = "unlock"]
  /\ UNCHANGED <<acc, got, rest, sem, header, sm, rst, frame, whole, reg>>

\* wizchip_critical_section_unlock; what is of no use any more is forgotten.
Unlock(t) ==
  /\ pc[t] = "unlock"
  /\ sem' = sem + 1
  /\ pc' = [pc EXCEPT ![t] = IF booted THEN "idle" ELSE "check"]
  /\ acc' = [acc EXCEPT ![t] = ReadVersion] /\ frame' = <<>>
  /\ got' = IF booted THEN [got EXCEPT ![t] = <<>>] ELSE got
  /\ UNCHANGED <<rest, header, sm, cs, whole, reg, rst>>

-----------------------------------------------------------------------------
(* The state machine and the chip *)

\* The register that the next byte of the frame is about.
At == frame[1].n + Len(frame) - 1

\* One byte for the transfer of t.  The chip takes it if it has been selected
\* for all of the frame; a line nobody drives reads as zero, it is pulled down.
Clock(t) ==
  LET byte == IF sm.tx # <<>> THEN Head(sm.tx) ELSE Dummy
      turn == whole /\ frame # <<>>
  IN /\ pc[t] \in {"header_out", "sending", "reading"} /\ sm # Idle
     /\ sm' = IF sm.tx # <<>> THEN [sm EXCEPT !.tx = Tail(@)] ELSE [sm EXCEPT !.rx = @ - 1]
     /\ frame' = IF whole THEN Append(frame, byte) ELSE frame
     /\ reg' = IF turn /\ frame[1].op = "write" /\ At \in DOMAIN reg
               THEN [reg EXCEPT ![At] = byte.n] ELSE reg
     /\ got' = IF sm.tx # <<>> THEN got
               ELSE [got EXCEPT ![t] = Append(@, IF turn /\ At \in DOMAIN reg THEN reg[At] ELSE None)]
     /\ UNCHANGED <<pc, acc, rest, sem, header, cs, rst, whole>>

\* A program that faulted, or spins in wizchip_check.
Halted == pc[Net] \in {"dead", "hung"} /\ UNCHANGED vars

Start   == (\E f \in Free : Open(f)) \/ MakeLock \/ Check
Bring   == ResetLow \/ ResetHigh \/ Initialize
Step(t) == \/ FrameStart(t) \/ WriteHeader(t) \/ WriteData(t) \/ HeaderOut(t) \/ Sent(t)
           \/ Read(t) \/ ReadDone(t) \/ FrameEnd(t) \/ Unlock(t) \/ Clock(t)

Next ==
  \/ Start \/ Recover \/ Bring \/ Halted
  \/ \E t \in Tasks : Ask(t) \/ Lock(t) \/ Step(t)

\* Tasks that can run do; the state machine clocks on its own.  A task that
\* waits for the semaphore gets it in the end: the others sleep between rounds.
Fairness ==
  /\ WF_vars(Start) /\ WF_vars(Bring)
  /\ \A t \in Tasks : SF_vars(Lock(t)) /\ WF_vars(Step(t))

Spec == Init /\ [][Next]_vars /\ Fairness

-----------------------------------------------------------------------------
(* Properties *)

Locations == {"open", "lock_made", "reset", "release", "init", "check", "hung", "dead", "idle",
              "lock", "select", "header", "data", "header_out", "sending", "reading", "deselect",
              "unlock"}

Framing == {"header", "data", "header_out", "sending", "reading", "deselect"}

Holders == {t \in Tasks : pc[t] \in Framing \cup {"select", "unlock"}}

\* The variables keep their types; the counting semaphore never counts more
\* than its one token (w5x00_spi.c, wizchip_cris_initialize).
TypeOK ==
  /\ pc \in [Tasks -> Locations] /\ acc \in [Tasks -> Accesses] /\ got \in [Tasks -> Seq(Nat)]
  /\ booted \in BOOLEAN /\ recoveries \in 0..Recoveries
  /\ held \in [funcs : BOOLEAN, program : BOOLEAN, sm : BOOLEAN, dma : 0..2]
  /\ sem \in 0..1 /\ header \in Seq(Items) /\ sm \in [tx : Seq(Items), rx : Nat]
  /\ cs \in BOOLEAN /\ rst \in BOOLEAN /\ whole \in BOOLEAN
  /\ frame \in Seq(Items) /\ reg \in [0..Regs -> Nat]

\* Between two accesses the bus is as if nothing had been: no saved header, no
\* transfer, the chip not selected, whatever a recovery did in the middle of
\* the last access (wiznet_spi_pio.c, spi_header_count).
BusFree ==
  (\A t \in Tasks : pc[t] \notin Framing) => header = <<>> /\ sm = Idle /\ cs

\* The chip never takes bytes of two accesses, or bytes of one in another
\* order, for a frame; and a frame that no recovery cut is complete when the
\* select line rises (wiznet_spi_pio_write_buffer, pio_spi_transfer).
WholeFrame ==
  \A t \in Tasks :
    /\ pc[t] \in Framing => IsPrefix(frame, Frame(acc[t]))
    /\ pc[t] = "unlock" /\ whole => frame = Frame(acc[t])

\* When a task leaves the critical section after an access that no recovery
\* cut, the registers are as it wrote them, or it has read what they hold.
AccessIsAtomic ==
  \A t \in Tasks :
    pc[t] = "unlock" /\ whole =>
      LET a == acc[t]
          window == [i \in 1..Len(a.data) |-> reg[a.addr + i - 1]]
      IN window = IF a.op = "write" THEN a.data ELSE got[t]

\* A task that wants the chip gets it and comes back, whenever the chip is
\* reset meanwhile (w5x00_spi.c, wizchip_critical_section_lock).
AccessEnds == \A t \in Tasks : pc[t] = "lock" ~> pc[t] \in {"idle", "check"}
=============================================================================
