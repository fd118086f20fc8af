------------------------------ MODULE SpiProofs ------------------------------
(***************************************************************************)
(* Proofs about the two ends of SPI: the application as the master of the  *)
(* W5500 (ChipBus) and as the slave of the board that has it for its       *)
(* interface (SpiSlave).                                                   *)
(*                                                                         *)
(* ChipBus, for every set of tasks and accesses, any size of the register  *)
(* file and any number of recoveries.  Exclusive says that one task at     *)
(* most is in an access and that the semaphore has no token then; AtCall   *)
(* what the driver holds at each call of the library; Ordered that the     *)
(* bytes the chip has taken and those still to come make up the frame of   *)
(* the access; Stored that the data bytes it has taken are in the          *)
(* registers, or are what the task has read.                               *)
(*                                                                         *)
(* SpiSlave, for any number of packets, rounds and tokens and every size   *)
(* of the buffer the bound allows, with one core and nothing to disturb    *)
(* the exchanges but packets that do not wait for the echo.  SpiInv names  *)
(* the stage an exchange is in: who has the bytes of the header, of the    *)
(* body and of the answer, in the FIFOs and outside them, what the statics *)
(* of the interrupt are, who has been given a token; and where the packet  *)
(* or the command is then.                                                 *)
(***************************************************************************)
EXTENDS ChipBus, SpiSlave, TLAPS, SequenceTheorems

-----------------------------------------------------------------------------
(* Sequences *)

\* What is put together from two sequences begins with the first.
LEMMA PrefixOfConcat ==
  ASSUME NEW S, NEW q \in Seq(S), NEW r \in Seq(S)
  PROVE  IsPrefix(q, q \o r)
<1>1. CASE q = <<>>
  BY <1>1, ConcatProperties, SubSeqEmpty, LenProperties DEF IsPrefix
<1>2. CASE q # <<>>
  <2>1. Len(q) \in Nat \ {0} /\ Len(q) <= Len(q \o r)
    BY <1>2, EmptySeq, ConcatProperties, LenProperties
  <2>2. SubSeq(q \o r, 1, Len(q)) = SubSeq(q, 1, Len(q))
    BY <2>1, SubSeqOfConcat1
  <2> QED BY <2>1, <2>2 DEF IsPrefix
<1> QED BY <1>1, <1>2

\* The first byte of what is still to come moves to what has come.
LEMMA NextByte ==
  ASSUME NEW S, NEW q \in Seq(S), NEW a \in Seq(S), a # <<>>, NEW p \in Seq(S)
  PROVE  Append(q, Head(a)) \o (Tail(a) \o p) = q \o (a \o p)
<1>1. Head(a) \in S /\ Tail(a) \in Seq(S) /\ <<Head(a)>> \in Seq(S)
  BY HeadTailProperties
<1>2. Append(q, Head(a)) = q \o <<Head(a)>>
  BY <1>1, AppendIsConcat
<1>3. a = <<Head(a)>> \o Tail(a)
  OBVIOUS
<1>4. (q \o <<Head(a)>>) \o (Tail(a) \o p) = q \o (<<Head(a)>> \o (Tail(a) \o p))
  BY <1>1, ConcatAssociative, ConcatProperties, SMTT(60)
<1>5. <<Head(a)>> \o (Tail(a) \o p) = (<<Head(a)>> \o Tail(a)) \o p
  BY <1>1, ConcatAssociative
<1> QED BY <1>2, <1>3, <1>4, <1>5

LEMMA NextItem ==
  \A q, a, p \in Seq(Items) :
    a # <<>> => Append(q, Head(a)) \o (Tail(a) \o p) = q \o (a \o p)
<1> SUFFICES ASSUME NEW q \in Seq(Items), NEW a \in Seq(Items), a # <<>>, NEW p \in Seq(Items)
             PROVE  Append(q, Head(a)) \o (Tail(a) \o p) = q \o (a \o p)
  OBVIOUS
<1> QED BY NextByte, SMTT(60)

Dummies(n) == [i \in 1..n |-> Dummy]

\* The frames of accesses, and bytes that are only clocked, are bytes.
LEMMA BytesType ==
  /\ Dummy \in Items
  /\ \A n \in Nat : Dummies(n) \in Seq(Items)
  /\ \A a \in Accesses : /\ <<Header(a)>> \in Seq(Items)
                         /\ Payload(a) \in Seq(Items)
                         /\ Frame(a) \in Seq(Items)
                         /\ Frame(a) = <<Header(a)>> \o Payload(a)
                         /\ a.op = "read" => Payload(a) = Dummies(Len(a.data))
<1>1. Dummy \in Items
  BY DEF Dummy, Items, Ops
<1>2. ASSUME NEW n \in Nat PROVE Dummies(n) \in Seq(Items)
  BY <1>1 DEF Dummies
<1>3. ASSUME NEW a \in Accesses
      PROVE  /\ <<Header(a)>> \in Seq(Items)
             /\ Payload(a) \in Seq(Items)
             /\ Frame(a) \in Seq(Items)
             /\ Frame(a) = <<Header(a)>> \o Payload(a)
             /\ a.op = "read" => Payload(a) = Dummies(Len(a.data))
  <2>1. a.data \in Seq(Nat) /\ a.op \in Ops /\ a.addr \in Nat
    BY BusConstants DEF Accesses
  <2>2. Header(a) \in Items
    BY <2>1 DEF Header, Items
  <2>3. Len(a.data) \in Nat /\ \A i \in 1..Len(a.data) : a.data[i] \in Nat
    BY <2>1, LenProperties, ElementOfSeq
  <2>4. \A i \in 1..Len(a.data) : Data(a.data[i]) \in Items
    BY <2>3 DEF Data, Items, Ops
  <2>5. Payload(a) \in Seq(Items)
    BY <1>1, <2>3, <2>4 DEF Payload
  <2>6. a.op = "read" => Payload(a) = Dummies(Len(a.data))
    BY DEF Payload, Dummies
  <2>7. Frame(a) = <<Header(a)>> \o Payload(a)
    BY DEF Frame
  <2> QED BY <2>2, <2>5, <2>6, <2>7, ConcatProperties
<1> QED BY <1>1, <1>2, <1>3

\* One more byte that is only clocked.
LEMMA NextDummy ==
  ASSUME NEW q \in Seq(Items), NEW n \in Nat \ {0}
  PROVE  Append(q, Dummy) \o Dummies(n - 1) = q \o Dummies(n)
<1>1. Dummies(n) \in Seq(Items) /\ Dummies(n) # <<>>
  BY BytesType, LenProperties DEF Dummies
<1>2. Head(Dummies(n)) = Dummy /\ Tail(Dummies(n)) = Dummies(n - 1)
  BY DEF Dummies
<1>3. Dummies(n) \o <<>> = Dummies(n) /\ Dummies(n - 1) \o <<>> = Dummies(n - 1)
  BY <1>1, BytesType, ConcatEmptySeq
<1>4. <<>> \in Seq(Items)
  BY EmptySeq
<1>5. Append(q, Head(Dummies(n))) \o (Tail(Dummies(n)) \o <<>>) = q \o (Dummies(n) \o <<>>)
  BY <1>1, <1>4, NextItem
<1> QED BY <1>2, <1>3, <1>5

-----------------------------------------------------------------------------
(* Types *)

\* Every access there is, the version's too, has its type.
LEMMA AccessTypes == ReadVersion \in Accesses /\ Following \subseteq Accesses
<1>1. <<None>> \in Seq(Nat)
  BY DEF None
<1>2. Regs \in 0..Regs
  BY BusConstants
<1>3. ReadVersion \in Accesses
  BY <1>1, <1>2 DEF ReadVersion, Accesses, Ops
<1> QED BY <1>3, BusConstants DEF Following

\* Records of a transfer.
Transfers == [tx : Seq(Items), rx : Nat]

LEMMA IdleType == Idle \in Transfers /\ Idle.tx = <<>> /\ Idle.rx = 0
BY EmptySeq DEF Idle, Transfers

LEMMA TransferFields ==
  ASSUME NEW x \in Transfers
  PROVE  /\ x = Idle <=> x.tx = <<>> /\ x.rx = 0
         /\ x.tx \in Seq(Items) /\ x.rx \in Nat
         /\ x # Idle /\ x.tx = <<>> => x.rx \in Nat \ {0}
BY DEF Transfers, Idle

\* What the claims of the driver look like.
HeldType == [funcs : BOOLEAN, program : BOOLEAN, sm : BOOLEAN, dma : 0..2]

LEMMA ClaimType ==
  ASSUME NEW f \in Free
  PROVE  Claimed(f) \in HeldType /\ Close(Claimed(f)) \in HeldType
<1>1. f.dmas \in Nat
  BY BusConstants DEF FreeRecords
<1>2. Claimed(f) \in HeldType
  BY <1>1 DEF Claimed, HeldType
<1>3. Close(Claimed(f)) \in HeldType
  <2>1. ASSUME NEW b \in BOOLEAN PROVE [Nothing EXCEPT !.program = b] \in HeldType
    <3>1. Nothing \in HeldType
      BY DEF Nothing, HeldType
    <3> QED BY <3>1 DEF HeldType
  <2>2. (Claimed(f).program /\ ~Claimed(f).sm) \in BOOLEAN
    OBVIOUS
  <2> QED BY <2>1, <2>2 DEF Close
<1> QED BY <1>2, <1>3

\* The start.
LEMMA TypeInit == Init => TypeOK
<1> SUFFICES ASSUME Init PROVE TypeOK
  OBVIOUS
<1>1. Nothing \in HeldType
  BY DEF Nothing, HeldType
<1>2. Reset \in [0..Regs -> Nat]
  BY DEF Reset, VERSION, None
<1>3. pc \in [Tasks -> Locations] /\ acc \in [Tasks -> Accesses] /\ got \in [Tasks -> Seq(Nat)]
  BY AccessTypes, EmptySeq DEF Init, Locations
<1>4. sm \in Transfers /\ header \in Seq(Items) /\ frame \in Seq(Items)
  BY IdleType, EmptySeq DEF Init
<1> QED BY <1>1, <1>2, <1>3, <1>4, BusConstants, SMTT(60) DEF Init, TypeOK, HeldType, Transfers

\* The steps of the task that brings the chip up.
LEMMA TypeBring ==
  ASSUME TypeOK, Start \/ Recover \/ Bring \/ Halted
  PROVE  TypeOK'
<1> USE BusConstants DEF TypeOK, wire, rest, Locations
<1>1. ASSUME NEW f \in Free, Open(f) PROVE TypeOK'
  <2>1. held' \in HeldType
    BY <1>1, ClaimType DEF Open
  <2> QED BY <1>1, <2>1 DEF Open, HeldType
<1>2. ASSUME MakeLock PROVE TypeOK'
  BY <1>2 DEF MakeLock
<1>3. ASSUME Check PROVE TypeOK'
  BY <1>3, EmptySeq DEF Check
<1>4. ASSUME Recover PROVE TypeOK'
  BY <1>4 DEF Recover
<1>5. ASSUME ResetLow PROVE TypeOK'
  BY <1>5 DEF ResetLow, Reset, VERSION, None
<1>6. ASSUME ResetHigh PROVE TypeOK'
  BY <1>6 DEF ResetHigh
<1>7. ASSUME Initialize PROVE TypeOK'
  BY <1>7, AccessTypes DEF Initialize
<1>8. ASSUME Halted PROVE TypeOK'
  BY <1>8 DEF Halted, vars
<1> QED BY <1>1, <1>2, <1>3, <1>4, <1>5, <1>6, <1>7, <1>8 DEF Start, Bring

\* The bytes written to and read from the chip.
LEMMA TypeClock ==
  ASSUME TypeOK, NEW t \in Tasks, Clock(t)
  PROVE  TypeOK'
<1> DEFINE byte == IF sm.tx # <<>> THEN Head(sm.tx) ELSE Dummy
           turn == whole /\ frame # <<>>
           seen == IF turn /\ At \in DOMAIN reg THEN reg[At] ELSE None
<1>1. /\ sm \in Transfers /\ sm # Idle /\ frame \in Seq(Items)
      /\ reg \in [0..Regs -> Nat] /\ got \in [Tasks -> Seq(Nat)]
  BY DEF TypeOK, Transfers, Clock
<1>2. byte \in Items
  BY <1>1, TransferFields, HeadTailProperties, BytesType
<1>3. sm' \in Transfers
  <2>1. CASE sm.tx # <<>>
    <3>1. Tail(sm.tx) \in Seq(Items)
      BY <1>1, <2>1, TransferFields, HeadTailProperties
    <3> QED BY <1>1, <2>1, <3>1 DEF Clock, Transfers
  <2>2. CASE sm.tx = <<>>
    <3>1. sm.rx - 1 \in Nat
      BY <1>1, <2>2, TransferFields
    <3> QED BY <1>1, <2>2, <3>1 DEF Clock, Transfers
  <2> QED BY <2>1, <2>2
<1>4. frame' \in Seq(Items)
  BY <1>1, <1>2, AppendProperties DEF Clock
<1>5. reg' \in [0..Regs -> Nat]
  <2>1. byte.n \in Nat
    BY <1>2 DEF Items
  <2> QED BY <1>1, <2>1 DEF Clock
<1>6. got' \in [Tasks -> Seq(Nat)]
  <2>1. seen \in Nat
    BY <1>1 DEF None
  <2>2. Append(got[t], seen) \in Seq(Nat)
    BY <1>1, <2>1, AppendProperties
  <2>3. got' = got \/ got' = [got EXCEPT ![t] = Append(got[t], seen)]
    BY DEF Clock
  <2> QED BY <1>1, <2>2, <2>3
<1> QED BY <1>3, <1>4, <1>5, <1>6 DEF Clock, TypeOK, Transfers, rest

\* A task has the token from Lock to Unlock.
Holds(t) == pc[t] \in Framing \cup {"select", "unlock"}
Token == \A t \in Tasks : Holds(t) => sem = 0

\* The steps of a task in an access.
LEMMA TypeAccess ==
  ASSUME TypeOK, Token, NEW t \in Tasks, Ask(t) \/ Lock(t) \/ Step(t)
  PROVE  TypeOK'
<1> USE DEF wire, rest
<1>1. /\ acc[t] \in Accesses /\ Len(acc[t].data) \in Nat /\ sm \in Transfers
      /\ header \in Seq(Items)
  BY DEF TypeOK, Accesses, Transfers
<1>2. /\ <<Header(acc[t])>> \in Seq(Items) /\ Payload(acc[t]) \in Seq(Items)
      /\ Frame(acc[t]) \in Seq(Items)
  BY <1>1, BytesType
<1>3. \A q \in Seq(Items), n \in Nat : [tx |-> q, rx |-> n] \in Transfers
  BY DEF Transfers
<1>4. ASSUME Ask(t) PROVE TypeOK'
  BY <1>4, BusConstants DEF Ask, TypeOK, Locations
<1>5. ASSUME Lock(t) PROVE TypeOK'
  BY <1>5 DEF Lock, TypeOK, Locations
<1>6. ASSUME FrameStart(t) PROVE TypeOK'
  BY <1>6, EmptySeq DEF FrameStart, TypeOK, Locations
<1>7. ASSUME WriteHeader(t) \/ WriteData(t) PROVE TypeOK'
  <2>1. ASSUME NEW buf \in Seq(Items), NEW len, NEW next \in Locations,
               WriteBuffer(t, buf, len, next),
               UNCHANGED <<acc, got, rest, sem, wire, rst>>
        PROVE  TypeOK'
    <3>1. header' \in Seq(Items) /\ sm' \in Transfers
      BY <1>1, <1>3, <2>1 DEF WriteBuffer, Transfer
    <3>2. pc' \in [Tasks -> Locations]
      BY <2>1 DEF WriteBuffer, TypeOK, Locations
    <3> QED BY <2>1, <3>1, <3>2 DEF TypeOK, Transfers
  <2>2. "data" \in Locations /\ "deselect" \in Locations
    BY DEF Locations
  <2>3. CASE WriteHeader(t)
    BY <1>2, <2>1, <2>2, <2>3 DEF WriteHeader
  <2>4. CASE WriteData(t)
    BY <1>2, <2>1, <2>2, <2>4 DEF WriteData
  <2> QED BY <1>7, <2>3, <2>4
<1>8. ASSUME HeaderOut(t) \/ Sent(t) \/ Read(t) PROVE TypeOK'
  <2>1. header' \in Seq(Items) /\ sm' \in Transfers
    BY <1>1, <1>2, <1>3, <1>8, IdleType, EmptySeq DEF HeaderOut, Sent, Read, Transfer
  <2> QED BY <1>8, <2>1 DEF HeaderOut, Sent, Read, TypeOK, Transfers, Locations
<1>9. ASSUME ReadDone(t) PROVE TypeOK'
  <2>1. header' \in Seq(Items)
    BY <1>9, EmptySeq DEF ReadDone
  <2> QED BY <1>9, <2>1 DEF ReadDone, TypeOK, Locations
<1>10. ASSUME FrameEnd(t) PROVE TypeOK'
  BY <1>10 DEF FrameEnd, TypeOK, Locations
<1>11. ASSUME Clock(t) PROVE TypeOK'
  BY <1>11, TypeClock
<1>12. ASSUME Unlock(t) PROVE TypeOK'
  <2>1. sem' \in 0..1 /\ frame' \in Seq(Items) /\ pc' \in [Tasks -> Locations]
    BY <1>12, EmptySeq DEF Unlock, TypeOK, Locations, Token, Holds
  <2>2. acc' \in [Tasks -> Accesses] /\ got' \in [Tasks -> Seq(Nat)]
    BY <1>12, AccessTypes, EmptySeq DEF Unlock, TypeOK
  <2> QED BY <1>12, <2>1, <2>2 DEF Unlock, TypeOK
<1> QED BY <1>4, <1>5, <1>6, <1>7, <1>8, <1>9, <1>10, <1>11, <1>12 DEF Step

-----------------------------------------------------------------------------
(* One access at a time *)

Others == Tasks \ {Net}

Booting ==
  /\ ~booted => \A t \in Others : pc[t] = "idle"
  /\ pc[Net] \in {"open", "lock_made"} => ~booted /\ sem = 0
  /\ pc[Net] = "check" => ~booted

Exclusive == \A t, u \in Tasks : Holds(t) /\ Holds(u) => t = u

One == TypeOK /\ Token /\ Booting /\ Exclusive

\* The start and the recoveries leave an access under way alone.
LEMMA OneBring ==
  ASSUME One, Start \/ Recover \/ Bring \/ Halted
  PROVE  Token' /\ Booting' /\ Exclusive'
<1> USE BusConstants DEF One, TypeOK, Holds, Framing, wire, rest, Others
<1>1. ASSUME NEW f \in Free, Open(f) PROVE Token' /\ Booting' /\ Exclusive'
  BY <1>1 DEF Open, Token, Booting, Exclusive
<1>2. ASSUME MakeLock PROVE Token' /\ Booting' /\ Exclusive'
  BY <1>2 DEF MakeLock, Token, Booting, Exclusive
<1>3. ASSUME Check PROVE Token' /\ Booting' /\ Exclusive'
  BY <1>3 DEF Check, Token, Booting, Exclusive
<1>4. ASSUME Recover PROVE Token' /\ Booting' /\ Exclusive'
  BY <1>4 DEF Recover, Token, Booting, Exclusive
<1>5. ASSUME ResetLow PROVE Token' /\ Booting' /\ Exclusive'
  BY <1>5 DEF ResetLow, Token, Booting, Exclusive
<1>6. ASSUME ResetHigh PROVE Token' /\ Booting' /\ Exclusive'
  BY <1>6 DEF ResetHigh, Token, Booting, Exclusive
<1>7. ASSUME Initialize PROVE Token' /\ Booting' /\ Exclusive'
  BY <1>7 DEF Initialize, Token, Booting, Exclusive
<1>8. ASSUME Halted PROVE Token' /\ Booting' /\ Exclusive'
  BY <1>8 DEF Halted, vars, Token, Booting, Exclusive
<1> QED BY <1>1, <1>2, <1>3, <1>4, <1>5, <1>6, <1>7, <1>8 DEF Start, Bring

\* A step inside an access: the task goes on to another place inside it.
LEMMA OneInside ==
  ASSUME One, NEW t \in Tasks, Holds(t), NEW to \in Framing \cup {"unlock"},
         pc' = [pc EXCEPT ![t] = to], UNCHANGED <<booted, sem>>
  PROVE  Token' /\ Booting' /\ Exclusive'
<1> USE BusConstants DEF One, TypeOK, Holds, Framing, Others
<1>1. Token' /\ Exclusive'
  BY DEF Token, Exclusive
<1>2. Booting'
  BY DEF Booting
<1> QED BY <1>1, <1>2

LEMMA OneAccess ==
  ASSUME One, NEW t \in Tasks, Ask(t) \/ Lock(t) \/ Step(t)
  PROVE  Token' /\ Booting' /\ Exclusive'
<1> USE BusConstants DEF One, wire, rest
<1>1. ASSUME Ask(t) PROVE Token' /\ Booting' /\ Exclusive'
  BY <1>1 DEF Ask, Token, Booting, Exclusive, TypeOK, Holds, Framing, Others
<1>2. ASSUME Lock(t) PROVE Token' /\ Booting' /\ Exclusive'
  BY <1>2 DEF Lock, Token, Booting, Exclusive, TypeOK, Holds, Framing, Others
<1>3. ASSUME FrameStart(t) PROVE Token' /\ Booting' /\ Exclusive'
  BY <1>3, OneInside DEF FrameStart, Holds, Framing
<1>4. ASSUME WriteHeader(t) PROVE Token' /\ Booting' /\ Exclusive'
  BY <1>4, OneInside DEF WriteHeader, WriteBuffer, Holds, Framing
<1>5. ASSUME WriteData(t) PROVE Token' /\ Booting' /\ Exclusive'
  BY <1>5, OneInside DEF WriteData, WriteBuffer, Holds, Framing
<1>6. ASSUME HeaderOut(t) PROVE Token' /\ Booting' /\ Exclusive'
  BY <1>6, OneInside DEF HeaderOut, Holds, Framing
<1>7. ASSUME Sent(t) PROVE Token' /\ Booting' /\ Exclusive'
  BY <1>7, OneInside DEF Sent, Holds, Framing
<1>8. ASSUME Read(t) PROVE Token' /\ Booting' /\ Exclusive'
  BY <1>8, OneInside DEF Read, Holds, Framing
<1>9. ASSUME ReadDone(t) PROVE Token' /\ Booting' /\ Exclusive'
  BY <1>9, OneInside DEF ReadDone, Holds, Framing
<1>10. ASSUME FrameEnd(t) PROVE Token' /\ Booting' /\ Exclusive'
  BY <1>10, OneInside DEF FrameEnd, Holds, Framing
<1>11. ASSUME Unlock(t) PROVE Token' /\ Booting' /\ Exclusive'
  BY <1>11 DEF Unlock, Token, Booting, Exclusive, TypeOK, Holds, Framing, Others
<1>12. ASSUME Clock(t) PROVE Token' /\ Booting' /\ Exclusive'
  BY <1>12 DEF Clock, Token, Booting, Exclusive, Holds
<1> QED BY <1>1, <1>2, <1>3, <1>4, <1>5, <1>6, <1>7, <1>8, <1>9, <1>10, <1>11, <1>12
        DEF Step

-----------------------------------------------------------------------------
(* What the driver holds at each call *)

Settled == header = <<>> /\ sm = Idle

AtCall(t) ==
  /\ pc[t] \in {"header", "deselect"} => Settled
  /\ pc[t] = "data" => header = <<Header(acc[t])>> /\ sm = Idle
  /\ pc[t] = "header_out" => sm.rx = 0
  /\ pc[t] = "sending" => header = <<>> /\ sm.rx = 0

Calls == (\A t \in Tasks : AtCall(t)) /\ BusFree

\* A step beside the access under way: no other begins, and the select line
\* can only rise.
Beside ==
  /\ \A t \in Tasks : /\ pc'[t] \in Framing \cup {"unlock"} => pc'[t] = pc[t] /\ acc'[t] = acc[t]
                      /\ pc[t] \in Framing \cup {"unlock"} => pc'[t] = pc[t]
  /\ UNCHANGED <<header, sm, frame>>
  /\ cs => cs'
  /\ whole' => whole

\* The start, the recoveries and the way to the semaphore are such steps.
LEMMA BesideSteps ==
  ASSUME TypeOK, Start \/ Recover \/ Bring \/ Halted \/ \E t \in Tasks : Ask(t) \/ Lock(t)
  PROVE  Beside
<1> USE BusConstants DEF TypeOK, Framing, wire, rest, Beside
<1>1. ASSUME NEW f \in Free, Open(f) PROVE Beside
  BY <1>1 DEF Open
<1>2. ASSUME MakeLock PROVE Beside
  BY <1>2 DEF MakeLock
<1>3. ASSUME Check PROVE Beside
  BY <1>3 DEF Check
<1>4. ASSUME Recover PROVE Beside
  BY <1>4 DEF Recover
<1>5. ASSUME ResetLow PROVE Beside
  BY <1>5 DEF ResetLow
<1>6. ASSUME ResetHigh PROVE Beside
  BY <1>6 DEF ResetHigh
<1>7. ASSUME Initialize PROVE Beside
  BY <1>7 DEF Initialize
<1>8. ASSUME Halted PROVE Beside
  BY <1>8 DEF Halted, vars
<1>9. ASSUME NEW t \in Tasks, Ask(t) PROVE Beside
  BY <1>9 DEF Ask
<1>10. ASSUME NEW t \in Tasks, Lock(t) PROVE Beside
  BY <1>10 DEF Lock
<1> QED BY <1>1, <1>2, <1>3, <1>4, <1>5, <1>6, <1>7, <1>8, <1>9, <1>10 DEF Start, Bring

LEMMA CallsBeside ==
  ASSUME Calls, Beside
  PROVE  Calls'
<1>1. ASSUME NEW t \in Tasks PROVE AtCall(t)'
  BY <1>1 DEF Calls, AtCall, Settled, Beside, Framing
<1>2. BusFree'
  BY DEF Calls, BusFree, Beside
<1> QED BY <1>1, <1>2 DEF Calls

\* The task in the access is the only one to follow.
LEMMA CallsOf ==
  ASSUME One, NEW t \in Tasks, Holds(t), NEW to, pc' = [pc EXCEPT ![t] = to],
         AtCall(t)', to \notin Framing => Settled' /\ cs'
  PROVE  Calls'
<1>1. pc'[t] = to
  BY DEF One, TypeOK
<1>2. ASSUME NEW u \in Tasks PROVE AtCall(u)'
  <2>1. CASE u = t
    BY <2>1
  <2>2. CASE u # t
    BY <2>2 DEF One, TypeOK, Exclusive, Holds, Framing, AtCall
  <2> QED BY <2>1, <2>2
<1>3. BusFree'
  BY <1>1 DEF BusFree, Settled
<1> QED BY <1>2, <1>3 DEF Calls

LEMMA CallsStep ==
  ASSUME One, Calls, NEW t \in Tasks, Step(t)
  PROVE  Calls'
<1> USE DEF wire, rest
<1>1. /\ AtCall(t) /\ sm \in Transfers
      /\ \A to : pc' = [pc EXCEPT ![t] = to] => pc'[t] = to
  BY DEF Calls, One, TypeOK, Transfers
<1>2. ASSUME FrameStart(t) PROVE Calls'
  <2>1. Settled
    BY <1>2 DEF Calls, BusFree, Settled, One, Exclusive, Holds, Framing, FrameStart
  <2>2. AtCall(t)'
    BY <1>1, <1>2, <2>1 DEF FrameStart, AtCall, Settled
  <2> QED BY <1>2, <2>2, CallsOf DEF FrameStart, Holds, Framing
<1>3. ASSUME WriteHeader(t) PROVE Calls'
  <2>1. AtCall(t)'
    BY <1>1, <1>3, SMTT(60) DEF WriteHeader, WriteBuffer, Transfer, AtCall, Settled
  <2> QED BY <1>3, <2>1, CallsOf DEF WriteHeader, WriteBuffer, Holds, Framing
<1>4. ASSUME WriteData(t) PROVE Calls'
  <2>1. AtCall(t)' /\ pc' = [pc EXCEPT ![t] = "header_out"]
    BY <1>1, <1>4, SMTT(60) DEF WriteData, WriteBuffer, Transfer, AtCall, Settled
  <2> QED BY <1>4, <2>1, CallsOf DEF WriteData, Holds, Framing
<1>5. ASSUME HeaderOut(t) PROVE Calls'
  <2>1. AtCall(t)'
    BY <1>1, <1>5 DEF HeaderOut, Transfer, AtCall, Settled
  <2> QED BY <1>5, <2>1, CallsOf DEF HeaderOut, Holds, Framing
<1>6. ASSUME Sent(t) PROVE Calls'
  <2>1. AtCall(t)'
    BY <1>1, <1>6 DEF Sent, AtCall, Settled
  <2> QED BY <1>6, <2>1, CallsOf DEF Sent, Holds, Framing
<1>7. ASSUME Read(t) PROVE Calls'
  <2>1. AtCall(t)'
    BY <1>1, <1>7 DEF Read, AtCall, Settled
  <2> QED BY <1>7, <2>1, CallsOf DEF Read, Holds, Framing
<1>8. ASSUME ReadDone(t) PROVE Calls'
  <2>1. AtCall(t)'
    BY <1>1, <1>8 DEF ReadDone, AtCall, Settled
  <2> QED BY <1>8, <2>1, CallsOf DEF ReadDone, Holds, Framing
<1>9. ASSUME FrameEnd(t) PROVE Calls'
  <2>1. AtCall(t)' /\ Settled' /\ cs'
    BY <1>1, <1>9 DEF FrameEnd, AtCall, Settled
  <2> QED BY <1>9, <2>1, CallsOf DEF FrameEnd, Holds, Framing
<1>10. ASSUME Unlock(t) PROVE Calls'
  <2>1. Settled /\ cs
    BY <1>10 DEF Calls, BusFree, Settled, One, Exclusive, Holds, Framing, Unlock
  <2>2. AtCall(t)' /\ Settled' /\ cs'
    BY <1>1, <1>10, <2>1 DEF Unlock, AtCall, Settled
  <2> QED BY <1>10, <2>2, CallsOf DEF Unlock, Holds, Framing
<1>11. ASSUME Clock(t) PROVE Calls'
  <2>1. pc' = [pc EXCEPT ![t] = pc[t]] /\ pc[t] \in {"header_out", "sending", "reading"}
    BY <1>11 DEF Clock, One, TypeOK
  <2>2. AtCall(t)'
    <3>1. pc[t] # "reading" => sm.rx = 0 /\ sm.tx # <<>>
      BY <1>1, <1>11, <2>1, TransferFields DEF AtCall, Clock
    <3>2. pc[t] # "reading" => sm'.rx = 0
      BY <1>1, <1>11, <3>1 DEF Clock, Transfers
    <3> QED BY <1>1, <1>11, <2>1, <3>2 DEF Clock, AtCall
  <2> QED BY <2>1, <2>2, CallsOf DEF Holds, Framing
<1> QED BY <1>2, <1>3, <1>4, <1>5, <1>6, <1>7, <1>8, <1>9, <1>10, <1>11 DEF Step

-----------------------------------------------------------------------------
(* What the chip has taken and what is still to come *)

Remaining(t) ==
  CASE pc[t] \in {"header", "data"} -> Frame(acc[t])
    [] pc[t] = "header_out" -> sm.tx \o Payload(acc[t])
    [] pc[t] = "sending" -> sm.tx
    [] pc[t] = "reading" -> sm.tx \o Dummies(sm.rx)
    [] OTHER -> <<>>

Ordered(t) ==
  pc[t] \in Framing \cup {"unlock"} =>
    /\ IsPrefix(frame, Frame(acc[t]))
    /\ whole => frame \o Remaining(t) = Frame(acc[t])

InOrder == \A t \in Tasks : Ordered(t)

\* Nothing taken is the beginning of every frame.
LEMMA EmptyPrefix ==
  ASSUME NEW a \in Accesses
  PROVE  IsPrefix(<<>>, Frame(a)) /\ <<>> \o Frame(a) = Frame(a)
<1>1. Frame(a) \in Seq(Items) /\ <<>> \in Seq(Items)
  BY BytesType, EmptySeq
<1>2. <<>> \o Frame(a) = Frame(a)
  BY <1>1, ConcatEmptySeq
<1> QED BY <1>1, <1>2, PrefixOfConcat

LEMMA OrderBeside ==
  ASSUME InOrder, Beside
  PROVE  InOrder'
<1> SUFFICES ASSUME NEW t \in Tasks PROVE Ordered(t)'
  BY DEF InOrder
<1>1. CASE pc'[t] \in Framing \cup {"unlock"}
  <2>1. pc'[t] = pc[t] /\ acc'[t] = acc[t] /\ sm' = sm /\ frame' = frame /\ Ordered(t)
    BY <1>1 DEF Beside, InOrder
  <2>2. Remaining(t)' = Remaining(t)
    BY <2>1 DEF Remaining
  <2> QED BY <1>1, <2>1, <2>2 DEF Ordered, Beside
<1>2. CASE pc'[t] \notin Framing \cup {"unlock"}
  BY <1>2 DEF Ordered
<1> QED BY <1>1, <1>2

\* Only the task in the access has a frame to follow.
LEMMA OrderOf ==
  ASSUME One, NEW t \in Tasks, Holds(t), NEW to, pc' = [pc EXCEPT ![t] = to], Ordered(t)'
  PROVE  InOrder'
<1> SUFFICES ASSUME NEW u \in Tasks, u # t PROVE Ordered(u)'
  BY DEF InOrder
<1>1. pc'[u] = pc[u] /\ ~Holds(u)
  BY DEF One, TypeOK, Exclusive
<1> QED BY <1>1 DEF Ordered, Holds

\* A step that moves no byte: what is to come stays the same.
LEMMA OrderKept ==
  ASSUME One, InOrder, NEW t \in Tasks, Holds(t), pc[t] # "select",
         NEW to, pc' = [pc EXCEPT ![t] = to],
         UNCHANGED <<acc, frame, whole>>, Remaining(t)' = Remaining(t)
  PROVE  InOrder'
<1>1. Ordered(t) /\ pc[t] \in Framing \cup {"unlock"}
  BY DEF InOrder, Holds
<1>2. Ordered(t)'
  BY <1>1 DEF Ordered
<1> QED BY <1>2, OrderOf

\* One byte of the transfer.
LEMMA OrderClock ==
  ASSUME One, Calls, InOrder, NEW t \in Tasks, Clock(t)
  PROVE  InOrder'
<1> DEFINE byte == IF sm.tx # <<>> THEN Head(sm.tx) ELSE Dummy
           a == acc[t]
<1>1. /\ pc[t] \in {"header_out", "sending", "reading"} /\ pc' = pc /\ acc' = acc
      /\ whole' = whole /\ frame' = IF whole THEN Append(frame, byte) ELSE frame
      /\ sm \in Transfers /\ sm # Idle /\ frame \in Seq(Items) /\ a \in Accesses
  BY DEF Clock, One, TypeOK, Transfers, rest
<1>2. /\ sm.tx \in Seq(Items) /\ sm.rx \in Nat
      /\ sm.tx = <<>> => sm.rx \in Nat \ {0}
      /\ Payload(a) \in Seq(Items) /\ Frame(a) \in Seq(Items)
      /\ \A n \in Nat : Dummies(n) \in Seq(Items)
      /\ <<>> \in Seq(Items)
  BY <1>1, TransferFields, BytesType, EmptySeq
<1>3. pc[t] # "reading" => sm.tx # <<>>
  BY <1>1, <1>2 DEF Calls, AtCall
<1>4. Ordered(t) /\ Holds(t)
  BY <1>1 DEF InOrder, Holds, Framing
<1>5. CASE ~whole
  <2>1. Ordered(t)'
    BY <1>1, <1>4, <1>5 DEF Ordered
  <2> QED BY <1>1, <1>4, <2>1, OrderOf DEF One, TypeOK
<1>6. CASE whole
  <2>1. byte \in Items /\ Append(frame, byte) \in Seq(Items)
    BY <1>1, <1>2, HeadTailProperties, BytesType, AppendProperties
  <2>2. ASSUME sm.tx # <<>>, NEW p \in Seq(Items)
        PROVE  Append(frame, byte) \o (Tail(sm.tx) \o p) = frame \o (sm.tx \o p)
    <3>1. byte = Head(sm.tx)
      BY <2>2
    <3> QED BY <1>1, <1>2, <2>2, <3>1, NextItem
  <2>3. sm.tx # <<>> => sm'.tx = Tail(sm.tx) /\ sm'.rx = sm.rx /\ Tail(sm.tx) \in Seq(Items)
    BY <1>1, <1>2, HeadTailProperties DEF Clock, Transfers
  <2>4. sm.tx = <<>> => sm'.tx = <<>> /\ sm'.rx = sm.rx - 1 /\ byte = Dummy
    BY <1>1 DEF Clock, Transfers
  <2>5. frame' \o Remaining(t)' = frame \o Remaining(t) /\ Remaining(t)' \in Seq(Items)
    <3>1. CASE pc[t] = "header_out"
      <4>1. Remaining(t) = sm.tx \o Payload(a) /\ Remaining(t)' = Tail(sm.tx) \o Payload(a)
        BY <1>1, <1>3, <2>3, <3>1 DEF Remaining
      <4> QED BY <1>1, <1>2, <1>3, <1>6, <2>2, <2>3, <3>1, <4>1, ConcatProperties, ZenonT(60)
    <3>2. CASE pc[t] = "sending"
      <4>1. Remaining(t) = sm.tx /\ Remaining(t)' = Tail(sm.tx)
        BY <1>1, <1>3, <2>3, <3>2 DEF Remaining
      <4>2. sm.tx \o <<>> = sm.tx /\ Tail(sm.tx) \o <<>> = Tail(sm.tx)
        BY <1>2, <1>3, <2>3, <3>2, ConcatEmptySeq
      <4> QED BY <1>1, <1>2, <1>3, <1>6, <2>2, <2>3, <3>2, <4>1, <4>2
    <3>3. CASE pc[t] = "reading" /\ sm.tx # <<>>
      <4>1. /\ Remaining(t) = sm.tx \o Dummies(sm.rx)
            /\ Remaining(t)' = Tail(sm.tx) \o Dummies(sm.rx)
        BY <1>1, <2>3, <3>3 DEF Remaining
      <4> QED BY <1>1, <1>2, <1>6, <2>2, <2>3, <3>3, <4>1, ConcatProperties
    <3>4. CASE pc[t] = "reading" /\ sm.tx = <<>>
      <4>1. Remaining(t) = <<>> \o Dummies(sm.rx) /\ Remaining(t)' = <<>> \o Dummies(sm.rx - 1)
        BY <1>1, <2>4, <3>4 DEF Remaining
      <4>2. Dummies(sm.rx) \in Seq(Items) /\ Dummies(sm.rx - 1) \in Seq(Items)
        <5>1. \A n \in Nat \ {0} : n \in Nat /\ n - 1 \in Nat
          OBVIOUS
        <5>2. sm.rx \in Nat \ {0}
          BY <1>2, <3>4
        <5> QED BY <1>2, <5>1, <5>2
      <4>3. Remaining(t) = Dummies(sm.rx) /\ Remaining(t)' = Dummies(sm.rx - 1)
        BY <4>1, <4>2, ConcatEmptySeq
      <4>4. Append(frame, Dummy) \o Dummies(sm.rx - 1) = frame \o Dummies(sm.rx)
        BY <1>1, <1>2, <3>4, NextDummy
      <4> QED BY <1>1, <1>6, <2>4, <3>4, <4>2, <4>3, <4>4
    <3> QED BY <1>1, <3>1, <3>2, <3>3, <3>4
  <2>6. frame' \o Remaining(t)' = Frame(a)
    BY <1>1, <1>4, <1>6, <2>5 DEF Ordered, Framing
  <2>7. IsPrefix(frame', Frame(a))
    BY <1>1, <1>6, <2>1, <2>5, <2>6, PrefixOfConcat
  <2>8. Ordered(t)'
    BY <1>1, <2>6, <2>7 DEF Ordered
  <2> QED BY <1>1, <1>4, <2>8, OrderOf DEF One, TypeOK
<1> QED BY <1>5, <1>6

\* The other steps of an access, when the DMA keeps up.
LEMMA OrderStep ==
  ASSUME ~SlowDMA, One, Calls, InOrder, NEW t \in Tasks, Step(t)
  PROVE  InOrder'
<1> DEFINE a == acc[t]
<1>1. /\ a \in Accesses /\ Frame(a) \in Seq(Items) /\ Payload(a) \in Seq(Items)
      /\ Frame(a) = <<Header(a)>> \o Payload(a)
      /\ a.op = "read" => Payload(a) = Dummies(Len(a.data))
      /\ sm \in Transfers /\ AtCall(t)
      /\ \A to : pc' = [pc EXCEPT ![t] = to] => pc'[t] = to
  BY BytesType DEF One, TypeOK, Transfers, Calls
<1>2. /\ <<Header(a)>> \in Seq(Items) /\ <<>> \o Payload(a) = Payload(a)
  BY <1>1, BytesType, ConcatEmptySeq
<1> USE DEF wire, rest
<1>3. ASSUME FrameStart(t) PROVE InOrder'
  <2>1. pc'[t] = "header" /\ acc' = acc /\ frame' = <<>>
    BY <1>1, <1>3 DEF FrameStart
  <2>2. Remaining(t)' = Frame(a)
    BY <2>1 DEF Remaining
  <2>3. IsPrefix(<<>>, Frame(a)) /\ <<>> \o Frame(a) = Frame(a)
    BY <1>1, EmptyPrefix
  <2>4. Ordered(t)'
    BY <2>1, <2>2, <2>3 DEF Ordered
  <2> QED BY <1>3, <2>4, OrderOf DEF FrameStart, Holds, Framing
<1>4. ASSUME WriteHeader(t) PROVE InOrder'
  <2>1. pc[t] = "header" /\ header = <<>> /\ UNCHANGED <<acc, frame, whole>>
    BY <1>1, <1>4 DEF WriteHeader, AtCall, Settled
  <2>2. CASE pc' = [pc EXCEPT ![t] = "data"]
    <3>1. Remaining(t)' = Remaining(t)
      BY <1>1, <2>1, <2>2 DEF Remaining
    <3> QED BY <2>1, <2>2, <3>1, OrderKept DEF Holds, Framing
  <2>3. CASE pc' = [pc EXCEPT ![t] = "sending"] /\ sm' = [tx |-> Frame(a), rx |-> 0]
    <3>1. Remaining(t)' = Remaining(t)
      BY <1>1, <2>1, <2>3 DEF Remaining
    <3> QED BY <2>1, <2>3, <3>1, OrderKept DEF Holds, Framing
  <2> QED BY <1>4, <2>1, <2>2, <2>3 DEF WriteHeader, WriteBuffer, Transfer
<1>5. ASSUME WriteData(t) PROVE InOrder'
  <2>1. pc[t] = "data" /\ header = <<Header(a)>> /\ UNCHANGED <<acc, frame, whole>>
    BY <1>1, <1>5 DEF WriteData, AtCall
  <2>2. header # <<>>
    BY <2>1
  <2>3. pc' = [pc EXCEPT ![t] = "header_out"] /\ sm' = [tx |-> header, rx |-> 0]
    BY <1>5, <2>2 DEF WriteData, WriteBuffer, Transfer
  <2>4. Remaining(t) = <<Header(a)>> \o Payload(a)
    BY <1>1, <2>1 DEF Remaining
  <2>5. Remaining(t)' = header \o Payload(a)
    BY <1>1, <2>1, <2>3 DEF Remaining
  <2>6. Remaining(t)' = Remaining(t)
    BY <2>1, <2>4, <2>5
  <2> QED BY <2>1, <2>3, <2>6, OrderKept DEF Holds, Framing
<1>6. ASSUME HeaderOut(t) PROVE InOrder'
  <2>1. /\ pc[t] = "header_out" /\ sm.tx = <<>> /\ UNCHANGED <<acc, frame, whole>>
        /\ pc' = [pc EXCEPT ![t] = "sending"] /\ sm' = [tx |-> Payload(a), rx |-> 0]
    BY <1>6 DEF HeaderOut, Stalled, Transfer
  <2>2. Remaining(t)' = Remaining(t)
    BY <1>1, <1>2, <2>1 DEF Remaining
  <2> QED BY <2>1, <2>2, OrderKept DEF Holds, Framing
<1>7. ASSUME Sent(t) PROVE InOrder'
  <2>1. /\ pc[t] = "sending" /\ sm.tx = <<>> /\ UNCHANGED <<acc, frame, whole>>
        /\ pc' = [pc EXCEPT ![t] = "deselect"]
    BY <1>7 DEF Sent, Stalled
  <2>2. Remaining(t)' = Remaining(t)
    BY <1>1, <2>1 DEF Remaining
  <2> QED BY <2>1, <2>2, OrderKept DEF Holds, Framing
<1>8. ASSUME Read(t) PROVE InOrder'
  <2>1. /\ pc[t] = "data" /\ header = <<Header(a)>> /\ UNCHANGED <<acc, frame, whole>>
        /\ pc' = [pc EXCEPT ![t] = "reading"] /\ sm' = [tx |-> header, rx |-> Len(a.data)]
        /\ a.op = "read"
    BY <1>1, <1>8 DEF Read, Transfer, AtCall
  <2>2. Remaining(t)' = Remaining(t)
    BY <1>1, <2>1 DEF Remaining
  <2> QED BY <2>1, <2>2, OrderKept DEF Holds, Framing
<1>9. ASSUME ReadDone(t) PROVE InOrder'
  <2>1. /\ pc[t] = "reading" /\ sm = Idle /\ UNCHANGED <<acc, frame, whole>>
        /\ pc' = [pc EXCEPT ![t] = "deselect"]
    BY <1>9 DEF ReadDone
  <2>2. Remaining(t)' = <<>>
    BY <1>1, <2>1 DEF Remaining
  <2>3. Dummies(0) = <<>> /\ <<>> \o <<>> = <<>>
    BY DEF Dummies
  <2>4. Remaining(t) = <<>> \o Dummies(0)
    BY <2>1, IdleType DEF Remaining
  <2> QED BY <2>1, <2>2, <2>3, <2>4, OrderKept DEF Holds, Framing
<1>10. ASSUME FrameEnd(t) PROVE InOrder'
  <2>1. /\ pc[t] = "deselect" /\ UNCHANGED <<acc, frame, whole>>
        /\ pc' = [pc EXCEPT ![t] = "unlock"]
    BY <1>10 DEF FrameEnd
  <2>2. Remaining(t)' = Remaining(t)
    BY <1>1, <2>1 DEF Remaining
  <2> QED BY <2>1, <2>2, OrderKept DEF Holds, Framing
<1>11. ASSUME Unlock(t) PROVE InOrder'
  <2>1. pc[t] = "unlock" /\ pc'[t] \in {"idle", "check"}
    BY <1>1, <1>11 DEF Unlock
  <2>2. Holds(t) /\ Ordered(t)'
    BY <2>1 DEF Holds, Ordered, Framing
  <2> QED BY <1>11, <2>2, OrderOf DEF Unlock
<1>12. ASSUME Clock(t) PROVE InOrder'
  BY <1>12, OrderClock
<1> QED BY <1>3, <1>4, <1>5, <1>6, <1>7, <1>8, <1>9, <1>10, <1>11, <1>12 DEF Step

-----------------------------------------------------------------------------
(* What an access has written or read so far *)

\* An access stays within the registers.
Fits(a) == a.addr + Len(a.data) <= Regs + 1

\* The data bytes of the frame the chip has taken.
Taken == IF frame = <<>> THEN 0 ELSE Len(frame) - 1

\* The registers hold what has been written, or what has been read is what they hold.
Agrees(t) ==
  LET a == acc[t]
  IN /\ a.op = "write" => \A i \in 1..Taken : reg[a.addr + i - 1] = a.data[i]
     /\ a.op = "read" => /\ Len(got[t]) = Taken
                         /\ \A i \in 1..Taken : got[t][i] = reg[a.addr + i - 1]

Reached(t) ==
  /\ Fits(acc[t])
  /\ pc[t] \in {"header_out", "sending"} => acc[t].op = "write"
  /\ pc[t] = "reading" => acc[t].op = "read" /\ sm.tx \in {<<>>, <<Header(acc[t])>>}
  /\ pc[t] \notin {"reading", "deselect", "unlock", "check"} => got[t] = <<>>
  /\ pc[t] \in Framing \cup {"unlock"} /\ whole => Agrees(t)

Stored == \A t \in Tasks : Reached(t)

\* The accesses that are made fit.
LEMMA AllFit == Fits(ReadVersion) /\ \A a \in Asked : Fits(a)
<1>1. Fits(ReadVersion)
  BY BusConstants DEF Fits, ReadVersion, None
<1>2. ASSUME NEW a \in Asked PROVE Fits(a)
  <2>1. a.addr \in Nat /\ Len(a.data) \in Nat /\ a.addr + Len(a.data) <= Regs /\ Regs \in Nat
    BY BusConstants, LenProperties DEF Accesses, Sound
  <2> QED BY <2>1 DEF Fits
<1> QED BY <1>1, <1>2

\* A step beside the access under way leaves what has been written and read, unless the
\* chip is reset.
LEMMA StoredBeside ==
  ASSUME TypeOK, Stored, Beside,
         Start \/ Recover \/ Bring \/ Halted \/ \E t \in Tasks : Ask(t) \/ Lock(t)
  PROVE  Stored'
<1>1. whole' => reg' = reg
  BY DEF Start, Open, MakeLock, Check, Recover, Bring, ResetLow, ResetHigh, Initialize, Halted,
     vars,
         Ask, Lock, wire
<1>2. \A t \in Tasks : Fits(acc'[t])
  <2>1. acc' = acc \/ \E t \in Tasks, a \in Asked \cup {ReadVersion} : acc' = [acc EXCEPT ![t] = a]
    BY BusConstants DEF Start, Open, MakeLock, Check, Recover, Bring, ResetLow, ResetHigh,
       Initialize,
       Following, Halted, vars, Ask, Lock
  <2> QED BY <2>1, AllFit DEF Stored, Reached, TypeOK
<1>3. \A t \in Tasks :
        \/ /\ got'[t] = got[t]
           /\ pc'[t] = pc[t] \/ pc[t] \in Locations \ (Framing \cup {"unlock", "check"})
        \/ got'[t] = <<>> /\ pc'[t] \notin Framing \cup {"unlock"}
  BY BusConstants, SMTT(60) DEF TypeOK, Start, Open, MakeLock, Check, Recover, Bring, ResetLow, ResetHigh,
     Initialize, Halted,
     vars, Ask, Lock, Locations, Framing, rest
<1> SUFFICES ASSUME NEW t \in Tasks PROVE Reached(t)'
  BY DEF Stored
<1>4. CASE pc'[t] \in Framing \cup {"unlock"}
  <2>1. /\ pc'[t] = pc[t] /\ acc'[t] = acc[t] /\ sm' = sm /\ frame' = frame
        /\ (whole' => whole) /\ Reached(t)
    BY <1>4 DEF Beside, Stored
  <2>2. got'[t] = got[t]
    BY <1>3, <1>4, <2>1
  <2> QED BY <1>1, <1>4, <2>1, <2>2 DEF Reached, Agrees, Taken
<1>5. CASE pc'[t] \notin Framing \cup {"unlock"}
  BY <1>2, <1>3, <1>5 DEF Reached, Framing, Stored
<1> QED BY <1>4, <1>5

\* Only the task in the access changes what it has read, or the registers.
LEMMA StoredOf ==
  ASSUME One, Stored, NEW t \in Tasks, Holds(t), NEW to, pc' = [pc EXCEPT ![t] = to], Reached(t)',
         \A u \in Tasks \ {t} : acc'[u] = acc[u] /\ got'[u] = got[u]
  PROVE  Stored'
<1> SUFFICES ASSUME NEW u \in Tasks, u # t PROVE Reached(u)'
  BY DEF Stored
<1>1. pc'[u] = pc[u] /\ ~Holds(u) /\ Reached(u) /\ acc'[u] = acc[u] /\ got'[u] = got[u]
  BY DEF One, TypeOK, Exclusive, Stored
<1> QED BY <1>1 DEF Reached, Holds, Framing

\* The byte after those that have come is the first of those to come.
LEMMA FirstToCome ==
  ASSUME NEW q \in Seq(Items), NEW r \in Seq(Items), r # <<>>
  PROVE  Len(q) + 1 \in 1..Len(q \o r) /\ (q \o r)[Len(q) + 1] = Head(r)
<1>1. Len(q) \in Nat /\ Len(r) \in Nat \ {0} /\ Head(r) = r[1]
  OBVIOUS
<1> QED BY <1>1, ConcatProperties

\* The bytes of a frame: the header, then those of the data.
LEMMA FrameBytes ==
  ASSUME NEW a \in Accesses
  PROVE  /\ Len(a.data) \in Nat /\ Len(Frame(a)) = 1 + Len(a.data) /\ Frame(a)[1] = Header(a)
         /\ \A k \in 1..Len(a.data) :
              /\ Frame(a)[k + 1] = IF a.op = "write" THEN Data(a.data[k]) ELSE Dummy
              /\ a.data[k] \in Nat
<1>1. a.data \in Seq(Nat)
  BY DEF Accesses
<1>2. /\ <<Header(a)>> \in Seq(Items) /\ Payload(a) \in Seq(Items)
      /\ Frame(a) = <<Header(a)>> \o Payload(a)
  BY BytesType
<1>3. Len(a.data) \in Nat /\ \A k \in 1..Len(a.data) : a.data[k] \in Nat
  BY <1>1, LenProperties, ElementOfSeq
<1>4. Len(Payload(a)) = Len(a.data) /\ Len(<<Header(a)>>) = 1 /\ <<Header(a)>>[1] = Header(a)
  BY <1>2, <1>3 DEF Payload
<1>5. ASSUME NEW k \in 1..Len(a.data)
      PROVE  Frame(a)[k + 1] = IF a.op = "write" THEN Data(a.data[k]) ELSE Dummy
  <2>1. Frame(a)[k + 1] = Payload(a)[k]
    BY <1>2, <1>3, <1>4, ConcatProperties
  <2> QED BY <1>3, <2>1 DEF Payload
<1>6. Len(Frame(a)) = 1 + Len(a.data) /\ Frame(a)[1] = Header(a)
  BY <1>2, <1>3, <1>4, ConcatProperties
<1> QED BY <1>3, <1>5, <1>6

\* The byte that is clocked is the next one of the frame of the access.
LEMMA ClockedByte ==
  ASSUME One, Calls, InOrder, NEW t \in Tasks, Clock(t), whole
  PROVE  /\ Len(frame) + 1 \in 1..Len(Frame(acc[t]))
         /\ (IF sm.tx # <<>> THEN Head(sm.tx) ELSE Dummy) = Frame(acc[t])[Len(frame) + 1]
         /\ frame # <<>> => frame[1] = Header(acc[t])
<1> DEFINE byte == IF sm.tx # <<>> THEN Head(sm.tx) ELSE Dummy
           a == acc[t]
<1>1. /\ pc[t] \in {"header_out", "sending", "reading"} /\ sm # Idle
      /\ sm \in Transfers /\ frame \in Seq(Items) /\ a \in Accesses
  BY DEF Clock, One, TypeOK, Transfers
<1>2. /\ sm.tx \in Seq(Items) /\ sm.rx \in Nat /\ (sm.tx = <<>> => sm.rx \in Nat \ {0})
      /\ Payload(a) \in Seq(Items) /\ Frame(a) \in Seq(Items)
      /\ \A n \in Nat : Dummies(n) \in Seq(Items)
  BY <1>1, TransferFields, BytesType
<1>3. pc[t] # "reading" => sm.tx # <<>>
  BY <1>1, <1>2 DEF Calls, AtCall
<1>4. frame \o Remaining(t) = Frame(a)
  BY <1>1 DEF InOrder, Ordered, Framing
<1>5. Remaining(t) \in Seq(Items) /\ Remaining(t) # <<>> /\ Head(Remaining(t)) = byte
  <2>1. ASSUME NEW q \in Seq(Items), NEW p \in Seq(Items), q # <<>>
        PROVE  q \o p \in Seq(Items) /\ q \o p # <<>> /\ Head(q \o p) = Head(q)
    <3>1. Len(q) \in Nat \ {0} /\ Len(p) \in Nat /\ Head(q) = q[1]
      BY <2>1
    <3>2. /\ q \o p \in Seq(Items) /\ Len(q \o p) = Len(q) + Len(p)
          /\ \A i \in 1..Len(q) : (q \o p)[i] = q[i]
      BY <2>1, ConcatProperties
    <3>3. q \o p # <<>> /\ Head(q \o p) = (q \o p)[1]
      BY <3>1, <3>2
    <3> QED BY <3>1, <3>2, <3>3
  <2>2. CASE pc[t] = "header_out"
    BY <1>2, <1>3, <2>1, <2>2 DEF Remaining
  <2>3. CASE pc[t] = "sending"
    BY <1>2, <1>3, <2>3 DEF Remaining
  <2>4. CASE pc[t] = "reading" /\ sm.tx # <<>>
    BY <1>2, <2>1, <2>4 DEF Remaining
  <2>5. CASE pc[t] = "reading" /\ sm.tx = <<>>
    <3>1. /\ Dummies(sm.rx) \in Seq(Items) /\ Dummies(sm.rx) # <<>>
          /\ Head(Dummies(sm.rx)) = Dummy /\ <<>> \o Dummies(sm.rx) = Dummies(sm.rx)
      <4>1. Len(Dummies(sm.rx)) = sm.rx /\ Dummies(sm.rx)[1] = Dummy
        BY <1>2, <2>5 DEF Dummies
      <4>2. Dummies(sm.rx) \in Seq(Items) /\ Dummies(sm.rx) # <<>>
        BY <1>2, <2>5, <4>1
      <4>3. Head(Dummies(sm.rx)) = Dummy
        BY <4>1, <4>2
      <4>4. <<>> \o Dummies(sm.rx) = Dummies(sm.rx)
        BY <4>2, ConcatEmptySeq
      <4> QED BY <4>2, <4>3, <4>4
    <3> QED BY <2>5, <3>1 DEF Remaining
  <2> QED BY <1>1, <2>2, <2>3, <2>4, <2>5
<1>6. Len(frame) + 1 \in 1..Len(Frame(a)) /\ byte = Frame(a)[Len(frame) + 1]
  BY <1>1, <1>4, <1>5, FirstToCome
<1>7. frame # <<>> => frame[1] = Header(a)
  <2>1. frame # <<>> => frame[1] = (frame \o Remaining(t))[1]
    BY <1>1, <1>5, ConcatProperties
  <2> QED BY <1>1, <1>4, <2>1, FrameBytes
<1> QED BY <1>6, <1>7

\* The numbers of the registers of an access.
LEMMA Within ==
  \A x, n, r \in Nat : x + n <= r + 1 => \A m \in 1..n : x + m - 1 \in 0..r
OBVIOUS

\* One byte more: the chip has written it, or the task has read what the register holds.
LEMMA StoredClock ==
  ASSUME One, Calls, InOrder, Stored, NEW t \in Tasks, Clock(t)
  PROVE  Stored'
<1> DEFINE byte == IF sm.tx # <<>> THEN Head(sm.tx) ELSE Dummy
           a == acc[t]
           k == Len(frame)
<1>1. /\ pc[t] \in {"header_out", "sending", "reading"} /\ pc' = pc /\ acc' = acc /\ whole' = whole
      /\ frame' = IF whole THEN Append(frame, byte) ELSE frame
      /\ frame \in Seq(Items) /\ a \in Accesses /\ got[t] \in Seq(Nat) /\ k \in Nat
      /\ reg \in [0..Regs -> Nat] /\ got \in [Tasks -> Seq(Nat)] /\ pc \in [Tasks -> Locations]
  BY DEF Clock, One, TypeOK, rest
<1>2. Holds(t) /\ Reached(t) /\ pc' = [pc EXCEPT ![t] = pc[t]]
  BY <1>1 DEF Holds, Framing, Stored
<1>3. \A u \in Tasks \ {t} : acc'[u] = acc[u] /\ got'[u] = got[u]
  BY <1>1 DEF Clock
<1>4. sm'.tx \in {<<>>, sm.tx} \/ (sm.tx # <<>> /\ sm'.tx = Tail(sm.tx))
  BY DEF Clock, One, TypeOK
<1>5. pc[t] = "reading" => a.op = "read" /\ sm'.tx \in {<<>>, <<Header(a)>>}
  <2>1. \A h : Tail(<<h>>) = <<>>
    OBVIOUS
  <2>2. pc[t] = "reading" => a.op = "read" /\ sm.tx \in {<<>>, <<Header(a)>>}
    BY <1>2 DEF Reached
  <2>3. sm.tx = <<Header(a)>> => Tail(sm.tx) = <<>>
    BY <2>1
  <2> QED BY <1>4, <2>2, <2>3
<1>6. whole => Agrees(t)'
  <2> SUFFICES ASSUME whole PROVE Agrees(t)'
    OBVIOUS
  <2>1. /\ k + 1 \in 1..Len(Frame(a)) /\ byte = Frame(a)[k + 1]
        /\ frame # <<>> => frame[1] = Header(a)
    BY ClockedByte
  <2>2. Agrees(t) /\ Fits(a)
    BY <1>1, <1>2 DEF Reached, Framing
  <2>3. /\ Len(a.data) \in Nat /\ Len(Frame(a)) = 1 + Len(a.data) /\ Frame(a)[1] = Header(a)
        /\ \A i \in 1..Len(a.data) :
             /\ Frame(a)[i + 1] = IF a.op = "write" THEN Data(a.data[i]) ELSE Dummy
             /\ a.data[i] \in Nat
        /\ a.addr \in Nat /\ Regs \in Nat
    BY <1>1, FrameBytes, BusConstants, SMTT(60) DEF Accesses
  <2>4. Taken' = k /\ k \in 0..Len(a.data)
    <3>1. frame' = Append(frame, byte) /\ Len(frame') = k + 1 /\ frame' # <<>>
      BY <1>1
    <3> QED BY <1>1, <2>1, <2>3, <3>1, SMTT(60) DEF Taken
  <2>5. CASE k = 0
    <3>1. frame = <<>> /\ byte = Header(a) /\ Taken = 0
      BY <1>1, <2>1, <2>3, <2>5 DEF Taken
    <3>2. got' = got
      <4>1. sm.tx # <<>>
        BY <3>1 DEF Header, Dummy
      <4> QED BY <4>1 DEF Clock
    <3>3. \A i : i \notin 1..0
      OBVIOUS
    <3> QED BY <1>1, <2>2, <2>4, <2>5, <3>1, <3>2, <3>3 DEF Agrees
  <2>6. CASE k # 0
    <3>1. frame # <<>> /\ Taken = k - 1 /\ k \in 1..Len(a.data)
      BY <1>1, <2>4, <2>6 DEF Taken
    <3>2. frame[1].n = a.addr /\ frame[1].op = a.op
      BY <2>1, <3>1 DEF Header
    <3>3. At = a.addr + k - 1 /\ At \in 0..Regs
      <4>1. At = a.addr + k - 1
        BY <3>2 DEF At
      <4>2. a.addr + Len(a.data) <= Regs + 1
        BY <2>2 DEF Fits
      <4>3. a.addr + k - 1 \in 0..Regs
        BY <2>3, <3>1, <4>2, Within
      <4> QED BY <4>1, <4>3
    <3>4. CASE a.op = "write"
      <4>1. byte.n = a.data[k]
        <5>1. Frame(a)[k + 1] = Data(a.data[k])
          BY <2>3, <3>1, <3>4
        <5> QED BY <2>1, <5>1 DEF Data
      <4>2. reg' = [reg EXCEPT ![a.addr + k - 1] = a.data[k]]
        BY <1>1, <3>1, <3>2, <3>3, <3>4, <4>1 DEF Clock
      <4>3. ASSUME NEW i \in 1..k PROVE reg'[a.addr + i - 1] = a.data[i]
        <5>1. CASE i = k
          BY <1>1, <3>3, <4>2, <5>1
        <5>2. CASE i # k
          <6>1. i \in 1..(k - 1) /\ a.addr + i - 1 # a.addr + k - 1
            BY <2>3, <3>1, <5>2
          <6>2. reg[a.addr + i - 1] = a.data[i]
            BY <2>2, <3>1, <3>4, <6>1 DEF Agrees
          <6> QED BY <1>1, <4>2, <6>1, <6>2
        <5> QED BY <5>1, <5>2
      <4> QED BY <1>1, <2>4, <3>4, <4>3 DEF Agrees
    <3>5. CASE a.op = "read"
      <4>1. byte = Dummy
        BY <2>1, <2>3, <3>1, <3>5
      <4>2. sm.tx = <<>>
        <5>1. pc[t] = "reading"
          BY <1>1, <1>2, <3>5 DEF Reached
        <5>2. sm.tx # <<>> => byte = Header(a)
          BY <1>2, <5>1 DEF Reached
        <5> QED BY <4>1, <5>2 DEF Header, Dummy
      <4>3. reg' = reg /\ got' = [got EXCEPT ![t] = Append(got[t], reg[a.addr + k - 1])]
        BY <1>1, <3>1, <3>2, <3>3, <3>5, <4>2 DEF Clock
      <4>4. Len(got[t]) = k - 1 /\ \A i \in 1..(k - 1) : got[t][i] = reg[a.addr + i - 1]
        BY <2>2, <3>1, <3>5 DEF Agrees
      <4>5. reg[a.addr + k - 1] \in Nat
        BY <1>1, <3>3
      <4>6. got'[t] = Append(got[t], reg[a.addr + k - 1])
        BY <1>1, <4>3
      <4>7. Len(got'[t]) = k
        BY <1>1, <4>4, <4>5, <4>6
      <4>8. ASSUME NEW i \in 1..k PROVE got'[t][i] = reg[a.addr + i - 1]
        <5>1. CASE i = k
          BY <1>1, <4>4, <4>5, <4>6, <5>1
        <5>2. CASE i # k
          <6>1. i \in 1..(k - 1)
            BY <1>1, <5>2
          <6>2. got'[t][i] = got[t][i]
            BY <1>1, <4>4, <4>5, <4>6, <6>1
          <6> QED BY <4>4, <6>1, <6>2
        <5> QED BY <5>1, <5>2
      <4> QED BY <1>1, <2>4, <3>5, <4>3, <4>7, <4>8 DEF Agrees
    <3> QED BY <1>1, <3>4, <3>5 DEF Accesses, Ops
  <2> QED BY <2>5, <2>6
<1>7. a.op # "read" => pc[t] # "reading"
  BY <1>5
<1>8. pc[t] # "reading" => got' = got
  <2>1. pc[t] # "reading" => sm.tx # <<>>
    BY <1>1, TransferFields DEF Calls, AtCall, Clock, One, TypeOK, Transfers
  <2> QED BY <2>1 DEF Clock
<1>9. Reached(t)'
  BY <1>1, <1>2, <1>5, <1>6, <1>8 DEF Reached, Framing
<1> QED BY <1>2, <1>3, <1>9, StoredOf

\* A step that moves no byte and leaves what has been read.
LEMMA StoredKept ==
  ASSUME One, Stored, NEW t \in Tasks, Holds(t), pc[t] # "select",
         NEW to \in Framing \cup {"unlock"}, pc' = [pc EXCEPT ![t] = to],
         UNCHANGED <<acc, got, frame, reg, whole>>,
         to \in {"header_out", "sending"} => acc[t].op = "write",
         to = "reading" => acc[t].op = "read" /\ sm'.tx = <<Header(acc[t])>>,
         pc[t] = "reading" => to = "deselect",
         pc[t] = "deselect" => to = "unlock", pc[t] # "unlock"
  PROVE  Stored'
<1>1. pc'[t] = to /\ pc \in [Tasks -> Locations]
  BY DEF One, TypeOK
<1>2. Reached(t) /\ pc[t] \in Framing
  BY DEF Stored, Holds
<1>3. whole => Agrees(t)'
  <2>1. whole => Agrees(t)
    BY <1>2 DEF Reached
  <2>2. Agrees(t)' = Agrees(t)
    BY DEF Agrees, Taken
  <2> QED BY <2>1, <2>2
<1>4. Reached(t)'
  BY <1>1, <1>2, <1>3 DEF Reached, Framing, Fits
<1> QED BY <1>4, StoredOf

\* The other steps of an access.
LEMMA StoredStep ==
  ASSUME One, Calls, InOrder, Stored, NEW t \in Tasks, Step(t)
  PROVE  Stored'
<1> DEFINE a == acc[t]
<1>1. /\ AtCall(t) /\ Reached(t) /\ a \in Accesses
      /\ \A to : pc' = [pc EXCEPT ![t] = to] => pc'[t] = to
  BY DEF One, TypeOK, Calls, Stored
<1> USE DEF wire, rest
<1>2. ASSUME FrameStart(t) PROVE Stored'
  <2>1. /\ pc[t] = "select" /\ pc'[t] = "header" /\ frame' = <<>>
        /\ UNCHANGED <<acc, got, reg>> /\ got[t] = <<>>
    BY <1>1, <1>2 DEF FrameStart, Reached
  <2>2. Taken' = 0 /\ Len(got[t]) = 0 /\ \A i : i \notin 1..0
    BY <2>1 DEF Taken
  <2>3. Agrees(t)'
    BY <2>1, <2>2 DEF Agrees
  <2>4. Reached(t)'
    BY <1>1, <2>1, <2>3 DEF Reached, Fits
  <2> QED BY <1>2, <2>4, StoredOf DEF FrameStart, Holds
<1>3. ASSUME WriteHeader(t) PROVE Stored'
  <2>1. pc[t] = "header" /\ header = <<>> /\ UNCHANGED <<acc, got, frame, reg, whole>>
    BY <1>1, <1>3 DEF WriteHeader, AtCall, Settled
  <2>2. CASE pc' = [pc EXCEPT ![t] = "data"]
    BY <2>1, <2>2, StoredKept DEF Holds, Framing
  <2>3. CASE pc' = [pc EXCEPT ![t] = "sending"] /\ a.op = "write"
    BY <2>1, <2>3, StoredKept DEF Holds, Framing
  <2> QED BY <1>3, <2>1, <2>2, <2>3 DEF WriteHeader, WriteBuffer
<1>4. ASSUME WriteData(t) PROVE Stored'
  <2>1. /\ pc[t] = "data" /\ a.op = "write" /\ header = <<Header(a)>>
        /\ UNCHANGED <<acc, got, frame, reg, whole>>
    BY <1>1, <1>4 DEF WriteData, AtCall
  <2>2. header # <<>>
    BY <2>1
  <2>3. pc' = [pc EXCEPT ![t] = "header_out"]
    BY <1>4, <2>2 DEF WriteData, WriteBuffer
  <2> QED BY <2>1, <2>3, StoredKept DEF Holds, Framing
<1>5. ASSUME HeaderOut(t) PROVE Stored'
  <2>1. /\ pc[t] = "header_out" /\ pc' = [pc EXCEPT ![t] = "sending"]
        /\ UNCHANGED <<acc, got, frame, reg, whole>> /\ a.op = "write"
    BY <1>1, <1>5 DEF HeaderOut, Reached
  <2> QED BY <2>1, StoredKept DEF Holds, Framing
<1>6. ASSUME Sent(t) PROVE Stored'
  <2>1. /\ pc[t] = "sending" /\ pc' = [pc EXCEPT ![t] = "deselect"]
        /\ UNCHANGED <<acc, got, frame, reg, whole>>
    BY <1>6 DEF Sent
  <2> QED BY <2>1, StoredKept DEF Holds, Framing
<1>7. ASSUME Read(t) PROVE Stored'
  <2>1. /\ pc[t] = "data" /\ pc' = [pc EXCEPT ![t] = "reading"] /\ a.op = "read"
        /\ sm'.tx = <<Header(a)>> /\ UNCHANGED <<acc, got, frame, reg, whole>>
    BY <1>1, <1>7 DEF Read, Transfer, AtCall
  <2> QED BY <2>1, StoredKept DEF Holds, Framing
<1>8. ASSUME ReadDone(t) PROVE Stored'
  <2>1. /\ pc[t] = "reading" /\ pc' = [pc EXCEPT ![t] = "deselect"]
        /\ UNCHANGED <<acc, got, frame, reg, whole>>
    BY <1>8 DEF ReadDone
  <2> QED BY <2>1, StoredKept DEF Holds, Framing
<1>9. ASSUME FrameEnd(t) PROVE Stored'
  <2>1. /\ pc[t] = "deselect" /\ pc' = [pc EXCEPT ![t] = "unlock"]
        /\ UNCHANGED <<acc, got, frame, reg, whole>>
    BY <1>9 DEF FrameEnd
  <2> QED BY <2>1, StoredKept DEF Holds, Framing
<1>10. ASSUME Unlock(t) PROVE Stored'
  <2>1. /\ pc[t] = "unlock" /\ acc'[t] = ReadVersion
        /\ pc'[t] = "check" \/ (pc'[t] = "idle" /\ got'[t] = <<>>)
        /\ \A u \in Tasks \ {t} : acc'[u] = acc[u] /\ got'[u] = got[u]
    BY <1>10 DEF Unlock, One, TypeOK
  <2>2. Reached(t)'
    BY <2>1, AllFit DEF Reached, Framing
  <2> QED BY <1>10, <2>1, <2>2, StoredOf DEF Unlock, Holds
<1>11. ASSUME Clock(t) PROVE Stored'
  BY <1>11, StoredClock
<1> QED BY <1>2, <1>3, <1>4, <1>5, <1>6, <1>7, <1>8, <1>9, <1>10, <1>11 DEF Step

-----------------------------------------------------------------------------
(* Theorems *)

\* What every step keeps: types, one access at a time, what each call finds.
Inv == One /\ Calls

LEMMA InvInit == Init => Inv /\ InOrder
<1> SUFFICES ASSUME Init PROVE Inv /\ InOrder
  OBVIOUS
<1>1. \A t \in Tasks : pc[t] \in {"open", "idle"}
  BY DEF Init
<1>2. TypeOK
  BY TypeInit
<1>3. Token /\ Exclusive
  BY <1>1 DEF Token, Exclusive, Holds, Framing
<1>4. Booting
  BY BusConstants DEF Init, Booting, Others
<1>5. Calls
  BY <1>1 DEF Init, Calls, AtCall, BusFree
<1>6. InOrder
  BY <1>1 DEF InOrder, Ordered, Framing
<1> QED BY <1>2, <1>3, <1>4, <1>5, <1>6 DEF Inv, One

LEMMA InvNext == Inv /\ [Next]_vars => Inv'
<1> SUFFICES ASSUME Inv, [Next]_vars PROVE Inv'
  OBVIOUS
<1>1. One /\ Calls /\ TypeOK /\ Token
  BY DEF Inv, One
<1>2. CASE Start \/ Recover \/ Bring \/ Halted
  <2>1. TypeOK' /\ Token' /\ Booting' /\ Exclusive'
    BY <1>1, <1>2, TypeBring, OneBring
  <2>2. Calls'
    BY <1>1, <1>2, BesideSteps, CallsBeside
  <2> QED BY <2>1, <2>2 DEF Inv, One
<1>3. CASE \E t \in Tasks : Ask(t) \/ Lock(t) \/ Step(t)
  <2>1. PICK t \in Tasks : Ask(t) \/ Lock(t) \/ Step(t)
    BY <1>3
  <2>2. TypeOK' /\ Token' /\ Booting' /\ Exclusive'
    BY <1>1, <2>1, TypeAccess, OneAccess
  <2>3. Calls'
    BY <1>1, <2>1, BesideSteps, CallsBeside, CallsStep
  <2> QED BY <2>2, <2>3 DEF Inv, One
<1>4. CASE UNCHANGED vars
  BY <1>1, <1>4 DEF Inv, One, TypeOK, Token, Booting, Exclusive, Holds, Calls, AtCall,
                   BusFree, Settled, vars
<1> QED BY <1>2, <1>3, <1>4 DEF Next

\* Every variable keeps its type, the semaphore its one token (w5x00_spi.c).
THEOREM TypeCorrect == Spec => []TypeOK
<1>1. Inv => TypeOK
  BY DEF Inv, One
<1> QED BY <1>1, InvInit, InvNext, PTL DEF Spec

\* At most one task is between lock and unlock, whatever resets the chip.
THEOREM OneAtATime == Spec => []Exclusive
<1>1. Inv => Exclusive
  BY DEF Inv, One
<1> QED BY <1>1, InvInit, InvNext, PTL DEF Spec

\* Between two accesses the driver holds no header, no transfer is under way
\* and the chip is not selected, even with a DMA that is late.
THEOREM FreeBetween == Spec => []BusFree
<1>1. Inv => BusFree
  BY DEF Inv, Calls
<1> QED BY <1>1, InvInit, InvNext, PTL DEF Spec

\* Every step keeps the order of the bytes.
LEMMA OrderNext ==
  ASSUME ~SlowDMA, Inv, InOrder, [Next]_vars
  PROVE  InOrder'
<1>1. One /\ Calls /\ TypeOK
  BY DEF Inv, One
<1>2. CASE Start \/ Recover \/ Bring \/ Halted
  BY <1>1, <1>2, BesideSteps, OrderBeside
<1>3. CASE \E t \in Tasks : Ask(t) \/ Lock(t) \/ Step(t)
  BY <1>1, <1>3, BesideSteps, OrderBeside, OrderStep
<1>4. CASE UNCHANGED vars
  BY <1>4 DEF InOrder, Ordered, Remaining, vars
<1> QED BY <1>2, <1>3, <1>4 DEF Next

\* When the DMA keeps up with the state machine, the chip takes the bytes of
\* one access in their order, and all of them if no recovery cuts the frame.
THEOREM FramesWhole ==
  ASSUME ~SlowDMA
  PROVE  Spec => []WholeFrame
<1>1. Inv /\ InOrder /\ [Next]_vars => InOrder'
  BY OrderNext
<1>2. Inv /\ InOrder => WholeFrame
  <2> SUFFICES ASSUME Inv, InOrder, NEW t \in Tasks
               PROVE  /\ pc[t] \in Framing => IsPrefix(frame, Frame(acc[t]))
                      /\ pc[t] = "unlock" /\ whole => frame = Frame(acc[t])
    BY DEF WholeFrame
  <2>1. Ordered(t) /\ frame \in Seq(Items)
    BY DEF InOrder, Inv, One, TypeOK
  <2>2. pc[t] = "unlock" => Remaining(t) = <<>>
    BY DEF Remaining
  <2>3. frame \o <<>> = frame
    BY <2>1, ConcatEmptySeq
  <2> QED BY <2>1, <2>2, <2>3 DEF Ordered
<1> QED BY <1>1, <1>2, InvInit, InvNext, PTL DEF Spec

\* When the DMA keeps up, an access that no recovery cuts is atomic: as the task
\* leaves the critical section the registers are as it wrote them, or it has read
\* what they hold.
THEOREM AccessesAtomic ==
  ASSUME ~SlowDMA
  PROVE  Spec => []AccessIsAtomic
<1>1. Init => Stored
  <2> SUFFICES ASSUME Init, NEW t \in Tasks PROVE Reached(t)
    BY DEF Stored
  <2>1. pc[t] \in {"open", "idle"} /\ acc[t] = ReadVersion /\ got[t] = <<>>
    BY DEF Init
  <2> QED BY <2>1, AllFit DEF Reached, Framing
<1>2. Inv /\ InOrder /\ [Next]_vars => InOrder'
  BY OrderNext
<1>3. Inv /\ InOrder /\ Stored /\ [Next]_vars => Stored'
  <2> SUFFICES ASSUME Inv, InOrder, Stored, [Next]_vars PROVE Stored'
    OBVIOUS
  <2>1. One /\ Calls /\ TypeOK
    BY DEF Inv, One
  <2>2. CASE Start \/ Recover \/ Bring \/ Halted
    BY <2>1, <2>2, BesideSteps, StoredBeside
  <2>3. CASE \E t \in Tasks : Ask(t) \/ Lock(t) \/ Step(t)
    BY <2>1, <2>3, BesideSteps, StoredBeside, StoredStep
  <2>4. CASE UNCHANGED vars
    BY <2>4 DEF Stored, Reached, Agrees, Taken, vars
  <2> QED BY <2>2, <2>3, <2>4 DEF Next
<1>4. Inv /\ InOrder /\ Stored => AccessIsAtomic
  <2> SUFFICES ASSUME Inv, InOrder, Stored, NEW t \in Tasks, pc[t] = "unlock", whole
               PROVE  [i \in 1..Len(acc[t].data) |-> reg[acc[t].addr + i - 1]]
                        = IF acc[t].op = "write" THEN acc[t].data ELSE got[t]
    BY DEF AccessIsAtomic
  <2> DEFINE a == acc[t]
             window == [i \in 1..Len(a.data) |-> reg[a.addr + i - 1]]
  <2>1. /\ Ordered(t) /\ Agrees(t) /\ frame \in Seq(Items)
        /\ a \in Accesses /\ a.data \in Seq(Nat) /\ got[t] \in Seq(Nat) /\ a.op \in Ops
    BY DEF InOrder, Inv, One, TypeOK, Stored, Reached, Accesses
  <2>2. frame = Frame(a)
    <3>1. Remaining(t) = <<>> /\ frame \o <<>> = frame
      BY <2>1, ConcatEmptySeq DEF Remaining
    <3> QED BY <2>1, <3>1 DEF Ordered
  <2>3. Taken = Len(a.data) /\ Len(a.data) \in Nat
    <3>1. Len(a.data) \in Nat /\ Len(frame) = 1 + Len(a.data)
      BY <2>1, <2>2, FrameBytes
    <3>2. frame # <<>>
      BY <3>1
    <3> QED BY <3>1, <3>2 DEF Taken
  <2>4. CASE a.op = "write"
    <3>1. \A i \in 1..Len(a.data) : reg[a.addr + i - 1] = a.data[i]
      BY <2>1, <2>3, <2>4 DEF Agrees
    <3>2. a.data = [i \in 1..Len(a.data) |-> a.data[i]]
      BY <2>1
    <3> QED BY <2>4, <3>1, <3>2
  <2>5. CASE a.op = "read"
    <3>1. /\ Len(got[t]) = Len(a.data)
          /\ \A i \in 1..Len(a.data) : reg[a.addr + i - 1] = got[t][i]
      BY <2>1, <2>3, <2>5 DEF Agrees
    <3>2. got[t] = [i \in 1..Len(got[t]) |-> got[t][i]]
      BY <2>1
    <3> QED BY <2>5, <3>1, <3>2
  <2> QED BY <2>1, <2>4, <2>5 DEF Ops
<1> QED BY <1>1, <1>2, <1>3, <1>4, InvInit, InvNext, PTL DEF Spec

-----------------------------------------------------------------------------
(* SpiSlave: what the invariant says.                                      *)

\* One core has the interrupt, and nothing disturbs an exchange: no parameter is
\* refused, the connection stays, packets wait until the last one has been taken,
\* the slave keeps up with the line and the timer runs out when nobody is at work.
OneCore     == Cores # {} /\ \A c, d \in Cores : c = d
Undisturbed == OneCore /\ load.may \subseteq {"stream"}

SpiStates == {"command", "length", "dummy", "atcmd", "read", "write", "nack"}
Bytes     == Seq(Byte)
Statics   == [state : SpiStates, command : Byte, data_length : Nat, dummy_count : 0 .. 2,
              length_bytes : [1 .. 2 -> Byte], length_index : 0 .. 2,
              atcmd_bytes : [1 .. 4 -> Byte], atcmd_index : 0 .. 3]
Waits     == {"out", "len", "size", "last", "length", "data", "ack", "fill", "low", ""}

MasterTypes ==
  /\ op \in {"idle", "read", "write", "set", "get"} /\ at \in Waits /\ (op = "idle" => at = "")
  /\ out \in Bytes /\ inbuf \in Bytes /\ half \in 1 .. 2 /\ want \in Nat /\ rounds \in Nat
LineTypes ==
  /\ rx \in Bytes /\ tx \in Bytes /\ Len(rx) <= Depth
  /\ irq \subseteq Cores /\ handling \subseteq Cores /\ s \in Statics
SemTypes ==
  /\ seg_spi_pending_sem \in 0 .. Tokens /\ seg_u2e_sem \in 0 .. Tokens
  /\ segcp_uart_sem \in 0 .. Tokens
SizeTypes ==
  /\ e2u_size \in 0 .. DATA_BUF_SIZE /\ u2e_size \in 0 .. DATA_BUF_SIZE /\ ulen \in Nat
Room        == Len(data_buffer) >= DATA_BUF_SIZE + 4
BufferTypes ==
  g_send_buf \in Bytes /\ gSEGCPREQ \in Bytes /\ done \in Bytes /\ data_buffer \in Bytes /\ Room
NetTypes ==
  /\ sent \in 0 .. Packets /\ g_recv_buf \in Bytes /\ net \in Seq(Bytes)
  /\ recv \in {"wait", "copy"} /\ trig \in BOOLEAN /\ int \in BOOLEAN
  /\ timer \in BOOLEAN /\ resetting \in BOOLEAN
Types == load \in Loads /\ conn /\ MasterTypes /\ LineTypes /\ SemTypes /\ SizeTypes /\ BufferTypes /\ NetTypes

\* Where the tasks of the slave are, and what is given to them.
Places(t, u, g)    == task = t /\ u2e = u /\ segcp = g
Given(n1, n2, n3) == seg_spi_pending_sem = n1 /\ seg_u2e_sem = n2 /\ segcp_uart_sem = n3
Waiting == Places("wait", "wait", "wait")
Off   == irq = {} /\ handling = {}
On    == irq = Cores /\ handling = {}
Clear == s.dummy_count = 0 /\ s.atcmd_index = 0
Fresh == Clear /\ s.state = "command"

\* The header of the exchange, the state it ends in and what the master waits for
\* then.
Request ==
  CASE op = "read"  -> ReadRequest
    [] op = "write" -> WriteRequest(Len(inbuf))
    [] op = "set"   -> Name \o Size(Len(Param))
    [] OTHER        -> GetCommand
FinalState == CASE op = "read" -> "write" [] op = "write" -> "read" [] OTHER -> "atcmd"
FirstWait  == CASE op = "read" -> "len" [] op = "get" -> "low" [] OTHER -> "ack"

\* The statics after h bytes of the header.
AfterBytes(v, h) ==
  IF h = 0 THEN v.state = "command" /\ v.dummy_count = 0 /\ v.atcmd_index = 0
  ELSE CASE op = "read" -> /\ v.state = "dummy" /\ v.command = SPI_MASTER_READ_LEN_CMD
                           /\ v.dummy_count = h - 1 /\ v.atcmd_index = 0
         [] op = "write" -> /\ v.state = (IF h = 3 THEN "dummy" ELSE "length")
                            /\ v.command = SPI_MASTER_WRITE_CMD
                            /\ v.dummy_count = 0 /\ v.atcmd_index = 0
                            /\ h < 3 => v.length_index = h - 1
                            /\ h = 2 => v.length_bytes[1] = Len(inbuf)
                            /\ h = 3 => v.data_length = Len(inbuf)
         [] OTHER -> /\ v.state = "atcmd" /\ v.atcmd_index = h /\ v.dummy_count = 0
                     /\ \A i \in 1 .. h : v.atcmd_bytes[i] = Request[i]

\* The statics at its end.
Known ==
  /\ op = "write" => s.data_length = Len(inbuf)
  /\ op \in {"set", "get"} => \A i \in 1 .. 4 : s.atcmd_bytes[i] = Request[i]

\* A sequence that goes on after h bytes of the header, and one that is the end of
\* another.
Follows(q, h) ==
  \A i \in 1 .. Len(q) : q[i] = IF h + i <= 4 THEN Request[h + i] ELSE SPI_DUMMY
EndOf(b, q) == Len(q) <= Len(b) /\ \A i \in 1 .. Len(q) : q[i] = b[Len(b) - Len(q) + i]
AllOf(x, q) == \A i \in 1 .. Len(q) : q[i] = x

\* The master has sent part h, and may not have noticed it.
Awaits(x, h) ==
  /\ half = h
  /\ \/ at = x
     \/ at = "out" /\ out = <<>>

\* The header is on its way: to the FIFO, through the handler, to the task.
Asks ==
  /\ op # "idle" /\ half = 1 /\ tx = <<>> /\ Waiting
  /\ op # "write" => inbuf = <<>>
  /\ \/ at = "out" /\ EndOf(Request, out)
     \/ at = FirstWait /\ out = <<>>
Listening ==
  /\ Asks /\ Given(0, 0, 0) /\ On /\ Fresh /\ Follows(rx, 0)
  /\ IF at = "out" THEN Len(rx) + Len(out) = 4 ELSE Len(rx) >= 4
Collects(h) == AfterBytes(s, h) /\ Len(rx) >= 4 - h /\ Follows(rx, h)
Collecting ==
  /\ Asks /\ Given(0, 0, 0) /\ irq = Cores /\ handling = Cores /\ out = <<>>
  /\ \E h \in 0 .. 3 : Collects(h)
Collected ==
  /\ Asks /\ Given(1, 0, 0) /\ Off /\ out = <<>>
  /\ Clear /\ s.state = FinalState /\ Known

\* The answer with data is on its way: n times v behind a header.
FrameByte(v, n, j) ==
  CASE j = 1 -> SPI_SLAVE_WRITE_LEN_CMD [] j = 2 -> n [] j = 3 -> 0 [] j = 4 -> SPI_DUMMY
    [] OTHER -> v
Portion(v, n, from, q) == \A i \in 1 .. Len(q) : q[i] = FrameByte(v, n, from + i)
Sized(n) == Len(inbuf) = 2 /\ inbuf[1] = n /\ inbuf[2] = 0
InFrame(v, n) ==
  /\ Len(tx) <= n + 4 /\ Portion(v, n, n + 4 - Len(tx), tx)
  /\ \/ (Awaits(FirstWait, 1) \/ at = "len") /\ Len(tx) = n + 4 /\ inbuf = <<>>
     \/ /\ at = "size" /\ Len(inbuf) <= 1 /\ Len(tx) = n + 3 - Len(inbuf)
        /\ Len(inbuf) = 1 => inbuf[1] = n
     \/ at = "last" /\ Len(tx) = n + 1 /\ Sized(n)
     \/ at = "length" /\ Len(tx) = n /\ Sized(n)
     \/ at = "data" /\ want = Len(tx) /\ Len(inbuf) + want = n /\ AllOf(v, inbuf)
Copied(v, n) == Len(inbuf) = n /\ AllOf(v, inbuf)
Framed ==
  /\ Given(0, 0, 0) /\ Off /\ Clear /\ ~int
  /\ \/ op = "read" /\ Places("data", "wait", "wait") /\ InFrame(sent, e2u_size)
     \/ op = "get" /\ Places("wait", "wait", "reply") /\ InFrame(2, 1) /\ s.state = "command"
DataSent ==
  /\ op = "read" /\ at = "data" /\ want = 0 /\ Copied(sent, e2u_size) /\ ~int
  /\ Places("written", "wait", "wait") /\ Given(0, 0, 0) /\ Off /\ Clear
  /\ rx = <<>> /\ tx = <<>>

\* Nothing is on its way; the master has still to notice it.
Resting ==
  /\ Waiting /\ Given(0, 0, 0) /\ On /\ Fresh /\ rx = <<>> /\ tx = <<>>
  /\ \/ op = "idle"
     \/ op \in {"read", "get"} /\ at = "data" /\ want = 0
     \/ op \in {"write", "set"} /\ at = "fill" /\ want = 0 /\ half = 2 /\ acked

\* The acknowledgement of part h is on its way.
Acks(h) ==
  \/ Awaits("ack", h) /\ tx = Answer(SPI_ACK)
  \/ at = "fill" /\ half = h /\ acked /\ Len(tx) = want /\ AllOf(SPI_DUMMY, tx)
Body   == IF op = "write" THEN inbuf ELSE Param
Answers ==
  /\ Given(0, 0, 0) /\ Off /\ Clear /\ Known
  /\ \/ op = "write" /\ Places("ack", "wait", "wait") /\ g_send_buf = <<>>
     \/ op = "set" /\ Places("atack", "wait", "wait") /\ gSEGCPREQ = Name
  /\ \/ Acks(1)
     \/ at = "out" /\ half = 2 /\ out = Body /\ tx = <<>>

\* The body is on its way: b is the body, what the slave has got of it is the
\* beginning, the FIFO goes on and the master has the end.
Carried(b, bs) ==
  /\ Len(bs) <= Len(b) /\ \A i \in 1 .. Len(bs) : bs[i] = b[i]
  /\ \A i \in 1 .. Len(rx) : Len(bs) + i <= Len(b) => rx[i] = b[Len(bs) + i]
  /\ \/ /\ at = "fill" /\ want = 0 /\ half = 1 /\ acked
        /\ Len(rx) = 0 /\ (op = "write" => Len(bs) = 0) /\ (op = "set" => Len(bs) = 2)
     \/ at = "out" /\ half = 2 /\ EndOf(b, out) /\ Len(bs) + Len(rx) + Len(out) = Len(b)
     \/ at = "ack" /\ half = 2 /\ Len(bs) + Len(rx) >= Len(b)
Reading ==
  /\ Given(0, 0, 0) /\ Off /\ Clear /\ Known /\ tx = <<>>
  /\ \/ op = "write" /\ Places("bytes", "wait", "wait") /\ Carried(inbuf, g_send_buf)
     \/ op = "set" /\ Places("atbytes", "wait", "wait") /\ Carried(SetCommand, gSEGCPREQ)

\* It is with the task that carries it out.
Carrying ==
  /\ Off /\ Clear /\ tx = <<>>
  /\ \/ /\ op = "write" /\ Awaits("ack", 2) /\ g_send_buf = inbuf /\ u2e_size = Len(inbuf)
        /\ s.state = "command"
        /\ \/ Waiting /\ Given(0, 1, 0)
           \/ Places("wait", "send", "wait") /\ Given(0, 0, 0) /\ ulen = Len(inbuf)
     \/ /\ op = "set" /\ Awaits("ack", 2) /\ gSEGCPREQ = SetCommand
        /\ Waiting /\ Given(0, 0, 1) /\ s.state = "command"
     \/ /\ op = "get" /\ Awaits("low", 1) /\ gSEGCPREQ = GetCommand /\ inbuf = <<>>
        /\ \/ Places("atdone", "wait", "wait") /\ Given(0, 0, 0)
           \/ Waiting /\ Given(0, 0, 1) /\ s.state = "command"

\* It has been, and the master may have gone on already.
Answered ==
  /\ Off /\ Fresh /\ Given(0, 0, 0)
  /\ Places("wait", "ack", "wait") \/ Places("wait", "wait", "ack")
  /\ \/ op = "write" /\ u2e = "ack" /\ Acks(2)
     \/ op = "set" /\ segcp = "ack" /\ Acks(2)
     \/ op = "idle" /\ tx = <<>>
     \/ op \in {"read", "set", "get"} /\ at = "out" /\ half = 1 /\ out = Request /\ tx = <<>>
        /\ inbuf = <<>>

Asking  == Listening \/ Collecting \/ Collected
Serving == Framed \/ DataSent \/ Answers \/ Reading \/ Carrying \/ Answered
Stages  == Asking \/ Serving \/ Resting

\* The packets: those that were given to the socket, the one that waits, the one
\* the master has.
Below(k) == \A i \in 1 .. Len(net) : net[i][1] < k
Came == recv = "copy" =>
  /\ sent >= 1 /\ Below(sent)
  /\ e2u_size \in 1 .. DATA_BUF_SIZE /\ g_recv_buf = Packet(sent, e2u_size)
Ready ==
  /\ recv = "wait" /\ sent >= 1 /\ Below(sent) /\ e2u_size \in 1 .. DATA_BUF_SIZE /\ ~int
  /\ \A j \in 1 .. e2u_size + 4 : data_buffer[j] = FrameByte(sent, e2u_size, j)
InHand == \E k \in 1 .. sent, n \in 1 .. DATA_BUF_SIZE :
            Copied(k, n) /\ Below(k) /\ (recv = "copy" => k < sent)
Handed == net # <<>> /\ net[Len(net)] = inbuf
Told  == u2e = "ack" \/ (half = 2 /\ at = "fill")

Echoes ==
  /\ op \in {"idle", "read", "write"} /\ Came
  /\ op = "idle" /\ trig => Ready
  /\ op = "read" => IF task = "written" \/ (task = "wait" /\ at = "data") THEN InHand ELSE Ready
  /\ task = "written" => recv = "wait" /\ e2u_size \in 1 .. DATA_BUF_SIZE
  /\ op = "write" => IF Told THEN Handed ELSE InHand
  /\ resetting => Resting /\ (op = "idle" \/ at = "data")

\* The commands: the one that was carried out is the one the master has asked for.
Commands ==
  /\ op \in {"idle", "set", "get"}
  /\ net = <<>> /\ recv = "wait" /\ ~timer /\ ~resetting /\ ~trig /\ u2e_size = 0
  /\ int = (segcp # "reply")
  /\ op = "set" /\ half = 2 /\ (segcp = "ack" \/ at = "fill") => done = SetCommand
  /\ op = "get" /\ (segcp = "reply" \/ at = "data") => done = GetCommand
  /\ op = "get" /\ at = "data" /\ segcp = "wait" => Copied(2, 1)

SpiInv == Types /\ Stages /\ EchoesWhole /\ (IF load.program = "echo" THEN Echoes ELSE Commands)

-----------------------------------------------------------------------------
(* SpiSlave: bytes.                                                         *)

\* The assumption on the constants.
LEMMA SpiConstantsAre ==
  /\ DATA_BUF_SIZE \in 1 .. 9 /\ Tokens \in Nat /\ Tokens >= 1
  /\ Packets \in 0 .. 255 /\ Rounds \in Nat /\ Loads \subseteq Load
  BY SpiConstants

\* With one core an interrupt is enabled or not.
LEMMA TheCore ==
  ASSUME OneCore
  PROVE  /\ \A D \in SUBSET Cores : D = {} \/ D = Cores
         /\ \A c \in Cores : Cores = {c}
         /\ Cores # {}
  BY DEF OneCore

\* What is left of a FIFO when its first byte has been taken.
LEMMA OneLess ==
  ASSUME NEW q \in Bytes, q # <<>>
  PROVE  /\ Len(q) \in Nat /\ Len(q) >= 1 /\ Head(q) \in Byte /\ Head(q) = q[1]
         /\ Tail(q) \in Bytes /\ Len(Tail(q)) = Len(q) - 1
         /\ \A i \in 1 .. Len(q) - 1 : Tail(q)[i] = q[i + 1]
<1>1. Len(q) \in Nat /\ Len(q) # 0
  BY EmptySeq, LenProperties DEF Bytes
<1>2. Head(q) \in Byte /\ Tail(q) \in Bytes
  BY HeadTailProperties DEF Bytes
<1>3. \A i \in 1 .. Len(q) - 1 : Tail(q)[i] = q[i + 1]
  BY <1>1 DEF Bytes
<1>4. Len(Tail(q)) = Len(q) - 1
  BY HeadTailProperties DEF Bytes
<1>5. Head(q) = q[1]
  BY DEF Head
<1> QED BY <1>1, <1>2, <1>3, <1>4, <1>5

\* A FIFO with one byte more.
LEMMA OneMore ==
  ASSUME NEW q \in Bytes, NEW b \in Byte
  PROVE  /\ Append(q, b) \in Bytes /\ Len(Append(q, b)) = Len(q) + 1 /\ Len(q) \in Nat
         /\ Append(q, b)[Len(q) + 1] = b
         /\ \A i \in 1 .. Len(q) : Append(q, b)[i] = q[i]
  BY AppendProperties, LenProperties DEF Bytes

\* Two byte sequences are the same when their bytes are.
LEMMA SameBytes ==
  ASSUME NEW q \in Bytes, NEW r \in Bytes, Len(q) = Len(r), \A i \in 1 .. Len(q) : q[i] = r[i]
  PROVE  q = r
  BY SeqEqual DEF Bytes

\* An empty one has no byte.
LEMMA NoBytes ==
  ASSUME NEW q \in Bytes
  PROVE  (q = <<>> <=> Len(q) = 0) /\ Len(q) \in Nat
  BY EmptySeq, LenProperties DEF Bytes

\* Short sequences of bytes, and what two of them make together.
LEMMA FewBytes ==
  ASSUME NEW a \in Byte, NEW b \in Byte
  PROVE  <<a>> \in Bytes /\ <<a, b>> \in Bytes /\ Len(<<a>>) = 1 /\ Len(<<a, b>>) = 2
  BY DEF Bytes

\* Three of them.
LEMMA ThreeBytes ==
  ASSUME NEW a \in Byte, NEW b \in Byte, NEW c \in Byte
  PROVE  <<a, b, c>> \in Bytes /\ Len(<<a, b, c>>) = 3
  BY DEF Bytes

\* Four of them.
LEMMA FourBytes ==
  ASSUME NEW a \in Byte, NEW b \in Byte, NEW c \in Byte, NEW d \in Byte
  PROVE  <<a, b, c, d>> \in Bytes /\ Len(<<a, b, c, d>>) = 4
  BY DEF Bytes

\* Five of them.
LEMMA FiveBytes ==
  ASSUME NEW a \in Byte, NEW b \in Byte, NEW c \in Byte, NEW d \in Byte, NEW e \in Byte
  PROVE  <<a, b, c, d, e>> \in Bytes /\ Len(<<a, b, c, d, e>>) = 5
  BY DEF Bytes

\* What has the bytes of two sequences, one behind the other, is what they make together.
LEMMA Joined ==
  ASSUME NEW q \in Bytes, NEW r \in Bytes, NEW u \in Bytes, Len(u) = Len(q) + Len(r),
         \A i \in 1 .. Len(u) : (q \o r)[i] = u[i]
  PROVE  q \o r = u
<1>1. q \o r \in Bytes /\ Len(q \o r) = Len(q) + Len(r)
  BY ConcatProperties DEF Bytes
<1> QED BY <1>1, SameBytes

\* The ways in which the headers and the commands are put together.
LEMMA OneAndThree ==
  ASSUME NEW a \in Byte, NEW b \in Byte, NEW c \in Byte, NEW d \in Byte
  PROVE  <<a>> \o <<b, c, d>> = <<a, b, c, d>>
<1> DEFINE q == <<a>>  r == <<b, c, d>>  u == <<a, b, c, d>>
<1>1. \A i \in 1 .. 4 : (q \o r)[i] = u[i]
  OBVIOUS
<1>2. q \in Bytes /\ r \in Bytes /\ u \in Bytes /\ Len(q) = 1 /\ Len(r) = 3 /\ Len(u) = 4
  BY FewBytes, ThreeBytes, FourBytes
<1>3. Len(u) = Len(q) + Len(r) /\ \A i \in 1 .. Len(u) : (q \o r)[i] = u[i]
  BY <1>1, <1>2
<1> HIDE DEF q, r, u
<1>4. q \o r = u
  BY <1>2, <1>3, Joined
<1> QED BY <1>4 DEF q, r, u

\* A name and the end of a line.
LEMMA TwoAndTwo ==
  ASSUME NEW a \in Byte, NEW b \in Byte, NEW c \in Byte, NEW d \in Byte
  PROVE  <<a, b>> \o <<c, d>> = <<a, b, c, d>>
<1> DEFINE q == <<a, b>>  r == <<c, d>>  u == <<a, b, c, d>>
<1>1. \A i \in 1 .. 4 : (q \o r)[i] = u[i]
  OBVIOUS
<1>2. q \in Bytes /\ r \in Bytes /\ u \in Bytes /\ Len(q) = 2 /\ Len(r) = 2 /\ Len(u) = 4
  BY FewBytes, FourBytes
<1>3. Len(u) = Len(q) + Len(r) /\ \A i \in 1 .. Len(u) : (q \o r)[i] = u[i]
  BY <1>1, <1>2
<1> HIDE DEF q, r, u
<1>4. q \o r = u
  BY <1>2, <1>3, Joined
<1> QED BY <1>4 DEF q, r, u

\* A name and a parameter.
LEMMA TwoAndThree ==
  ASSUME NEW a \in Byte, NEW b \in Byte, NEW c \in Byte, NEW d \in Byte, NEW e \in Byte
  PROVE  <<a, b>> \o <<c, d, e>> = <<a, b, c, d, e>>
<1> DEFINE q == <<a, b>>  r == <<c, d, e>>  u == <<a, b, c, d, e>>
<1>1. \A i \in 1 .. 5 : (q \o r)[i] = u[i]
  OBVIOUS
<1>2. q \in Bytes /\ r \in Bytes /\ u \in Bytes /\ Len(q) = 2 /\ Len(r) = 3 /\ Len(u) = 5
  BY FewBytes, ThreeBytes, FiveBytes
<1>3. Len(u) = Len(q) + Len(r) /\ \A i \in 1 .. Len(u) : (q \o r)[i] = u[i]
  BY <1>1, <1>2
<1> HIDE DEF q, r, u
<1>4. q \o r = u
  BY <1>2, <1>3, Joined
<1> QED BY <1>4 DEF q, r, u

\* A header with a size in it.
LEMMA OneTwoOne ==
  ASSUME NEW a \in Byte, NEW b \in Byte, NEW c \in Byte, NEW d \in Byte
  PROVE  <<a>> \o <<b, c>> \o <<d>> = <<a, b, c, d>>
<1> DEFINE q == <<a>> \o <<b, c>>  r == <<d>>  u == <<a, b, c, d>>
<1>1. \A i \in 1 .. 4 : (q \o r)[i] = u[i]
  OBVIOUS
<1>2. r \in Bytes /\ u \in Bytes /\ Len(r) = 1 /\ Len(u) = 4
  BY FewBytes, FourBytes
<1>3. <<a>> \in Bytes /\ <<b, c>> \in Bytes /\ Len(<<a>>) = 1 /\ Len(<<b, c>>) = 2
  BY FewBytes
<1>4. q \in Bytes /\ Len(q) = 3
  BY <1>3, ConcatProperties DEF Bytes
<1>5. Len(u) = Len(q) + Len(r) /\ \A i \in 1 .. Len(u) : (q \o r)[i] = u[i]
  BY <1>1, <1>2, <1>4
<1> HIDE DEF q, r, u
<1>6. q \o r = u
  BY <1>2, <1>4, <1>5, Joined
<1> QED BY <1>6 DEF q, r, u

\* The sizes of packets have one byte; what fills an answer up.
LEMMA SmallSize ==
  ASSUME NEW n \in 0 .. 9
  PROVE  n \in Byte /\ Size(n) = <<n, 0>>
<1>1. n % 256 = n /\ n \div 256 = 0 /\ n \in Byte
  BY DEF Byte
<1> QED BY <1>1 DEF Size

\* The filling behind an answer of one byte.
LEMMA Filling == Times(SPI_DUMMY, 3) = <<255, 255, 255>> /\ {0, 255} \subseteq Byte
  BY DEF Times, SPI_DUMMY, Byte

\* The acknowledgement, and the header of an answer with data.
LEMMA AnswerIs ==
  /\ Answer(SPI_ACK) = <<10, 255, 255, 255>>
  /\ Answer(SPI_ACK) \in Bytes /\ Len(Answer(SPI_ACK)) = 4
<1>1. 10 \in Byte /\ 255 \in Byte
  BY DEF Byte
<1>2. Answer(SPI_ACK) = <<10>> \o <<255, 255, 255>>
  BY Filling DEF Answer, SPI_ACK
<1>3. <<10>> \o <<255, 255, 255>> = <<10, 255, 255, 255>>
  BY <1>1, OneAndThree
<1>4. <<10, 255, 255, 255>> \in Bytes /\ Len(<<10, 255, 255, 255>>) = 4
  BY <1>1, FourBytes
<1>5. Answer(SPI_ACK) = <<10, 255, 255, 255>>
  BY <1>2, <1>3
<1> QED BY <1>4, <1>5

\* The header of an answer with data.
LEMMA DataHeaderIs ==
  ASSUME NEW n \in 0 .. 9
  PROVE  /\ DataHeader(n) = <<177, n, 0, 255>>
         /\ DataHeader(n) \in Bytes /\ Len(DataHeader(n)) = 4
<1>1. 177 \in Byte /\ 255 \in Byte /\ 0 \in Byte /\ n \in Byte
  BY DEF Byte
<1>2. <<177>> \o <<n, 0>> \o <<255>> = <<177, n, 0, 255>>
  BY <1>1, OneTwoOne
<1>3. Size(n) = <<n, 0>>
  BY SmallSize
<1>4. DataHeader(n) = <<177, n, 0, 255>>
  BY <1>2, <1>3 DEF DataHeader, SPI_SLAVE_WRITE_LEN_CMD, SPI_DUMMY
<1>5. <<177, n, 0, 255>> \in Bytes /\ Len(<<177, n, 0, 255>>) = 4
  BY <1>1, FourBytes
<1> QED BY <1>4, <1>5

\* The two commands of the AT test.
LEMMA CommandsAre ==
  /\ SetCommand = <<76, 73, 1, 13, 10>> /\ SetCommand \in Bytes
  /\ GetCommand = <<76, 73, 13, 10>> /\ GetCommand \in Bytes
  /\ Param = <<1, 13, 10>> /\ Param \in Bytes /\ Name = <<76, 73>> /\ Name \in Bytes
<1>1. 76 \in Byte /\ 73 \in Byte /\ 1 \in Byte /\ 13 \in Byte /\ 10 \in Byte
  BY DEF Byte
<1>2. SetCommand = <<76, 73, 1, 13, 10>> /\ SetCommand \in Bytes
  <2>1. <<76, 73>> \o <<1, 13, 10>> = <<76, 73, 1, 13, 10>>
    BY <1>1, TwoAndThree
  <2>2. <<76, 73, 1, 13, 10>> \in Bytes
    BY <1>1, FiveBytes
  <2>3. SetCommand = <<76, 73>> \o <<1, 13, 10>>
    BY DEF SetCommand, Name, Param
  <2> QED BY <2>1, <2>2, <2>3
<1>3. GetCommand = <<76, 73, 13, 10>> /\ GetCommand \in Bytes
  <2>1. <<76, 73>> \o <<13, 10>> = <<76, 73, 13, 10>>
    BY <1>1, TwoAndTwo
  <2>2. <<76, 73, 13, 10>> \in Bytes
    BY <1>1, FourBytes
  <2>3. GetCommand = <<76, 73>> \o <<13, 10>>
    BY DEF GetCommand, Name, CRLF
  <2> QED BY <2>1, <2>2, <2>3
<1>4. Param \in Bytes /\ Name \in Bytes
  BY <1>1, ThreeBytes, FewBytes DEF Param, Name
<1> QED BY <1>2, <1>3, <1>4 DEF Param, Name

\* The header of each exchange.
LEMMA HeadersAre ==
  ASSUME NEW n \in 0 .. 9
  PROVE  /\ ReadRequest = <<176, 255, 255, 255>> /\ ReadRequest \in Bytes /\ Len(ReadRequest) = 4
         /\ WriteRequest(n) = <<160, n, 0, 255>> /\ WriteRequest(n) \in Bytes /\ Len(WriteRequest(n)) = 4
         /\ Name \o Size(Len(Param)) = <<76, 73, 3, 0>>
         /\ Name \o Size(Len(Param)) \in Bytes /\ Len(Name \o Size(Len(Param))) = 4
<1>1. 176 \in Byte /\ 255 \in Byte /\ 160 \in Byte /\ 0 \in Byte /\ 76 \in Byte /\ 73 \in Byte
      /\ 3 \in Byte
  BY DEF Byte
<1>2. ReadRequest = <<176, 255, 255, 255>> /\ ReadRequest \in Bytes /\ Len(ReadRequest) = 4
  <2>1. ReadRequest = <<176>> \o <<255, 255, 255>>
    BY Filling DEF ReadRequest, SPI_MASTER_READ_LEN_CMD
  <2>2. ReadRequest = <<176, 255, 255, 255>>
    BY <1>1, <2>1, OneAndThree
  <2> QED BY <1>1, <2>2, FourBytes
<1>3. WriteRequest(n) = <<160, n, 0, 255>> /\ WriteRequest(n) \in Bytes /\ Len(WriteRequest(n)) = 4
  <2>1. n \in Byte /\ Size(n) = <<n, 0>>
    BY SmallSize
  <2>2. WriteRequest(n) = <<160>> \o <<n, 0>> \o <<255>>
    BY <2>1 DEF WriteRequest, SPI_MASTER_WRITE_CMD, SPI_DUMMY
  <2>3. WriteRequest(n) = <<160, n, 0, 255>>
    BY <1>1, <2>1, <2>2, OneTwoOne
  <2> QED BY <1>1, <2>1, <2>3, FourBytes
<1>4. /\ Name \o Size(Len(Param)) = <<76, 73, 3, 0>>
      /\ Name \o Size(Len(Param)) \in Bytes /\ Len(Name \o Size(Len(Param))) = 4
  <2>1. Len(Param) = 3 /\ Size(3) = <<3, 0>>
    BY SmallSize DEF Param
  <2>2. Name \o Size(Len(Param)) = <<76, 73>> \o <<3, 0>>
    BY <2>1 DEF Name
  <2>3. Name \o Size(Len(Param)) = <<76, 73, 3, 0>>
    BY <1>1, <2>2, TwoAndTwo
  <2> QED BY <1>1, <2>3, FourBytes
<1> QED BY <1>2, <1>3, <1>4

\* The header the master sends in each exchange.
LEMMA RequestIs ==
  ASSUME MasterTypes, op = "write" => Len(inbuf) \in 0 .. 9
  PROVE  /\ Request \in Bytes /\ Len(Request) = 4
         /\ op = "read"  => Request = <<176, 255, 255, 255>>
         /\ op = "write" => Request = <<160, Len(inbuf), 0, 255>>
         /\ op = "set"   => Request = <<76, 73, 3, 0>>
         /\ op \notin {"read", "write", "set"} => Request = <<76, 73, 13, 10>>
<1>1. 0 \in 0 .. 9
  OBVIOUS
<1>2. CASE op = "read"
  BY <1>1, <1>2, HeadersAre DEF Request
<1>3. CASE op = "write"
  BY <1>3, HeadersAre, ZenonT(60) DEF Request
<1>4. CASE op = "set"
  BY <1>1, <1>4, HeadersAre DEF Request
<1>5. CASE op \notin {"read", "write", "set"}
  <2>1. Request = GetCommand
    BY <1>5 DEF Request
  <2> QED BY <1>5, <2>1, CommandsAre
<1> QED BY <1>2, <1>3, <1>4, <1>5

\* A part of a byte sequence, or of the statics' bytes.
LEMMA PartOf ==
  ASSUME NEW q, NEW m \in Nat, NEW n \in Nat, m <= n, \A i \in m .. n : q[i] \in Byte
  PROVE  /\ SubSeq(q, m, n) \in Bytes /\ Len(SubSeq(q, m, n)) = n - m + 1
         /\ \A i \in 1 .. n - m + 1 : SubSeq(q, m, n)[i] = q[m + i - 1]
  BY SubSeqProperties DEF Bytes

\* Every byte of a byte sequence is one.
LEMMA ByteAt ==
  ASSUME NEW q \in Bytes
  PROVE  \A i \in 1 .. Len(q) : q[i] \in Byte
  BY ElementOfSeq DEF Bytes

\* What is written to the empty FIFO.
LEMMA Pushing ==
  ASSUME tx = <<>>, NEW q \in Bytes, Push(q)
  PROVE  tx' = q /\ rx' = <<>> /\ rx' \in Bytes /\ Len(rx') = 0
<1>1. <<>> \o q = q
  BY ConcatEmptySeq DEF Bytes
<1> QED BY <1>1 DEF Push, Bytes

-----------------------------------------------------------------------------
(* SpiSlave: what the invariant gives in every place.                       *)

\* The byte the master takes.
LEMMA ReceivedIs ==
  ASSUME Types
  PROVE  /\ Received \in Byte
         /\ tx = <<>> => Received = 0
         /\ tx # <<>> => Received = tx[1] /\ Tail(tx) \in Bytes /\ Len(Tail(tx)) = Len(tx) - 1
                         /\ Len(tx) \in Nat /\ Len(tx) >= 1
                         /\ \A i \in 1 .. Len(tx) - 1 : Tail(tx)[i] = tx[i + 1]
<1>1. tx \in Bytes
  BY DEF Types, LineTypes
<1>2. CASE tx = <<>>
  BY <1>2 DEF Received, NoByte, Byte
<1>3. CASE tx # <<>>
  BY <1>1, <1>3, OneLess DEF Received
<1> QED BY <1>2, <1>3

\* What the master has in hand to write, or has written, is of a packet's size.
LEMMA PacketInHand ==
  ASSUME SpiInv, op = "write"
  PROVE  Len(inbuf) \in 1 .. DATA_BUF_SIZE
<1>1. Echoes
  BY DEF SpiInv, Commands
<1>2. CASE InHand
  BY <1>2 DEF InHand, Copied
<1>3. CASE Handed
  <2>1. Len(net) \in Nat \ {0} /\ Len(net) \in DOMAIN net
    BY <1>3, EmptySeq, LenProperties DEF SpiInv, Types, NetTypes, Handed
  <2>2. Whole(inbuf)
    BY <1>3, <2>1 DEF SpiInv, EchoesWhole, Handed
  <2>3. PICK k \in 1 .. sent, n \in 1 .. DATA_BUF_SIZE : inbuf = Packet(k, n)
    BY <2>2 DEF Whole
  <2>4. Len([i \in 1 .. n |-> k]) = n
    BY SpiConstantsAre
  <2> QED BY <2>3, <2>4 DEF Packet, Times
<1> QED BY <1>1, <1>2, <1>3 DEF Echoes

\* It, of the exchange that is under way.
LEMMA RequestNow ==
  ASSUME SpiInv
  PROVE  /\ Request \in Bytes /\ Len(Request) = 4
         /\ op = "read"  => Request = <<176, 255, 255, 255>>
         /\ op = "write" => Request = <<160, Len(inbuf), 0, 255>>
         /\ op = "set"   => Request = <<76, 73, 3, 0>>
         /\ op \notin {"read", "write", "set"} => Request = <<76, 73, 13, 10>>
<1>1. op = "write" => Len(inbuf) \in 0 .. 9
  <2> SUFFICES ASSUME op = "write" PROVE Len(inbuf) \in 0 .. 9
    OBVIOUS
  <2>1. Len(inbuf) \in 1 .. DATA_BUF_SIZE
    BY PacketInHand
  <2>2. \A n \in 1 .. DATA_BUF_SIZE : n \in 0 .. 9
    BY SpiConstantsAre
  <2> QED BY <2>1, <2>2
<1>2. MasterTypes
  BY DEF SpiInv, Types
<1> QED BY <1>1, <1>2, RequestIs

\* Undisturbed, nothing of what a load may bring happens but the next packet.
LEMMA Calm ==
  ASSUME SpiInv, Undisturbed
  PROVE  /\ \A x : May(x) => x = "stream"
         /\ load \in Load /\ load.program \in {"echo", "at"}
         /\ OneCore /\ Errors = {}
<1>1. load \in Load /\ load.may \subseteq {"stream"} /\ OneCore
  BY SpiConstantsAre DEF SpiInv, Types, Undisturbed
<1>2. \A x : May(x) => x = "stream"
  BY <1>1 DEF May
<1> QED BY <1>1, <1>2 DEF Load, Errors

-----------------------------------------------------------------------------
(* SpiSlave: where each step finds master and slave.                        *)

\* The interrupt finds a header.
LEMMA InterruptFinds ==
  ASSUME SpiInv, Undisturbed, Interrupt
  PROVE  Listening /\ out = <<>>
<1>1. irq # {} /\ Len(rx) >= 4
  BY DEF Interrupt, Half
<1>2. handling # Cores /\ irq = Cores
  BY <1>1, TheCore, Calm DEF Interrupt, SpiInv, Types, LineTypes
<1>3. Listening
  BY <1>1, <1>2, TheCore, Calm, NoBytes
     DEF SpiInv, Stages, Asking, Serving, Collecting, Collected, Framed, DataSent, Resting, Answers,
         Reading, Carrying, Answered, Off
<1>4. out \in Bytes /\ Len(rx) \in Nat
  BY NoBytes DEF SpiInv, Types, MasterTypes, LineTypes
<1> QED BY <1>1, <1>3, <1>4, NoBytes DEF Listening, Asks

\* So does its loop.
LEMMA HandleFinds ==
  ASSUME SpiInv, Undisturbed, HandleByte
  PROVE  Collecting
  BY TheCore, Calm DEF HandleByte, SpiInv, Stages, Asking, Serving, Listening, Collected, Framed, DataSent,
         Resting, Answers, Reading, Carrying, Answered, Off, On

\* The task finds one that is complete.
LEMMA CaseFinds ==
  ASSUME SpiInv, NEW x, Case(x)
  PROVE  Collected /\ x = FinalState
  BY DEF Case, SpiInv, Stages, Asking, Serving, Listening, Collecting, Collected, Framed, DataSent,
         Resting, Answers, Reading, Carrying, Answered, Given, Types, SemTypes

-----------------------------------------------------------------------------
(* SpiSlave: the interrupt.                                                 *)

\* The interrupt begins to collect it.
LEMMA InterruptCollects ==
  ASSUME SpiInv, Undisturbed, Interrupt
  PROVE  Collecting' /\ UNCHANGED <<isrless, rx, irq, s, seg_spi_pending_sem>>
<1>1. Listening /\ out = <<>>
  BY InterruptFinds
<1>2. handling' = Cores /\ irq' = Cores
  BY <1>1, TheCore, Calm DEF Interrupt, Listening, On
<1>3. UNCHANGED <<isrless, rx, irq, s, seg_spi_pending_sem>>
  BY DEF Interrupt
<1>4. AfterBytes(s, 0)
  BY <1>1 DEF Listening, Fresh, Clear, AfterBytes
<1>5. Collects(0)
  <2>1. Len(rx) >= 4
    BY DEF Interrupt, Half
  <2> QED BY <1>1, <1>4, <2>1 DEF Listening, Collects
<1>6. Request' = Request
  BY <1>3 DEF isrless, master, Request
<1>7. Collects(0)'
  BY <1>3, <1>5, <1>6 DEF isrless, master, Collects, AfterBytes, Follows
<1>8. Asks' /\ Given(0, 0, 0)'
  BY <1>1, <1>3, <1>6 DEF Listening, Asks, Given, isrless, master, others, EndOf, Waiting, Places, FirstWait
<1> QED BY <1>1, <1>2, <1>3, <1>7, <1>8 DEF Collecting, isrless, master

\* The handler takes the next byte of the header.
LEMMA HandlesHeader ==
  ASSUME SpiInv, Undisturbed, HandleByte, NEW h \in 0 .. 3, Collects(h)
  PROVE  rx # <<>> /\ Head(rx) = Request[h + 1] /\ Follows(Tail(rx), h + 1)
         /\ Tail(rx) \in Bytes /\ Len(Tail(rx)) = Len(rx) - 1 /\ Len(rx) \in Nat /\ Len(rx) >= 4 - h
<1>1. rx \in Bytes
  BY DEF SpiInv, Types, LineTypes
<1>2. rx # <<>> /\ Len(rx) \in Nat /\ Len(rx) >= 4 - h
  BY <1>1, NoBytes DEF Collects
<1>3. Head(rx) = rx[1] /\ Tail(rx) \in Bytes /\ Len(Tail(rx)) = Len(rx) - 1
      /\ \A i \in 1 .. Len(rx) - 1 : Tail(rx)[i] = rx[i + 1]
  BY <1>1, <1>2, OneLess
<1>4. rx[1] = Request[h + 1]
  BY <1>2 DEF Collects, Follows
<1>5. Follows(Tail(rx), h + 1)
  <2> SUFFICES ASSUME NEW i \in 1 .. Len(rx) - 1
               PROVE  rx[i + 1] = IF h + 1 + i <= 4 THEN Request[h + 1 + i] ELSE SPI_DUMMY
    BY <1>3 DEF Follows
  <2>1. i + 1 \in 1 .. Len(rx) /\ h + (i + 1) = h + 1 + i
    BY <1>2
  <2> QED BY <2>1 DEF Collects, Follows
<1> QED BY <1>1, <1>2, <1>3, <1>4, <1>5

\* The statics with one of their fields changed.
SameCounts(v, w) == w.dummy_count = v.dummy_count /\ w.atcmd_index = v.atcmd_index
SameText(v, w)   == w.length_bytes = v.length_bytes /\ w.atcmd_bytes = v.atcmd_bytes

\* The fields of the statics that a handler leaves alone: the state is set.
LEMMA GotoField ==
  ASSUME NEW v \in Statics, NEW x \in SpiStates
  PROVE  LET w == Goto(v, x)
         IN  /\ w \in Statics /\ w.state = x /\ w.command = v.command
             /\ w.data_length = v.data_length /\ w.length_index = v.length_index
             /\ SameCounts(v, w) /\ SameText(v, w)
  BY DEF Statics, Goto, SameCounts, SameText

\* The command is set.
LEMMA CommandField ==
  ASSUME NEW v \in Statics, NEW b \in Byte
  PROVE  LET w == [v EXCEPT !.command = b]
         IN  /\ w \in Statics /\ w.state = v.state /\ w.command = b
             /\ w.data_length = v.data_length /\ w.length_index = v.length_index
             /\ SameCounts(v, w) /\ SameText(v, w)
  BY DEF Statics, SameCounts, SameText

\* The length is set.
LEMMA LengthField ==
  ASSUME NEW v \in Statics, NEW n \in Nat
  PROVE  LET w == [v EXCEPT !.data_length = n]
         IN  /\ w \in Statics /\ w.state = v.state /\ w.command = v.command
             /\ w.data_length = n /\ w.length_index = v.length_index
             /\ SameCounts(v, w) /\ SameText(v, w)
  BY DEF Statics, SameCounts, SameText

\* An index is set.
LEMMA IndexField ==
  ASSUME NEW v \in Statics, NEW n \in 0 .. 2
  PROVE  LET w == [v EXCEPT !.length_index = n]
         IN  /\ w \in Statics /\ w.state = v.state /\ w.command = v.command
             /\ w.data_length = v.data_length /\ w.length_index = n
             /\ SameCounts(v, w) /\ SameText(v, w)
  BY DEF Statics, SameCounts, SameText

\* The dummy bytes are counted.
LEMMA CountField ==
  ASSUME NEW v \in Statics, NEW n \in 0 .. 2
  PROVE  LET w == [v EXCEPT !.dummy_count = n]
         IN  /\ w \in Statics /\ w.state = v.state /\ w.command = v.command
             /\ w.data_length = v.data_length /\ w.length_index = v.length_index
             /\ w.dummy_count = n /\ w.atcmd_index = v.atcmd_index /\ SameText(v, w)
  BY DEF Statics, SameText

\* A byte of the size, and one of an AT command.
WithSize(v, k, b)  == [v EXCEPT !.length_bytes[k] = b, !.length_index = k]
WithAt(v, k, b, n) == [v EXCEPT !.atcmd_bytes[k] = b, !.atcmd_index = n]

\* A byte of the size.
LEMMA SizeByte ==
  ASSUME NEW v \in Statics, NEW b \in Byte, NEW k \in 1 .. 2
  PROVE  LET w == WithSize(v, k, b)
         IN  /\ w \in Statics /\ w.state = v.state /\ w.command = v.command
             /\ w.data_length = v.data_length /\ w.length_index = k /\ SameCounts(v, w)
             /\ w.length_bytes[k] = b /\ (k = 2 => w.length_bytes[1] = v.length_bytes[1])
<1> DEFINE w == [v EXCEPT !.length_bytes[k] = b, !.length_index = k]
           lb == [v.length_bytes EXCEPT ![k] = b]
<1>1. lb \in [1 .. 2 -> Byte] /\ k \in 0 .. 2
  BY DEF Statics
<1>2. w = [v EXCEPT !.length_bytes = lb, !.length_index = k]
  BY DEF Statics
<1>3. w \in Statics
  <2> HIDE DEF lb
  <2>1. [v EXCEPT !.length_bytes = lb, !.length_index = k] \in Statics
    BY <1>1 DEF Statics
  <2> QED BY <1>2, <2>1
<1>4. /\ w.state = v.state /\ w.command = v.command /\ w.data_length = v.data_length
      /\ w.length_index = k
  BY DEF Statics
<1>5. SameCounts(v, w)
  BY DEF Statics, SameCounts
<1>6. w.length_bytes[k] = b /\ (k = 2 => w.length_bytes[1] = v.length_bytes[1])
  BY DEF Statics
<1> QED BY <1>3, <1>4, <1>5, <1>6 DEF WithSize

\* A byte of a command.
LEMMA AtByte ==
  ASSUME NEW v \in Statics, NEW b \in Byte, NEW k \in 1 .. 4, NEW n \in 0 .. 3
  PROVE  LET w == WithAt(v, k, b, n)
         IN  /\ w \in Statics /\ w.state = v.state /\ w.dummy_count = v.dummy_count
             /\ w.atcmd_index = n
             /\ \A i \in 1 .. 4 : w.atcmd_bytes[i] = IF i = k THEN b ELSE v.atcmd_bytes[i]
  BY DEF Statics, WithAt

\* One more byte of it.
LEMMA NextAtByte ==
  ASSUME NEW v \in Statics, NEW b \in Byte, NEW k \in 1 .. 3
  PROVE  LET w == WithAt(v, k, b, k)
         IN  /\ w \in Statics /\ w.state = v.state /\ w.dummy_count = v.dummy_count
             /\ w.atcmd_index = k
             /\ \A i \in 1 .. 4 : w.atcmd_bytes[i] = IF i = k THEN b ELSE v.atcmd_bytes[i]
<1> DEFINE ab == [v.atcmd_bytes EXCEPT ![k] = b]
           w  == [v EXCEPT !.atcmd_bytes = ab, !.atcmd_index = k]
<1>1. ab \in [1 .. 4 -> Byte] /\ k \in 0 .. 3
  BY DEF Statics
<1>2. \A i \in 1 .. 4 : ab[i] = IF i = k THEN b ELSE v.atcmd_bytes[i]
  BY DEF Statics
<1>3. WithAt(v, k, b, k) = w
  BY DEF WithAt
<1> HIDE DEF ab
<1>4. /\ w \in Statics /\ w.state = v.state /\ w.dummy_count = v.dummy_count
      /\ w.atcmd_index = k /\ w.atcmd_bytes = ab
  BY <1>1 DEF Statics
<1> HIDE DEF w
<1> QED BY <1>2, <1>3, <1>4

\* A byte but the last: the statics take it, and the loop goes on.
LEMMA HeaderGoesOn ==
  ASSUME SpiInv, Undisturbed, op # "idle", NEW h \in 0 .. 2, AfterBytes(s, h)
  PROVE  LET r == OnByte(s, Request[h + 1])
         IN  r[2] = "on" /\ r[1] \in Statics /\ AfterBytes(r[1], h + 1)
<1> DEFINE b == Request[h + 1]
<1>1. s \in Statics /\ conn /\ op \in {"read", "write", "set", "get"}
  BY DEF SpiInv, Types, MasterTypes, LineTypes
<1>2. b \in Byte
  <2>1. Request \in Bytes /\ Len(Request) = 4
    BY RequestNow
  <2>2. h + 1 \in 1 .. Len(Request)
    BY <2>1
  <2> QED BY <2>1, <2>2, ElementOfSeq DEF Bytes
<1>3. CASE h = 0
  <2> DEFINE c == [s EXCEPT !.command = b]
  <2>1. s.state = "command" /\ s.dummy_count = 0 /\ s.atcmd_index = 0
    BY <1>3 DEF AfterBytes
  <2>2. OnByte(s, b) = OnCommand(s, b)
    BY <2>1 DEF OnByte
  <2>3. c \in Statics /\ c.command = b /\ SameCounts(s, c)
    BY <1>1, <1>2, CommandField
  <2>4. CASE op = "read"
    <3>1. b = 176
      BY <1>3, <2>4, RequestNow
    <3>2. OnCommand(s, b) = <<Goto(c, "dummy"), "on">>
      BY <3>1 DEF OnCommand, SPI_MASTER_WRITE_CMD, SPI_MASTER_READ_LEN_CMD, Letters
    <3> HIDE DEF c
    <3>3. Goto(c, "dummy") \in Statics /\ AfterBytes(Goto(c, "dummy"), 1)
      BY <2>1, <2>3, <2>4, <3>1, GotoField
         DEF AfterBytes, SpiStates, SPI_MASTER_READ_LEN_CMD, SameCounts
    <3> QED BY <1>3, <2>2, <3>2, <3>3
  <2>5. CASE op = "write"
    <3> DEFINE g == Goto(c, "length")
               w == [g EXCEPT !.length_index = 0]
    <3>1. b = 160
      BY <1>3, <2>5, RequestNow
    <3>2. OnCommand(s, b) = <<w, "on">>
      BY <1>1, <3>1 DEF OnCommand, SPI_MASTER_WRITE_CMD, SPI_MASTER_READ_LEN_CMD, Letters
    <3>3. g \in Statics /\ g.state = "length" /\ g.command = c.command /\ SameCounts(c, g)
      <4> HIDE DEF c
      <4> QED BY <2>3, GotoField DEF SpiStates
    <3>4. w \in Statics /\ w.state = g.state /\ w.command = g.command /\ w.length_index = 0
          /\ SameCounts(g, w)
      <4>1. 0 \in 0 .. 2
        OBVIOUS
      <4> HIDE DEF g
      <4> QED BY <3>3, <4>1, IndexField
    <3> HIDE DEF w, g, c
    <3>5. AfterBytes(w, 1)
      BY <2>1, <2>3, <2>5, <3>1, <3>3, <3>4 DEF AfterBytes, SameCounts, SPI_MASTER_WRITE_CMD
    <3> QED BY <1>3, <2>2, <3>2, <3>4, <3>5
  <2>6. CASE op \in {"set", "get"}
    <3> DEFINE g == Goto(c, "atcmd")
               w == WithAt(g, 1, b, 1)
    <3>1. b = 76
      BY <1>3, <2>6, RequestNow
    <3>2. g \in Statics /\ g.state = "atcmd" /\ SameCounts(c, g)
      <4> HIDE DEF c
      <4> QED BY <2>3, GotoField DEF SpiStates
    <3>3. w \in Statics /\ w.state = g.state /\ w.dummy_count = g.dummy_count /\ w.atcmd_index = 1
          /\ \A i \in 1 .. 4 : w.atcmd_bytes[i] = IF i = 1 THEN b ELSE g.atcmd_bytes[i]
      <4>1. 1 \in 1 .. 3
        OBVIOUS
      <4> HIDE DEF g, b
      <4> QED BY <1>2, <3>2, <4>1, NextAtByte
    <3>4. g.atcmd_index = 0
      <4> HIDE DEF g, c
      <4> QED BY <2>1, <2>3, <3>2 DEF SameCounts
    <3>5. OnCommand(s, b)
            = <<[g EXCEPT !.atcmd_bytes[s.atcmd_index + 1] = b, !.atcmd_index = @ + 1], "on">>
      BY <3>1 DEF OnCommand, SPI_MASTER_WRITE_CMD, SPI_MASTER_READ_LEN_CMD, Letters
    <3>6. OnCommand(s, b) = <<w, "on">>
      <4> HIDE DEF g
      <4> QED BY <2>1, <3>4, <3>5 DEF WithAt
    <3>7. w.atcmd_bytes[1] = b
      <4> HIDE DEF w, g
      <4> QED BY <3>2, <3>3 DEF Statics
    <3> HIDE DEF w, g, c
    <3>8. AfterBytes(w, 1)
      BY <1>3, <2>1, <2>3, <2>6, <3>2, <3>3, <3>7 DEF AfterBytes, SameCounts
    <3> QED BY <1>3, <2>2, <3>3, <3>6, <3>8
  <2> QED BY <1>1, <2>4, <2>5, <2>6
<1>4. CASE h \in {1, 2}
  <2>1. CASE op = "read"
    <3>1. b = 255 /\ s.state = "dummy" /\ s.command = 176 /\ s.dummy_count = h - 1
          /\ s.atcmd_index = 0
      BY <1>4, <2>1, RequestNow DEF AfterBytes, SPI_MASTER_READ_LEN_CMD
    <3>2. OnByte(s, b) = <<[s EXCEPT !.dummy_count = h], "on">>
      BY <1>1, <1>4, <3>1
         DEF OnByte, OnDummy, SPI_DUMMY, SPI_MASTER_WRITE_CMD, SPI_MASTER_READ_LEN_CMD
    <3> QED BY <1>1, <1>4, <2>1, <3>1, <3>2 DEF AfterBytes, Statics, SPI_MASTER_READ_LEN_CMD
  <2>2. CASE op = "write"
    <3> DEFINE w == WithSize(s, h, b)
    <3>1. /\ s.state = "length" /\ s.command = 160 /\ s.dummy_count = 0 /\ s.atcmd_index = 0
          /\ s.length_index = h - 1 /\ (h = 2 => s.length_bytes[1] = Len(inbuf))
      BY <1>4, <2>2 DEF AfterBytes, SPI_MASTER_WRITE_CMD
    <3>2. /\ w \in Statics /\ w.state = s.state /\ w.command = s.command /\ w.length_index = h
          /\ SameCounts(s, w) /\ w.length_bytes[h] = b
          /\ (h = 2 => w.length_bytes[1] = s.length_bytes[1])
      <4>1. h \in 1 .. 2
        BY <1>4
      <4> HIDE DEF b
      <4> QED BY <1>1, <1>2, <4>1, SizeByte
    <3>3. OnByte(s, b) = OnLength(s, b)
      BY <3>1 DEF OnByte
    <3>4. CASE h = 1
      <4>1. b = Len(inbuf)
        BY <2>2, <3>4, RequestNow
      <4>2. OnLength(s, b) = <<w, "on">>
        BY <1>1, <3>1, <3>4 DEF OnLength, WithSize
      <4>3. w.length_bytes[1] = b
        <5> HIDE DEF w
        <5> QED BY <1>1, <3>2, <3>4 DEF Statics
      <4> HIDE DEF w
      <4>4. AfterBytes(w, 2)
        BY <2>2, <3>1, <3>2, <3>4, <4>1, <4>3 DEF AfterBytes, SameCounts, SPI_MASTER_WRITE_CMD
      <4> QED BY <3>2, <3>3, <3>4, <4>2, <4>4
    <3>5. CASE h = 2
      <4> DEFINE n == Len(inbuf)
                 f == [w EXCEPT !.data_length = n]
                 g == Goto(f, "dummy")
                 u == [g EXCEPT !.length_index = 0]
      <4>1. n \in 1 .. DATA_BUF_SIZE
        BY <2>2, PacketInHand
      <4>2. n \in Nat /\ n <= DATA_BUF_SIZE /\ DATA_BUF_SIZE \in Nat /\ b = 0
        BY <2>2, <3>5, <4>1, RequestNow, SpiConstantsAre
      <4>3. Value(w.length_bytes) = n
        <5>1. w.length_bytes[1] = n /\ w.length_bytes[2] = 0
          <6> HIDE DEF w
          <6> QED BY <1>1, <3>1, <3>2, <3>5, <4>2 DEF Statics
        <5> HIDE DEF w, n
        <5> QED BY <4>2, <5>1 DEF Value
      <4>4. f \in Statics /\ f.data_length = n /\ f.command = w.command /\ SameCounts(w, f)
        <5> HIDE DEF w, n
        <5> QED BY <3>2, <4>2, LengthField
      <4>5. g \in Statics /\ g.state = "dummy" /\ g.data_length = f.data_length
            /\ g.command = f.command /\ SameCounts(f, g)
        <5> HIDE DEF f
        <5> QED BY <4>4, GotoField DEF SpiStates
      <4>6. u \in Statics /\ u.state = g.state /\ u.data_length = g.data_length
            /\ u.command = g.command /\ SameCounts(g, u)
        <5>1. 0 \in 0 .. 2
          OBVIOUS
        <5> HIDE DEF g
        <5> QED BY <4>5, <5>1, IndexField
      <4>7. OnLength(s, b) = <<u, "on">>
        <5>1. s.length_index + 1 = 2
          BY <3>1, <3>5
        <5>2. OnLength(s, b) = LET k == Value(w.length_bytes)
                                   e == [w EXCEPT !.data_length = k]
                               IN  CASE 2 < 2 -> <<w, "on">>
                                     [] 2 = 2 /\ k > DATA_BUF_SIZE -> <<Goto(e, "nack"), "off">>
                                     [] 2 = 2 /\ k <= DATA_BUF_SIZE ->
                                          <<[Goto(e, "dummy") EXCEPT !.length_index = 0], "on">>
          BY <3>5, <5>1 DEF OnLength, WithSize
        <5> HIDE DEF w, n
        <5>3. ~(n > DATA_BUF_SIZE)
          BY <4>2
        <5> QED BY <4>2, <4>3, <5>2, <5>3
      <4> HIDE DEF u, g, f, w
      <4>8. AfterBytes(u, 3)
        BY <2>2, <3>1, <3>2, <4>4, <4>5, <4>6 DEF AfterBytes, SameCounts, SPI_MASTER_WRITE_CMD
      <4> QED BY <3>3, <3>5, <4>6, <4>7, <4>8
    <3> QED BY <1>4, <3>4, <3>5
  <2>3. CASE op \in {"set", "get"}
    <3> DEFINE w == WithAt(s, h + 1, b, h + 1)
    <3>1. /\ s.state = "atcmd" /\ s.atcmd_index = h /\ s.dummy_count = 0
          /\ \A i \in 1 .. h : s.atcmd_bytes[i] = Request[i]
      BY <1>4, <2>3 DEF AfterBytes
    <3>2. OnByte(s, b) = <<w, "on">>
      BY <1>1, <1>4, <3>1 DEF OnByte, OnAtcmd, WithAt
    <3>3. /\ w \in Statics /\ w.state = s.state /\ w.dummy_count = s.dummy_count
          /\ w.atcmd_index = h + 1
          /\ \A i \in 1 .. 4 : w.atcmd_bytes[i] = IF i = h + 1 THEN b ELSE s.atcmd_bytes[i]
      <4> DEFINE k == h + 1
      <4>1. k \in 1 .. 3
        BY <1>4
      <4> HIDE DEF b, k
      <4>2. LET u == WithAt(s, k, b, k)
            IN  /\ u \in Statics /\ u.state = s.state /\ u.dummy_count = s.dummy_count
                /\ u.atcmd_index = k
                /\ \A i \in 1 .. 4 : u.atcmd_bytes[i] = IF i = k THEN b ELSE s.atcmd_bytes[i]
        BY <1>1, <1>2, <4>1, NextAtByte
      <4> QED BY <4>2 DEF k
    <3> HIDE DEF w
    <3>4. \A i \in 1 .. h + 1 : w.atcmd_bytes[i] = Request[i]
      BY <1>1, <1>4, <3>1, <3>3 DEF Statics
    <3>5. AfterBytes(w, h + 1)
      BY <1>4, <2>3, <3>1, <3>3, <3>4 DEF AfterBytes
    <3> QED BY <3>2, <3>3, <3>5
  <2> QED BY <1>1, <2>1, <2>2, <2>3
<1> QED BY <1>3, <1>4

\* The last one: the interrupt is switched off, and the task told.
LEMMA HeaderEnds ==
  ASSUME SpiInv, Undisturbed, op # "idle", AfterBytes(s, 3)
  PROVE  LET r == OnByte(s, Request[4])
         IN  /\ r[2] = "off" /\ r[1] \in Statics /\ r[1].state = FinalState
             /\ r[1].dummy_count = 0 /\ r[1].atcmd_index = 0
             /\ op = "write" => r[1].data_length = Len(inbuf)
             /\ op \in {"set", "get"} => \A i \in 1 .. 4 : r[1].atcmd_bytes[i] = Request[i]
<1> DEFINE b == Request[4]
           z == [s EXCEPT !.dummy_count = 0]
<1>1. s \in Statics /\ conn /\ op \in {"read", "write", "set", "get"}
  BY DEF SpiInv, Types, MasterTypes, LineTypes
<1>2. b \in Byte
  <2>1. Request \in Bytes /\ Len(Request) = 4
    BY RequestNow
  <2>2. 4 \in 1 .. Len(Request)
    BY <2>1
  <2> QED BY <2>1, <2>2, ElementOfSeq DEF Bytes
<1>3. z \in Statics /\ z.dummy_count = 0 /\ z.atcmd_index = s.atcmd_index
      /\ z.data_length = s.data_length
  <2>1. 0 \in 0 .. 2
    OBVIOUS
  <2> QED BY <1>1, <2>1, CountField
<1>4. CASE op = "read"
  <2> DEFINE g == Goto(z, "write")
  <2>1. b = 255 /\ s.state = "dummy" /\ s.command = 176 /\ s.dummy_count = 2 /\ s.atcmd_index = 0
    BY <1>4, RequestNow DEF AfterBytes, SPI_MASTER_READ_LEN_CMD
  <2>2. OnByte(s, b) = <<g, "off">>
    BY <2>1 DEF OnByte, OnDummy, SPI_DUMMY, SPI_MASTER_WRITE_CMD, SPI_MASTER_READ_LEN_CMD
  <2>3. g \in Statics /\ g.state = "write" /\ SameCounts(z, g)
    <3> HIDE DEF z
    <3> QED BY <1>3, GotoField DEF SpiStates
  <2> HIDE DEF g, z
  <2> QED BY <1>3, <1>4, <2>1, <2>2, <2>3 DEF SameCounts, FinalState
<1>5. CASE op = "write"
  <2> DEFINE g == Goto(z, "read")
  <2>1. /\ b = 255 /\ s.state = "dummy" /\ s.command = 160 /\ s.dummy_count = 0 /\ s.atcmd_index = 0
        /\ s.data_length = Len(inbuf)
    BY <1>5, RequestNow DEF AfterBytes, SPI_MASTER_WRITE_CMD
  <2>2. OnByte(s, b) = <<g, "off">>
    BY <2>1 DEF OnByte, OnDummy, SPI_DUMMY, SPI_MASTER_WRITE_CMD, SPI_MASTER_READ_LEN_CMD
  <2>3. g \in Statics /\ g.state = "read" /\ SameCounts(z, g) /\ g.data_length = z.data_length
    <3> HIDE DEF z
    <3> QED BY <1>3, GotoField DEF SpiStates
  <2> HIDE DEF g, z
  <2> QED BY <1>3, <1>5, <2>1, <2>2, <2>3 DEF SameCounts, FinalState
<1>6. CASE op \in {"set", "get"}
  <2> DEFINE w == WithAt(s, 4, b, 0)
  <2>1. /\ s.state = "atcmd" /\ s.atcmd_index = 3 /\ s.dummy_count = 0
        /\ \A i \in 1 .. 3 : s.atcmd_bytes[i] = Request[i]
    BY <1>6 DEF AfterBytes
  <2>2. OnByte(s, b) = <<w, "off">>
    BY <1>1, <2>1 DEF OnByte, OnAtcmd, Statics, WithAt
  <2>3. /\ w \in Statics /\ w.state = s.state /\ w.dummy_count = s.dummy_count
        /\ w.atcmd_index = 0
        /\ \A i \in 1 .. 4 : w.atcmd_bytes[i] = IF i = 4 THEN b ELSE s.atcmd_bytes[i]
    <3>1. 4 \in 1 .. 4 /\ 0 \in 0 .. 3
      OBVIOUS
    <3> HIDE DEF b
    <3> QED BY <1>1, <1>2, <3>1, AtByte
  <2> HIDE DEF w
  <2>4. \A i \in 1 .. 4 : w.atcmd_bytes[i] = Request[i]
    BY <1>1, <2>1, <2>3 DEF Statics
  <2>5. FinalState = "atcmd" /\ op # "write"
    BY <1>6 DEF FinalState
  <2>6. OnByte(s, b)[1] = w /\ OnByte(s, b)[2] = "off"
    BY <2>2
  <2> HIDE DEF b
  <2> QED BY <2>1, <2>3, <2>4, <2>5, <2>6 DEF b
<1> QED BY <1>1, <1>4, <1>5, <1>6

\* The types of what a step leaves alone.
LEMMA TypesKept ==
  ASSUME SpiInv
  PROVE  /\ UNCHANGED <<load, conn>> => load' \in Loads /\ conn'
         /\ UNCHANGED master => MasterTypes'
         /\ UNCHANGED <<rx, tx, irq, handling, s>> => LineTypes'
         /\ UNCHANGED sems => SemTypes'
         /\ UNCHANGED <<e2u_size, u2e_size, ulen>> => SizeTypes'
         /\ UNCHANGED <<g_send_buf, gSEGCPREQ, done, data_buffer>> => BufferTypes'
         /\ UNCHANGED <<sent, g_recv_buf, net, recv, trig, int, timer, resetting>> => NetTypes'
<1>1. load \in Loads /\ conn /\ MasterTypes /\ LineTypes /\ SemTypes /\ SizeTypes /\ BufferTypes /\ NetTypes
  BY DEF SpiInv, Types
<1>2. UNCHANGED master => MasterTypes'
  BY <1>1 DEF MasterTypes, master
<1>3. UNCHANGED <<rx, tx, irq, handling, s>> => LineTypes'
  BY <1>1 DEF LineTypes
<1>4. UNCHANGED sems => SemTypes'
  BY <1>1 DEF SemTypes, sems
<1>5. UNCHANGED <<e2u_size, u2e_size, ulen>> => SizeTypes'
  BY <1>1 DEF SizeTypes
<1>6. UNCHANGED <<g_send_buf, gSEGCPREQ, done, data_buffer>> => BufferTypes'
  BY <1>1 DEF BufferTypes, Room
<1>7. UNCHANGED <<sent, g_recv_buf, net, recv, trig, int, timer, resetting>> => NetTypes'
  BY <1>1 DEF NetTypes
<1> QED BY <1>1, <1>2, <1>3, <1>4, <1>5, <1>6, <1>7

\* A byte handled.
LEMMA HandleCollects ==
  ASSUME SpiInv, Undisturbed, HandleByte
  PROVE  /\ Collecting' \/ Collected'
         /\ Types' /\ UNCHANGED isrless
<1>1. Collecting
  BY HandleFinds
<1>2. PICK h \in 0 .. 3 : Collects(h)
  BY <1>1 DEF Collecting
<1> DEFINE r == OnByte(s, Request[h + 1])
<1>3. /\ rx # <<>> /\ Head(rx) = Request[h + 1] /\ Follows(Tail(rx), h + 1)
      /\ Tail(rx) \in Bytes /\ Len(Tail(rx)) = Len(rx) - 1 /\ Len(rx) \in Nat /\ Len(rx) >= 4 - h
  BY <1>2, HandlesHeader
<1>4. op # "idle" /\ AfterBytes(s, h)
  BY <1>1, <1>2 DEF Collecting, Asks, Collects
<1>5. PICK c \in handling :
        /\ rx' = Tail(rx) /\ s' = r[1]
        /\ handling' = IF r[2] = "on" THEN handling ELSE handling \ {c}
        /\ irq' = IF r[2] = "off" THEN irq \ {c} ELSE irq
        /\ seg_spi_pending_sem' = IF r[2] = "on" THEN seg_spi_pending_sem
                                                 ELSE Give(seg_spi_pending_sem)
        /\ UNCHANGED isrless
  BY <1>3 DEF HandleByte
<1>6. UNCHANGED <<op, at, out, half, want, inbuf, tx, task, u2e, segcp, seg_u2e_sem, segcp_uart_sem>>
  BY <1>5 DEF isrless, master, others
<1>7. Request' = Request /\ FinalState' = FinalState /\ FirstWait' = FirstWait
  BY <1>6 DEF Request, FinalState, FirstWait
<1>8. Asks'
  BY <1>1, <1>6, <1>7 DEF Collecting, Asks, EndOf, Waiting, Places
<1>9. Len(rx') <= Depth
  BY <1>3, <1>5 DEF SpiInv, Types, LineTypes, Depth
<1>10. ASSUME s' \in Statics, irq' \subseteq Cores, handling' \subseteq Cores, seg_spi_pending_sem' \in 0 .. Tokens
       PROVE  Types'
  <2>1. LineTypes'
    BY <1>3, <1>5, <1>6, <1>9, <1>10 DEF SpiInv, Types, LineTypes
  <2>2. SemTypes'
    BY <1>6, <1>10 DEF SpiInv, Types, SemTypes
  <2>3. SizeTypes' /\ MasterTypes' /\ BufferTypes' /\ NetTypes' /\ load' \in Loads /\ conn'
    BY <1>5, TypesKept DEF isrless, seg, atcmds, others
  <2> QED BY <2>1, <2>2, <2>3 DEF Types
<1>11. CASE h \in 0 .. 2
  <2>1. r[2] = "on" /\ r[1] \in Statics /\ AfterBytes(r[1], h + 1)
    BY <1>4, <1>11, HeaderGoesOn
  <2> HIDE DEF r
  <2>2. /\ s' \in Statics /\ AfterBytes(s', h + 1) /\ handling' = handling /\ irq' = irq
        /\ seg_spi_pending_sem' = seg_spi_pending_sem
    BY <1>5, <2>1
  <2>3. AfterBytes(s, h + 1)'
    BY <1>6, <1>7, <2>2 DEF AfterBytes
  <2>4. Follows(rx, h + 1)'
    BY <1>3, <1>5, <1>7 DEF Follows
  <2>5. h + 1 \in 0 .. 3 /\ Len(rx') >= 4 - (h + 1)
    BY <1>3, <1>5, <1>11
  <2>6. Collects(h + 1)'
    BY <2>3, <2>4, <2>5 DEF Collects
  <2>7. Collecting'
    BY <1>1, <1>6, <1>8, <2>2, <2>5, <2>6 DEF Collecting, Given
  <2>8. Types'
    <3>1. irq \subseteq Cores /\ handling \subseteq Cores /\ seg_spi_pending_sem \in 0 .. Tokens
      BY DEF SpiInv, Types, LineTypes, SemTypes
    <3> QED BY <1>10, <2>2, <3>1
  <2> QED BY <1>5, <2>7, <2>8
<1>12. CASE h = 3
  <2>1. /\ r[2] = "off" /\ r[1] \in Statics /\ r[1].state = FinalState
        /\ r[1].dummy_count = 0 /\ r[1].atcmd_index = 0
        /\ op = "write" => r[1].data_length = Len(inbuf)
        /\ op \in {"set", "get"} => \A i \in 1 .. 4 : r[1].atcmd_bytes[i] = Request[i]
    <3>1. AfterBytes(s, 3) /\ h + 1 = 4
      BY <1>4, <1>12
    <3> QED BY <1>4, <3>1, HeaderEnds
  <2> HIDE DEF r
  <2>2. handling' = {} /\ irq' = {}
    BY <1>1, <1>5, <2>1, TheCore, Calm DEF Collecting
  <2>3. seg_spi_pending_sem' = 1
    BY <1>1, <1>5, <2>1, SpiConstantsAre DEF Collecting, Given, Give
  <2>4. Clear' /\ s'.state = FinalState /\ Known'
    BY <1>5, <1>6, <1>7, <2>1 DEF Clear, Known
  <2>5. Collected'
    BY <1>1, <1>6, <1>7, <1>8, <2>2, <2>3, <2>4 DEF Collecting, Collected, Given, Off
  <2>6. Types'
    BY <1>5, <1>10, <2>1, <2>2, <2>3, SpiConstantsAre
  <2> QED BY <1>5, <2>5, <2>6
<1> QED BY <1>11, <1>12

-----------------------------------------------------------------------------
(* SpiSlave: the tasks.                                                     *)

\* Where a task is says which stage the exchange is in.
LEMMA SlavePlaces ==
  ASSUME SpiInv
  PROVE  /\ task \in {"wait", "data", "ack", "atack", "written", "bytes", "atbytes", "atdone"}
         /\ task = "data" => Framed /\ op = "read" /\ InFrame(sent, e2u_size)
         /\ task = "ack" => Answers /\ op = "write"
         /\ task = "atack" => Answers /\ op = "set"
         /\ task = "written" => DataSent
         /\ task = "bytes" => Reading /\ op = "write"
         /\ task = "atbytes" => Reading /\ op = "set"
         /\ task = "atdone" => Carrying /\ op = "get"
  BY DEF SpiInv, Stages, Asking, Serving, Listening, Collecting, Collected, Asks, Waiting, Framed, DataSent,
         Resting, Answers, Reading, Carrying, Answered, Places

\* What the places of the other tasks say of the stage, and the tokens they are given.
LEMMA OtherPlaces ==
  ASSUME SpiInv
  PROVE  /\ u2e \in {"wait", "send", "ack"} /\ segcp \in {"wait", "reply", "ack"}
         /\ u2e = "send" => Carrying /\ op = "write"
         /\ u2e = "ack" => Answered
         /\ segcp = "reply" => Framed /\ op = "get" /\ InFrame(2, 1)
         /\ segcp = "ack" => Answered
         /\ seg_u2e_sem > 0 => Carrying /\ op = "write" /\ Waiting
         /\ segcp_uart_sem > 0 => Carrying /\ op \in {"set", "get"} /\ Waiting
  BY DEF SpiInv, Stages, Asking, Serving, Listening, Collecting, Collected, Asks, Waiting, Framed, DataSent,
         Resting, Answers, Reading, Carrying, Answered, Places, Given

\* The program of the master says what it may do.
LEMMA ProgramIs ==
  ASSUME SpiInv, Undisturbed
  PROVE  /\ op \in {"read", "write"} => load.program = "echo" /\ Echoes
         /\ op \in {"set", "get"} => load.program = "at" /\ Commands
  BY Calm DEF SpiInv, Echoes, Commands

\* A case of current_state: nobody else has anything to do.
LEMMA CaseKeeps ==
  ASSUME SpiInv, NEW x, Case(x)
  PROVE  /\ Collected /\ x = FinalState /\ op # "idle" /\ half = 1 /\ tx = <<>> /\ Waiting
         /\ Awaits(FirstWait, 1) /\ Given(1, 0, 0) /\ seg_spi_pending_sem' = 0 /\ seg_spi_pending_sem' \in 0 .. Tokens
         /\ at # "data"
<1>1. Collected /\ x = FinalState
  BY CaseFinds
<1>2. at = "out" \/ at = FirstWait
  BY <1>1 DEF Collected, Asks
<1>3. FirstWait # "data"
  BY DEF FirstWait
<1> QED BY <1>1, <1>2, <1>3, SpiConstantsAre DEF Collected, Asks, Awaits, Given, Case

\* The packet that waits is written out behind its header.
LEMMA WriteAnswers ==
  ASSUME SpiInv, Undisturbed, SlaveDataWrite
  PROVE  Framed' /\ Types' /\ task' = "data" /\ op = "read" /\ task = "wait" /\ at # "data"
         /\ UNCHANGED <<taskless, trig, int, e2u_size, data_buffer>>
<1>1. Case("write")
  BY DEF SlaveDataWrite
<1>2. /\ Collected /\ "write" = FinalState /\ op # "idle" /\ half = 1 /\ tx = <<>> /\ Waiting
      /\ Awaits(FirstWait, 1) /\ Given(1, 0, 0) /\ seg_spi_pending_sem' = 0 /\ seg_spi_pending_sem' \in 0 .. Tokens
      /\ at # "data"
  BY <1>1, CaseKeeps
<1>3. op = "read"
  BY <1>2 DEF FinalState
<1>4. task = "wait" /\ u2e = "wait" /\ segcp = "wait"
  BY <1>2 DEF Waiting, Places
<1>5. Ready
  BY <1>2, <1>3, <1>4, ProgramIs DEF Echoes
<1> DEFINE n == e2u_size
           q == SubSeq(data_buffer, 1, n + 4)
<1>6. n \in 1 .. DATA_BUF_SIZE /\ n \in Nat /\ n >= 1 /\ n <= DATA_BUF_SIZE /\ DATA_BUF_SIZE \in Nat
  BY <1>5, SpiConstantsAre DEF Ready
<1>7. Push(q) /\ task' = "data"
  BY <1>6 DEF SlaveDataWrite
<1>8. q \in Bytes /\ Len(q) = n + 4 /\ \A i \in 1 .. n + 4 : q[i] = FrameByte(sent, n, i)
  <2>1. data_buffer \in Bytes /\ Len(data_buffer) >= DATA_BUF_SIZE + 4 /\ Len(data_buffer) \in Nat
    BY NoBytes DEF SpiInv, Types, BufferTypes, Room
  <2>2. \A i \in 1 .. n + 4 : data_buffer[i] \in Byte
    BY <1>6, <2>1, ByteAt
  <2> HIDE DEF n
  <2>3. 1 \in Nat /\ n + 4 \in Nat /\ 1 <= n + 4 /\ n + 4 - 1 + 1 = n + 4
    BY <1>6
  <2>4. q \in Bytes /\ Len(q) = n + 4 /\ \A i \in 1 .. n + 4 : q[i] = data_buffer[1 + i - 1]
    BY <2>2, <2>3, PartOf
  <2>5. \A i \in 1 .. n + 4 : data_buffer[1 + i - 1] = FrameByte(sent, n, i)
    BY <1>5, <1>6 DEF Ready, n
  <2> QED BY <2>4, <2>5
<1> HIDE DEF q
<1>9. tx' = q /\ rx' = <<>> /\ rx' \in Bytes /\ Len(rx') = 0
  BY <1>2, <1>7, <1>8, Pushing
<1>10. UNCHANGED <<taskless, trig, irq, int, s, e2u_size, g_send_buf, data_buffer, atcmds>> /\ timer' = FALSE
  BY DEF SlaveDataWrite
<1>11. inbuf = <<>>
  BY <1>2, <1>3 DEF Collected, Asks
<1>12. InFrame(sent, e2u_size)'
  <2>1. UNCHANGED <<op, at, out, half, inbuf, sent, e2u_size>> /\ FirstWait' = FirstWait
    BY <1>10 DEF taskless, master, seg, FirstWait
  <2>2. Awaits(FirstWait, 1)'
    BY <1>2, <2>1 DEF Awaits
  <2>3. Portion(sent, e2u_size, e2u_size + 4 - Len(tx), tx)'
    <3>1. n + 4 - Len(tx') = 0
      BY <1>6, <1>8, <1>9
    <3>2. \A i \in 1 .. Len(q) : q[i] = FrameByte(sent, n, 0 + i)
      BY <1>6, <1>8
    <3> QED BY <1>9, <2>1, <3>1, <3>2 DEF Portion, FrameByte
  <2> QED BY <1>6, <1>8, <1>9, <1>11, <2>1, <2>2, <2>3 DEF InFrame
<1>13. Given(0, 0, 0)' /\ Off' /\ Clear' /\ ~int' /\ Places("data", "wait", "wait")' /\ op' = "read"
  BY <1>2, <1>3, <1>4, <1>5, <1>7, <1>10
     DEF Given, Off, Clear, Places, Collected, Ready, taskless, master, others
<1>14. Types'
  <2>1. LineTypes'
    BY <1>8, <1>9, <1>10 DEF SpiInv, Types, LineTypes, Depth, taskless
  <2>2. SemTypes'
    BY <1>2, <1>10 DEF SpiInv, Types, SemTypes, taskless
  <2>3. NetTypes'
    BY <1>10 DEF SpiInv, Types, NetTypes, taskless, seg
  <2> QED BY <1>10, <2>1, <2>2, <2>3, TypesKept DEF Types, taskless, seg, atcmds, others
<1> QED BY <1>2, <1>3, <1>4, <1>7, <1>10, <1>12, <1>13, <1>14 DEF Framed

\* A write is acknowledged, and its data waited for.
LEMMA ReadAnswers ==
  ASSUME SpiInv, Undisturbed, SlaveDataRead
  PROVE  Answers' /\ Types' /\ task' = "ack" /\ op = "write" /\ half = 1
         /\ UNCHANGED <<taskless, trig, int, timer, e2u_size, data_buffer>>
<1>1. Case("read")
  BY DEF SlaveDataRead
<1>2. /\ Collected /\ "read" = FinalState /\ op # "idle" /\ half = 1 /\ tx = <<>> /\ Waiting
      /\ Awaits(FirstWait, 1) /\ Given(1, 0, 0) /\ seg_spi_pending_sem' = 0 /\ seg_spi_pending_sem' \in 0 .. Tokens
  BY <1>1, CaseKeeps
<1>3. op = "write"
  BY <1>2 DEF FinalState
<1>4. task = "wait" /\ u2e = "wait" /\ segcp = "wait" /\ FirstWait = "ack"
  BY <1>2, <1>3 DEF Waiting, Places, FirstWait
<1>5. /\ Push(Answer(SPI_ACK)) /\ task' = "ack" /\ g_send_buf' = <<>>
      /\ UNCHANGED <<taskless, trig, irq, int, s, timer, e2u_size, data_buffer, atcmds>>
  BY DEF SlaveDataRead
<1>6. tx' = Answer(SPI_ACK) /\ rx' = <<>> /\ rx' \in Bytes /\ Len(rx') = 0 /\ tx' \in Bytes
  BY <1>2, <1>5, AnswerIs, Pushing
<1>7. Acks(1)'
  BY <1>2, <1>4, <1>5, <1>6 DEF Acks, Awaits, taskless, master
<1>8. Given(0, 0, 0)' /\ Off' /\ Clear' /\ Known' /\ Places("ack", "wait", "wait")' /\ op' = "write"
  BY <1>2, <1>3, <1>4, <1>5 DEF Given, Off, Clear, Known, Places, Collected, taskless, master, others
<1>9. Types'
  <2>1. LineTypes'
    BY <1>5, <1>6 DEF SpiInv, Types, LineTypes, Depth, taskless
  <2>2. SemTypes'
    BY <1>2, <1>5 DEF SpiInv, Types, SemTypes, taskless
  <2>3. BufferTypes'
    BY <1>5 DEF SpiInv, Types, BufferTypes, Room, Bytes, atcmds
  <2> QED BY <1>5, <2>1, <2>2, <2>3, TypesKept DEF Types, taskless, seg, others
<1> QED BY <1>2, <1>3, <1>5, <1>7, <1>8, <1>9 DEF Answers

\* A command that is whole is given on, the parameter of another waited for.
LEMMA AtcmdAnswers ==
  ASSUME SpiInv, Undisturbed, Atcmd
  PROVE  /\ Answers' \/ Carrying'
         /\ Types' /\ op \in {"set", "get"} /\ segcp = "wait" /\ half = 1 /\ at # "data"
         /\ UNCHANGED <<taskless, trig, int, timer, e2u_size, data_buffer, done>>
<1>1. Case("atcmd")
  BY DEF Atcmd
<1>2. /\ Collected /\ "atcmd" = FinalState /\ op # "idle" /\ half = 1 /\ tx = <<>> /\ Waiting
      /\ Awaits(FirstWait, 1) /\ Given(1, 0, 0) /\ seg_spi_pending_sem' = 0 /\ seg_spi_pending_sem' \in 0 .. Tokens
      /\ at # "data"
  BY <1>1, CaseKeeps
<1>3. op \in {"set", "get"}
  BY <1>2 DEF FinalState, SpiInv, Types, MasterTypes
<1>4. task = "wait" /\ u2e = "wait" /\ segcp = "wait" /\ inbuf = <<>> /\ Off /\ Clear
  BY <1>2, <1>3 DEF Waiting, Places, Collected, Asks
<1>5. UNCHANGED <<taskless, trig, irq, int, s, timer, e2u_size, g_send_buf, data_buffer, done>>
  BY DEF Atcmd
<1>6. /\ s.atcmd_bytes[1] = Request[1] /\ s.atcmd_bytes[2] = Request[2]
      /\ s.atcmd_bytes[3] = Request[3] /\ s.atcmd_bytes[4] = Request[4]
  BY <1>2, <1>3 DEF Collected, Known
<1> DEFINE a == s.atcmd_bytes
<1>7. a \in [1 .. 4 -> Byte]
  BY DEF SpiInv, Types, LineTypes, Statics
<1> HIDE DEF a
<1>8. a \in Bytes /\ Len(a) = 4
  <2>1. a \in Seq(Byte)
    BY <1>7, SeqDef
  <2>2. Len(a) \in Nat /\ DOMAIN a = 1 .. Len(a) /\ DOMAIN a = 1 .. 4
    BY <1>7, <2>1, LenProperties
  <2>3. Len(a) = 4
    <3>1. 4 \in 1 .. 4 /\ 5 \notin 1 .. 4
      OBVIOUS
    <3>2. \A n \in Nat : 4 \in 1 .. n /\ 5 \notin 1 .. n => n = 4
      OBVIOUS
    <3> QED BY <2>2, <3>1, <3>2
  <2> QED BY <2>1, <2>3 DEF Bytes
<1>9. /\ SubSeq(a, 1, 2) \in Bytes /\ Len(SubSeq(a, 1, 2)) = 2
      /\ SubSeq(a, 1, 2)[1] = a[1] /\ SubSeq(a, 1, 2)[2] = a[2]
      /\ SubSeq(a, 3, 4) \in Bytes /\ Len(SubSeq(a, 3, 4)) = 2
      /\ SubSeq(a, 3, 4)[1] = a[3] /\ SubSeq(a, 3, 4)[2] = a[4]
  BY <1>7, <1>8, PartOf
<1>10. ASSUME gSEGCPREQ' \in Bytes, tx' \in Bytes, rx' \in Bytes, Len(rx') <= Depth
       PROVE  Types'
  <2>1. LineTypes'
    BY <1>5, <1>10 DEF SpiInv, Types, LineTypes, taskless
  <2>2. SemTypes'
    BY <1>2, <1>5 DEF SpiInv, Types, SemTypes, taskless
  <2>3. BufferTypes'
    BY <1>5, <1>10 DEF SpiInv, Types, BufferTypes, Room
  <2> QED BY <1>5, <2>1, <2>2, <2>3, TypesKept DEF Types, taskless, seg, others
<1>11. CASE op = "set"
  <2>1. Request = <<76, 73, 3, 0>>
    BY <1>11, RequestNow
  <2>2. a[1] = 76 /\ a[2] = 73 /\ a[3] = 3
    BY <1>6, <2>1 DEF a
  <2>3. SubSeq(a, 3, 4) # CRLF
    <3>1. CRLF[1] = 13
      BY DEF CRLF
    <3> QED BY <1>9, <2>2, <3>1
  <2>4. SubSeq(a, 1, 2) = Name
    <3>1. Len(SubSeq(a, 1, 2)) = Len(Name) /\ \A i \in 1 .. Len(SubSeq(a, 1, 2)) : SubSeq(a, 1, 2)[i] = Name[i]
      BY <1>9, <2>2 DEF Name
    <3> QED BY <1>9, <3>1, CommandsAre, SameBytes
  <2>5. gSEGCPREQ' = Name /\ Push(Answer(SPI_ACK)) /\ task' = "atack"
    BY <2>3, <2>4 DEF Atcmd, a
  <2>6. tx' = Answer(SPI_ACK) /\ rx' = <<>> /\ rx' \in Bytes /\ Len(rx') = 0 /\ tx' \in Bytes
    BY <1>2, <2>5, AnswerIs, Pushing
  <2>7. Acks(1)'
    BY <1>2, <1>5, <1>11, <2>6 DEF Acks, Awaits, FirstWait, taskless, master
  <2>8. /\ Given(0, 0, 0)' /\ Off' /\ Clear' /\ Known' /\ Places("atack", "wait", "wait")' /\ op' = "set"
    BY <1>2, <1>4, <1>5, <1>11, <2>5
       DEF Given, Off, Clear, Known, Places, Collected, Request, taskless, master, others
  <2>9. Types'
    BY <1>10, <2>5, <2>6, CommandsAre DEF Depth
  <2> QED BY <1>2, <1>3, <1>4, <1>5, <2>5, <2>7, <2>8, <2>9 DEF Answers
<1>12. CASE op = "get"
  <2>1. Request = <<76, 73, 13, 10>>
    BY <1>12, RequestNow
  <2>2. a[1] = 76 /\ a[2] = 73 /\ a[3] = 13 /\ a[4] = 10
    BY <1>6, <2>1 DEF a
  <2>3. SubSeq(a, 3, 4) = CRLF
    <3>1. CRLF \in Bytes /\ Len(CRLF) = 2 /\ CRLF[1] = 13 /\ CRLF[2] = 10
      <4>1. 13 \in Byte /\ 10 \in Byte
        BY DEF Byte
      <4>2. <<13, 10>> \in Bytes /\ Len(<<13, 10>>) = 2
        BY <4>1, FewBytes
      <4> QED BY <4>2 DEF CRLF
    <3>2. Len(SubSeq(a, 3, 4)) = Len(CRLF) /\ \A i \in 1 .. Len(SubSeq(a, 3, 4)) : SubSeq(a, 3, 4)[i] = CRLF[i]
      BY <1>9, <2>2, <3>1
    <3> QED BY <1>9, <3>1, <3>2, SameBytes
  <2>4. a = GetCommand
    <3>1. Len(GetCommand) = 4 /\ GetCommand[1] = 76 /\ GetCommand[2] = 73 /\ GetCommand[3] = 13
          /\ GetCommand[4] = 10
      BY CommandsAre
    <3>2. Len(a) = Len(GetCommand) /\ \A i \in 1 .. Len(a) : a[i] = GetCommand[i]
      BY <1>8, <2>2, <3>1
    <3> QED BY <1>8, <3>2, CommandsAre, SameBytes
  <2>5. gSEGCPREQ' = GetCommand /\ task' = "atdone" /\ UNCHANGED line
    BY <2>3, <2>4 DEF Atcmd, a
  <2>6. Awaits("low", 1)'
    BY <1>2, <1>5, <1>12 DEF Awaits, FirstWait, taskless, master
  <2>7. /\ Given(0, 0, 0)' /\ Off' /\ Clear' /\ Places("atdone", "wait", "wait")' /\ op' = "get"
        /\ tx' = <<>> /\ inbuf' = <<>>
    BY <1>2, <1>4, <1>5, <1>12, <2>5 DEF Given, Off, Clear, Places, taskless, master, others, line
  <2>8. Types'
    BY <1>10, <2>5, CommandsAre DEF SpiInv, Types, LineTypes, line
  <2> QED BY <1>2, <1>3, <1>4, <1>5, <2>5, <2>6, <2>7, <2>8 DEF Carrying
<1> QED BY <1>3, <1>11, <1>12

\* Nothing is refused, and the task finds no state it does not know.
LEMMA NoRefusal ==
  ASSUME SpiInv
  PROVE  ~Refuse /\ ~Default /\ ~Listen
<1>1. ASSUME NEW x \in {"nack", "command", "length", "dummy"} PROVE ~Case(x)
  <2>1. x # FinalState
    BY <1>1 DEF FinalState
  <2> QED BY <2>1, CaseFinds
<1>2. task # "listen"
  BY SlavePlaces
<1> QED BY <1>1, <1>2 DEF Refuse, Default, Listen

\* The answer with data has gone out.
LEMMA FrameEnds ==
  ASSUME SpiInv, NEW v, NEW n \in 1 .. DATA_BUF_SIZE, InFrame(v, n), tx = <<>>
  PROVE  at = "data" /\ want = 0 /\ Copied(v, n)
<1>1. n \in Nat /\ n >= 1 /\ Len(tx) = 0 /\ Len(inbuf) \in Nat
  <2>1. inbuf \in Bytes
    BY DEF SpiInv, Types, MasterTypes
  <2> QED BY <2>1, SpiConstantsAre, NoBytes
<1>2. ~((Awaits(FirstWait, 1) \/ at = "len") /\ Len(tx) = n + 4 /\ inbuf = <<>>)
  BY <1>1
<1>3. at = "data" /\ want = Len(tx) /\ Len(inbuf) + want = n /\ AllOf(v, inbuf)
  BY <1>1, <1>2 DEF InFrame
<1> QED BY <1>1, <1>3 DEF Copied

\* The acknowledgement of the header has: the body comes.
LEMMA AnswerEnds ==
  ASSUME SpiInv, Answers, tx = <<>>
  PROVE  \/ at = "fill" /\ want = 0 /\ half = 1 /\ acked
         \/ at = "out" /\ half = 2 /\ out = Body
<1>1. Len(tx) = 0 /\ Len(Answer(SPI_ACK)) = 4
  BY AnswerIs, NoBytes DEF SpiInv, Types, LineTypes
<1>2. tx # Answer(SPI_ACK)
  BY <1>1
<1> QED BY <1>1, <1>2 DEF Answers, Acks

\* An answer of spi_data_transfer_task has gone out.
LEMMA SentGoesOn ==
  ASSUME SpiInv, Undisturbed, TaskSent
  PROVE  /\ \/ task = "data" /\ DataSent' /\ task' = "written" /\ op = "read" /\ at = "data"
               /\ Copied(sent, e2u_size) /\ Ready
            \/ task = "ack" /\ task' = "bytes" /\ op = "write" /\ Reading'
            \/ task = "atack" /\ task' = "atbytes" /\ op = "set" /\ Reading'
         /\ Types'
         /\ UNCHANGED <<taskless, trig, irq, int, s, seg_spi_pending_sem, timer, e2u_size, g_send_buf,
                        data_buffer, atcmds>>
<1>1. /\ task \in {"data", "header", "ack", "atack", "nack"} /\ tx = <<>> /\ tx' = <<>> /\ rx' = <<>>
      /\ UNCHANGED <<taskless, trig, irq, int, s, seg_spi_pending_sem, timer, e2u_size, g_send_buf,
                     data_buffer, atcmds>>
  BY DEF TaskSent, Pushed
<1>2. task \in {"data", "ack", "atack"}
  BY <1>1, SlavePlaces
<1>3. Types'
  <2>1. rx' \in Bytes /\ Len(rx') = 0 /\ tx' \in Bytes
    BY <1>1 DEF Bytes
  <2>2. LineTypes'
    BY <1>1, <2>1 DEF SpiInv, Types, LineTypes, Depth, taskless
  <2> QED BY <1>1, <2>2, TypesKept DEF Types, taskless, seg, others, atcmds, sems
<1>4. UNCHANGED <<op, at, out, half, want, acked, inbuf, u2e, segcp, seg_u2e_sem, segcp_uart_sem, sent, handling>>
  BY <1>1 DEF taskless, master, others, seg
<1>5. CASE task = "data"
  <2>1. Framed /\ op = "read" /\ InFrame(sent, e2u_size)
    BY <1>5, SlavePlaces
  <2>2. Ready
    BY <1>5, <2>1, ProgramIs DEF Echoes
  <2>3. e2u_size \in 1 .. DATA_BUF_SIZE
    BY <2>2 DEF Ready
  <2>4. at = "data" /\ want = 0 /\ Copied(sent, e2u_size)
    BY <1>1, <2>1, <2>3, FrameEnds
  <2>5. task' = "written"
    BY <1>5 DEF TaskSent
  <2>6. DataSent'
    BY <1>1, <1>4, <2>1, <2>4, <2>5 DEF DataSent, Framed, Places, Given, Off, Clear, Copied, AllOf
  <2> QED BY <1>1, <1>3, <1>5, <2>1, <2>2, <2>4, <2>5, <2>6
<1>6. CASE task = "ack"
  <2>1. Answers /\ op = "write" /\ task' = "bytes"
    BY <1>6, SlavePlaces DEF TaskSent
  <2>2. g_send_buf = <<>> /\ u2e = "wait" /\ segcp = "wait"
    BY <1>6, <2>1 DEF Answers, Places
  <2>3. Len(inbuf) \in Nat
    BY NoBytes DEF SpiInv, Types, MasterTypes
  <2>4. Carried(inbuf, <<>>)'
    <3>1. Len(<<>>) = 0 /\ Len(rx') = 0
      BY <1>1
    <3>2. \/ at = "fill" /\ want = 0 /\ half = 1 /\ acked
          \/ at = "out" /\ half = 2 /\ out = inbuf
      BY <1>1, <2>1, AnswerEnds DEF Body
    <3>3. EndOf(inbuf, inbuf) /\ inbuf' = inbuf
      BY <1>4, <2>3 DEF EndOf
    <3>4. out = inbuf => EndOf(inbuf, out)'
      BY <1>4, <3>3 DEF EndOf
    <3> QED BY <1>4, <2>1, <2>3, <3>1, <3>2, <3>4 DEF Carried
  <2>5. Reading'
    BY <1>1, <1>4, <2>1, <2>2, <2>4 DEF Reading, Answers, Places, Given, Off, Clear, Known
  <2> QED BY <1>1, <1>3, <1>6, <2>1, <2>5
<1>7. CASE task = "atack"
  <2>1. Answers /\ op = "set" /\ task' = "atbytes"
    BY <1>7, SlavePlaces DEF TaskSent
  <2>2. gSEGCPREQ = Name /\ u2e = "wait" /\ segcp = "wait"
    BY <1>7, <2>1 DEF Answers, Places
  <2>3. Carried(SetCommand, Name)'
    <3>1. Len(Name) = 2 /\ Len(SetCommand) = 5 /\ Len(rx') = 0 /\ Len(Param) = 3
          /\ \A i \in 1 .. 2 : Name[i] = SetCommand[i]
      <4>1. SetCommand = <<76, 73, 1, 13, 10>> /\ Name = <<76, 73>> /\ Param = <<1, 13, 10>>
        BY CommandsAre
      <4>2. SetCommand[1] = 76 /\ SetCommand[2] = 73 /\ Name[1] = 76 /\ Name[2] = 73
        BY <4>1
      <4> QED BY <1>1, <4>1, <4>2
    <3>2. \/ at = "fill" /\ want = 0 /\ half = 1 /\ acked
          \/ at = "out" /\ half = 2 /\ out = Param
      BY <1>1, <2>1, AnswerEnds DEF Body
    <3>3. EndOf(SetCommand, Param)
      BY CommandsAre DEF EndOf
    <3>4. out = Param => EndOf(SetCommand, out)'
      BY <1>4, <3>3 DEF EndOf
    <3>5. Len(Name) <= Len(SetCommand) /\ \A i \in 1 .. Len(Name) : Name[i] = SetCommand[i]
      BY <3>1
    <3>6. \A i \in 1 .. Len(rx') : Len(Name) + i <= Len(SetCommand) => rx'[i] = SetCommand[Len(Name) + i]
      BY <3>1
    <3>7. CASE at = "fill"
      BY <1>4, <2>1, <3>1, <3>2, <3>5, <3>6, <3>7 DEF Carried
    <3>8. CASE at = "out"
      <4>1. half' = 2 /\ out' = Param /\ Len(Name) + Len(rx') + Len(out') = Len(SetCommand)
        <5>1. half = 2 /\ out = Param
          BY <3>2, <3>8
        <5>2. half' = 2 /\ out' = Param
          BY <1>4, <5>1
        <5>3. Len(Name) = 2 /\ Len(SetCommand) = 5 /\ Len(rx') = 0 /\ Len(out') = 3
          BY <3>1, <5>2
        <5> QED BY <5>2, <5>3
      <4> QED BY <1>4, <3>2, <3>4, <3>5, <3>6, <3>8, <4>1 DEF Carried
    <3> QED BY <3>2, <3>7, <3>8
  <2>4. gSEGCPREQ' = Name
    BY <1>1, <2>2 DEF atcmds
  <2>5. Reading'
    BY <1>1, <1>4, <2>1, <2>2, <2>3, <2>4 DEF Reading, Answers, Places, Given, Off, Clear, Known, Request
  <2> QED BY <1>1, <1>3, <1>7, <2>1, <2>5
<1> QED BY <1>2, <1>5, <1>6, <1>7

\* One core enables the interrupt: it is on.
LEMMA SwitchedOn ==
  ASSUME SpiInv, Undisturbed, SwitchOn
  PROVE  irq' = Cores
  BY TheCore, Calm DEF SwitchOn, SpiInv, Types, LineTypes

\* The task listens again.
LEMMA WrittenRests ==
  ASSUME SpiInv, Undisturbed, Written
  PROVE  Resting' /\ Types' /\ task = "written" /\ task' = "wait" /\ at = "data"
         /\ UNCHANGED <<taskless, data_buffer>> /\ e2u_size' = 0 /\ int' /\ trig' = trig
<1>1. /\ task = "written" /\ task' = "wait" /\ e2u_size' = 0 /\ s' = Goto(s, "command") /\ SwitchOn
      /\ int' = TRUE /\ trig' = trig
      /\ UNCHANGED <<taskless, line, seg_spi_pending_sem, timer, g_send_buf, data_buffer, atcmds>>
  BY DEF Written, Raise
<1>2. DataSent
  BY <1>1, SlavePlaces
<1>3. irq' = Cores
  BY <1>1, SwitchedOn
<1>4. s' \in Statics /\ s'.state = "command" /\ s'.dummy_count = s.dummy_count /\ s'.atcmd_index = s.atcmd_index
  BY <1>1, GotoField DEF SpiInv, Types, LineTypes, SameCounts, SpiStates
<1>5. UNCHANGED <<op, at, out, half, want, acked, inbuf, u2e, segcp, seg_u2e_sem, segcp_uart_sem, handling, rx, tx>>
  BY <1>1 DEF taskless, master, others, line
<1>6. Types'
  <2>1. LineTypes'
    BY <1>3, <1>4, <1>5 DEF SpiInv, Types, LineTypes
  <2>2. SizeTypes'
    <3>1. SizeTypes /\ 0 \in 0 .. DATA_BUF_SIZE
      BY SpiConstantsAre DEF SpiInv, Types
    <3>2. e2u_size' \in 0 .. DATA_BUF_SIZE
      BY <1>1, <3>1
    <3>3. u2e_size' \in 0 .. DATA_BUF_SIZE /\ ulen' \in Nat
      BY <1>1, <3>1 DEF SizeTypes, taskless, others
    <3> QED BY <3>2, <3>3 DEF SizeTypes
  <2>3. NetTypes'
    BY <1>1 DEF SpiInv, Types, NetTypes, taskless, seg
  <2> QED BY <1>1, <2>1, <2>2, <2>3, TypesKept DEF Types, taskless, seg, atcmds, sems
<1>7. Resting'
  BY <1>1, <1>2, <1>3, <1>4, <1>5
     DEF DataSent, Resting, Waiting, Places, Given, Off, On, Fresh, Clear
<1> QED BY <1>1, <1>2, <1>6, <1>7 DEF DataSent

\* The body of the exchange, and how many bytes of it there are.
LEMMA BodyIs ==
  ASSUME SpiInv, Undisturbed
  PROVE  /\ inbuf \in Bytes /\ Len(inbuf) \in Nat
         /\ op = "write" => Len(inbuf) \in 1 .. DATA_BUF_SIZE /\ Len(inbuf) >= 1
         /\ SetCommand \in Bytes /\ Len(SetCommand) = 5 /\ Len(Param) = 3
<1>1. inbuf \in Bytes /\ Len(inbuf) \in Nat
  BY NoBytes DEF SpiInv, Types, MasterTypes
<1>2. Len(SetCommand) = 5 /\ Len(Param) = 3
  <2>1. SetCommand = <<76, 73, 1, 13, 10>> /\ Param = <<1, 13, 10>>
    BY CommandsAre
  <2> QED BY <2>1
<1>3. op = "write" => Len(inbuf) \in 1 .. DATA_BUF_SIZE
  BY PacketInHand
<1> QED BY <1>1, <1>2, <1>3, CommandsAre, SpiConstantsAre

\* One byte of the body more in the slave's hands.
LEMMA CarriedMore ==
  ASSUME SpiInv, NEW b \in Bytes, NEW bs \in Bytes, Carried(b, bs), Len(bs) < Len(b), rx # <<>>,
         NEW c, c = Append(bs, Head(rx)), rx' = Tail(rx), UNCHANGED <<op, at, out, half, want, acked>>
  PROVE  Carried(b, c)' /\ c \in Bytes
         /\ Tail(rx) \in Bytes /\ Len(Tail(rx)) <= Len(rx) /\ Len(rx) \in Nat /\ Len(Tail(rx)) \in Nat
<1>1. rx \in Bytes
  BY DEF SpiInv, Types, LineTypes
<1>2. /\ Len(rx) \in Nat /\ Len(rx) >= 1 /\ Head(rx) \in Byte /\ Head(rx) = rx[1]
      /\ Tail(rx) \in Bytes /\ Len(Tail(rx)) = Len(rx) - 1
      /\ \A i \in 1 .. Len(rx) - 1 : Tail(rx)[i] = rx[i + 1]
  BY <1>1, OneLess
<1>3. /\ c \in Bytes /\ Len(c) = Len(bs) + 1 /\ Len(bs) \in Nat /\ c[Len(bs) + 1] = Head(rx)
      /\ \A i \in 1 .. Len(bs) : c[i] = bs[i]
  BY <1>2, OneMore
<1>4. Len(b) \in Nat /\ out \in Bytes /\ Len(out) \in Nat
  BY NoBytes DEF SpiInv, Types, MasterTypes
<1>5. Head(rx) = b[Len(bs) + 1]
  <2>1. 1 \in 1 .. Len(rx) /\ Len(bs) + 1 <= Len(b)
    BY <1>2, <1>3, <1>4
  <2> QED BY <1>2, <2>1 DEF Carried
<1>6. Len(c) <= Len(b) /\ \A i \in 1 .. Len(c) : c[i] = b[i]
  <2>1. \A i \in 1 .. Len(bs) : c[i] = b[i]
    BY <1>3 DEF Carried
  <2> QED BY <1>3, <1>4, <1>5, <2>1
<1>7. \A i \in 1 .. Len(rx') : Len(c) + i <= Len(b) => rx'[i] = b[Len(c) + i]
  <2> SUFFICES ASSUME NEW i \in 1 .. Len(rx) - 1, Len(bs) + 1 + i <= Len(b)
               PROVE  rx[i + 1] = b[Len(bs) + 1 + i]
    BY <1>2, <1>3
  <2>1. i + 1 \in 1 .. Len(rx) /\ Len(bs) + (i + 1) = Len(bs) + 1 + i
    BY <1>2, <1>3
  <2> QED BY <2>1 DEF Carried
<1>8. \/ at = "out" /\ half = 2 /\ EndOf(b, out) /\ Len(c) + Len(rx') + Len(out) = Len(b)
      \/ at = "ack" /\ half = 2 /\ Len(c) + Len(rx') >= Len(b)
  <2>1. Len(c) + Len(rx') = Len(bs) + Len(rx)
    BY <1>2, <1>3
  <2> QED BY <1>2, <2>1 DEF Carried
<1>9. EndOf(b, out) => EndOf(b, out)'
  BY DEF EndOf
<1>10. Carried(b, c)'
  BY <1>6, <1>7, <1>8, <1>9 DEF Carried
<1> QED BY <1>2, <1>3, <1>10

\* The whole body.
LEMMA CarriedAll ==
  ASSUME SpiInv, NEW b \in Bytes, NEW bs \in Bytes, Carried(b, bs), Len(bs) = Len(b), Len(b) >= 1,
         op \in {"write", "set"}, op = "set" => Len(b) = 5
  PROVE  bs = b /\ Awaits("ack", 2)
<1>1. bs = b
  BY SameBytes DEF Carried
<1>2. Len(b) \in Nat /\ rx \in Bytes /\ Len(rx) \in Nat /\ out \in Bytes /\ Len(out) \in Nat
      /\ (out = <<>> <=> Len(out) = 0)
  BY NoBytes DEF SpiInv, Types, MasterTypes, LineTypes
<1>3. ~((op = "write" => Len(bs) = 0) /\ (op = "set" => Len(bs) = 2))
  <2>1. Len(b) \in Nat /\ Len(bs) # 0
    BY <1>2
  <2>2. CASE op = "write"
    BY <2>1, <2>2
  <2>3. CASE op = "set"
    <3>1. Len(bs) = 5
      BY <2>3
    <3> QED BY <2>3, <3>1
  <2> QED BY <2>2, <2>3
<1>4. at = "out" => out = <<>>
  BY <1>2 DEF Carried
<1>5. (at = "out" \/ at = "ack") /\ half = 2
  BY <1>3 DEF Carried
<1> QED BY <1>1, <1>4, <1>5 DEF Awaits

\* A byte of the data, and of the parameter.
LEMMA ReadByteReads ==
  ASSUME SpiInv, Undisturbed, ReadByte
  PROVE  Reading' /\ Types' /\ op = "write" /\ task = "bytes"
         /\ UNCHANGED <<taskless, trig, int, task, timer, e2u_size, data_buffer, atcmds>>
<1>1. /\ task = "bytes" /\ Len(g_send_buf) < s.data_length /\ rx # <<>>
      /\ g_send_buf' = Append(g_send_buf, Head(rx)) /\ rx' = Tail(rx)
      /\ UNCHANGED <<taskless, trig, tx, irq, int, s, seg_spi_pending_sem, task, timer, e2u_size,
                     data_buffer, atcmds>>
  BY DEF ReadByte
<1>2. Reading /\ op = "write"
  BY <1>1, SlavePlaces
<1>3. s.data_length = Len(inbuf) /\ Carried(inbuf, g_send_buf) /\ Places("bytes", "wait", "wait")
  BY <1>2 DEF Reading, Known
<1>4. inbuf \in Bytes /\ g_send_buf \in Bytes
  BY DEF SpiInv, Types, MasterTypes, BufferTypes
<1>5. PICK b \in Bytes, bs \in Bytes,
          c \in {Append(g_send_buf, Head(rx))} : b = inbuf /\ bs = g_send_buf
  BY <1>4
<1>6. UNCHANGED <<op, at, out, half, want, acked, inbuf, u2e, segcp, seg_u2e_sem, segcp_uart_sem, handling>>
  BY <1>1 DEF taskless, master, others
<1>7. /\ Carried(b, c)' /\ c \in Bytes
      /\ Tail(rx) \in Bytes /\ Len(Tail(rx)) <= Len(rx) /\ Len(rx) \in Nat /\ Len(Tail(rx)) \in Nat
  BY <1>1, <1>3, <1>5, <1>6, CarriedMore
<1>8. Carried(inbuf, g_send_buf)'
  <2>1. inbuf' = b /\ g_send_buf' = c
    BY <1>1, <1>5, <1>6
  <2> QED BY <1>7, <2>1 DEF Carried
<1>9. Types'
  <2>1. LineTypes'
    BY <1>1, <1>7 DEF SpiInv, Types, LineTypes, Depth, taskless
  <2>2. BufferTypes'
    BY <1>1, <1>5, <1>7 DEF SpiInv, Types, BufferTypes, Room, atcmds
  <2> QED BY <1>1, <2>1, <2>2, TypesKept DEF Types, taskless, seg, others, sems
<1>10. Reading'
  BY <1>1, <1>2, <1>3, <1>6, <1>8 DEF Reading, Places, Given, Off, Clear, Known
<1> QED BY <1>1, <1>2, <1>9, <1>10

\* The size a command has in its header.
LEMMA CommandSizeIs ==
  ASSUME SpiInv, Known, op = "set"
  PROVE  atcmd_size = 3
<1>1. Request = <<76, 73, 3, 0>>
  BY RequestNow
<1> DEFINE a == s.atcmd_bytes
<1>2. a[3] = 3 /\ a[4] = 0
  BY <1>1 DEF Known
<1>3. a \in [1 .. 4 -> Byte]
  BY DEF SpiInv, Types, LineTypes, Statics
<1> HIDE DEF a
<1>4. SubSeq(a, 3, 4)[1] = a[3] /\ SubSeq(a, 3, 4)[2] = a[4]
  BY <1>3, PartOf
<1> QED BY <1>2, <1>4 DEF atcmd_size, Value, a

\* A byte of the parameter is read.
LEMMA ReadCommandByteReads ==
  ASSUME SpiInv, Undisturbed, ReadCommandByte
  PROVE  Reading' /\ Types' /\ op = "set" /\ task = "atbytes" /\ u2e = "wait" /\ segcp = "wait"
         /\ UNCHANGED <<taskless, trig, int, task, timer, e2u_size, data_buffer, done>>
<1>1. /\ task = "atbytes" /\ Len(gSEGCPREQ) < atcmd_size + 2 /\ rx # <<>>
      /\ gSEGCPREQ' = Append(gSEGCPREQ, Head(rx)) /\ rx' = Tail(rx)
      /\ UNCHANGED <<taskless, trig, tx, irq, int, s, seg_spi_pending_sem, task, timer, e2u_size,
                     g_send_buf, data_buffer, done>>
  BY DEF ReadCommandByte
<1>2. Reading /\ op = "set"
  BY <1>1, SlavePlaces
<1>3. Known /\ Carried(SetCommand, gSEGCPREQ) /\ Places("atbytes", "wait", "wait")
  BY <1>2 DEF Reading
<1>4. gSEGCPREQ \in Bytes /\ Len(gSEGCPREQ) < Len(SetCommand) /\ SetCommand \in Bytes
  <2>1. gSEGCPREQ \in Bytes
    BY DEF SpiInv, Types, BufferTypes
  <2>2. SetCommand \in Bytes /\ Len(SetCommand) = 5
    BY BodyIs
  <2>3. atcmd_size = 3
    BY <1>2, <1>3, CommandSizeIs
  <2> QED BY <1>1, <2>1, <2>2, <2>3
<1>5. PICK bs \in Bytes, c \in {Append(gSEGCPREQ, Head(rx))} : bs = gSEGCPREQ
  BY <1>4
<1>6. UNCHANGED <<op, at, out, half, want, acked, inbuf, u2e, segcp, seg_u2e_sem, segcp_uart_sem, handling>>
  BY <1>1 DEF taskless, master, others
<1>7. /\ Carried(SetCommand, c)' /\ c \in Bytes
      /\ Tail(rx) \in Bytes /\ Len(Tail(rx)) <= Len(rx) /\ Len(rx) \in Nat /\ Len(Tail(rx)) \in Nat
  BY <1>1, <1>3, <1>4, <1>5, <1>6, CarriedMore
<1>8. Carried(SetCommand, gSEGCPREQ)'
  <2>1. gSEGCPREQ' = c
    BY <1>1, <1>5
  <2> QED BY <1>7, <2>1 DEF Carried
<1>9. Types'
  <2>1. LineTypes'
    BY <1>1, <1>7 DEF SpiInv, Types, LineTypes, Depth, taskless
  <2>2. BufferTypes'
    BY <1>1, <1>5, <1>7 DEF SpiInv, Types, BufferTypes, Room
  <2> QED BY <1>1, <2>1, <2>2, TypesKept DEF Types, taskless, seg, others, sems
<1>10. Known'
  BY <1>1, <1>3, <1>6 DEF Known, Request
<1>11. Reading'
  BY <1>1, <1>2, <1>3, <1>6, <1>8, <1>10 DEF Reading, Places, Given, Off, Clear
<1> QED BY <1>1, <1>2, <1>3, <1>9, <1>11 DEF Places

\* The data is handed to seg_u2e_task, the command to segcp_serial_task.
LEMMA DataReadCarries ==
  ASSUME SpiInv, Undisturbed, DataRead
  PROVE  Carrying' /\ Types' /\ op = "write" /\ task = "bytes" /\ task' = "wait" /\ u2e = "wait"
         /\ half = 2 /\ at # "fill"
         /\ UNCHANGED <<master, trig, int, u2e, segcp, timer, resetting, e2u_size, data_buffer, seg, atcmds, load>>
<1>1. /\ task = "bytes" /\ Len(g_send_buf) = s.data_length
      /\ u2e_size' = s.data_length /\ seg_u2e_sem' = Give(seg_u2e_sem)
      /\ s' = Goto(s, "command") /\ task' = "wait"
      /\ UNCHANGED <<load, master, trig, line, irq, handling, int, seg_spi_pending_sem, segcp_uart_sem,
                     others, timer, resetting, e2u_size, g_send_buf, data_buffer, seg, atcmds>>
  BY DEF DataRead
<1>2. Reading /\ op = "write"
  BY <1>1, SlavePlaces
<1>3. s.data_length = Len(inbuf) /\ Carried(inbuf, g_send_buf) /\ Places("bytes", "wait", "wait")
  BY <1>2 DEF Reading, Known
<1>4. inbuf \in Bytes /\ g_send_buf \in Bytes /\ Len(inbuf) >= 1 /\ Len(inbuf) \in 1 .. DATA_BUF_SIZE
      /\ Len(inbuf) \in Nat
  BY <1>2, BodyIs DEF SpiInv, Types, BufferTypes
<1>5. g_send_buf = inbuf /\ Awaits("ack", 2)
  BY <1>1, <1>2, <1>3, <1>4, CarriedAll
<1>6. UNCHANGED <<op, at, out, half, want, acked, inbuf, u2e, segcp, segcp_uart_sem, handling, rx, tx, ulen>>
  BY <1>1 DEF master, others, line
<1>7. s' \in Statics /\ s'.state = "command" /\ s'.dummy_count = s.dummy_count /\ s'.atcmd_index = s.atcmd_index
  BY <1>1, GotoField DEF SpiInv, Types, LineTypes, SameCounts, SpiStates
<1>8. seg_u2e_sem' = 1 /\ u2e_size' = Len(inbuf)
  BY <1>1, <1>2, <1>3, SpiConstantsAre DEF Reading, Given, Give
<1>9. Carrying'
  BY <1>1, <1>2, <1>3, <1>5, <1>6, <1>7, <1>8
     DEF Carrying, Reading, Awaits, Waiting, Places, Given, Off, Clear
<1>10. Types'
  <2>1. LineTypes'
    BY <1>1, <1>6, <1>7 DEF SpiInv, Types, LineTypes
  <2>2. SemTypes'
    BY <1>1, <1>8, SpiConstantsAre DEF SpiInv, Types, SemTypes
  <2>3. SizeTypes'
    <3>1. Len(inbuf) \in 0 .. DATA_BUF_SIZE
      BY <1>4, SpiConstantsAre
    <3> QED BY <1>1, <1>6, <1>8, <3>1 DEF SpiInv, Types, SizeTypes
  <2> QED BY <1>1, <2>1, <2>2, <2>3, TypesKept DEF Types, seg, atcmds
<1> QED BY <1>1, <1>2, <1>3, <1>5, <1>6, <1>9, <1>10 DEF Awaits, Places

\* A command has been read, and is given to segcp_serial_task.
LEMMA CommandReadCarries ==
  ASSUME SpiInv, Undisturbed, CommandRead
  PROVE  Carrying' /\ Types' /\ op \in {"set", "get"} /\ segcp = "wait" /\ at # "data"
         /\ UNCHANGED <<master, trig, int, segcp, timer, resetting, e2u_size, u2e_size, data_buffer, seg,
                        atcmds, load>>
<1>1. /\ \/ task = "atdone"
         \/ task = "atbytes" /\ Len(gSEGCPREQ) = atcmd_size + 2
      /\ s' = Goto(s, "command") /\ segcp_uart_sem' = Give(segcp_uart_sem) /\ task' = "wait"
      /\ UNCHANGED <<load, master, trig, line, irq, handling, int, seg_spi_pending_sem, seg_u2e_sem, others,
                     timer, resetting, e2u_size, u2e_size, g_send_buf, data_buffer, seg, atcmds>>
  BY DEF CommandRead
<1>2. UNCHANGED <<op, at, out, half, want, acked, inbuf, u2e, segcp, seg_u2e_sem, handling, rx, tx, ulen, gSEGCPREQ>>
  BY <1>1 DEF master, others, line, atcmds
<1>3. s' \in Statics /\ s'.state = "command" /\ s'.dummy_count = s.dummy_count /\ s'.atcmd_index = s.atcmd_index
  BY <1>1, GotoField DEF SpiInv, Types, LineTypes, SameCounts, SpiStates
<1>4. ASSUME task = "atdone"
      PROVE  Carrying' /\ segcp_uart_sem' = 1 /\ op \in {"set", "get"} /\ segcp = "wait" /\ at # "data"
  <2>1. Carrying /\ op = "get"
    BY <1>4, SlavePlaces
  <2>2. Awaits("low", 1) /\ gSEGCPREQ = GetCommand /\ inbuf = <<>> /\ Places("atdone", "wait", "wait")
        /\ Given(0, 0, 0)
    BY <1>4, <2>1 DEF Carrying, Waiting, Places
  <2>3. segcp_uart_sem' = 1
    BY <1>1, <2>2, SpiConstantsAre DEF Given, Give
  <2>4. Carrying'
    BY <1>1, <1>2, <1>3, <2>1, <2>2, <2>3 DEF Carrying, Awaits, Waiting, Places, Given, Off, Clear
  <2> QED BY <2>1, <2>2, <2>3, <2>4 DEF Awaits, Places
<1>5. ASSUME task = "atbytes"
      PROVE  Carrying' /\ segcp_uart_sem' = 1 /\ op \in {"set", "get"} /\ segcp = "wait" /\ at # "data"
  <2>1. Reading /\ op = "set"
    BY <1>5, SlavePlaces
  <2>2. Known /\ Carried(SetCommand, gSEGCPREQ) /\ Places("atbytes", "wait", "wait") /\ Given(0, 0, 0)
    BY <2>1 DEF Reading
  <2>3. gSEGCPREQ \in Bytes /\ Len(gSEGCPREQ) = Len(SetCommand) /\ SetCommand \in Bytes /\ Len(SetCommand) = 5
    <3>1. gSEGCPREQ \in Bytes
      BY DEF SpiInv, Types, BufferTypes
    <3>2. SetCommand \in Bytes /\ Len(SetCommand) = 5
      BY BodyIs
    <3>3. atcmd_size = 3
      BY <2>1, <2>2, CommandSizeIs
    <3> QED BY <1>1, <1>5, <3>1, <3>2, <3>3
  <2>4. Len(SetCommand) >= 1
    BY <2>3
  <2>5. gSEGCPREQ = SetCommand /\ Awaits("ack", 2)
    BY <2>1, <2>2, <2>3, <2>4, CarriedAll
  <2>6. segcp_uart_sem' = 1
    BY <1>1, <2>2, SpiConstantsAre DEF Given, Give
  <2>7. Carrying'
    BY <1>1, <1>2, <1>3, <2>1, <2>2, <2>5, <2>6
       DEF Carrying, Reading, Awaits, Waiting, Places, Given, Off, Clear
  <2> QED BY <2>1, <2>2, <2>5, <2>6, <2>7 DEF Awaits, Places
<1>6. segcp_uart_sem' = 1
  BY <1>1, <1>4, <1>5
<1>7. Types'
  <2>1. LineTypes'
    BY <1>1, <1>2, <1>3 DEF SpiInv, Types, LineTypes
  <2>2. SemTypes'
    BY <1>1, <1>6, SpiConstantsAre DEF SpiInv, Types, SemTypes
  <2> QED BY <1>1, <2>1, <2>2, TypesKept DEF Types, seg, atcmds, others
<1> QED BY <1>1, <1>2, <1>4, <1>5, <1>7

-----------------------------------------------------------------------------
(* SpiSlave: the other tasks, the packets and the timer.                    *)

\* seg_u2e_task takes the data.
LEMMA TakeDataCarries ==
  ASSUME SpiInv, Undisturbed, TakeData
  PROVE  Carrying' /\ Types' /\ op = "write" /\ Waiting /\ u2e' = "send" /\ half = 2 /\ at # "fill"
         /\ UNCHANGED <<u2eless, net>>
<1>1. /\ u2e = "wait" /\ seg_u2e_sem > 0 /\ seg_u2e_sem' = seg_u2e_sem - 1
      /\ IF u2e_size # 0 /\ conn THEN u2e' = "send" /\ ulen' = u2e_size
                                 ELSE UNCHANGED <<u2e, ulen>>
      /\ UNCHANGED <<u2eless, line, irq, u2e_size, net>>
  BY DEF TakeData
<1>2. Carrying /\ op = "write" /\ Waiting
  BY <1>1, OtherPlaces
<1>3. Awaits("ack", 2) /\ u2e_size = Len(inbuf) /\ Given(0, 1, 0) /\ g_send_buf = inbuf /\ s.state = "command"
  BY <1>1, <1>2 DEF Carrying, Given, Waiting, Places
<1>4. Len(inbuf) >= 1 /\ Len(inbuf) \in Nat /\ conn
  BY <1>2, BodyIs DEF SpiInv, Types
<1>5. u2e' = "send" /\ ulen' = Len(inbuf) /\ seg_u2e_sem' = 0
  BY <1>1, <1>3, <1>4 DEF Given
<1>6. UNCHANGED <<op, at, out, half, want, acked, inbuf, segcp, task, seg_spi_pending_sem, segcp_uart_sem,
                  handling, irq, rx, tx, s, g_send_buf, u2e_size>>
  BY <1>1 DEF master, line, u2eless
<1>7. Carrying'
  BY <1>2, <1>3, <1>5, <1>6 DEF Carrying, Awaits, Waiting, Places, Given, Off, Clear
<1>8. Types'
  <2>1. SemTypes'
    BY <1>5, <1>6, SpiConstantsAre DEF SpiInv, Types, SemTypes
  <2>2. SizeTypes'
    <3>1. e2u_size' \in 0 .. DATA_BUF_SIZE /\ u2e_size' \in 0 .. DATA_BUF_SIZE
      BY <1>1 DEF SpiInv, Types, SizeTypes, u2eless
    <3>2. ulen' \in Nat
      BY <1>4, <1>5
    <3> QED BY <3>1, <3>2 DEF SizeTypes
  <2> QED BY <1>1, <1>6, <2>1, <2>2, TypesKept DEF Types, u2eless, atcmds
<1> QED BY <1>1, <1>2, <1>3, <1>5, <1>7, <1>8 DEF Awaits

\* u2e_size after the data has been given away.
LEMMA SizesEven ==
  ASSUME NEW n \in 0 .. 9
  PROVE  (n + 65536 - n) % 65536 = 0
  OBVIOUS

\* The data goes to the socket, and the answer out.
LEMMA SendDataAnswers ==
  ASSUME SpiInv, Undisturbed, SendData
  PROVE  Answered' /\ Types' /\ op = "write" /\ task = "wait" /\ half = 2 /\ at # "fill" /\ net' = Append(net, inbuf)
         /\ u2e' = "ack" /\ inbuf \in Bytes /\ u2e = "send" /\ UNCHANGED u2eless
<1>1. /\ u2e = "send" /\ net' = Append(net, SubSeq(g_send_buf, 1, ulen))
      /\ u2e_size' = (u2e_size + 65536 - ulen) % 65536
      /\ Push(Answer(SPI_ACK)) /\ u2e' = "ack"
      /\ UNCHANGED <<u2eless, irq, seg_u2e_sem, ulen>>
  BY DEF SendData
<1>2. Carrying /\ op = "write"
  BY <1>1, OtherPlaces
<1>3. /\ Awaits("ack", 2) /\ u2e_size = Len(inbuf) /\ Given(0, 0, 0) /\ g_send_buf = inbuf /\ s.state = "command"
      /\ Places("wait", "send", "wait") /\ ulen = Len(inbuf) /\ tx = <<>> /\ Off /\ Clear
  BY <1>1, <1>2 DEF Carrying, Waiting, Places
<1>4. inbuf \in Bytes /\ Len(inbuf) \in 0 .. 9
  <2>1. inbuf \in Bytes /\ Len(inbuf) \in 1 .. DATA_BUF_SIZE
    BY <1>2, BodyIs
  <2>2. \A n \in 1 .. DATA_BUF_SIZE : n \in 0 .. 9
    BY SpiConstantsAre
  <2> QED BY <2>1, <2>2
<1>5. SubSeq(g_send_buf, 1, ulen) = inbuf
  BY <1>3, <1>4, SubSeqFull DEF Bytes
<1>6. u2e_size' = 0
  BY <1>1, <1>3, <1>4, SizesEven
<1>7. tx' = Answer(SPI_ACK) /\ rx' = <<>> /\ rx' \in Bytes /\ Len(rx') = 0 /\ tx' \in Bytes
  BY <1>1, <1>3, AnswerIs, Pushing
<1>8. UNCHANGED <<op, at, out, half, want, acked, inbuf, segcp, task, seg_spi_pending_sem, segcp_uart_sem,
                  handling, irq, s, seg_u2e_sem>>
  BY <1>1 DEF master, u2eless
<1>9. Acks(2)'
  BY <1>3, <1>7, <1>8 DEF Acks, Awaits
<1>10. Answered'
  BY <1>1, <1>2, <1>3, <1>8, <1>9 DEF Answered, Places, Given, Off, Fresh, Clear
<1>11. Types'
  <2>1. LineTypes'
    BY <1>7, <1>8 DEF SpiInv, Types, LineTypes, Depth
  <2>2. SizeTypes'
    <3>1. e2u_size' \in 0 .. DATA_BUF_SIZE /\ ulen' \in Nat
      BY <1>1 DEF SpiInv, Types, SizeTypes, u2eless
    <3>2. u2e_size' \in 0 .. DATA_BUF_SIZE
      BY <1>6, SpiConstantsAre
    <3> QED BY <3>1, <3>2 DEF SizeTypes
  <2>3. NetTypes'
    <3>1. net' \in Seq(Bytes)
      <4>1. net \in Seq(Bytes) /\ net' = Append(net, inbuf) /\ inbuf \in Bytes
        BY <1>1, <1>4, <1>5 DEF SpiInv, Types, NetTypes
      <4> QED BY <4>1, AppendProperties
    <3> QED BY <1>1, <3>1 DEF SpiInv, Types, NetTypes, u2eless
  <2> QED BY <1>1, <1>8, <2>1, <2>2, <2>3, TypesKept DEF Types, u2eless, atcmds, sems
<1> QED BY <1>1, <1>2, <1>3, <1>4, <1>5, <1>10, <1>11 DEF Awaits, Places

\* An answer that has gone out leaves the slave listening; the master has read it,
\* or has begun to ask again.
LEMMA AnsweredRests ==
  ASSUME SpiInv, Undisturbed, Answered, tx = <<>>, tx' = <<>>, rx' = <<>>, irq' = Cores,
         Places("wait", "wait", "wait")', UNCHANGED <<master, s, handling, sems>>
  PROVE  Listening' \/ Resting'
<1>1. UNCHANGED <<op, at, out, half, want, acked, inbuf>> /\ Given(0, 0, 0)' /\ On' /\ Fresh' /\ Waiting'
  BY DEF Answered, master, sems, Given, On, Off, Fresh, Clear, Waiting
<1>2. Len(tx) = 0 /\ Len(Answer(SPI_ACK)) = 4
  BY AnswerIs, NoBytes DEF SpiInv, Types, LineTypes
<1>3. Acks(2) => at = "fill" /\ half = 2 /\ acked /\ want = 0
  BY <1>2 DEF Acks
<1>4. CASE op \in {"write", "set", "idle"} /\ at # "out"
  BY <1>1, <1>3, <1>4 DEF Answered, Resting
<1>5. CASE op = "idle"
  BY <1>1, <1>5 DEF Resting
<1>6. CASE op \in {"read", "set", "get"} /\ at = "out" /\ half = 1 /\ out = Request /\ inbuf = <<>>
  <2>1. Request \in Bytes /\ Len(Request) = 4 /\ Request' = Request
    BY <1>1, RequestNow DEF Request
  <2>2. EndOf(Request, out)'
    <3>1. out' = Request /\ Len(out') = 4
      BY <1>1, <1>6, <2>1
    <3>2. \A i \in 1 .. 4 : out'[i] = Request'[4 - 4 + i]
      BY <2>1, <3>1
    <3> QED BY <2>1, <3>1, <3>2 DEF EndOf
  <2>3. Asks'
    BY <1>1, <1>6, <2>2 DEF Asks
  <2>4. Len(rx') = 0
    OBVIOUS
  <2>5. Follows(rx, 0)'
    BY <2>4 DEF Follows
  <2>6. Len(rx') + Len(out') = 4
    BY <1>1, <1>6, <2>1, <2>4
  <2> QED BY <1>1, <1>6, <2>3, <2>5, <2>6 DEF Listening
<1> QED BY <1>3, <1>4, <1>5, <1>6 DEF Answered

\* The answer has gone out, and the interrupt is on again.
LEMMA DataAckedRests ==
  ASSUME SpiInv, Undisturbed, DataAcked
  PROVE  (Listening' \/ Resting') /\ Types' /\ u2e = "ack" /\ u2e' = "wait" /\ task = "wait" /\ segcp = "wait"
         /\ UNCHANGED <<u2eless, net>>
<1>1. /\ u2e = "ack" /\ tx = <<>> /\ tx' = <<>> /\ rx' = <<>> /\ SwitchOn /\ u2e' = "wait"
      /\ UNCHANGED <<u2eless, seg_u2e_sem, ulen, u2e_size, net>>
  BY DEF DataAcked, Pushed
<1>2. Answered /\ irq' = Cores
  BY <1>1, OtherPlaces, SwitchedOn
<1>3. task = "wait" /\ segcp = "wait"
  BY <1>1, <1>2 DEF Answered, Places
<1>4. Places("wait", "wait", "wait")' /\ UNCHANGED <<master, s, handling, sems>>
  BY <1>1, <1>3 DEF Places, u2eless, sems
<1>5. Listening' \/ Resting'
  BY <1>1, <1>2, <1>4, AnsweredRests
<1>6. Types'
  <2>1. rx' \in Bytes /\ Len(rx') = 0 /\ tx' \in Bytes
    BY <1>1 DEF Bytes
  <2>2. LineTypes'
    BY <1>1, <1>2, <2>1 DEF SpiInv, Types, LineTypes, Depth, u2eless
  <2> QED BY <1>1, <1>4, <2>2, TypesKept DEF Types, u2eless, atcmds
<1> QED BY <1>1, <1>3, <1>5, <1>6

\* So it is after the answer to a command.
LEMMA RepliedRests ==
  ASSUME SpiInv, Undisturbed, Replied
  PROVE  /\ Listening' \/ Resting'
         /\ Types' /\ segcp' = "wait" /\ u2e = "wait" /\ task = "wait"
         /\ segcp = "reply" => op = "get" /\ at = "data" /\ Copied(2, 1) /\ int' /\ UNCHANGED trig
         /\ segcp # "reply" => segcp = "ack" /\ UNCHANGED <<int, trig>>
         /\ UNCHANGED <<segcpless, data_buffer, done>>
<1>1. /\ segcp \in {"reply", "ack"} /\ tx = <<>> /\ tx' = <<>> /\ rx' = <<>> /\ SwitchOn /\ segcp' = "wait"
      /\ UNCHANGED <<segcpless, segcp_uart_sem, data_buffer, done>>
      /\ IF segcp = "reply" THEN int' = TRUE /\ UNCHANGED trig ELSE UNCHANGED <<int, trig>>
  BY DEF Replied, Pushed, Raise
<1>2. irq' = Cores
  BY <1>1, SwitchedOn
<1>3. task = "wait" /\ u2e = "wait"
  BY <1>1, OtherPlaces DEF Answered, Framed, Places
<1>4. Places("wait", "wait", "wait")' /\ UNCHANGED <<master, s, handling, sems>>
  BY <1>1, <1>3 DEF Places, segcpless, sems
<1>5. Types'
  <2>1. rx' \in Bytes /\ Len(rx') = 0 /\ tx' \in Bytes
    BY <1>1 DEF Bytes
  <2>2. LineTypes'
    BY <1>1, <1>2, <2>1 DEF SpiInv, Types, LineTypes, Depth, segcpless
  <2>3. NetTypes'
    BY <1>1 DEF SpiInv, Types, NetTypes, segcpless, seg
  <2> QED BY <1>1, <1>4, <2>2, <2>3, TypesKept DEF Types, segcpless, seg
<1>6. CASE segcp = "reply"
  <2>1. Framed /\ op = "get" /\ InFrame(2, 1)
    BY <1>6, OtherPlaces
  <2>2. 1 \in 1 .. DATA_BUF_SIZE
    BY SpiConstantsAre
  <2>3. at = "data" /\ want = 0 /\ Copied(2, 1)
    BY <1>1, <2>1, <2>2, FrameEnds
  <2>4. UNCHANGED <<op, at, want>>
    BY <1>1 DEF segcpless, master
  <2>5. s.state = "command"
    BY <2>1 DEF Framed
  <2>6. Resting'
    BY <1>1, <1>2, <1>4, <2>1, <2>3, <2>4, <2>5
       DEF Resting, Framed, Waiting, Given, On, Off, Fresh, Clear, sems
  <2> QED BY <1>1, <1>3, <1>5, <1>6, <2>1, <2>3, <2>6
<1>7. CASE segcp = "ack"
  <2>1. Answered
    BY <1>7, OtherPlaces
  <2>2. Listening' \/ Resting'
    BY <1>1, <1>2, <1>4, <2>1, AnsweredRests
  <2> QED BY <1>1, <1>3, <1>5, <1>7, <2>2
<1> QED BY <1>1, <1>6, <1>7

\* A header and its data, and the buffer they are copied to.
LEMMA FrameIs ==
  ASSUME NEW v, NEW n \in 0 .. 9, NEW q \in Bytes, Len(q) = n, AllOf(v, q)
  PROVE  /\ DataHeader(n) \o q \in Bytes /\ Len(DataHeader(n) \o q) = n + 4
         /\ \A j \in 1 .. n + 4 : (DataHeader(n) \o q)[j] = FrameByte(v, n, j)
<1> DEFINE h == DataHeader(n)
<1>1. h = <<177, n, 0, 255>> /\ h \in Bytes /\ Len(h) = 4
  BY DataHeaderIs
<1>2. h[1] = 177 /\ h[2] = n /\ h[3] = 0 /\ h[4] = 255
  BY <1>1
<1> HIDE DEF h
<1>3. /\ h \o q \in Bytes /\ Len(h \o q) = 4 + n
      /\ \A j \in 1 .. 4 + n : (h \o q)[j] = IF j <= 4 THEN h[j] ELSE q[j - 4]
  BY <1>1, ConcatProperties DEF Bytes
<1>4. ASSUME NEW j \in 1 .. n + 4 PROVE (h \o q)[j] = FrameByte(v, n, j)
  <2>1. CASE j \in {1, 2, 3, 4}
    BY <1>2, <1>3, <2>1 DEF FrameByte, SPI_SLAVE_WRITE_LEN_CMD, SPI_DUMMY
  <2>2. CASE j >= 5
    <3>1. j - 4 \in 1 .. Len(q) /\ j \in 1 .. 4 + n /\ ~(j <= 4)
      BY <2>2
    <3>2. (h \o q)[j] = v
      BY <1>3, <3>1 DEF AllOf
    <3> QED BY <2>2, <3>2 DEF FrameByte
  <2>3. j \in {1, 2, 3, 4} \/ j >= 5
    OBVIOUS
  <2> QED BY <2>1, <2>2, <2>3
<1> QED BY <1>3, <1>4 DEF h

\* The head of the ring buffer is overwritten.
LEMMA OverIs ==
  ASSUME SpiInv, NEW q \in Bytes, Len(q) <= DATA_BUF_SIZE + 4
  PROVE  /\ Over(q) \in Bytes /\ Len(Over(q)) >= DATA_BUF_SIZE + 4
         /\ \A j \in 1 .. Len(q) : Over(q)[j] = q[j]
<1>1. data_buffer \in Bytes /\ Len(data_buffer) >= DATA_BUF_SIZE + 4 /\ Len(data_buffer) \in Nat /\ Len(q) \in Nat
      /\ DATA_BUF_SIZE \in Nat
  BY NoBytes, SpiConstantsAre DEF SpiInv, Types, BufferTypes, Room
<1> DEFINE m == Len(q) + 1
           n == Len(data_buffer)
           r == SubSeq(data_buffer, m, n)
<1>2. \A i \in m .. n : data_buffer[i] \in Byte
  BY <1>1, ByteAt
<1>3. m \in Int /\ n \in Int
  BY <1>1
<1>4. r \in Seq(Byte) /\ Len(r) = IF m <= n THEN n - m + 1 ELSE 0
  <2> HIDE DEF m, n
  <2> QED BY <1>2, <1>3, SubSeqProperties
<1>5. Len(r) = Len(data_buffer) - Len(q)
  BY <1>1, <1>4
<1> HIDE DEF r, m, n
<1>6. /\ q \o r \in Seq(Byte) /\ Len(q \o r) = Len(q) + Len(r)
      /\ \A j \in 1 .. Len(q) + Len(r) : (q \o r)[j] = IF j <= Len(q) THEN q[j] ELSE r[j - Len(q)]
  BY <1>4, ConcatProperties DEF Bytes
<1>7. \A j \in 1 .. Len(q) : (q \o r)[j] = q[j]
  BY <1>1, <1>5, <1>6
<1>8. Over(q) = q \o r
  BY DEF Over, r, m, n
<1> QED BY <1>1, <1>5, <1>6, <1>7, <1>8 DEF Bytes

\* A command is carried out, and answered.
LEMMA ProcessCommandAnswers ==
  ASSUME SpiInv, Undisturbed, ProcessCommand
  PROVE  /\ \/ op = "set" /\ Answered' /\ segcp' = "ack" /\ done' = SetCommand /\ UNCHANGED <<int, trig>>
            \/ op = "get" /\ Framed' /\ segcp' = "reply" /\ done' = GetCommand /\ int' = FALSE
               /\ (load.program = "at" => trig' = trig)
         /\ at # "data" /\ (half = 2 => at # "fill")
         /\ Types' /\ Waiting /\ UNCHANGED segcpless
<1>1. /\ segcp = "wait" /\ segcp_uart_sem > 0 /\ segcp_uart_sem' = segcp_uart_sem - 1
      /\ done' = gSEGCPREQ /\ UNCHANGED <<segcpless, irq>>
  BY DEF ProcessCommand
<1>2. Carrying /\ op \in {"set", "get"} /\ Waiting
  BY <1>1, OtherPlaces
<1>3. Given(0, 0, 1) /\ s.state = "command" /\ tx = <<>> /\ Off /\ Clear
  BY <1>1, <1>2 DEF Carrying, Given, Waiting, Places
<1>4. UNCHANGED <<op, at, out, half, want, acked, inbuf, u2e, task, seg_spi_pending_sem, seg_u2e_sem,
                  handling, irq, s, load>> /\ segcp_uart_sem' = 0
  BY <1>1, <1>3 DEF segcpless, master, Given
<1>5. PICK rep \in AnswersTo(gSEGCPREQ) :
        IF rep # <<>>
          THEN /\ data_buffer' = Over(DataHeader(Len(rep)) \o rep)
               /\ Push(DataHeader(Len(rep)) \o rep) /\ Lower /\ segcp' = "reply"
          ELSE /\ Push(Answer(SPI_ACK)) /\ segcp' = "ack"
               /\ UNCHANGED <<data_buffer, int, trig>>
  BY DEF ProcessCommand
<1>6. Errors = {} /\ SetCommand # GetCommand /\ GetCommand \in Bytes /\ SetCommand \in Bytes
  <2>1. SetCommand = <<76, 73, 1, 13, 10>> /\ GetCommand = <<76, 73, 13, 10>>
    BY CommandsAre
  <2>2. SetCommand[3] = 1 /\ GetCommand[3] = 13
    BY <2>1
  <2> QED BY <2>2, Calm, CommandsAre
<1>7. ASSUME data_buffer' \in Bytes, Room', tx' \in Bytes, rx' \in Bytes, Len(rx') = 0,
             int' \in BOOLEAN, trig' \in BOOLEAN
      PROVE  Types'
  <2>1. LineTypes'
    BY <1>4, <1>7 DEF SpiInv, Types, LineTypes, Depth
  <2>2. SemTypes'
    BY <1>4, SpiConstantsAre DEF SpiInv, Types, SemTypes
  <2>3. NetTypes'
    BY <1>1, <1>7 DEF SpiInv, Types, NetTypes, segcpless, seg
  <2>4. BufferTypes'
    BY <1>1, <1>7 DEF SpiInv, Types, BufferTypes, segcpless
  <2> QED BY <1>1, <2>1, <2>2, <2>3, <2>4, TypesKept DEF Types, segcpless, seg
<1>8. CASE op = "set"
  <2>1. Awaits("ack", 2) /\ gSEGCPREQ = SetCommand
    BY <1>2, <1>8 DEF Carrying
  <2>2. rep = <<>>
    BY <1>5, <1>6, <2>1 DEF AnswersTo
  <2>3. Push(Answer(SPI_ACK)) /\ segcp' = "ack" /\ UNCHANGED <<data_buffer, int, trig>>
    BY <1>5, <2>2
  <2>4. tx' = Answer(SPI_ACK) /\ rx' = <<>> /\ rx' \in Bytes /\ Len(rx') = 0 /\ tx' \in Bytes
    BY <1>3, <2>3, AnswerIs, Pushing
  <2>5. Acks(2)'
    BY <1>4, <2>1, <2>4 DEF Acks, Awaits
  <2>6. Answered'
    BY <1>2, <1>3, <1>4, <1>8, <2>3, <2>5 DEF Answered, Places, Given, Off, Fresh, Clear, Waiting
  <2>7. Types'
    <3>1. data_buffer' \in Bytes /\ Room' /\ int' \in BOOLEAN /\ trig' \in BOOLEAN
      BY <2>3 DEF SpiInv, Types, BufferTypes, NetTypes, Room
    <3> QED BY <1>7, <2>4, <3>1
  <2> QED BY <1>1, <1>2, <1>8, <2>1, <2>3, <2>6, <2>7 DEF Awaits
<1>9. CASE op = "get"
  <2>1. Awaits("low", 1) /\ gSEGCPREQ = GetCommand /\ inbuf = <<>>
    BY <1>2, <1>9 DEF Carrying
  <2>2. rep = <<2>>
    BY <1>5, <1>6, <2>1 DEF AnswersTo, StoredValue
  <2> DEFINE q == DataHeader(1) \o <<2>>
  <2>3. q \in Bytes /\ Len(q) = 5 /\ \A j \in 1 .. 5 : q[j] = FrameByte(2, 1, j)
    <3>1. <<2>> \in Bytes /\ Len(<<2>>) = 1
      <4>1. 2 \in Byte
        BY DEF Byte
      <4> QED BY <4>1, FewBytes
    <3>2. AllOf(2, <<2>>)
      BY <3>1 DEF AllOf
    <3>3. 1 \in 0 .. 9
      OBVIOUS
    <3>4. /\ q \in Bytes /\ Len(q) = 1 + 4 /\ \A j \in 1 .. 1 + 4 : q[j] = FrameByte(2, 1, j)
      BY <3>1, <3>2, <3>3, FrameIs
    <3> QED BY <3>4
  <2>4. Len(rep) = 1 /\ rep # <<>>
    BY <2>2
  <2>5. data_buffer' = Over(q) /\ Push(q) /\ Lower /\ segcp' = "reply"
    BY <1>5, <2>2, <2>4
  <2> HIDE DEF q
  <2>6. tx' = q /\ rx' = <<>> /\ rx' \in Bytes /\ Len(rx') = 0 /\ tx' \in Bytes
    BY <1>3, <2>3, <2>5, Pushing
  <2>7. InFrame(2, 1)'
    <3>1. Portion(2, 1, 1 + 4 - Len(tx), tx)'
      <4>1. 1 + 4 - Len(tx') = 0 /\ \A i \in 1 .. Len(tx') : tx'[i] = FrameByte(2, 1, 0 + i)
        <5>1. Len(tx') = 5 /\ \A i \in 1 .. 5 : tx'[i] = FrameByte(2, 1, i)
          BY <2>3, <2>6
        <5>2. \A i \in 1 .. 5 : 0 + i = i
          OBVIOUS
        <5> QED BY <5>1, <5>2
      <4> QED BY <4>1 DEF Portion, FrameByte
    <3>2. Awaits(FirstWait, 1)'
      BY <1>4, <1>9, <2>1 DEF Awaits, FirstWait
    <3>3. Len(tx') = 1 + 4 /\ inbuf' = <<>>
      BY <1>4, <2>1, <2>3, <2>6
    <3> QED BY <3>1, <3>2, <3>3 DEF InFrame
  <2>8. int' = FALSE /\ (load.program = "at" => trig' = trig) /\ trig' \in BOOLEAN
    BY <2>5 DEF Lower, SpiInv, Types, NetTypes
  <2>9. Framed'
    BY <1>2, <1>3, <1>4, <1>9, <2>5, <2>7, <2>8 DEF Framed, Places, Given, Off, Clear, Waiting
  <2>10. Types'
    <3>1. data_buffer' \in Bytes /\ Room'
      <4>1. Len(q) <= DATA_BUF_SIZE + 4
        BY <2>3, SpiConstantsAre
      <4> QED BY <2>3, <2>5, <4>1, OverIs DEF Room
    <3> QED BY <1>7, <2>6, <2>8, <3>1
  <2> QED BY <1>1, <1>2, <1>9, <2>1, <2>5, <2>8, <2>9, <2>10 DEF Awaits
<1> QED BY <1>2, <1>8, <1>9

\* What a step that only deals with the network peer leaves of the stages.
LEMMA StagesKept ==
  ASSUME UNCHANGED <<master, line, irq, handling, s, sems, task, others, u2e_size, g_send_buf, gSEGCPREQ>>
  PROVE  /\ Listening => Listening'
         /\ Collecting => Collecting'
         /\ Collected => Collected'
         /\ Resting => Resting'
         /\ Answers => Answers'
         /\ Reading => Reading'
         /\ Carrying => Carrying'
         /\ Answered => Answered'
         /\ UNCHANGED <<sent, e2u_size>> /\ ~int' => (Framed => Framed') /\ (DataSent => DataSent')
<1>1. UNCHANGED <<op, at, out, half, want, acked, inbuf, rx, tx, irq, handling, s, seg_spi_pending_sem,
                  seg_u2e_sem, segcp_uart_sem, task, u2e, segcp, ulen, u2e_size, g_send_buf, gSEGCPREQ>>
  BY DEF master, line, sems, others
<1>2. Request' = Request /\ FinalState' = FinalState /\ FirstWait' = FirstWait /\ Body' = Body
  BY <1>1 DEF Request, FinalState, FirstWait, Body
<1>3. (Clear => Clear') /\ (Fresh => Fresh') /\ (Known => Known') /\ (Asks => Asks')
  BY <1>1, <1>2 DEF Clear, Fresh, Known, Asks, EndOf, Waiting, Places
<1>4. Listening => Listening'
  BY <1>1, <1>2, <1>3 DEF Listening, Given, On, Follows
<1>5. Collecting => Collecting'
  <2>1. ASSUME NEW h \in 0 .. 3, Collects(h) PROVE Collects(h)'
    BY <1>1, <1>2, <2>1 DEF Collects, AfterBytes, Follows
  <2> QED BY <1>1, <1>3, <2>1 DEF Collecting, Given
<1>6. Collected => Collected'
  BY <1>1, <1>2, <1>3 DEF Collected, Given, Off
<1>7. Resting => Resting'
  BY <1>1, <1>3 DEF Resting, Waiting, Places, Given, On
<1>8. (Acks(1) => Acks(1)') /\ (Acks(2) => Acks(2)')
  BY <1>1 DEF Acks, Awaits, AllOf
<1>9. Answers => Answers'
  BY <1>1, <1>2, <1>3, <1>8 DEF Answers, Given, Off, Places
<1>10. Reading => Reading'
  <2>1. Carried(inbuf, g_send_buf) => Carried(inbuf, g_send_buf)'
    BY <1>1 DEF Carried, EndOf
  <2>2. Carried(SetCommand, gSEGCPREQ) => Carried(SetCommand, gSEGCPREQ)'
    BY <1>1 DEF Carried, EndOf
  <2> QED BY <1>1, <1>3, <2>1, <2>2 DEF Reading, Given, Off, Places
<1>11. Carrying => Carrying'
  BY <1>1, <1>3 DEF Carrying, Awaits, Given, Off, Places, Waiting
<1>12. Answered => Answered'
  BY <1>1, <1>2, <1>3, <1>8 DEF Answered, Given, Off, Places
<1>13. ASSUME UNCHANGED <<sent, e2u_size>>, ~int'
       PROVE  (Framed => Framed') /\ (DataSent => DataSent')
  <2>1. InFrame(sent, e2u_size) => InFrame(sent, e2u_size)'
    BY <1>1, <1>2, <1>13 DEF InFrame, Portion, FrameByte, Awaits, Sized, AllOf
  <2>2. InFrame(2, 1) => InFrame(2, 1)'
    BY <1>1, <1>2 DEF InFrame, Portion, FrameByte, Awaits, Sized, AllOf
  <2>3. Copied(sent, e2u_size) => Copied(sent, e2u_size)'
    BY <1>1, <1>13 DEF Copied, AllOf
  <2> QED BY <1>1, <1>3, <1>13, <2>1, <2>2, <2>3 DEF Framed, DataSent, Given, Off, Places
<1> QED BY <1>4, <1>5, <1>6, <1>7, <1>9, <1>10, <1>11, <1>12, <1>13

-----------------------------------------------------------------------------
(* SpiSlave: the packets.                                                   *)

\* What was given to the socket stays whole while packets come.
LEMMA WholeKept ==
  ASSUME EchoesWhole, net' = net, sent \in Nat, sent' \in Nat, sent' >= sent
  PROVE  EchoesWhole'
<1>1. ASSUME NEW b, Whole(b) PROVE Whole(b)'
  <2>1. PICK k \in 1 .. sent, n \in 1 .. DATA_BUF_SIZE : b = Packet(k, n)
    BY <1>1 DEF Whole
  <2>2. k \in 1 .. sent'
    OBVIOUS
  <2> QED BY <2>1, <2>2 DEF Whole, Packet, Times
<1>2. \A i \in DOMAIN net : Whole(net[i])'
  BY <1>1 DEF EchoesWhole
<1>3. \A i \in DOMAIN net' : Whole(net[i])'
  BY <1>2
<1> QED BY <1>3 DEF EchoesWhole

\* Those are packets that have come.
LEMMA PacketsBelow ==
  ASSUME SpiInv
  PROVE  /\ Len(net) \in Nat /\ DOMAIN net = 1 .. Len(net) /\ sent \in Nat /\ sent <= 255
         /\ \A i \in 1 .. Len(net) : net[i][1] \in 1 .. sent
<1>1. Len(net) \in Nat /\ DOMAIN net = 1 .. Len(net)
  BY LenProperties DEF SpiInv, Types, NetTypes
<1>2. sent \in Nat /\ sent <= 255
  BY SpiConstantsAre DEF SpiInv, Types, NetTypes
<1>3. ASSUME NEW i \in 1 .. Len(net) PROVE net[i][1] \in 1 .. sent
  <2>1. PICK k \in 1 .. sent, n \in 1 .. DATA_BUF_SIZE : net[i] = Packet(k, n)
    BY <1>1 DEF SpiInv, EchoesWhole, Whole
  <2>2. 1 \in 1 .. n
    BY SpiConstantsAre
  <2>3. [j \in 1 .. n |-> k][1] = k
    BY <2>2
  <2> QED BY <2>1, <2>3 DEF Packet, Times
<1> QED BY <1>1, <1>2, <1>3

\* A packet as a sequence.
LEMMA PacketIs ==
  ASSUME NEW k \in 0 .. 255, NEW n \in Nat
  PROVE  Packet(k, n) \in Bytes /\ Len(Packet(k, n)) = n /\ \A i \in 1 .. n : Packet(k, n)[i] = k
<1> DEFINE q == [i \in 1 .. n |-> k]
<1>1. q \in Seq(Byte) /\ Len(q) = n /\ \A i \in 1 .. n : q[i] = k
  BY DEF Byte
<1> QED BY <1>1 DEF Packet, Times, Bytes

\* The peer's next packet is read from the socket.
LEMMA ReceivePacketKeeps ==
  ASSUME SpiInv, Undisturbed, ReceivePacket
  PROVE  SpiInv'
<1>1. /\ recv = "wait" /\ sent < Packets /\ load.program = "echo"
      /\ e2u_size = 0 \/ (op = "idle" /\ ~trig)
      /\ sent' = sent + 1 /\ recv' = "copy"
      /\ UNCHANGED <<recvless, trig, int, timer, data_buffer>>
  BY Calm DEF ReceivePacket
<1>2. PICK n \in 1 .. DATA_BUF_SIZE : g_recv_buf' = Times(sent + 1, n) /\ e2u_size' = n
  BY DEF ReceivePacket
<1>3. Echoes /\ EchoesWhole /\ op \in {"idle", "read", "write"}
  BY <1>1 DEF SpiInv, Echoes
<1>4. Ready => e2u_size # 0
  BY SpiConstantsAre DEF Ready
<1>5. op = "idle" => ~trig
  BY <1>1, <1>3, <1>4 DEF Echoes
<1>6. op = "read" => task = "wait" /\ at = "data" /\ InHand
  <2> SUFFICES ASSUME op = "read" PROVE task = "wait" /\ at = "data" /\ InHand
    OBVIOUS
  <2>1. e2u_size = 0
    BY <1>1
  <2>2. task # "written"
    BY <1>3, <2>1, SpiConstantsAre DEF Echoes
  <2> QED BY <1>3, <1>4, <2>1, <2>2 DEF Echoes
<1>7. ~Framed /\ ~DataSent
  BY <1>3, <1>6 DEF Framed, DataSent, Places
<1>8. UNCHANGED <<master, line, irq, handling, s, sems, task, others, u2e_size, g_send_buf, gSEGCPREQ, net,
                  trig, int, timer, resetting, data_buffer, load, conn, done, ulen>>
  BY <1>1 DEF recvless, atcmds, others
<1>9. Stages'
  BY <1>7, <1>8, StagesKept DEF SpiInv, Stages, Asking, Serving
<1>10. sent \in Nat /\ sent' \in 0 .. 255 /\ sent' \in 0 .. Packets /\ sent' >= 1 /\ sent' \in Nat
       /\ Packets \in Nat /\ sent' >= sent
  BY <1>1, SpiConstantsAre DEF SpiInv, Types, NetTypes
<1>11. g_recv_buf' = Packet(sent', n) /\ g_recv_buf' \in Bytes
  <2>1. n \in Nat
    BY SpiConstantsAre
  <2> QED BY <1>1, <1>2, <1>10, <2>1, PacketIs DEF Packet
<1>12. Types'
  <2>1. NetTypes'
    BY <1>1, <1>8, <1>10, <1>11 DEF SpiInv, Types, NetTypes
  <2>2. SizeTypes'
    <3>1. e2u_size' \in 0 .. DATA_BUF_SIZE
      BY <1>2
    <3> QED BY <1>8, <3>1 DEF SpiInv, Types, SizeTypes
  <2> QED BY <1>8, <2>1, <2>2, TypesKept DEF Types, line
<1>13. EchoesWhole'
  BY <1>3, <1>8, <1>10, WholeKept
<1>14. Echoes'
  <2>1. UNCHANGED <<op, at, half, inbuf, u2e, task>>
    BY <1>8 DEF master, others
  <2>2. Came'
    <3>1. \A i \in 1 .. Len(net') : net'[i][1] < sent'
      BY <1>1, <1>8, PacketsBelow
    <3> QED BY <1>2, <1>10, <1>11, <3>1 DEF Came, Below
  <2>3. InHand => InHand'
    <3>1. \A k \in 1 .. sent : k \in 1 .. sent' /\ k < sent'
      BY <1>1, <1>10
    <3> QED BY <1>8, <2>1, <3>1 DEF InHand, Copied, AllOf, Below
  <2>4. op = "write" => IF Told' THEN Handed' ELSE InHand'
    BY <1>3, <1>8, <2>1, <2>3 DEF Echoes, Told, Handed
  <2>5. resetting' => Resting' /\ (op' = "idle" \/ at' = "data")
    BY <1>3, <1>8, <2>1, StagesKept DEF Echoes
  <2>6. task # "written"
    BY <1>3, <1>6, SlavePlaces DEF DataSent, Echoes
  <2> QED BY <1>3, <1>5, <1>6, <1>8, <2>1, <2>2, <2>3, <2>4, <2>5, <2>6 DEF Echoes
<1> QED BY <1>1, <1>8, <1>9, <1>12, <1>13, <1>14 DEF SpiInv

\* It is copied behind its header, and the master told.
LEMMA SignalPacketKeeps ==
  ASSUME SpiInv, Undisturbed, SignalPacket
  PROVE  SpiInv'
<1>1. /\ recv = "copy" /\ data_buffer' = Over(DataHeader(e2u_size) \o g_recv_buf)
      /\ timer' = TRUE /\ int' = FALSE /\ recv' = "wait" /\ trig' \in BOOLEAN
      /\ UNCHANGED <<recvless, e2u_size, sent, g_recv_buf>>
  BY DEF SignalPacket, Lower, SpiInv, Types, NetTypes
<1>2. load.program = "echo" /\ Echoes /\ EchoesWhole
  BY <1>1, Calm DEF SpiInv, Commands
<1>3. /\ sent >= 1 /\ Below(sent) /\ e2u_size \in 1 .. DATA_BUF_SIZE
      /\ g_recv_buf = Packet(sent, e2u_size)
  BY <1>1, <1>2 DEF Echoes, Came
<1>4. UNCHANGED <<master, line, irq, handling, s, sems, task, others, u2e_size, g_send_buf, gSEGCPREQ, net,
                  resetting, load, conn, done, ulen>>
  BY <1>1 DEF recvless, atcmds, others
<1>5. Stages'
  BY <1>1, <1>4, StagesKept DEF SpiInv, Stages, Asking, Serving
<1> DEFINE n == e2u_size
           q == DataHeader(n) \o g_recv_buf
<1>6. n \in 0 .. 9 /\ n \in Nat /\ n <= DATA_BUF_SIZE /\ DATA_BUF_SIZE \in Nat
  BY <1>3, SpiConstantsAre
<1>7. sent \in 0 .. 255
  <2>1. sent \in Nat /\ sent <= 255
    BY PacketsBelow
  <2> QED BY <2>1
<1>8. q \in Bytes /\ Len(q) = n + 4 /\ \A j \in 1 .. n + 4 : q[j] = FrameByte(sent, n, j)
  <2>1. g_recv_buf \in Bytes /\ Len(g_recv_buf) = n /\ AllOf(sent, g_recv_buf)
    BY <1>3, <1>6, <1>7, PacketIs DEF AllOf
  <2> QED BY <1>6, <2>1, FrameIs
<1>9. data_buffer' \in Bytes /\ Room' /\ \A j \in 1 .. n + 4 : data_buffer'[j] = FrameByte(sent, n, j)
  <2>1. Len(q) <= DATA_BUF_SIZE + 4 /\ data_buffer' = Over(q)
    BY <1>1, <1>6, <1>8
  <2> HIDE DEF q
  <2> QED BY <1>8, <2>1, OverIs DEF Room
<1>10. Types'
  <2>1. NetTypes'
    BY <1>1, <1>4 DEF SpiInv, Types, NetTypes
  <2>2. BufferTypes'
    BY <1>4, <1>9 DEF SpiInv, Types, BufferTypes
  <2> QED BY <1>1, <1>4, <2>1, <2>2, TypesKept DEF Types, line
<1>11. EchoesWhole'
  <2>1. sent \in Nat /\ sent' = sent /\ sent' >= sent
    BY <1>1, <1>7
  <2> QED BY <1>2, <1>4, <2>1, WholeKept
<1>12. Echoes'
  <2>1. UNCHANGED <<op, at, half, inbuf, u2e, task, sent, e2u_size>>
    BY <1>1, <1>4 DEF master, others
  <2>2. Below(sent)'
    BY <1>3, <1>4, <2>1 DEF Below
  <2>3. Ready'
    <3>1. \A j \in 1 .. e2u_size' + 4 : data_buffer'[j] = FrameByte(sent', e2u_size', j)
      BY <1>9, <2>1
    <3>2. \A j \in 1 .. e2u_size' + 4 : data_buffer'[j] = FrameByte(sent, e2u_size, j)'
      BY <3>1 DEF FrameByte
    <3> QED BY <1>1, <1>3, <2>1, <2>2, <3>2 DEF Ready
  <2>4. InHand => InHand'
    BY <1>1, <1>4, <2>1 DEF InHand, Copied, AllOf, Below
  <2>5. op = "write" => IF Told' THEN Handed' ELSE InHand'
    BY <1>2, <1>4, <2>1, <2>4 DEF Echoes, Told, Handed
  <2>6. resetting' => Resting' /\ (op' = "idle" \/ at' = "data")
    BY <1>2, <1>4, <2>1, StagesKept DEF Echoes
  <2> QED BY <1>1, <1>2, <1>3, <2>1, <2>3, <2>4, <2>5, <2>6 DEF Echoes, Came
<1> QED BY <1>2, <1>4, <1>5, <1>10, <1>11, <1>12 DEF SpiInv

\* The timer runs out when nobody is at work.
LEMMA QuietRests ==
  ASSUME SpiInv, Undisturbed, Quiet, op = "idle" \/ at = "data"
  PROVE  Resting
<1>1. Waiting /\ Given(0, 0, 0) /\ handling = {} /\ recv = "wait" /\ ~resetting
  BY DEF Quiet, Idling, Waiting, Places, Given
<1>2. ~Asking
  <2>1. ~Asks
    BY DEF Asks, FirstWait
  <2> QED BY <2>1 DEF Asking, Listening, Collecting, Collected
<1>3. ~Serving
  BY <1>1 DEF Serving, Framed, DataSent, Answers, Reading, Carrying, Answered, Waiting, Places, Given
<1> QED BY <1>2, <1>3 DEF SpiInv, Stages

\* The timer runs out when nobody is at work.
LEMMA ResetStateKeeps ==
  ASSUME SpiInv, Undisturbed, ResetState
  PROVE  SpiInv'
<1>1. /\ timer /\ Quiet
      /\ (op = "idle" /\ ~trig) \/ (at = "data" /\ want = 0)
      /\ timer' = FALSE /\ resetting' = TRUE /\ s' = Goto(s, "command")
      /\ e2u_size' = 0 /\ u2e_size' = 0 /\ int' = TRUE /\ trig' = trig
      /\ UNCHANGED <<resetless, line, irq>>
  BY Calm DEF ResetState, Raise
<1>2. load.program = "echo" /\ Echoes /\ EchoesWhole
  BY <1>1, Calm DEF SpiInv, Commands
<1>3. Resting
  BY <1>1, QuietRests
<1>4. s' \in Statics /\ s'.state = "command" /\ s'.dummy_count = s.dummy_count /\ s'.atcmd_index = s.atcmd_index
  BY <1>1, GotoField DEF SpiInv, Types, LineTypes, SameCounts, SpiStates
<1>5. UNCHANGED <<load, conn, master, handling, rx, tx, irq, task, u2e, segcp, ulen, sems, g_send_buf,
                  data_buffer, gSEGCPREQ, done, recv, sent, g_recv_buf, net>>
  BY <1>1 DEF resetless, others, seg, atcmds, line
<1>6. UNCHANGED <<op, at, out, half, want, acked, inbuf>>
  BY <1>5 DEF master
<1>7. Resting'
  BY <1>3, <1>4, <1>5, <1>6 DEF Resting, Waiting, Places, Given, On, Fresh, Clear, sems
<1>8. Types'
  <2>1. LineTypes'
    BY <1>4, <1>5 DEF SpiInv, Types, LineTypes
  <2>2. SizeTypes'
    <3>1. e2u_size' \in 0 .. DATA_BUF_SIZE /\ u2e_size' \in 0 .. DATA_BUF_SIZE
      BY <1>1, SpiConstantsAre
    <3>2. ulen' \in Nat
      BY <1>5 DEF SpiInv, Types, SizeTypes
    <3> QED BY <3>1, <3>2 DEF SizeTypes
  <2>3. NetTypes'
    BY <1>1, <1>5 DEF SpiInv, Types, NetTypes
  <2> QED BY <1>5, <2>1, <2>2, <2>3, TypesKept DEF Types
<1>9. EchoesWhole'
  <2>1. sent \in Nat /\ sent' = sent /\ sent' >= sent
    BY <1>5, PacketsBelow
  <2> QED BY <1>2, <1>5, <2>1, WholeKept
<1>10. Echoes'
  <2>1. recv' = "wait" /\ task = "wait" /\ task' = "wait"
    BY <1>1, <1>5 DEF Quiet, Idling
  <2>2. InHand => InHand'
    BY <1>5, <1>6 DEF InHand, Copied, AllOf, Below
  <2>3. op = "write" => IF Told' THEN Handed' ELSE InHand'
    BY <1>2, <1>5, <1>6, <2>2 DEF Echoes, Told, Handed
  <2>4. op = "idle" => ~trig
    BY <1>1 DEF SpiInv, Types, MasterTypes
  <2>5. op \in {"idle", "read", "write"} /\ (op = "read" => at = "data" /\ InHand)
    <3>1. op \in {"idle", "read", "write"}
      BY <1>2 DEF Echoes
    <3> QED BY <1>1, <1>2, <2>1, <3>1 DEF Echoes
  <2> QED BY <1>1, <1>5, <1>6, <1>7, <2>1, <2>2, <2>3, <2>4, <2>5 DEF Echoes, Came
<1> QED BY <1>2, <1>5, <1>7, <1>8, <1>9, <1>10 DEF SpiInv, Stages

\* The interface is set up again.
LEMMA ReconfigureKeeps ==
  ASSUME SpiInv, Undisturbed, Reconfigure
  PROVE  SpiInv'
<1>1. /\ resetting /\ rx' = <<>> /\ tx' = <<>> /\ SwitchOn /\ resetting' = FALSE
      /\ UNCHANGED <<resetless, trig, int, s, timer, e2u_size, u2e_size>>
  BY DEF Reconfigure
<1>2. load.program = "echo" /\ Echoes /\ EchoesWhole
  BY <1>1, Calm DEF SpiInv, Commands
<1>3. Resting /\ irq' = Cores
  BY <1>1, <1>2, SwitchedOn DEF Echoes
<1>4. UNCHANGED <<load, conn, master, handling, task, u2e, segcp, ulen, sems, g_send_buf, s, trig, int, timer,
                  data_buffer, gSEGCPREQ, done, recv, sent, g_recv_buf, net, e2u_size, u2e_size>>
  BY <1>1 DEF resetless, others, seg, atcmds
<1>5. UNCHANGED <<op, at, out, half, want, acked, inbuf>>
  BY <1>4 DEF master
<1>6. Resting'
  BY <1>1, <1>3, <1>4, <1>5 DEF Resting, Waiting, Places, Given, On, Fresh, Clear, sems
<1>7. Types'
  <2>1. LineTypes'
    <3>1. rx' \in Bytes /\ Len(rx') = 0 /\ tx' \in Bytes
      BY <1>1 DEF Bytes
    <3> QED BY <1>3, <1>4, <3>1 DEF SpiInv, Types, LineTypes, Depth
  <2>2. NetTypes'
    BY <1>1, <1>4 DEF SpiInv, Types, NetTypes
  <2> QED BY <1>4, <2>1, <2>2, TypesKept DEF Types
<1>8. EchoesWhole'
  <2>1. sent \in Nat /\ sent' = sent /\ sent' >= sent
    BY <1>4, PacketsBelow
  <2> QED BY <1>2, <1>4, <2>1, WholeKept
<1>9. Echoes'
  <2>1. InHand => InHand'
    BY <1>4, <1>5 DEF InHand, Copied, AllOf, Below
  <2>2. (Ready => Ready') /\ (Handed => Handed') /\ (Told => Told') /\ (Told' => Told) /\ (Came => Came')
    BY <1>4, <1>5 DEF Ready, Below, FrameByte, Handed, Told, Came
  <2> QED BY <1>1, <1>2, <1>4, <1>5, <2>1, <2>2 DEF Echoes
<1> QED BY <1>2, <1>4, <1>6, <1>7, <1>8, <1>9 DEF SpiInv, Stages

\* Nothing disturbs an exchange, and none is given up.
LEMMA NoDisturbance ==
  ASSUME SpiInv, Undisturbed
  PROVE  ~Connection /\ ~Timeout
<1>1. ~Connection
  BY Calm DEF Connection
<1>2. ASSUME Timeout PROVE FALSE
  <2>1. /\ at \in {"ack", "fill", "len", "last"} /\ (at = "fill" => want > 0)
        /\ Idling
        /\ \/ irq = {} /\ handling = {}
           \/ s.state = "command" /\ \A i \in DOMAIN rx : rx[i] = SPI_DUMMY
    BY <1>2 DEF Timeout, Unmoved
  <2>2. Waiting /\ Given(0, 0, 0)
    BY <2>1 DEF Idling, Waiting, Places, Given
  <2>3. ~Serving
    BY <2>2 DEF Serving, Framed, DataSent, Answers, Reading, Carrying, Answered, Waiting, Places, Given
  <2>4. want \in Nat
    BY DEF SpiInv, Types, MasterTypes
  <2>5. ~Resting
    <3> SUFFICES ASSUME Resting PROVE FALSE
      OBVIOUS
    <3>1. op # "idle"
      BY <2>1, <2>4 DEF SpiInv, Types, MasterTypes
    <3> QED BY <2>1, <2>4, <3>1 DEF Resting
  <2>6. ~Collected
    BY <2>2 DEF Collected, Given
  <2>7. Request[1] # SPI_DUMMY
    <3>1. op = "read" => Request[1] = 176
      <4> SUFFICES ASSUME op = "read" PROVE Request[1] = 176
        OBVIOUS
      <4>1. Request = <<176, 255, 255, 255>>
        BY RequestNow
      <4> QED BY <4>1
    <3>2. op = "write" => Request[1] = 160
      <4> SUFFICES ASSUME op = "write" PROVE Request[1] = 160
        OBVIOUS
      <4>1. Request = <<160, Len(inbuf), 0, 255>>
        BY RequestNow
      <4> QED BY <4>1
    <3>3. op = "set" => Request[1] = 76
      <4> SUFFICES ASSUME op = "set" PROVE Request[1] = 76
        OBVIOUS
      <4>1. Request = <<76, 73, 3, 0>>
        BY RequestNow
      <4> QED BY <4>1
    <3>4. op \notin {"read", "write", "set"} => Request[1] = 76
      <4> SUFFICES ASSUME op \notin {"read", "write", "set"} PROVE Request[1] = 76
        OBVIOUS
      <4>1. Request = <<76, 73, 13, 10>>
        BY RequestNow
      <4> QED BY <4>1
    <3> QED BY <3>1, <3>2, <3>3, <3>4 DEF SPI_DUMMY
  <2>8. rx \in Bytes /\ Len(rx) \in Nat /\ DOMAIN rx = 1 .. Len(rx)
    BY NoBytes, LenProperties DEF SpiInv, Types, LineTypes, Bytes
  <2>9. ~Listening
    <3> SUFFICES ASSUME Listening PROVE FALSE
      OBVIOUS
    <3>1. 1 \in DOMAIN rx /\ rx[1] = Request[0 + 1]
      <4>1. Len(rx) >= 4 /\ Follows(rx, 0)
        BY <2>1 DEF Listening
      <4>2. 1 \in 1 .. Len(rx) /\ 0 + 1 <= 4
        BY <2>8, <4>1
      <4> QED BY <2>8, <4>1, <4>2 DEF Follows
    <3>2. irq # {}
      BY TheCore, Calm DEF Listening, On
    <3> QED BY <2>1, <2>7, <3>1, <3>2
  <2>10. ~Collecting
    <3> SUFFICES ASSUME Collecting PROVE FALSE
      OBVIOUS
    <3>1. s.state = "command" /\ \A i \in DOMAIN rx : rx[i] = SPI_DUMMY
      BY <2>1, TheCore, Calm DEF Collecting
    <3>2. PICK h \in 0 .. 3 : Collects(h)
      BY DEF Collecting
    <3>3. h = 0
      BY <3>1, <3>2 DEF Collects, AfterBytes
    <3>4. 1 \in DOMAIN rx /\ rx[1] = Request[0 + 1]
      <4>1. Len(rx) >= 4 /\ Follows(rx, 0)
        BY <3>2, <3>3 DEF Collects
      <4>2. 1 \in 1 .. Len(rx) /\ 0 + 1 <= 4
        BY <2>8, <4>1
      <4> QED BY <2>8, <4>1, <4>2 DEF Follows
    <3> QED BY <2>7, <3>1, <3>4
  <2> QED BY <2>3, <2>5, <2>6, <2>9, <2>10 DEF SpiInv, Stages, Asking
<1> QED BY <1>1, <1>2

-----------------------------------------------------------------------------
(* SpiSlave: the steps of the master.                                       *)

\* A step of the master leaves the slave's tasks and statics as they are.
LEMMA SlaveStays ==
  ASSUME UNCHANGED slave
  PROVE  /\ UNCHANGED <<irq, handling, int, s, sems, task, u2e, ulen, segcp, timer, resetting, e2u_size, u2e_size,
                        g_send_buf, data_buffer, recv, sent, g_recv_buf, conn, net, gSEGCPREQ, done>>
         /\ \A a, b, c : (Given(a, b, c) => Given(a, b, c)') /\ (Places(a, b, c) => Places(a, b, c)')
         /\ (Off => Off') /\ (On => On') /\ (Clear => Clear') /\ (Fresh => Fresh') /\ (Waiting => Waiting')
<1>1. /\ UNCHANGED <<irq, handling, int, s, sems, task, u2e, ulen, segcp, timer, resetting, e2u_size, u2e_size,
                     g_send_buf, data_buffer, recv, sent, g_recv_buf, conn, net, gSEGCPREQ, done>>
      /\ UNCHANGED <<seg_spi_pending_sem, seg_u2e_sem, segcp_uart_sem>>
  BY DEF slave, others, seg, atcmds, sems
<1> QED BY <1>1 DEF Given, Places, Off, On, Clear, Fresh, Waiting

\* A step of the master leaves the types of the slave alone.
LEMMA MasterKeepsTypes ==
  ASSUME SpiInv, UNCHANGED <<load, slave>>, MasterTypes', rx' \in Bytes, tx' \in Bytes, Len(rx') <= Depth,
         trig' \in BOOLEAN
  PROVE  Types'
<1>1. UNCHANGED <<irq, handling, int, s, sems, task, u2e, ulen, segcp, timer, resetting, e2u_size, u2e_size,
                  g_send_buf, data_buffer, recv, sent, g_recv_buf, conn, net, gSEGCPREQ, done>>
  BY SlaveStays
<1>2. LineTypes'
  BY <1>1 DEF SpiInv, Types, LineTypes
<1>3. NetTypes'
  BY <1>1 DEF SpiInv, Types, NetTypes
<1> QED BY <1>1, <1>2, <1>3, TypesKept DEF Types

\* A byte out and one in.
LEMMA ClockByteIs ==
  ASSUME SpiInv, NEW b \in Byte, ClockByte(b)
  PROVE  /\ rx' \in Bytes /\ tx' \in Bytes /\ Len(rx') <= Depth /\ Len(rx) \in Nat /\ Len(rx') \in Nat
         /\ Len(tx) \in Nat /\ Len(tx') \in Nat /\ Len(rx') >= Len(rx)
         /\ \A i \in 1 .. Len(rx) : rx'[i] = rx[i]
         /\ Len(rx) < Depth => Len(rx') = Len(rx) + 1
         /\ \A i \in 1 .. Len(rx') : i \notin 1 .. Len(rx) => i = Len(rx) + 1 /\ rx'[i] = b
         /\ tx = <<>> => tx' = <<>> /\ Received = 0
         /\ tx # <<>> => /\ Len(tx) >= 1 /\ Len(tx') = Len(tx) - 1 /\ Received = tx[1]
                         /\ \A i \in 1 .. Len(tx') : tx'[i] = tx[i + 1]
         /\ Received \in Byte
<1>1. /\ tx' = (IF tx = <<>> THEN tx ELSE Tail(tx))
      /\ rx' = (IF Len(rx) < Depth THEN Append(rx, b) ELSE rx)
  BY DEF ClockByte
<1>2. rx \in Bytes /\ tx \in Bytes /\ Len(rx) <= Depth /\ Types
  BY DEF SpiInv, Types, LineTypes
<1>3. Len(rx) \in Nat /\ Len(tx) \in Nat
  BY <1>2, NoBytes
<1>4. /\ Append(rx, b) \in Bytes /\ Len(Append(rx, b)) = Len(rx) + 1
      /\ Append(rx, b)[Len(rx) + 1] = b /\ \A i \in 1 .. Len(rx) : Append(rx, b)[i] = rx[i]
  BY <1>2, OneMore
<1>5. /\ rx' \in Bytes /\ Len(rx') <= Depth /\ Len(rx') \in Nat /\ Len(rx') >= Len(rx)
      /\ \A i \in 1 .. Len(rx) : rx'[i] = rx[i]
      /\ Len(rx) < Depth => Len(rx') = Len(rx) + 1
      /\ \A i \in 1 .. Len(rx') : i \notin 1 .. Len(rx) => i = Len(rx) + 1 /\ rx'[i] = b
  <2>1. CASE Len(rx) < Depth
    <3>1. rx' = Append(rx, b)
      BY <1>1, <2>1
    <3> QED BY <1>3, <1>4, <2>1, <3>1 DEF Depth
  <2>2. CASE ~(Len(rx) < Depth)
    BY <1>1, <1>2, <1>3, <2>2
  <2> QED BY <2>1, <2>2
<1>6. CASE tx = <<>>
  BY <1>1, <1>2, <1>3, <1>5, <1>6, ReceivedIs
<1>7. CASE tx # <<>>
  <2>1. tx' = Tail(tx)
    BY <1>1, <1>7
  <2>2. /\ Received = tx[1] /\ Tail(tx) \in Bytes /\ Len(Tail(tx)) = Len(tx) - 1 /\ Len(tx) >= 1
        /\ \A i \in 1 .. Len(tx) - 1 : Tail(tx)[i] = tx[i + 1]
    BY <1>2, <1>7, ReceivedIs
  <2>3. Received \in Byte
    BY <1>2, ReceivedIs
  <2> QED BY <1>3, <1>5, <1>7, <2>1, <2>2, <2>3
<1> QED BY <1>6, <1>7

\* The slave keeps up with the line.
LEMMA KeepsUp ==
  ASSUME SpiInv, Undisturbed, NEW b, ClockByte(b)
  PROVE  /\ tx = <<>> => task \notin {"data", "ack", "atack"} /\ u2e # "ack" /\ segcp \notin {"reply", "ack"}
         /\ task \in {"bytes", "atbytes"} => rx = <<>>
  BY Calm DEF ClockByte, Prompt, Sending

\* The master turns from what it has sent to what it waits for.
LEMMA OutEnds ==
  ASSUME SpiInv, Undisturbed, Out, out = <<>>
  PROVE  Stages' /\ Types'
<1>1. at = "out" /\ at' = FirstWait /\ UNCHANGED <<line, out>> /\ UNCHANGED <<load, slave, op, half, want, acked, inbuf,
         result, rounds, trig>>
  BY DEF Out, FirstWait
<1>2. UNCHANGED <<rx, tx, out, op, half, want, acked, inbuf>>
  BY <1>1 DEF line
<1>3. op # "idle" /\ MasterTypes /\ FirstWait \in {"len", "low", "ack"}
  BY <1>1 DEF SpiInv, Types, MasterTypes, FirstWait
<1>4. FirstWait' = FirstWait /\ Request' = Request /\ FinalState' = FinalState
  BY <1>2 DEF FirstWait, Request, FinalState
<1>5. Types'
  <2>1. MasterTypes'
    BY <1>1, <1>2, <1>3 DEF MasterTypes, Waits
  <2>2. trig' \in BOOLEAN /\ rx' \in Bytes /\ tx' \in Bytes /\ Len(rx') <= Depth
    BY <1>1, <1>2 DEF SpiInv, Types, LineTypes, NetTypes
  <2> QED BY <1>1, <2>1, <2>2, MasterKeepsTypes
<1>6. UNCHANGED <<irq, handling, int, s, sems, task, u2e, ulen, segcp, u2e_size, e2u_size, sent, g_send_buf, gSEGCPREQ>>
      /\ Off' = Off /\ Clear' = Clear
  BY <1>1, SlaveStays DEF Off, Clear
<1>7. Asks => Asks'
  BY <1>1, <1>2, <1>4, <1>6, SlaveStays DEF Asks
<1>8. CASE Listening
  <2>1. Len(rx') >= 4
    <3>1. Len(rx) + Len(out) = 4 /\ Len(out) = 0 /\ Len(rx) \in Nat
      BY <1>1, <1>8, NoBytes DEF Listening, SpiInv, Types, LineTypes
    <3>2. Len(rx) = 4 /\ rx' = rx
      BY <1>2, <3>1
    <3> QED BY <3>2, SMTT(60)
  <2>2. Follows(rx, 0)'
    BY <1>2, <1>4, <1>8 DEF Listening, Follows
  <2>3. Given(0, 0, 0)' /\ On' /\ Fresh'
    BY <1>1, <1>8, SlaveStays DEF Listening
  <2>4. at' # "out"
    BY <1>1, <1>3
  <2> QED BY <1>2, <1>5, <1>7, <1>8, <2>1, <2>2, <2>3, <2>4 DEF Listening, Stages, Asking
<1>9. CASE Collecting
  <2>1. PICK h \in 0 .. 3 : Collects(h)
    BY <1>9 DEF Collecting
  <2>2. Collects(h)'
    BY <1>2, <1>4, <1>6, <2>1 DEF Collects, AfterBytes, Follows
  <2>3. Given(0, 0, 0)'
    BY <1>1, <1>9, SlaveStays DEF Collecting
  <2> QED BY <1>1, <1>2, <1>5, <1>6, <1>7, <1>9, <2>2, <2>3 DEF Collecting, Stages, Asking
<1>10. CASE Collected
  <2>1. Given(1, 0, 0)'
    BY <1>1, <1>10, SlaveStays DEF Collected
  <2>2. Known'
    BY <1>2, <1>4, <1>6, <1>10 DEF Known, Collected
  <2> QED BY <1>2, <1>4, <1>5, <1>6, <1>7, <1>10, <2>1, <2>2 DEF Collected, Stages, Asking
<1>11. CASE Framed
  <2>1. ASSUME NEW v, NEW n, InFrame(v, n), v' = v, n' = n PROVE InFrame(v, n)'
    <3>1. Len(tx) <= n + 4 /\ Portion(v, n, n + 4 - Len(tx), tx) /\ Awaits(FirstWait, 1) /\ Len(tx) = n + 4
          /\ inbuf = <<>>
      BY <1>1, <2>1 DEF InFrame
    <3>2. Portion(v, n, n + 4 - Len(tx), tx)'
      BY <1>2, <2>1, <3>1 DEF Portion, FrameByte
    <3>3. Awaits(FirstWait, 1)'
      BY <1>1, <1>2, <1>4, <3>1 DEF Awaits
    <3> QED BY <1>2, <2>1, <3>1, <3>2, <3>3 DEF InFrame
  <2>2. Given(0, 0, 0)' /\ (Places("data", "wait", "wait") => Places("data", "wait", "wait")')
        /\ (Places("wait", "wait", "reply") => Places("wait", "wait", "reply")')
    BY <1>1, <1>11, SlaveStays DEF Framed
  <2>3. InFrame(sent, e2u_size) => InFrame(sent, e2u_size)'
    BY <1>6, <2>1
  <2>4. InFrame(2, 1) => InFrame(2, 1)'
    BY <2>1
  <2>5. Framed'
    BY <1>2, <1>6, <1>11, <2>2, <2>3, <2>4 DEF Framed
  <2> QED BY <1>5, <2>5 DEF Stages, Serving
<1>12. ~DataSent /\ ~Resting
  BY <1>1, <1>3 DEF DataSent, Resting
<1>13. FirstWait = "ack" => (Acks(1) => Acks(1)') /\ (Acks(2) => Acks(2)')
  BY <1>1, <1>2, <1>4 DEF Acks, Awaits
<1>14. CASE Answers
  <2>1. op \in {"write", "set"} /\ FirstWait = "ack" /\ Body # <<>>
    <3>1. op \in {"write", "set"}
      BY <1>14 DEF Answers
    <3>2. Body # <<>>
      BY <3>1, BodyIs DEF Body
    <3> QED BY <3>1, <3>2 DEF FirstWait
  <2>2. Acks(1)
    BY <1>14, <2>1 DEF Answers
  <2>3. Given(0, 0, 0)' /\ (Places("ack", "wait", "wait") => Places("ack", "wait", "wait")')
        /\ (Places("atack", "wait", "wait") => Places("atack", "wait", "wait")')
    BY <1>1, <1>14, SlaveStays DEF Answers
  <2>4. Known'
    BY <1>2, <1>4, <1>6, <1>14 DEF Known, Answers
  <2>5. Answers'
    BY <1>2, <1>6, <1>13, <1>14, <2>1, <2>2, <2>3, <2>4 DEF Answers
  <2> QED BY <1>5, <2>5 DEF Stages, Serving
<1>15. CASE Reading
  <2>1. op \in {"write", "set"} /\ FirstWait = "ack"
    BY <1>15 DEF Reading, FirstWait
  <2>2. ASSUME NEW b \in Bytes, NEW bs \in Bytes, Carried(b, bs), b' = b, bs' = bs PROVE Carried(b, bs)'
    <3>1. half = 2 /\ Len(bs) + Len(rx) + Len(out) = Len(b) /\ Len(out) = 0
      BY <1>1, <2>2 DEF Carried
    <3>2. Len(bs) \in Nat /\ Len(rx) \in Nat /\ Len(b) \in Nat
      BY <2>2, NoBytes DEF SpiInv, Types, LineTypes
    <3>3. Len(bs) + Len(rx) >= Len(b)
      BY <3>1, <3>2
    <3> QED BY <1>1, <1>2, <2>1, <2>2, <3>1, <3>3 DEF Carried
  <2>3. Carried(inbuf, g_send_buf) => Carried(inbuf, g_send_buf)'
    BY <1>2, <1>6, <2>2 DEF SpiInv, Types, BufferTypes, MasterTypes
  <2>4. Carried(SetCommand, gSEGCPREQ) => Carried(SetCommand, gSEGCPREQ)'
    BY <1>6, <2>2, CommandsAre DEF SpiInv, Types, BufferTypes
  <2>5. Given(0, 0, 0)' /\ (Places("bytes", "wait", "wait") => Places("bytes", "wait", "wait")')
        /\ (Places("atbytes", "wait", "wait") => Places("atbytes", "wait", "wait")')
    BY <1>1, <1>15, SlaveStays DEF Reading
  <2>6. Known'
    BY <1>2, <1>4, <1>6, <1>15 DEF Known, Reading
  <2>7. Reading'
    BY <1>2, <1>6, <1>15, <2>3, <2>4, <2>5, <2>6 DEF Reading
  <2> QED BY <1>5, <2>7 DEF Stages, Serving
<1>16. CASE Carrying
  <2>1. (op \in {"write", "set"} /\ Awaits("ack", 2) => Awaits("ack", 2)')
        /\ (op = "get" /\ Awaits("low", 1) => Awaits("low", 1)')
    BY <1>1, <1>2 DEF Awaits, FirstWait
  <2>2. (Given(0, 1, 0) => Given(0, 1, 0)') /\ (Given(0, 0, 0) => Given(0, 0, 0)') /\ (Given(0, 0, 1) => Given(0, 0, 1)')
        /\ (Waiting => Waiting') /\ (Places("wait", "send", "wait") => Places("wait", "send", "wait")')
        /\ (Places("atdone", "wait", "wait") => Places("atdone", "wait", "wait")')
    BY <1>1, SlaveStays
  <2>3. Carrying'
    BY <1>2, <1>6, <1>16, <2>1, <2>2 DEF Carrying
  <2> QED BY <1>5, <2>3 DEF Stages, Serving
<1>17. CASE Answered
  <2>1. out # Request
    <3>1. Len(Request) = 4 /\ Len(out) = 0
      BY RequestNow
    <3> QED BY <3>1
  <2>2. op \in {"write", "set"} /\ FirstWait = "ack" /\ Acks(2)
    BY <1>3, <1>17, <2>1 DEF Answered, FirstWait
  <2>3. Given(0, 0, 0)' /\ Fresh' /\ (Places("wait", "ack", "wait") => Places("wait", "ack", "wait")')
        /\ (Places("wait", "wait", "ack") => Places("wait", "wait", "ack")')
    BY <1>1, <1>17, SlaveStays DEF Answered
  <2>4. Answered'
    BY <1>2, <1>6, <1>13, <1>17, <2>1, <2>2, <2>3 DEF Answered
  <2> QED BY <1>5, <2>4 DEF Stages, Serving
<1> QED BY <1>5, <1>8, <1>9, <1>10, <1>11, <1>12, <1>14, <1>15, <1>16, <1>17 DEF SpiInv, Stages, Asking, Serving

\* A byte of the header, or of the body, goes out.
LEMMA OutSends ==
  ASSUME SpiInv, Undisturbed, Out, out # <<>>
  PROVE  Stages' /\ Types'
<1>1. at = "out" /\ ClockByte(Head(out)) /\ out' = Tail(out) /\ UNCHANGED <<at, load, slave, op, half, want, acked,
        inbuf, result, rounds, trig>>
  BY DEF Out
<1>2. MasterTypes /\ op # "idle"
  BY <1>1 DEF SpiInv, Types, MasterTypes
<1>3. /\ Len(out) \in Nat /\ Len(out) >= 1 /\ Head(out) \in Byte /\ Head(out) = out[1]
      /\ Tail(out) \in Bytes /\ Len(out') = Len(out) - 1 /\ \A i \in 1 .. Len(out) - 1 : out'[i] = out[i + 1]
  BY <1>1, <1>2, OneLess DEF MasterTypes
<1> DEFINE b == Head(out)
<1>4. /\ rx' \in Bytes /\ tx' \in Bytes /\ Len(rx') <= Depth /\ Len(rx) \in Nat /\ Len(rx') \in Nat
      /\ Len(tx) \in Nat /\ Len(tx') \in Nat /\ Len(rx') >= Len(rx)
      /\ \A i \in 1 .. Len(rx) : rx'[i] = rx[i]
      /\ Len(rx) < Depth => Len(rx') = Len(rx) + 1
      /\ \A i \in 1 .. Len(rx') : i \notin 1 .. Len(rx) => i = Len(rx) + 1 /\ rx'[i] = b
      /\ tx = <<>> => tx' = <<>>
  BY <1>1, <1>3, ClockByteIs
<1> HIDE DEF b
<1>5. /\ tx = <<>> => task \notin {"data", "ack", "atack"} /\ u2e # "ack" /\ segcp \notin {"reply", "ack"}
      /\ task \in {"bytes", "atbytes"} => rx = <<>>
  BY <1>1, KeepsUp
<1>6. Types'
  <2>1. MasterTypes'
    BY <1>1, <1>2, <1>3 DEF MasterTypes
  <2>2. trig' \in BOOLEAN
    BY <1>1 DEF SpiInv, Types, NetTypes
  <2> QED BY <1>1, <1>4, <2>1, <2>2, MasterKeepsTypes
<1>7. UNCHANGED <<op, at, half, want, acked, inbuf, g_send_buf, gSEGCPREQ, s, task, u2e, segcp>>
      /\ Request' = Request /\ FirstWait' = FirstWait
  BY <1>1, SlaveStays DEF Request, FirstWait
<1>8. ASSUME NEW q \in Bytes, NEW r, r = q, EndOf(q, out) PROVE EndOf(r, out') /\ b = q[Len(q) - Len(out) + 1]
  <2>1. Len(out) <= Len(q) /\ \A i \in 1 .. Len(out) : out[i] = q[Len(q) - Len(out) + i]
    BY <1>8 DEF EndOf
  <2>2. Len(q) \in Nat
    BY NoBytes
  <2>3. b = q[Len(q) - Len(out) + 1]
    BY <1>3, <2>1 DEF b
  <2>4. ASSUME NEW i \in 1 .. Len(out') PROVE out'[i] = q[Len(q) - Len(out') + i]
    <3>1. i + 1 \in 1 .. Len(out) /\ i \in 1 .. Len(out) - 1
      BY <1>3, <2>4
    <3>2. out'[i] = q[Len(q) - Len(out) + (i + 1)]
      BY <1>3, <2>1, <3>1
    <3>3. Len(q) - Len(out) + (i + 1) = Len(q) - Len(out') + i
      BY <1>3, <2>2, <3>1
    <3> QED BY <3>2, <3>3
  <2> QED BY <1>3, <1>8, <2>1, <2>2, <2>3, <2>4 DEF EndOf
<1>9. CASE Listening
  <2>1. tx = <<>> /\ Waiting /\ Given(0, 0, 0) /\ On /\ Fresh /\ half = 1 /\ (op # "write" => inbuf = <<>>)
        /\ EndOf(Request, out) /\ Follows(rx, 0) /\ Len(rx) + Len(out) = 4
    BY <1>1, <1>2, <1>9 DEF Listening, Asks, FirstWait
  <2>2. Request \in Bytes /\ Len(Request) = 4
    BY RequestNow
  <2>3. EndOf(Request', out') /\ b = Request[4 - Len(out) + 1]
    BY <1>7, <1>8, <2>1, <2>2
  <2>4. EndOf(Request, out)'
    BY <2>3
  <2>5. Len(rx') = Len(rx) + 1 /\ Len(rx') + Len(out') = 4 /\ Len(rx) = 4 - Len(out) /\ Len(rx) < 4
    BY <1>3, <1>4, <2>1 DEF Depth
  <2>6. Follows(rx, 0)'
    <3>1. ASSUME NEW i \in 1 .. Len(rx') PROVE rx'[i] = Request[0 + i] /\ 0 + i <= 4
      <4>1. CASE i \in 1 .. Len(rx)
        BY <1>4, <2>1, <2>5, <4>1 DEF Follows
      <4>2. CASE i \notin 1 .. Len(rx)
        <5>1. i = Len(rx) + 1 /\ rx'[i] = b
          BY <1>4, <4>2
        <5>2. 4 - Len(out) + 1 = 0 + i /\ 0 + i <= 4
          BY <1>3, <1>4, <2>5, <5>1
        <5> QED BY <2>3, <5>1, <5>2
      <4> QED BY <4>1, <4>2
    <3> QED BY <1>7, <3>1 DEF Follows
  <2>7. Asks'
    BY <1>1, <1>2, <1>4, <1>7, <2>1, <2>4, SlaveStays DEF Asks
  <2>8. Given(0, 0, 0)' /\ On' /\ Fresh'
    BY <1>1, <2>1, SlaveStays
  <2>9. Listening'
    BY <1>1, <2>5, <2>6, <2>7, <2>8 DEF Listening
  <2> QED BY <1>6, <2>9 DEF Stages, Asking
<1>10. ~Collecting /\ ~Collected
  BY DEF Collecting, Collected
<1>11. ~Framed
  BY <1>1 DEF Framed, InFrame, Awaits, FirstWait
<1>12. ~DataSent /\ ~Resting
  BY <1>1, <1>2 DEF DataSent, Resting
<1>13. ~Acks(1) /\ ~Acks(2)
  BY <1>1 DEF Acks, Awaits
<1>14. ~Answers
  BY <1>5, <1>13 DEF Answers, Places
<1>15. CASE Reading
  <2>1. tx = <<>> /\ task \in {"bytes", "atbytes"} /\ rx = <<>>
    BY <1>5, <1>15 DEF Reading, Places
  <2>2. Len(rx) = 0 /\ Len(rx') = 1 /\ rx'[1] = b
    <3>1. Len(rx) = 0
      BY <2>1
    <3>2. Len(rx') = 1
      BY <1>4, <3>1 DEF Depth
    <3>3. 1 \in 1 .. Len(rx') /\ 1 \notin 1 .. Len(rx)
      BY <3>1, <3>2
    <3> QED BY <1>4, <3>1, <3>2, <3>3
  <2>3. ASSUME NEW q \in Bytes, NEW bs \in Bytes, Carried(q, bs), q' = q, bs' = bs PROVE Carried(q, bs)'
    <3>1. /\ Len(bs) <= Len(q) /\ \A i \in 1 .. Len(bs) : bs[i] = q[i]
          /\ half = 2 /\ EndOf(q, out) /\ Len(bs) + Len(rx) + Len(out) = Len(q)
      BY <1>1, <2>3 DEF Carried
    <3>2. Len(bs) \in Nat /\ Len(q) \in Nat
      BY NoBytes
    <3>3. EndOf(q', out') /\ b = q[Len(q) - Len(out) + 1]
      BY <1>8, <2>3, <3>1
    <3>4. Len(q) - Len(out) + 1 = Len(bs) + 1 /\ Len(bs) + Len(rx') + Len(out') = Len(q)
      BY <1>3, <2>2, <3>1, <3>2
    <3>5. ASSUME NEW i \in 1 .. Len(rx') PROVE rx'[i] = q[Len(bs) + i]
      <4>1. i = 1
        BY <2>2
      <4> QED BY <2>2, <3>3, <3>4, <4>1
    <3>6. EndOf(q, out)'
      BY <3>3
    <3> QED BY <1>1, <2>3, <3>1, <3>4, <3>5, <3>6 DEF Carried
  <2>4. Carried(inbuf, g_send_buf) => Carried(inbuf, g_send_buf)'
    BY <1>7, <2>3 DEF SpiInv, Types, BufferTypes, MasterTypes
  <2>5. Carried(SetCommand, gSEGCPREQ) => Carried(SetCommand, gSEGCPREQ)'
    BY <1>7, <2>3, CommandsAre DEF SpiInv, Types, BufferTypes
  <2>6. Given(0, 0, 0)' /\ (Places("bytes", "wait", "wait") => Places("bytes", "wait", "wait")')
        /\ (Places("atbytes", "wait", "wait") => Places("atbytes", "wait", "wait")') /\ Off' /\ Clear'
    BY <1>1, <1>15, SlaveStays DEF Reading
  <2>7. Known'
    BY <1>7, <1>15 DEF Known, Reading
  <2>8. Reading'
    BY <1>4, <1>7, <1>15, <2>1, <2>4, <2>5, <2>6, <2>7 DEF Reading
  <2> QED BY <1>6, <2>8 DEF Stages, Serving
<1>16. ~Carrying
  BY <1>1 DEF Carrying, Awaits
<1>17. ~Answered
  BY <1>1, <1>2, <1>5, <1>13 DEF Answered, Places
<1> QED BY <1>9, <1>10, <1>11, <1>12, <1>14, <1>15, <1>16, <1>17 DEF SpiInv, Stages, Asking, Serving

\* The bytes the master polls with come after the header.
LEMMA PollsOn ==
  ASSUME SpiInv, Undisturbed, Asking, ClockByte(SPI_DUMMY), at # "out",
         UNCHANGED <<load, slave, op, at, out, half, want, acked, inbuf>>
  PROVE  Asking' /\ Received = 0
<1>1. tx = <<>> /\ Asks
  BY DEF Asking, Listening, Collecting, Collected, Asks
<1>2. SPI_DUMMY \in Byte
  BY DEF SPI_DUMMY, Byte
<1>3. /\ Len(rx) \in Nat /\ Len(rx') \in Nat /\ Len(rx') >= Len(rx)
      /\ \A i \in 1 .. Len(rx) : rx'[i] = rx[i]
      /\ \A i \in 1 .. Len(rx') : i \notin 1 .. Len(rx) => i = Len(rx) + 1 /\ rx'[i] = SPI_DUMMY
      /\ tx' = <<>> /\ Received = 0
  BY <1>1, <1>2, ClockByteIs
<1>4. Request' = Request /\ FirstWait' = FirstWait /\ FinalState' = FinalState
  BY DEF Request, FirstWait, FinalState
<1>5. Asks'
  BY <1>1, <1>3, <1>4, SlaveStays DEF Asks
<1>6. ASSUME NEW h \in 0 .. 3, Follows(rx, h), Len(rx) >= 4 - h PROVE Follows(rx, h)' /\ Len(rx') >= 4 - h
  <2>1. ASSUME NEW i \in 1 .. Len(rx') PROVE rx'[i] = IF h + i <= 4 THEN Request[h + i] ELSE SPI_DUMMY
    <3>1. CASE i \in 1 .. Len(rx)
      BY <1>3, <1>6, <3>1 DEF Follows
    <3>2. CASE i \notin 1 .. Len(rx)
      <4>1. i = Len(rx) + 1 /\ rx'[i] = SPI_DUMMY
        BY <1>3, <3>2
      <4>2. ~(h + i <= 4)
        BY <1>3, <1>6, <4>1
      <4> QED BY <4>1, <4>2
    <3> QED BY <3>1, <3>2
  <2> QED BY <1>3, <1>4, <1>6, <2>1 DEF Follows
<1>7. Listening => Listening'
  <2> SUFFICES ASSUME Listening PROVE Listening'
    OBVIOUS
  <2>1. Given(0, 0, 0)' /\ On' /\ Fresh'
    BY SlaveStays DEF Listening
  <2>2. Follows(rx, 0)' /\ Len(rx') >= 4
    <3>1. 0 \in 0 .. 3 /\ Follows(rx, 0) /\ Len(rx) >= 4 - 0
      BY <1>3 DEF Listening
    <3> QED BY <1>3, <1>6, <3>1
  <2> QED BY <1>5, <2>1, <2>2 DEF Listening
<1>8. Collecting => Collecting'
  <2> SUFFICES ASSUME Collecting PROVE Collecting'
    OBVIOUS
  <2>1. PICK h \in 0 .. 3 : Collects(h)
    BY DEF Collecting
  <2>2. Follows(rx, h)' /\ Len(rx') >= 4 - h
    BY <1>6, <2>1 DEF Collects
  <2>3. AfterBytes(s, h)'
    BY <1>4, <2>1, SlaveStays DEF Collects, AfterBytes
  <2>4. Given(0, 0, 0)' /\ irq' = irq /\ handling' = handling
    BY SlaveStays DEF Collecting
  <2> QED BY <1>5, <2>2, <2>3, <2>4 DEF Collecting, Collects
<1>9. Collected => Collected'
  <2> SUFFICES ASSUME Collected PROVE Collected'
    OBVIOUS
  <2>1. Given(1, 0, 0)' /\ Off' /\ Clear' /\ s' = s
    BY SlaveStays DEF Collected
  <2> QED BY <1>4, <1>5, <2>1 DEF Collected, Known
<1> QED BY <1>3, <1>7, <1>8, <1>9 DEF Asking

\* The first byte of the acknowledgement, and the others.
LEMMA AckComes ==
  ASSUME SpiInv, ClockByte(SPI_DUMMY), tx = Answer(SPI_ACK)
  PROVE  Received = SPI_ACK /\ Len(tx') = 3 /\ AllOf(SPI_DUMMY, tx')
<1>1. SPI_DUMMY \in Byte
  BY DEF SPI_DUMMY, Byte
<1>2. tx = <<10, 255, 255, 255>> /\ Len(tx) = 4
  BY AnswerIs
<1>3. tx[1] = 10 /\ tx[2] = 255 /\ tx[3] = 255 /\ tx[4] = 255
  BY <1>2
<1>4. tx # <<>>
  BY <1>2
<1>5. Len(tx') = Len(tx) - 1 /\ Received = tx[1] /\ \A i \in 1 .. Len(tx') : tx'[i] = tx[i + 1]
  BY <1>1, <1>4, ClockByteIs
<1>6. Len(tx') = 3
  BY <1>2, <1>5
<1>7. ASSUME NEW i \in 1 .. 3 PROVE tx[i + 1] = 255
  <2>1. i = 1 \/ i = 2 \/ i = 3
    OBVIOUS
  <2> QED BY <1>3, <2>1
<1>8. ASSUME NEW i \in 1 .. Len(tx') PROVE tx'[i] = 255
  <2>1. i \in 1 .. 3 /\ tx'[i] = tx[i + 1]
    BY <1>5, <1>6
  <2> QED BY <1>7, <2>1
<1> QED BY <1>3, <1>5, <1>6, <1>8 DEF AllOf, SPI_ACK, SPI_DUMMY

\* The master waits for an acknowledgement, and takes it.
LEMMA AckTakes ==
  ASSUME SpiInv, Undisturbed, Ack
  PROVE  /\ Stages' /\ Types'
         /\ at' = "fill" => u2e' = "ack" \/ segcp' = "ack" \/ half = 1
<1>1. /\ at = "ack" /\ ClockByte(SPI_DUMMY)
      /\ IF Found(SPI_ACK) THEN at' = "fill" /\ want' = 3 /\ acked' = (Received = SPI_ACK)
                           ELSE UNCHANGED <<at, want, acked>>
      /\ UNCHANGED <<load, slave, op, out, half, inbuf, result, rounds, trig>>
  BY DEF Ack
<1>2. SPI_DUMMY \in Byte /\ MasterTypes /\ op # "idle" /\ at # "fill"
  BY <1>1 DEF SpiInv, Types, MasterTypes, Byte, SPI_DUMMY
<1>3. /\ rx' \in Bytes /\ tx' \in Bytes /\ Len(rx') <= Depth /\ Len(rx) \in Nat /\ Len(rx') \in Nat
      /\ Len(rx') >= Len(rx) /\ \A i \in 1 .. Len(rx) : rx'[i] = rx[i]
      /\ tx = <<>> => tx' = <<>> /\ Received = 0
  BY <1>1, <1>2, ClockByteIs
<1>4. /\ tx = <<>> => task \notin {"data", "ack", "atack"} /\ u2e # "ack" /\ segcp \notin {"reply", "ack"}
      /\ task \in {"bytes", "atbytes"} => rx = <<>>
  BY <1>1, KeepsUp
<1>5. Types'
  <2>1. at' \in Waits /\ want' \in Nat
    <3>1. at \in Waits /\ want \in Nat /\ "fill" \in Waits /\ 3 \in Nat
      BY <1>2 DEF MasterTypes, Waits
    <3> QED BY <1>1, <3>1
  <2>2. MasterTypes'
    BY <1>1, <1>2, <2>1 DEF MasterTypes
  <2>3. trig' \in BOOLEAN
    BY <1>1 DEF SpiInv, Types, NetTypes
  <2> QED BY <1>1, <1>3, <2>2, <2>3, MasterKeepsTypes
<1>6. tx = <<>> => UNCHANGED <<at, want, acked>>
  BY <1>1, <1>3 DEF Found, SPI_ACK, SPI_NACK
<1>7. UNCHANGED <<op, out, half, inbuf, g_send_buf, gSEGCPREQ, s, task, u2e, segcp, u2e_size, ulen>>
      /\ Request' = Request
  BY <1>1, SlaveStays DEF Request
<1>8. CASE Asking
  <2>1. tx = <<>> /\ at # "out"
    BY <1>1, <1>8 DEF Asking, Listening, Collecting, Collected, Asks
  <2>2. Asking'
    BY <1>1, <1>6, <1>8, <2>1, PollsOn
  <2> QED BY <1>2, <1>5, <1>6, <2>1, <2>2 DEF Stages
<1>9. ~Framed
  BY <1>1 DEF Framed, InFrame, Awaits, FirstWait
<1>10. ~DataSent /\ ~Resting
  BY <1>1, <1>2 DEF DataSent, Resting
<1>11. ASSUME NEW h, h' = h, Acks(h) PROVE Acks(h)' /\ at' = "fill" /\ half = h
  <2>1. half = h /\ tx = Answer(SPI_ACK)
    BY <1>1, <1>11 DEF Acks, Awaits
  <2>2. Received = SPI_ACK /\ Len(tx') = 3 /\ AllOf(SPI_DUMMY, tx')
    BY <1>1, <2>1, AckComes
  <2>3. at' = "fill" /\ want' = 3 /\ acked'
    BY <1>1, <2>2 DEF Found
  <2>4. AllOf(SPI_DUMMY, tx)'
    BY <2>2 DEF AllOf, SPI_DUMMY
  <2> QED BY <1>7, <1>11, <2>1, <2>2, <2>3, <2>4 DEF Acks
<1>12. CASE Answers
  <2>1. Acks(1)
    BY <1>1, <1>12 DEF Answers
  <2>2. Acks(1)' /\ at' = "fill" /\ half = 1
    BY <1>11, <2>1
  <2>3. Given(0, 0, 0)' /\ Off' /\ Clear' /\ (Places("ack", "wait", "wait") => Places("ack", "wait", "wait")')
        /\ (Places("atack", "wait", "wait") => Places("atack", "wait", "wait")')
    BY <1>1, <1>12, SlaveStays DEF Answers
  <2>4. Known'
    BY <1>7, <1>12 DEF Known, Answers
  <2>5. Answers'
    BY <1>7, <1>12, <2>2, <2>3, <2>4 DEF Answers
  <2> QED BY <1>5, <2>2, <2>5 DEF Stages, Serving
<1>13. CASE Reading
  <2>1. tx = <<>> /\ task \in {"bytes", "atbytes"} /\ rx = <<>> /\ Len(rx) = 0
    BY <1>4, <1>13 DEF Reading, Places
  <2>2. UNCHANGED <<at, want, acked>> /\ tx' = <<>>
    BY <1>3, <1>6, <2>1
  <2>3. ASSUME NEW q \in Bytes, NEW bs \in Bytes, Carried(q, bs), q' = q, bs' = bs PROVE Carried(q, bs)'
    <3>1. /\ Len(bs) <= Len(q) /\ \A i \in 1 .. Len(bs) : bs[i] = q[i]
          /\ half = 2 /\ Len(bs) + Len(rx) >= Len(q)
      BY <1>1, <2>3 DEF Carried
    <3>2. Len(bs) \in Nat /\ Len(q) \in Nat
      BY NoBytes
    <3>3. Len(bs) = Len(q)
      BY <2>1, <3>1, <3>2
    <3>4. \A i \in 1 .. Len(rx') : ~(Len(bs) + i <= Len(q))
      BY <1>3, <3>2, <3>3
    <3>5. Len(bs) + Len(rx') >= Len(q)
      BY <1>3, <3>2, <3>3
    <3> QED BY <1>1, <1>7, <2>2, <2>3, <3>1, <3>4, <3>5 DEF Carried
  <2>4. Carried(inbuf, g_send_buf) => Carried(inbuf, g_send_buf)'
    BY <1>7, <2>3 DEF SpiInv, Types, BufferTypes, MasterTypes
  <2>5. Carried(SetCommand, gSEGCPREQ) => Carried(SetCommand, gSEGCPREQ)'
    BY <1>7, <2>3, CommandsAre DEF SpiInv, Types, BufferTypes
  <2>6. Given(0, 0, 0)' /\ (Places("bytes", "wait", "wait") => Places("bytes", "wait", "wait")')
        /\ (Places("atbytes", "wait", "wait") => Places("atbytes", "wait", "wait")') /\ Off' /\ Clear'
    BY <1>1, <1>13, SlaveStays DEF Reading
  <2>7. Known'
    BY <1>7, <1>13 DEF Known, Reading
  <2>8. Reading'
    BY <1>7, <1>13, <2>2, <2>4, <2>5, <2>6, <2>7 DEF Reading
  <2> QED BY <1>2, <1>5, <2>2, <2>8 DEF Stages, Serving
<1>14. CASE Carrying
  <2>1. tx = <<>> /\ UNCHANGED <<at, want, acked>> /\ tx' = <<>>
    BY <1>3, <1>6, <1>14 DEF Carrying
  <2>2. (Awaits("ack", 2) => Awaits("ack", 2)') /\ ~Awaits("low", 1)
    BY <1>1, <1>7, <2>1 DEF Awaits
  <2>3. (Given(0, 1, 0) => Given(0, 1, 0)') /\ (Given(0, 0, 0) => Given(0, 0, 0)') /\ (Given(0, 0, 1) => Given(0, 0, 1)')
        /\ (Waiting => Waiting') /\ (Places("wait", "send", "wait") => Places("wait", "send", "wait")')
        /\ Off' /\ Clear'
    BY <1>1, <1>14, SlaveStays DEF Carrying
  <2>4. Carrying'
    BY <1>7, <1>14, <2>1, <2>2, <2>3 DEF Carrying
  <2> QED BY <1>2, <1>5, <2>1, <2>4 DEF Stages, Serving
<1>15. CASE Answered
  <2>1. op \in {"write", "set"} /\ Acks(2)
    BY <1>1, <1>2, <1>15 DEF Answered
  <2>2. Acks(2)' /\ at' = "fill" /\ half = 2
    BY <1>11, <2>1
  <2>3. Given(0, 0, 0)' /\ Off' /\ Fresh' /\ (Places("wait", "ack", "wait") => Places("wait", "ack", "wait")')
        /\ (Places("wait", "wait", "ack") => Places("wait", "wait", "ack")')
    BY <1>1, <1>15, SlaveStays DEF Answered
  <2>4. Answered'
    BY <1>2, <1>7, <1>15, <2>1, <2>2, <2>3 DEF Answered, Acks, Awaits
  <2>5. u2e = "ack" \/ segcp = "ack"
    BY <1>15 DEF Answered, Places
  <2> QED BY <1>5, <1>7, <2>4, <2>5 DEF Stages, Serving
<1> QED BY <1>8, <1>9, <1>10, <1>12, <1>13, <1>14, <1>15 DEF SpiInv, Stages, Serving

\* The master takes the filling behind an acknowledgement.
LEMMA FillTakes ==
  ASSUME SpiInv, Undisturbed, Fill
  PROVE  Stages' /\ Types'
<1>1. /\ at = "fill" /\ want > 0 /\ ClockByte(SPI_DUMMY)
      /\ want' = (IF Found(SPI_DUMMY) THEN want - 1 ELSE want)
      /\ UNCHANGED <<load, slave, op, at, out, half, acked, inbuf, result, rounds, trig>>
  BY DEF Fill
<1>2. SPI_DUMMY \in Byte /\ MasterTypes /\ op # "idle" /\ want \in Nat
  BY <1>1 DEF SpiInv, Types, MasterTypes, Byte, SPI_DUMMY
<1>3. /\ rx' \in Bytes /\ tx' \in Bytes /\ Len(rx') <= Depth /\ Len(tx) \in Nat
      /\ tx # <<>> => /\ Len(tx') = Len(tx) - 1 /\ Received = tx[1] /\ Len(tx) >= 1
                      /\ \A i \in 1 .. Len(tx') : tx'[i] = tx[i + 1]
  BY <1>1, <1>2, ClockByteIs
<1>4. Types'
  <2>1. want' \in Nat
    BY <1>1, <1>2
  <2>2. MasterTypes'
    BY <1>1, <1>2, <2>1 DEF MasterTypes
  <2>3. trig' \in BOOLEAN
    BY <1>1 DEF SpiInv, Types, NetTypes
  <2> QED BY <1>1, <1>3, <2>2, <2>3, MasterKeepsTypes
<1>5. ASSUME NEW h, h' = h, Acks(h) PROVE Acks(h)'
  <2>1. half = h /\ acked /\ Len(tx) = want /\ AllOf(SPI_DUMMY, tx)
    BY <1>1, <1>5 DEF Acks, Awaits
  <2>2. tx # <<>> /\ 1 \in 1 .. Len(tx)
    BY <1>1, <1>2, <2>1
  <2>3. Received = SPI_DUMMY /\ want' = want - 1
    BY <1>1, <1>3, <2>1, <2>2 DEF AllOf, Found
  <2>4. ASSUME NEW i \in 1 .. Len(tx') PROVE tx'[i] = SPI_DUMMY
    <3>1. i + 1 \in 1 .. Len(tx)
      BY <1>3, <2>2
    <3> QED BY <1>3, <2>1, <2>2, <3>1 DEF AllOf
  <2>5. AllOf(SPI_DUMMY, tx)'
    BY <2>4 DEF AllOf, SPI_DUMMY
  <2> QED BY <1>1, <1>3, <1>5, <2>1, <2>2, <2>3, <2>5 DEF Acks
<1>6. UNCHANGED <<op, at, out, half, inbuf, g_send_buf, gSEGCPREQ, s, task, u2e, segcp>> /\ Request' = Request
  BY <1>1, SlaveStays DEF Request
<1>7. ~Asking /\ ~Framed /\ ~DataSent /\ ~Reading /\ ~Carrying /\ ~Resting
  <2>1. ~Asks
    BY <1>1 DEF Asks, FirstWait
  <2> QED BY <1>1, <1>2, <2>1 DEF Asking, Listening, Collecting, Collected, Framed, InFrame, Awaits, FirstWait,
            DataSent, Reading, Carried, Carrying, Resting
<1>8. CASE Answers
  <2>1. Acks(1)'
    BY <1>1, <1>5, <1>8 DEF Answers
  <2>2. Given(0, 0, 0)' /\ Off' /\ Clear' /\ (Places("ack", "wait", "wait") => Places("ack", "wait", "wait")')
        /\ (Places("atack", "wait", "wait") => Places("atack", "wait", "wait")')
    BY <1>1, <1>8, SlaveStays DEF Answers
  <2>3. Known'
    BY <1>6, <1>8 DEF Known, Answers
  <2>4. Answers'
    BY <1>6, <1>8, <2>1, <2>2, <2>3 DEF Answers
  <2> QED BY <1>4, <2>4 DEF Stages, Serving
<1>9. CASE Answered
  <2>1. op \in {"write", "set"} /\ Acks(2)
    BY <1>1, <1>2, <1>9 DEF Answered
  <2>2. Acks(2)'
    BY <1>5, <2>1
  <2>3. Given(0, 0, 0)' /\ Off' /\ Fresh' /\ (Places("wait", "ack", "wait") => Places("wait", "ack", "wait")')
        /\ (Places("wait", "wait", "ack") => Places("wait", "wait", "ack")')
    BY <1>1, <1>9, SlaveStays DEF Answered
  <2>4. Answered'
    BY <1>1, <1>2, <1>6, <1>9, <2>1, <2>2, <2>3 DEF Answered, Acks
  <2> QED BY <1>4, <2>4 DEF Stages, Serving
<1> QED BY <1>7, <1>8, <1>9 DEF SpiInv, Stages, Serving

\* The acknowledgement has come: the body goes out, or the exchange has come to
\* its end.
LEMMA AckedGoesOn ==
  ASSUME SpiInv, Undisturbed, Acked
  PROVE  /\ Stages' /\ Types' /\ UNCHANGED <<load, slave, line, inbuf>> /\ op \in {"write", "set"} /\ at = "fill"
         /\ half \in {1, 2}
         /\ half = 1 => op' = op /\ half' = 2 /\ at' = "out" /\ trig' = trig
         /\ half = 2 => /\ op' = "idle" /\ at' = "" /\ result' = "ok"
                        /\ op = "write" => trig' = FALSE
                        /\ op = "set" => trig' = trig
<1>1. /\ at = "fill" /\ want = 0
      /\ IF acked /\ half = 1
           THEN /\ half' = 2 /\ at' = "out"
                /\ out' = IF op = "write" THEN inbuf ELSE Param
                /\ UNCHANGED <<op, want, result, trig>>
           ELSE Fail(IF acked THEN "ok" ELSE "nack")
      /\ UNCHANGED <<load, slave, line, acked, inbuf, rounds>>
  BY DEF Acked
<1>2. MasterTypes /\ op # "idle" /\ rx' = rx /\ tx' = tx /\ tx \in Bytes
  BY <1>1 DEF SpiInv, Types, MasterTypes, LineTypes, line
<1>3. ~Asking /\ ~Framed /\ ~DataSent /\ ~Carrying
  <2>1. ~Asks
    BY <1>1 DEF Asks, FirstWait
  <2> QED BY <1>1, <1>2, <2>1 DEF Asking, Listening, Collecting, Collected, Framed, InFrame, Awaits, FirstWait,
            DataSent, Carrying
<1>4. ASSUME NEW h, Acks(h) PROVE half = h /\ acked /\ tx = <<>>
  BY <1>1, <1>2, <1>4, NoBytes DEF Acks, Awaits
<1>5. UNCHANGED <<acked, inbuf, g_send_buf, gSEGCPREQ, s, task, u2e, segcp>>
  BY <1>1, SlaveStays
<1>6. ASSUME MasterTypes', trig' \in BOOLEAN PROVE Types'
  <2>1. rx' \in Bytes /\ tx' \in Bytes /\ Len(rx') <= Depth
    BY <1>2 DEF SpiInv, Types, LineTypes
  <2> QED BY <1>1, <1>6, <2>1, MasterKeepsTypes
<1>7. ASSUME half = 1, acked, op \in {"write", "set"}
      PROVE  /\ out' = Body /\ Body' = Body /\ Types' /\ op' = op /\ half' = 2 /\ at' = "out" /\ trig' = trig
             /\ Request' = Request
  <2>1. half' = 2 /\ at' = "out" /\ out' = (IF op = "write" THEN inbuf ELSE Param)
        /\ UNCHANGED <<op, want, result, trig>>
    BY <1>1, <1>7
  <2>2. out' \in Bytes
    BY <1>2, <2>1, CommandsAre DEF MasterTypes
  <2>3. MasterTypes'
    BY <1>1, <1>2, <2>1, <2>2 DEF MasterTypes, Waits
  <2>4. Types'
    BY <1>6, <2>1, <2>3 DEF SpiInv, Types, NetTypes
  <2>5. out' = Body /\ Body' = Body /\ Request' = Request
    BY <1>5, <2>1 DEF Body, Request
  <2> QED BY <2>1, <2>4, <2>5
<1>8. ASSUME half = 2, acked, op \in {"write", "set"}
      PROVE  /\ op' = "idle" /\ at' = "" /\ result' = "ok" /\ Types'
             /\ op = "write" => trig' = FALSE
             /\ op = "set" => trig' = trig
  <2>1. End("ok", 65534)
    BY <1>1, <1>8 DEF Fail
  <2>2. Return /\ result' = "ok" /\ (op = "write" => trig' = FALSE) /\ (op = "set" => trig' = trig)
    <3>1. CASE op = "write"
      BY <2>1, <3>1 DEF End
    <3>2. CASE op = "set"
      BY <2>1, <3>2 DEF End
    <3> QED BY <1>8, <3>1, <3>2
  <2>3. op' = "idle" /\ at' = "" /\ UNCHANGED <<out, half, want>>
    BY <2>2 DEF Return
  <2>4. MasterTypes'
    BY <1>1, <1>2, <2>3 DEF MasterTypes, Waits
  <2>5. trig' \in BOOLEAN
    BY <1>8, <2>2 DEF SpiInv, Types, NetTypes
  <2>6. Types'
    BY <1>6, <2>4, <2>5
  <2> QED BY <2>2, <2>3, <2>6
<1>9. CASE Answers
  <2>1. Acks(1) /\ op \in {"write", "set"}
    BY <1>1, <1>9 DEF Answers
  <2>2. half = 1 /\ acked /\ tx = <<>>
    BY <1>4, <2>1
  <2>3. /\ out' = Body /\ Body' = Body /\ Types' /\ op' = op /\ half' = 2 /\ at' = "out" /\ trig' = trig
        /\ Request' = Request
    BY <1>7, <2>1, <2>2
  <2>4. Given(0, 0, 0)' /\ Off' /\ Clear' /\ (Places("ack", "wait", "wait") => Places("ack", "wait", "wait")')
        /\ (Places("atack", "wait", "wait") => Places("atack", "wait", "wait")')
    BY <1>1, <1>9, SlaveStays DEF Answers
  <2>5. Known'
    BY <1>5, <1>9, <2>3 DEF Known, Answers
  <2>6. Answers'
    BY <1>2, <1>5, <1>9, <2>2, <2>3, <2>4, <2>5 DEF Answers
  <2> QED BY <1>1, <2>1, <2>2, <2>3, <2>6 DEF Stages, Serving
<1>10. CASE Reading
  <2>1. op \in {"write", "set"} /\ tx = <<>> /\ half = 1 /\ acked
    BY <1>1, <1>10 DEF Reading, Carried
  <2>2. /\ out' = Body /\ Body' = Body /\ Types' /\ op' = op /\ half' = 2 /\ at' = "out" /\ trig' = trig
        /\ Request' = Request
    BY <1>7, <2>1
  <2>3. /\ Given(0, 0, 0)' /\ (Places("bytes", "wait", "wait") => Places("bytes", "wait", "wait")')
        /\ (Places("atbytes", "wait", "wait") => Places("atbytes", "wait", "wait")') /\ Off' /\ Clear'
    BY <1>1, <1>10, SlaveStays DEF Reading
  <2>4. Known'
    BY <1>5, <1>10, <2>2 DEF Known, Reading
  <2>5. ASSUME NEW q \in Bytes, NEW bs \in Bytes, Carried(q, bs), q' = q, bs' = bs,
               EndOf(q, Body), Len(bs) + Len(Body) = Len(q)
        PROVE  Carried(q, bs)'
    <3>1. /\ Len(bs) <= Len(q) /\ \A i \in 1 .. Len(bs) : bs[i] = q[i]
          /\ \A i \in 1 .. Len(rx) : Len(bs) + i <= Len(q) => rx[i] = q[Len(bs) + i]
          /\ Len(rx) = 0
      BY <1>1, <2>5 DEF Carried
    <3>2. Len(bs) \in Nat /\ Len(q) \in Nat
      BY NoBytes
    <3>3. EndOf(q, out)' /\ Len(out') = Len(Body)
      BY <2>2, <2>5 DEF EndOf
    <3>4. Len(bs) + 0 + Len(Body) = Len(q)
      BY <2>5, <3>2
    <3>5. Len(bs') + Len(rx') + Len(out') = Len(q')
      BY <1>2, <2>5, <3>1, <3>3, <3>4
    <3>6. Len(bs') <= Len(q') /\ \A i \in 1 .. Len(bs') : bs'[i] = q'[i]
      BY <2>5, <3>1
    <3>7. \A i \in 1 .. Len(rx') : Len(bs') + i <= Len(q') => rx'[i] = q'[Len(bs') + i]
      BY <1>2, <2>5, <3>1
    <3> QED BY <2>2, <3>3, <3>5, <3>6, <3>7 DEF Carried
  <2>6. op = "write" /\ Carried(inbuf, g_send_buf) => Carried(inbuf, g_send_buf)'
    <3> SUFFICES ASSUME op = "write", Carried(inbuf, g_send_buf) PROVE Carried(inbuf, g_send_buf)'
      OBVIOUS
    <3>1. inbuf \in Bytes /\ g_send_buf \in Bytes /\ Len(inbuf) \in Nat
      BY NoBytes DEF SpiInv, Types, BufferTypes, MasterTypes
    <3>2. Body = inbuf /\ Len(g_send_buf) = 0
      BY <1>1 DEF Body, Carried
    <3>3. EndOf(inbuf, Body) /\ Len(g_send_buf) + Len(Body) = Len(inbuf)
      BY <3>1, <3>2 DEF EndOf
    <3> QED BY <1>5, <2>5, <3>1, <3>3
  <2>7. op = "set" /\ Carried(SetCommand, gSEGCPREQ) => Carried(SetCommand, gSEGCPREQ)'
    <3> SUFFICES ASSUME op = "set", Carried(SetCommand, gSEGCPREQ) PROVE Carried(SetCommand, gSEGCPREQ)'
      OBVIOUS
    <3>1. gSEGCPREQ \in Bytes /\ SetCommand \in Bytes
      BY CommandsAre DEF SpiInv, Types, BufferTypes
    <3>2. Body = Param /\ Len(gSEGCPREQ) = 2 /\ Len(Param) = 3 /\ Len(SetCommand) = 5
      BY <1>1, CommandsAre DEF Body, Carried
    <3>3. EndOf(SetCommand, Param)
      BY CommandsAre DEF EndOf
    <3>4. EndOf(SetCommand, Body) /\ Len(gSEGCPREQ) + Len(Body) = Len(SetCommand)
      BY <3>2, <3>3
    <3>5. SetCommand' = SetCommand
      BY DEF SetCommand, Name, Param
    <3> QED BY <1>5, <2>5, <3>1, <3>4, <3>5
  <2>8. Reading'
    BY <1>2, <1>5, <1>10, <2>1, <2>2, <2>3, <2>4, <2>6, <2>7 DEF Reading
  <2> QED BY <1>1, <2>1, <2>2, <2>8 DEF Stages, Serving
<1>11. CASE Answered
  <2>1. op \in {"write", "set"} /\ Acks(2)
    BY <1>1, <1>2, <1>11 DEF Answered
  <2>2. half = 2 /\ acked /\ tx = <<>>
    BY <1>4, <2>1
  <2>3. /\ op' = "idle" /\ at' = "" /\ result' = "ok" /\ Types'
        /\ op = "write" => trig' = FALSE
        /\ op = "set" => trig' = trig
    BY <1>8, <2>1, <2>2
  <2>4. Given(0, 0, 0)' /\ Off' /\ Fresh' /\ (Places("wait", "ack", "wait") => Places("wait", "ack", "wait")')
        /\ (Places("wait", "wait", "ack") => Places("wait", "wait", "ack")')
    BY <1>1, <1>11, SlaveStays DEF Answered
  <2>5. Answered'
    BY <1>2, <1>11, <2>2, <2>3, <2>4 DEF Answered
  <2> QED BY <1>1, <2>1, <2>2, <2>3, <2>5 DEF Stages, Serving
<1>12. CASE Resting
  <2>1. op \in {"write", "set"} /\ half = 2 /\ acked
    BY <1>1, <1>2, <1>12 DEF Resting
  <2>2. /\ op' = "idle" /\ at' = "" /\ result' = "ok" /\ Types'
        /\ op = "write" => trig' = FALSE
        /\ op = "set" => trig' = trig
    BY <1>8, <2>1
  <2>3. Waiting' /\ Given(0, 0, 0)' /\ On' /\ Fresh'
    BY <1>1, <1>12, SlaveStays DEF Resting
  <2>4. Resting'
    BY <1>2, <1>12, <2>2, <2>3 DEF Resting
  <2> QED BY <1>1, <2>1, <2>2, <2>4 DEF Stages
<1> QED BY <1>3, <1>9, <1>10, <1>11, <1>12 DEF SpiInv, Stages, Serving

\* A byte of the answer with data.
LEMMA FrameByteTaken ==
  ASSUME SpiInv, ClockByte(SPI_DUMMY), NEW v, NEW n \in Nat, Portion(v, n, n + 4 - Len(tx), tx),
         Len(tx) <= n + 4, Len(tx) >= 1
  PROVE  /\ Received = FrameByte(v, n, n + 5 - Len(tx)) /\ Len(tx') = Len(tx) - 1 /\ Len(tx) \in Nat
         /\ Len(tx') \in Nat /\ Portion(v, n, n + 4 - Len(tx), tx)'
<1>1. SPI_DUMMY \in Byte /\ Len(tx) \in Nat /\ tx # <<>>
  BY NoBytes DEF SPI_DUMMY, Byte, SpiInv, Types, LineTypes
<1>2. Len(tx') = Len(tx) - 1 /\ Received = tx[1] /\ \A i \in 1 .. Len(tx') : tx'[i] = tx[i + 1]
  BY <1>1, ClockByteIs
<1>3. Received = FrameByte(v, n, n + 5 - Len(tx))
  <2>1. 1 \in 1 .. Len(tx) /\ n + 4 - Len(tx) + 1 = n + 5 - Len(tx)
    BY <1>1
  <2> QED BY <1>2, <2>1 DEF Portion
<1>4. ASSUME NEW i \in 1 .. Len(tx') PROVE tx'[i] = FrameByte(v, n, n + 4 - Len(tx') + i)
  <2>1. i + 1 \in 1 .. Len(tx) /\ n + 4 - Len(tx) + (i + 1) = n + 4 - Len(tx') + i
    BY <1>1, <1>2
  <2>2. tx[i + 1] = FrameByte(v, n, n + 4 - Len(tx) + (i + 1))
    BY <2>1 DEF Portion
  <2> QED BY <1>2, <2>1, <2>2
<1>5. Len(tx') \in Nat
  BY <1>1, <1>2
<1> QED BY <1>1, <1>2, <1>3, <1>4, <1>5 DEF Portion, FrameByte

\* Its header is read.
LEMMA FrameHeaderRead ==
  ASSUME SpiInv, DataLength, NEW v, NEW n \in 1 .. 9, InFrame(v, n), at \in {"len", "size", "last"},
         UNCHANGED <<op, half>>
  PROVE  InFrame(v, n)' /\ at' \in {"size", "last", "length"} /\ inbuf' \in Bytes
<1>1. /\ ClockByte(SPI_DUMMY)
      /\ at = "len" => IF Found(SPI_SLAVE_WRITE_LEN_CMD) THEN at' = "size" /\ UNCHANGED inbuf
                                                         ELSE UNCHANGED <<at, inbuf>>
      /\ at = "size" => inbuf' = Append(inbuf, Received) /\ at' = IF Len(inbuf) = 1 THEN "last" ELSE at
      /\ at = "last" => IF Found(SPI_DUMMY) THEN at' = "length" /\ UNCHANGED inbuf
                                            ELSE UNCHANGED <<at, inbuf>>
  BY DEF DataLength
<1>2. n \in Nat /\ n >= 1 /\ inbuf \in Bytes /\ Len(inbuf) \in Nat /\ n \in Byte /\ 0 \in Byte
  <2>1. inbuf \in Bytes
    BY DEF SpiInv, Types, MasterTypes
  <2>2. n \in Byte /\ 0 \in Byte
    BY DEF Byte
  <2> QED BY <2>1, <2>2, NoBytes
<1>3. Len(tx) <= n + 4 /\ Portion(v, n, n + 4 - Len(tx), tx)
  BY DEF InFrame
<1>4. at = "len" => Len(tx) = n + 4 /\ inbuf = <<>>
  BY DEF InFrame, Awaits
<1>5. at = "size" => Len(inbuf) <= 1 /\ Len(tx) = n + 3 - Len(inbuf) /\ (Len(inbuf) = 1 => inbuf[1] = n)
  BY DEF InFrame, Awaits, FirstWait
<1>6. at = "last" => Len(tx) = n + 1 /\ Sized(n)
  BY DEF InFrame, Awaits, FirstWait
<1>7. Len(tx) >= 1
  BY <1>2, <1>4, <1>5, <1>6
<1>8. /\ Received = FrameByte(v, n, n + 5 - Len(tx)) /\ Len(tx') = Len(tx) - 1 /\ Len(tx) \in Nat
      /\ Len(tx') \in Nat /\ Portion(v, n, n + 4 - Len(tx), tx)'
  BY <1>1, <1>2, <1>3, <1>7, FrameByteTaken
<1>9. Len(tx') <= n + 4
  BY <1>2, <1>3, <1>8
<1>10. CASE at = "len"
  <2>1. n + 5 - Len(tx) = 1
    BY <1>2, <1>4, <1>10
  <2>2. Received = SPI_SLAVE_WRITE_LEN_CMD
    BY <1>8, <2>1 DEF FrameByte
  <2>3. at' = "size" /\ inbuf' = inbuf
    BY <1>1, <1>10, <2>2 DEF Found
  <2>4. Len(inbuf') = 0 /\ Len(tx') = n + 3 - 0 /\ n + 3 - 0 = n + 3
    BY <1>2, <1>4, <1>8, <1>10, <2>3
  <2> QED BY <1>2, <1>8, <1>9, <2>3, <2>4 DEF InFrame
<1>11. CASE at = "size"
  <2>1. inbuf' = Append(inbuf, Received)
    BY <1>1, <1>11
  <2>2. CASE Len(inbuf) = 0
    <3>1. n + 5 - Len(tx) = 2
      BY <1>2, <1>5, <1>11, <2>2
    <3>2. Received = n
      BY <1>8, <3>1 DEF FrameByte
    <3>3. inbuf' \in Bytes /\ Len(inbuf') = 1 /\ inbuf'[1] = n
      <4>1. inbuf' = Append(inbuf, n) /\ Len(inbuf) + 1 = 1
        BY <2>1, <2>2, <3>2
      <4>2. /\ Append(inbuf, n) \in Bytes /\ Len(Append(inbuf, n)) = Len(inbuf) + 1
            /\ Append(inbuf, n)[Len(inbuf) + 1] = n
        BY <1>2, OneMore
      <4> QED BY <4>1, <4>2
    <3>4. at' = "size" /\ Len(tx') = n + 3 - Len(inbuf')
      BY <1>1, <1>2, <1>5, <1>8, <1>11, <2>2, <3>3
    <3> QED BY <1>8, <1>9, <3>3, <3>4 DEF InFrame
  <2>3. CASE Len(inbuf) = 1
    <3>1. n + 5 - Len(tx) = 3
      BY <1>2, <1>5, <1>11, <2>3
    <3>2. Received = 0
      BY <1>8, <3>1 DEF FrameByte
    <3>3. inbuf' \in Bytes /\ Len(inbuf') = 2 /\ inbuf'[1] = n /\ inbuf'[2] = 0
      <4>1. inbuf' = Append(inbuf, 0) /\ Len(inbuf) + 1 = 2 /\ 1 \in 1 .. Len(inbuf) /\ inbuf[1] = n
        BY <1>5, <1>11, <2>1, <2>3, <3>2
      <4>2. /\ Append(inbuf, 0) \in Bytes /\ Len(Append(inbuf, 0)) = Len(inbuf) + 1
            /\ Append(inbuf, 0)[Len(inbuf) + 1] = 0
            /\ \A i \in 1 .. Len(inbuf) : Append(inbuf, 0)[i] = inbuf[i]
        BY <1>2, OneMore
      <4> QED BY <4>1, <4>2
    <3>4. at' = "last" /\ Len(tx') = n + 1
      BY <1>1, <1>2, <1>5, <1>8, <1>11, <2>3
    <3> QED BY <1>8, <1>9, <3>3, <3>4 DEF InFrame, Sized
  <2>4. Len(inbuf) = 0 \/ Len(inbuf) = 1
    <3>1. Len(inbuf) \in Nat /\ Len(inbuf) <= 1
      BY <1>2, <1>5, <1>11
    <3>2. \A m \in Nat : m <= 1 => m = 0 \/ m = 1
      OBVIOUS
    <3> QED BY <3>1, <3>2
  <2> QED BY <2>2, <2>3, <2>4
<1>12. CASE at = "last"
  <2>1. n + 5 - Len(tx) = 4
    BY <1>2, <1>6, <1>12
  <2>2. Received = SPI_DUMMY
    BY <1>8, <2>1 DEF FrameByte
  <2>3. at' = "length" /\ inbuf' = inbuf
    BY <1>1, <1>12, <2>2 DEF Found
  <2>4. Len(tx') = n
    BY <1>2, <1>6, <1>8, <1>12
  <2> QED BY <1>2, <1>6, <1>8, <1>9, <1>12, <2>3, <2>4 DEF InFrame, Sized
<1> QED BY <1>10, <1>11, <1>12

\* The answers with data are of values and lengths a byte holds.
LEMMA FrameSizes ==
  ASSUME SpiInv, Undisturbed, Framed
  PROVE  /\ op = "read" => /\ e2u_size \in 1 .. 9 /\ sent \in Byte /\ task = "data" /\ InFrame(sent, e2u_size) /\ Ready
         /\ op = "get" => InFrame(2, 1) /\ segcp = "reply"
         /\ op \in {"read", "get"}
<1>1. CASE op = "read"
  <2>1. Places("data", "wait", "wait") /\ InFrame(sent, e2u_size) /\ task = "data"
    BY <1>1 DEF Framed, Places
  <2>2. Ready
    BY <1>1, <2>1, ProgramIs DEF Echoes
  <2>3. e2u_size \in 1 .. 9 /\ sent \in Byte
    <3>1. sent \in Nat /\ sent <= 255
      BY PacketsBelow
    <3>2. sent \in 0 .. 255
      BY <3>1
    <3>3. \A n \in 1 .. DATA_BUF_SIZE : n \in 1 .. 9
      BY SpiConstantsAre
    <3> QED BY <2>2, <3>2, <3>3 DEF Ready, Byte
  <2> QED BY <1>1, <2>1, <2>2, <2>3
<1>2. CASE op = "get"
  BY <1>2 DEF Framed, Places
<1> QED BY <1>1, <1>2 DEF Framed

\* It reads the header of the answer.
LEMMA DataLengthReads ==
  ASSUME SpiInv, Undisturbed, DataLength
  PROVE  /\ Stages' /\ Types' /\ UNCHANGED <<load, slave, op, half, trig>> /\ op \in {"read", "get"}
         /\ at \in {"len", "size", "last"} /\ at' # "data"
<1>1. /\ at \in {"len", "size", "last"} /\ ClockByte(SPI_DUMMY)
      /\ at = "len" => IF Found(SPI_SLAVE_WRITE_LEN_CMD) THEN at' = "size" /\ UNCHANGED inbuf
                                                         ELSE UNCHANGED <<at, inbuf>>
      /\ UNCHANGED <<load, slave, op, out, half, want, acked, result, rounds, trig>>
  BY DEF DataLength
<1>2. SPI_DUMMY \in Byte /\ MasterTypes /\ op # "idle"
  <2>1. SPI_DUMMY \in Byte
    BY DEF Byte, SPI_DUMMY
  <2> QED BY <1>1, <2>1 DEF SpiInv, Types, MasterTypes
<1>3. /\ rx' \in Bytes /\ tx' \in Bytes /\ Len(rx') <= Depth
  BY <1>1, <1>2, ClockByteIs
<1>4. ASSUME at' \in Waits, inbuf' \in Bytes PROVE Types'
  <2>1. MasterTypes'
    BY <1>1, <1>2, <1>4 DEF MasterTypes
  <2>2. trig' \in BOOLEAN
    BY <1>1 DEF SpiInv, Types, NetTypes
  <2> QED BY <1>1, <1>3, <2>1, <2>2, MasterKeepsTypes
<1>5. CASE Asking
  <2>1. Asks
    BY <1>5 DEF Asking, Listening, Collecting, Collected
  <2>2. at = "len" /\ op = "read" /\ tx = <<>>
    BY <1>1, <1>2, <2>1 DEF Asks, FirstWait, MasterTypes
  <2>3. Received = 0
    BY <1>1, <1>2, <2>2, ClockByteIs
  <2>4. UNCHANGED <<at, inbuf>>
    BY <1>1, <2>2, <2>3 DEF Found, SPI_SLAVE_WRITE_LEN_CMD, SPI_NACK
  <2>5. Asking'
    BY <1>1, <1>5, <2>2, <2>4, PollsOn
  <2> QED BY <1>1, <1>2, <1>4, <2>2, <2>4, <2>5 DEF Stages, MasterTypes
<1>6. CASE Framed
  <2>1. UNCHANGED <<sent, e2u_size>> /\ Off' /\ Clear' /\ ~int' /\ s' = s /\ Given(0, 0, 0)'
        /\ (Places("data", "wait", "wait") => Places("data", "wait", "wait")')
        /\ (Places("wait", "wait", "reply") => Places("wait", "wait", "reply")')
    BY <1>1, <1>6, SlaveStays DEF Framed
  <2>2. op = "read" => InFrame(sent, e2u_size)' /\ at' \in {"size", "last", "length"} /\ inbuf' \in Bytes
    <3> SUFFICES ASSUME op = "read"
                 PROVE  InFrame(sent, e2u_size)' /\ at' \in {"size", "last", "length"} /\ inbuf' \in Bytes
      OBVIOUS
    <3>1. e2u_size \in 1 .. 9 /\ InFrame(sent, e2u_size)
      BY <1>6, FrameSizes
    <3>2. PICK v, n : v = sent /\ n = e2u_size
      OBVIOUS
    <3>3. n \in 1 .. 9 /\ InFrame(v, n)
      BY <3>1, <3>2
    <3>4. InFrame(v, n)' /\ at' \in {"size", "last", "length"} /\ inbuf' \in Bytes
      BY <1>1, <3>3, FrameHeaderRead
    <3> QED BY <2>1, <3>2, <3>4
  <2>3. op = "get" => InFrame(2, 1)' /\ at' \in {"size", "last", "length"} /\ inbuf' \in Bytes
    <3> SUFFICES ASSUME op = "get"
                 PROVE  InFrame(2, 1)' /\ at' \in {"size", "last", "length"} /\ inbuf' \in Bytes
      OBVIOUS
    <3>1. 1 \in 1 .. 9 /\ InFrame(2, 1)
      BY <1>6, FrameSizes
    <3> QED BY <1>1, <3>1, FrameHeaderRead
  <2>4. Framed'
    BY <1>1, <1>6, <2>1, <2>2, <2>3 DEF Framed
  <2>5. op \in {"read", "get"}
    BY <1>6, FrameSizes
  <2>6. at' \in Waits
    BY <2>2, <2>3, <2>5 DEF Waits
  <2> QED BY <1>1, <1>4, <2>2, <2>3, <2>4, <2>5, <2>6 DEF Stages, Serving
<1>7. ~DataSent /\ ~Resting /\ ~Answers /\ ~Reading /\ ~Carrying /\ ~Answered
  BY <1>1, <1>2 DEF DataSent, Resting, Answers, Acks, Awaits, Reading, Carried, Carrying, Answered
<1> QED BY <1>5, <1>6, <1>7 DEF SpiInv, Stages, Serving

\* It takes the length of the data, which is the one that was sent.
LEMMA LengthTaken ==
  ASSUME SpiInv, Undisturbed, Length
  PROVE  /\ Stages' /\ Types' /\ UNCHANGED <<load, slave, op, half, trig>> /\ at = "length" /\ at' = "data"
         /\ op \in {"read", "get"}
         /\ op = "read" => task = "data"
         /\ op = "get" => segcp = "reply"
<1>1. /\ at = "length"
      /\ Value(inbuf) \in Positive =>
           /\ want' = Value(inbuf) /\ inbuf' = <<>> /\ at' = "data"
           /\ UNCHANGED <<op, out, half, result, trig>>
      /\ UNCHANGED <<load, slave, line, acked, rounds>>
  BY DEF Length
<1>2. Framed
  <2>1. ~Asking
    <3>1. ~Asks
      BY <1>1 DEF Asks, FirstWait
    <3> QED BY <3>1 DEF Asking, Listening, Collecting, Collected
  <2>2. MasterTypes /\ op # "idle"
    BY <1>1 DEF SpiInv, Types, MasterTypes
  <2>3. ~DataSent /\ ~Resting /\ ~Answers /\ ~Reading /\ ~Carrying /\ ~Answered
    BY <1>1, <2>2 DEF DataSent, Resting, Answers, Acks, Awaits, Reading, Carried, Carrying, Answered
  <2> QED BY <2>1, <2>3 DEF SpiInv, Stages, Serving
<1>3. UNCHANGED <<rx, tx>> /\ MasterTypes
  BY <1>1 DEF line, SpiInv, Types
<1>4. ASSUME NEW v, NEW n \in 1 .. 9, InFrame(v, n)
      PROVE  InFrame(v, n)' /\ at' = "data" /\ UNCHANGED <<op, out, half, trig>> /\ want' \in Nat /\ inbuf' = <<>>
  <2>1. Len(tx) <= n + 4 /\ Portion(v, n, n + 4 - Len(tx), tx) /\ Len(tx) = n /\ Sized(n)
    <3>1. at = "length"
      BY <1>1
    <3> QED BY <3>1, <1>4 DEF InFrame, Awaits, FirstWait
  <2>2. Value(inbuf) = n
    <3>1. Value(inbuf) = n + 256 * 0
      BY <2>1 DEF Value, Sized
    <3> QED BY <3>1
  <2>3. n \in Positive
    BY DEF Positive
  <2>4. want' = n /\ inbuf' = <<>> /\ at' = "data" /\ UNCHANGED <<op, out, half, result, trig>>
    BY <1>1, <2>2, <2>3
  <2>5. Portion(v, n, n + 4 - Len(tx), tx)'
    BY <1>3, <2>1 DEF Portion, FrameByte
  <2>6. Len(inbuf') = 0 /\ Len(inbuf') + want' = n /\ AllOf(v, inbuf)' /\ want' = Len(tx')
    <3>1. Len(inbuf') = 0
      BY <2>4
    <3>2. \A i \in 1 .. Len(inbuf') : inbuf'[i] = v
      BY <3>1
    <3> QED BY <1>3, <2>1, <2>4, <3>1, <3>2 DEF AllOf
  <2> QED BY <1>3, <2>1, <2>4, <2>5, <2>6 DEF InFrame
<1>5. UNCHANGED <<sent, e2u_size>> /\ Off' /\ Clear' /\ ~int' /\ s' = s /\ Given(0, 0, 0)'
      /\ (Places("data", "wait", "wait") => Places("data", "wait", "wait")')
      /\ (Places("wait", "wait", "reply") => Places("wait", "wait", "reply")')
  <2>1. UNCHANGED slave
    BY <1>1
  <2> QED BY <1>2, <2>1, SlaveStays DEF Framed
<1>6. /\ op = "read" => InFrame(sent, e2u_size)'
      /\ op = "get" => InFrame(2, 1)'
      /\ at' = "data" /\ UNCHANGED <<op, out, half, trig>> /\ want' \in Nat /\ inbuf' = <<>>
  <2>1. CASE op = "read"
    <3>1. e2u_size \in 1 .. 9 /\ InFrame(sent, e2u_size)
      BY <1>2, <2>1, FrameSizes
    <3>2. PICK v, n : v = sent /\ n = e2u_size
      OBVIOUS
    <3>3. n \in 1 .. 9 /\ InFrame(v, n)
      BY <3>1, <3>2
    <3>4. InFrame(v, n)' /\ at' = "data" /\ UNCHANGED <<op, out, half, trig>> /\ want' \in Nat /\ inbuf' = <<>>
      BY <1>4, <3>3
    <3> QED BY <1>5, <2>1, <3>2, <3>4
  <2>2. CASE op = "get"
    <3>1. 1 \in 1 .. 9 /\ InFrame(2, 1)
      BY <1>2, <2>2, FrameSizes
    <3> QED BY <1>4, <2>2, <3>1
  <2> QED BY <1>2, <2>1, <2>2, FrameSizes
<1>7. Framed'
  BY <1>2, <1>5, <1>6 DEF Framed
<1>8. Types'
  <2>1. at' \in Waits /\ inbuf' \in Bytes
    BY <1>6 DEF Waits, Bytes
  <2>2. MasterTypes'
    BY <1>1, <1>3, <1>6, <2>1 DEF MasterTypes
  <2>3. trig' \in BOOLEAN /\ rx' \in Bytes /\ tx' \in Bytes /\ Len(rx') <= Depth
    BY <1>3, <1>6 DEF SpiInv, Types, NetTypes, LineTypes
  <2> QED BY <1>1, <2>2, <2>3, MasterKeepsTypes
<1> QED BY <1>1, <1>2, <1>6, <1>7, <1>8, FrameSizes DEF Stages, Serving

\* A byte of the data.
LEMMA TakeByteTakes ==
  ASSUME SpiInv, Undisturbed, TakeByte
  PROVE  /\ Stages' /\ Types' /\ UNCHANGED <<load, slave, op, half, at, trig>> /\ at = "data" /\ want > 0
         /\ op \in {"read", "get"}
         /\ op = "read" => task = "data"
         /\ op = "get" => segcp = "reply"
<1>1. /\ at = "data" /\ want > 0 /\ ClockByte(SPI_DUMMY)
      /\ inbuf' = Append(inbuf, Received) /\ want' = want - 1
      /\ UNCHANGED <<load, slave, op, at, out, half, acked, result, rounds, trig>>
  BY DEF TakeByte
<1>2. MasterTypes /\ op # "idle" /\ want \in Nat /\ inbuf \in Bytes
  BY <1>1 DEF SpiInv, Types, MasterTypes
<1>3. SPI_DUMMY \in Byte
  BY DEF Byte, SPI_DUMMY
<1>4. /\ rx' \in Bytes /\ tx' \in Bytes /\ Len(rx') <= Depth /\ Received \in Byte
  BY <1>1, <1>3, ClockByteIs
<1>5. inbuf' \in Bytes /\ Len(inbuf') = Len(inbuf) + 1 /\ Len(inbuf) \in Nat
      /\ inbuf'[Len(inbuf) + 1] = Received /\ \A i \in 1 .. Len(inbuf) : inbuf'[i] = inbuf[i]
  <2>1. /\ Append(inbuf, Received) \in Bytes /\ Len(Append(inbuf, Received)) = Len(inbuf) + 1 /\ Len(inbuf) \in Nat
        /\ Append(inbuf, Received)[Len(inbuf) + 1] = Received
        /\ \A i \in 1 .. Len(inbuf) : Append(inbuf, Received)[i] = inbuf[i]
    BY <1>2, <1>4, OneMore
  <2> QED BY <1>1, <2>1
<1>6. Framed
  <2>1. ~Asking
    <3>1. ~Asks
      BY <1>1 DEF Asks, FirstWait
    <3> QED BY <3>1 DEF Asking, Listening, Collecting, Collected
  <2>2. want # 0
    BY <1>1, <1>2
  <2>3. ~DataSent /\ ~Resting /\ ~Answers /\ ~Reading /\ ~Carrying /\ ~Answered
    BY <1>1, <1>2, <2>2 DEF DataSent, Resting, Answers, Acks, Awaits, Reading, Carried, Carrying, Answered
  <2> QED BY <2>1, <2>3 DEF SpiInv, Stages, Serving
<1>7. ASSUME NEW v, NEW n \in 1 .. 9, InFrame(v, n) PROVE InFrame(v, n)'
  <2>1. Len(tx) <= n + 4 /\ Portion(v, n, n + 4 - Len(tx), tx)
        /\ want = Len(tx) /\ Len(inbuf) + want = n /\ AllOf(v, inbuf)
    BY <1>1, <1>7 DEF InFrame, Awaits, FirstWait
  <2>2. n \in Nat /\ Len(tx) >= 1 /\ Len(tx) <= n
    BY <1>1, <1>2, <1>5, <2>1
  <2>3. /\ Received = FrameByte(v, n, n + 5 - Len(tx)) /\ Len(tx') = Len(tx) - 1 /\ Len(tx) \in Nat
        /\ Len(tx') \in Nat /\ Portion(v, n, n + 4 - Len(tx), tx)'
    BY <1>1, <2>1, <2>2, FrameByteTaken
  <2>4. n + 5 - Len(tx) \notin {1, 2, 3, 4}
    BY <2>2, <2>3
  <2>5. Received = v
    BY <2>3, <2>4 DEF FrameByte
  <2>6. ASSUME NEW i \in 1 .. Len(inbuf') PROVE inbuf'[i] = v
    <3>1. i \in 1 .. Len(inbuf) \/ i = Len(inbuf) + 1
      BY <1>5
    <3> QED BY <1>5, <2>1, <2>5, <3>1 DEF AllOf
  <2>7. AllOf(v, inbuf)'
    BY <2>6 DEF AllOf
  <2>8. want' = Len(tx') /\ Len(inbuf') + want' = n /\ Len(tx') <= n + 4
    BY <1>1, <1>2, <1>5, <2>1, <2>2, <2>3
  <2> QED BY <1>1, <2>3, <2>7, <2>8 DEF InFrame
<1>8. UNCHANGED <<sent, e2u_size>> /\ Off' /\ Clear' /\ ~int' /\ s' = s /\ Given(0, 0, 0)'
      /\ (Places("data", "wait", "wait") => Places("data", "wait", "wait")')
      /\ (Places("wait", "wait", "reply") => Places("wait", "wait", "reply")')
  <2>1. UNCHANGED slave
    BY <1>1
  <2> QED BY <1>6, <2>1, SlaveStays DEF Framed
<1>9. /\ op = "read" => InFrame(sent, e2u_size)'
      /\ op = "get" => InFrame(2, 1)'
  <2>1. CASE op = "read"
    <3>1. e2u_size \in 1 .. 9 /\ InFrame(sent, e2u_size)
      BY <1>6, <2>1, FrameSizes
    <3>2. PICK v, n : v = sent /\ n = e2u_size
      OBVIOUS
    <3>3. n \in 1 .. 9 /\ InFrame(v, n)
      BY <3>1, <3>2
    <3>4. InFrame(v, n)'
      BY <1>7, <3>3
    <3> QED BY <1>8, <2>1, <3>2, <3>4
  <2>2. CASE op = "get"
    <3>1. 1 \in 1 .. 9 /\ InFrame(2, 1)
      BY <1>6, <2>2, FrameSizes
    <3> QED BY <1>7, <2>2, <3>1
  <2> QED BY <1>6, <2>1, <2>2, FrameSizes
<1>10. Framed'
  BY <1>1, <1>6, <1>8, <1>9 DEF Framed
<1>11. Types'
  <2>1. want' \in Nat
    BY <1>1, <1>2
  <2>2. MasterTypes'
    BY <1>1, <1>2, <1>5, <2>1 DEF MasterTypes
  <2>3. trig' \in BOOLEAN
    BY <1>1 DEF SpiInv, Types, NetTypes
  <2> QED BY <1>1, <1>4, <2>2, <2>3, MasterKeepsTypes
<1> QED BY <1>1, <1>6, <1>10, <1>11, FrameSizes DEF Stages, Serving

\* The pin has fallen: the answer to the command is there.
LEMMA FallenReads ==
  ASSUME SpiInv, Undisturbed, Fallen
  PROVE  Stages' /\ Types' /\ UNCHANGED <<load, slave, op, half, inbuf, trig>> /\ op = "get" /\ at' = "len" /\ at = "low"
<1>1. /\ at = "low" /\ ~int /\ at' = "len"
      /\ UNCHANGED <<load, slave, line, op, out, half, want, acked, inbuf, result, rounds, trig>>
  BY DEF Fallen
<1>2. MasterTypes /\ op # "idle" /\ rx' = rx /\ tx' = tx
  BY <1>1 DEF SpiInv, Types, MasterTypes, line
<1>3. ~DataSent /\ ~Resting /\ ~Answers /\ ~Reading /\ ~Answered
  BY <1>1, <1>2 DEF DataSent, Resting, Answers, Acks, Awaits, Reading, Carried, Answered
<1>4. op = "get"
  <2>1. Asks => op = "get"
    BY <1>1, <1>2 DEF Asks, FirstWait, MasterTypes
  <2>2. Framed => op = "get"
    BY <1>1 DEF Framed, InFrame, Awaits, FirstWait
  <2>3. Carrying => op = "get"
    BY <1>1 DEF Carrying, Awaits
  <2> QED BY <1>3, <2>1, <2>2, <2>3 DEF SpiInv, Stages, Asking, Serving, Listening, Collecting, Collected
<1>5. segcp = "reply"
  BY <1>1, <1>4, ProgramIs DEF Commands
<1>6. Framed /\ InFrame(2, 1)
  BY <1>5, OtherPlaces
<1>7. Len(tx) <= 1 + 4 /\ Portion(2, 1, 1 + 4 - Len(tx), tx) /\ Len(tx) = 1 + 4 /\ inbuf = <<>>
  BY <1>1, <1>4, <1>6 DEF InFrame, Awaits
<1>8. Portion(2, 1, 1 + 4 - Len(tx), tx)'
  BY <1>2, <1>7 DEF Portion, FrameByte
<1>9. InFrame(2, 1)'
  BY <1>1, <1>2, <1>7, <1>8 DEF InFrame
<1>10. UNCHANGED <<sent, e2u_size>> /\ Off' /\ Clear' /\ ~int' /\ s' = s /\ Given(0, 0, 0)'
       /\ (Places("wait", "wait", "reply") => Places("wait", "wait", "reply")')
  <2>1. UNCHANGED slave
    BY <1>1
  <2> QED BY <1>6, <2>1, SlaveStays DEF Framed
<1>11. Framed'
  BY <1>1, <1>4, <1>6, <1>9, <1>10 DEF Framed
<1>12. Types'
  <2>1. at' \in Waits
    BY <1>1 DEF Waits
  <2>2. MasterTypes'
    BY <1>1, <1>2, <2>1 DEF MasterTypes
  <2>3. trig' \in BOOLEAN /\ rx' \in Bytes /\ tx' \in Bytes /\ Len(rx') <= Depth
    BY <1>1, <1>2 DEF SpiInv, Types, NetTypes, LineTypes
  <2> QED BY <1>1, <2>2, <2>3, MasterKeepsTypes
<1> QED BY <1>1, <1>4, <1>11, <1>12 DEF Stages, Serving

\* The pin has risen: the master has it all, and writes back what it has read.
LEMMA RisenGoesOn ==
  ASSUME SpiInv, Undisturbed, Risen
  PROVE  /\ Stages' /\ Types' /\ UNCHANGED <<load, slave, inbuf, trig>> /\ op \in {"read", "get"} /\ result' = "ok"
         /\ Resting /\ at = "data" /\ ~resetting
         /\ op = "read" => op' = "write" /\ half' = 1 /\ InHand
         /\ op = "get" => op' = "idle" /\ at' = ""
<1>1. /\ at = "data" /\ want = 0 /\ int /\ ~resetting /\ End("ok", Len(inbuf))
      /\ UNCHANGED <<load, slave, line, acked, inbuf, rounds>>
  BY Calm DEF Risen
<1>2. MasterTypes /\ op # "idle" /\ rx' = rx /\ tx' = tx
  BY <1>1 DEF SpiInv, Types, MasterTypes, line
<1>3. Resting
  <2>1. ~Asking
    <3>1. ~Asks
      BY <1>1 DEF Asks, FirstWait
    <3> QED BY <3>1 DEF Asking, Listening, Collecting, Collected
  <2>2. ~Framed /\ ~DataSent /\ ~Answers /\ ~Reading /\ ~Carrying /\ ~Answered
    BY <1>1, <1>2 DEF Framed, DataSent, Answers, Acks, Awaits, Reading, Carried, Carrying, Answered
  <2> QED BY <2>1, <2>2 DEF SpiInv, Stages, Serving
<1>4. op \in {"read", "get"} /\ Waiting /\ Given(0, 0, 0) /\ On /\ Fresh /\ rx = <<>> /\ tx = <<>> /\ task = "wait"
  BY <1>1, <1>2, <1>3 DEF Resting, Waiting, Places
<1>5. Waiting' /\ Given(0, 0, 0)' /\ On' /\ Fresh' /\ rx' = <<>> /\ tx' = <<>>
  <2>1. UNCHANGED slave
    BY <1>1
  <2> QED BY <1>2, <1>4, <2>1, SlaveStays
<1>6. ASSUME MasterTypes', trig' \in BOOLEAN PROVE Types'
  <2>1. rx' \in Bytes /\ tx' \in Bytes /\ Len(rx') <= Depth
    BY <1>2 DEF SpiInv, Types, LineTypes
  <2> QED BY <1>1, <1>6, <2>1, MasterKeepsTypes
<1>7. result' = "ok"
  BY <1>1 DEF End
<1>8. CASE op = "read"
  <2>1. Exchange("write", WriteRequest(Len(inbuf))) /\ UNCHANGED trig
    BY <1>1, <1>8 DEF End
  <2>2. op' = "write" /\ at' = "out" /\ out' = WriteRequest(Len(inbuf)) /\ half' = 1 /\ want' = 0
    BY <2>1 DEF Exchange
  <2>3. InHand
    BY <1>1, <1>4, <1>8, ProgramIs DEF Echoes
  <2>4. Len(inbuf) \in 0 .. 9
    <3>1. Len(inbuf) \in 1 .. DATA_BUF_SIZE
      BY <2>3 DEF InHand, Copied
    <3>2. \A n \in 1 .. DATA_BUF_SIZE : n \in 0 .. 9
      BY SpiConstantsAre
    <3> QED BY <3>1, <3>2
  <2>5. out' \in Bytes /\ Len(out') = 4
    BY <2>2, <2>4, HeadersAre, ZenonT(60)
  <2>6. Request' = out'
    BY <1>1, <2>2 DEF Request, WriteRequest, Size
  <2>7. EndOf(Request, out)'
    <3>1. \A i \in 1 .. Len(out') : out'[i] = Request'[Len(Request') - Len(out') + i]
      <4>1. \A i \in 1 .. 4 : 4 - 4 + i = i
        OBVIOUS
      <4> QED BY <2>5, <2>6, <4>1
    <3> QED BY <2>5, <2>6, <3>1 DEF EndOf
  <2>8. Asks'
    BY <1>5, <2>2, <2>7 DEF Asks
  <2>9. Follows(rx, 0)' /\ Len(rx') = 0
    BY <1>5 DEF Follows
  <2>10. Len(rx') + Len(out') = 4
    BY <2>5, <2>9
  <2>11. Listening'
    BY <1>5, <2>2, <2>8, <2>9, <2>10 DEF Listening
  <2>12. MasterTypes'
    BY <1>1, <1>2, <2>2, <2>5 DEF MasterTypes, Waits
  <2>13. Types'
    BY <1>6, <2>1, <2>12 DEF SpiInv, Types, NetTypes
  <2> QED BY <1>1, <1>3, <1>7, <1>8, <2>1, <2>2, <2>3, <2>11, <2>13 DEF Stages, Asking
<1>9. CASE op = "get"
  <2>1. Return /\ UNCHANGED trig
    BY <1>1, <1>9 DEF End
  <2>2. op' = "idle" /\ at' = "" /\ UNCHANGED <<out, half, want>>
    BY <2>1 DEF Return
  <2>3. Resting'
    BY <1>5, <2>2 DEF Resting
  <2>4. MasterTypes'
    BY <1>1, <1>2, <2>2 DEF MasterTypes, Waits
  <2>5. Types'
    BY <1>6, <2>1, <2>4 DEF SpiInv, Types, NetTypes
  <2> QED BY <1>1, <1>3, <1>7, <1>9, <2>1, <2>2, <2>3, <2>5 DEF Stages
<1> QED BY <1>4, <1>8, <1>9

\* The master begins an exchange.
LEMMA BeginAsks ==
  ASSUME SpiInv, Undisturbed, Begin
  PROVE  /\ Stages' /\ Types' /\ UNCHANGED <<load, slave, trig>> /\ op = "idle" /\ half' = 1 /\ at' = "out" /\ ~resetting
         /\ load.program = "echo" => trig /\ op' = "read"
         /\ load.program = "at" => op' \in {"set", "get"} /\ segcp # "reply"
<1>1. /\ op = "idle" /\ ~resetting /\ inbuf' = <<>>
      /\ load.program = "echo" => trig /\ Exchange("read", ReadRequest) /\ UNCHANGED rounds
      /\ load.program = "at" => /\ rounds' = rounds + 1
                                /\ IF rounds % 2 = 0 THEN Exchange("set", Name \o Size(Len(Param)))
                                                     ELSE Exchange("get", GetCommand)
      /\ UNCHANGED <<load, slave, line, acked, result, trig>>
  BY Calm DEF Begin
<1>2. load.program \in {"echo", "at"} /\ MasterTypes /\ UNCHANGED <<rx, tx>>
  BY <1>1, Calm DEF SpiInv, Types, line
<1>3. /\ op' \in {"read", "set", "get"} /\ at' = "out" /\ half' = 1 /\ want' = 0 /\ rounds' \in Nat
      /\ out' = CASE op' = "read" -> ReadRequest [] op' = "set" -> Name \o Size(Len(Param)) [] OTHER -> GetCommand
  <2>1. rounds \in Nat
    BY <1>2 DEF MasterTypes
  <2>2. CASE load.program = "echo"
    BY <1>1, <2>1, <2>2 DEF Exchange
  <2>3. CASE load.program = "at" /\ rounds % 2 = 0
    BY <1>1, <2>1, <2>3 DEF Exchange
  <2>4. CASE load.program = "at" /\ rounds % 2 # 0
    BY <1>1, <2>1, <2>4 DEF Exchange
  <2> QED BY <1>2, <2>2, <2>3, <2>4
<1>4. 0 \in 0 .. 9 /\ Len(GetCommand) = 4 /\ GetCommand \in Bytes
  BY CommandsAre
<1>5. out' \in Bytes /\ Len(out') = 4
  BY <1>3, <1>4, HeadersAre
<1>6. Request' = out'
  <2>1. CASE op' = "read"
    BY <1>3, <2>1 DEF Request, ReadRequest, Times
  <2>2. CASE op' = "set"
    BY <1>3, <2>2 DEF Request, Name, Size, Param
  <2>3. CASE op' = "get"
    BY <1>3, <2>3 DEF Request, GetCommand, Name, CRLF
  <2> QED BY <1>3, <2>1, <2>2, <2>3
<1>7. Types'
  <2>1. inbuf' \in Bytes /\ at' \in Waits
    BY <1>1, <1>3 DEF Bytes, Waits
  <2>2. MasterTypes'
    BY <1>3, <1>5, <2>1 DEF MasterTypes
  <2>3. trig' \in BOOLEAN /\ rx' \in Bytes /\ tx' \in Bytes /\ Len(rx') <= Depth
    BY <1>1, <1>2 DEF SpiInv, Types, NetTypes, LineTypes
  <2> QED BY <1>1, <2>2, <2>3, MasterKeepsTypes
<1>8. ~Asking /\ ~Framed /\ ~DataSent /\ ~Answers /\ ~Reading /\ ~Carrying
  BY <1>1 DEF Asking, Listening, Collecting, Collected, Asks, Framed, DataSent, Answers, Reading, Carrying
<1>9. CASE Answered
  <2>1. tx' = <<>>
    BY <1>1, <1>2, <1>9 DEF Answered
  <2>2. Given(0, 0, 0)' /\ Off' /\ Fresh' /\ (Places("wait", "ack", "wait") => Places("wait", "ack", "wait")')
        /\ (Places("wait", "wait", "ack") => Places("wait", "wait", "ack")')
    BY <1>1, <1>9, SlaveStays DEF Answered
  <2>3. Answered'
    BY <1>1, <1>3, <1>6, <1>9, <2>1, <2>2 DEF Answered
  <2>4. segcp # "reply"
    BY <1>9 DEF Answered, Places
  <2> QED BY <1>1, <1>3, <1>7, <2>3, <2>4 DEF Stages, Serving, Exchange
<1>10. CASE Resting
  <2>1. Waiting' /\ Given(0, 0, 0)' /\ On' /\ Fresh' /\ rx' = <<>> /\ tx' = <<>> /\ segcp # "reply"
    BY <1>1, <1>2, <1>10, SlaveStays DEF Resting, Waiting, Places
  <2>2. EndOf(Request, out)'
    <3>1. \A i \in 1 .. Len(out') : out'[i] = Request'[Len(Request') - Len(out') + i]
      <4>1. \A i \in 1 .. 4 : 4 - 4 + i = i
        OBVIOUS
      <4> QED BY <1>5, <1>6, <4>1
    <3> QED BY <1>5, <1>6, <3>1 DEF EndOf
  <2>3. Asks'
    BY <1>1, <1>3, <2>1, <2>2 DEF Asks
  <2>4. Follows(rx, 0)' /\ Len(rx') = 0
    BY <2>1 DEF Follows
  <2>5. Len(rx') + Len(out') = 4
    BY <1>5, <2>4
  <2>6. Listening'
    BY <1>3, <2>1, <2>3, <2>4, <2>5 DEF Listening
  <2> QED BY <1>1, <1>3, <1>7, <2>1, <2>6 DEF Stages, Asking, Exchange
<1> QED BY <1>8, <1>9, <1>10 DEF SpiInv, Stages, Serving

-----------------------------------------------------------------------------
(* SpiSlave: the packets and the commands, while the stages go on.          *)

Programs == IF load.program = "echo" THEN Echoes ELSE Commands

\* The program of the load says which exchanges there are.
LEMMA ProgramsAre ==
  ASSUME SpiInv, Undisturbed
  PROVE  /\ Programs /\ EchoesWhole
         /\ load.program = "echo" => Echoes /\ op \in {"idle", "read", "write"}
         /\ load.program # "echo" => Commands /\ op \in {"idle", "set", "get"}
         /\ op \in {"read", "write"} => load.program = "echo"
         /\ op \in {"set", "get"} => load.program # "echo"
         /\ resetting => load.program = "echo" /\ Resting /\ (op = "idle" \/ at = "data")
  BY DEF SpiInv, Programs, Echoes, Commands

\* While the interface is set up again, nobody is at work.
LEMMA NobodyAtWork ==
  ASSUME SpiInv, Undisturbed, resetting
  PROVE  ~on_spi_rx /\ ~spi_data_transfer_task /\ ~seg_u2e_task /\ ~segcp_serial_task
<1>1. Waiting /\ Given(0, 0, 0) /\ On /\ rx = <<>>
  BY ProgramsAre DEF Resting
<1>2. task = "wait" /\ u2e = "wait" /\ segcp = "wait" /\ handling = {} /\ Len(rx) = 0
  BY <1>1 DEF Waiting, Places, On
<1>3. seg_spi_pending_sem = 0 /\ seg_u2e_sem = 0 /\ segcp_uart_sem = 0
  BY <1>1 DEF Given
<1>4. ~on_spi_rx
  BY <1>2 DEF on_spi_rx, Interrupt, HandleByte, Half
<1>5. \A x : ~Case(x)
  BY <1>3 DEF Case
<1>6. ~spi_data_transfer_task
  BY <1>2, <1>5 DEF spi_data_transfer_task, SlaveDataWrite, SlaveDataRead, Atcmd, Refuse, Default, TaskSent, Written,
     Listen, ReadByte, DataRead, ReadCommandByte, CommandRead
<1>7. ~seg_u2e_task
  BY <1>2, <1>3 DEF seg_u2e_task, TakeData, SendData, DataAcked
<1>8. ~segcp_serial_task
  BY <1>2, <1>3 DEF segcp_serial_task, ProcessCommand, Replied
<1> QED BY <1>4, <1>6, <1>7, <1>8

\* What has been given to the socket stays as it is.
LEMMA WholeStays ==
  ASSUME SpiInv, Undisturbed, UNCHANGED <<sent, net>>
  PROVE  EchoesWhole'
<1>1. sent \in Nat /\ sent' \in Nat /\ sent' >= sent
  BY PacketsBelow
<1> QED BY <1>1, ProgramsAre, WholeKept

\* A step of the slave's that gives nothing to the socket or to the master.
LEMMA SlaveKeeps ==
  ASSUME SpiInv, Undisturbed, ~resetting,
         UNCHANGED <<load, master, trig, int, recv, sent, e2u_size, g_recv_buf, data_buffer, net, resetting, done>>,
         timer' => timer, u2e_size' = u2e_size \/ op = "write",
         task' = "written" => task = "written",
         op = "read" => (task = "written" => task' = "written") /\ (at = "data" => task' = task),
         op = "write" => (Told' <=> Told),
         segcp' = segcp \/ (segcp = "ack" /\ segcp' = "wait" /\ (op = "get" => at # "data"))
  PROVE  Programs' /\ EchoesWhole'
<1>1. UNCHANGED <<op, at, half, inbuf>>
  BY DEF master
<1>2. EchoesWhole'
  BY WholeStays
<1>3. CASE load.program = "echo"
  <2>1. Echoes
    BY <1>3, ProgramsAre
  <2>2. (Ready => Ready') /\ (Came => Came') /\ (InHand => InHand') /\ (Handed => Handed')
    BY <1>1 DEF Ready, Below, FrameByte, Came, Packet, Times, InHand, Copied, AllOf, Handed
  <2> QED BY <1>1, <1>2, <1>3, <2>1, <2>2 DEF Echoes, Programs
<1>4. CASE load.program # "echo"
  <2>1. Commands /\ op \in {"idle", "set", "get"}
    BY <1>4, ProgramsAre
  <2>2. Copied(2, 1) => Copied(2, 1)'
    BY <1>1 DEF Copied, AllOf
  <2> QED BY <1>1, <1>2, <1>4, <2>1, <2>2 DEF Commands, Programs, GetCommand, SetCommand, Name, Param, CRLF
<1> QED BY <1>3, <1>4

\* A step of the master's within an exchange.
LEMMA MasterKeeps ==
  ASSUME SpiInv, Undisturbed, ~resetting, UNCHANGED <<load, slave, op, trig>>,
         op = "write" => inbuf' = inbuf /\ (Told' <=> Told),
         op = "read" => task # "written" /\ (at = "data" \/ at' = "data" => task = "data"),
         op = "set" => (half' = 2 /\ (segcp = "ack" \/ at' = "fill") => half = 2 /\ (segcp = "ack" \/ at = "fill")),
         op = "get" => (at' = "data" => segcp = "reply"), op # "idle"
  PROVE  Programs' /\ EchoesWhole'
<1>1. UNCHANGED <<int, recv, sent, e2u_size, g_recv_buf, data_buffer, net, resetting, done, timer, u2e_size, segcp,
                  task, u2e>>
  BY SlaveStays
<1>2. EchoesWhole'
  BY <1>1, WholeStays
<1>3. CASE load.program = "echo"
  <2>1. Echoes
    BY <1>3, ProgramsAre
  <2>2. (Ready => Ready') /\ (Came => Came')
    BY <1>1 DEF Ready, Below, FrameByte, Came, Packet, Times
  <2>3. op = "write" => (InHand => InHand') /\ (Handed => Handed')
    BY <1>1 DEF Below, InHand, Copied, AllOf, Handed
  <2> QED BY <1>1, <1>2, <1>3, <2>1, <2>2, <2>3 DEF Echoes, Programs
<1>4. CASE load.program # "echo"
  <2>1. Commands /\ op \in {"idle", "set", "get"}
    BY <1>4, ProgramsAre
  <2> QED BY <1>1, <1>2, <1>4, <2>1 DEF Commands, Programs, GetCommand, SetCommand, Name, Param, CRLF
<1> QED BY <1>3, <1>4

-----------------------------------------------------------------------------
(* SpiSlave: the invariant is kept.                                         *)

\* The interrupt.
LEMMA InterruptKeeps ==
  ASSUME SpiInv, Undisturbed, on_spi_rx
  PROVE  SpiInv'
<1>1. ~resetting
  BY NobodyAtWork
<1>2. CASE Interrupt
  <2>1. Collecting' /\ UNCHANGED <<isrless, rx, irq, s, seg_spi_pending_sem>> /\ Listening
    BY <1>2, InterruptCollects, InterruptFinds
  <2>2. UNCHANGED <<load, master, trig, int, recv, sent, e2u_size, g_recv_buf, data_buffer, net, resetting, done, timer,
                    u2e_size, task, u2e, segcp, half, at, rx, tx, irq, s, conn, ulen, g_send_buf, gSEGCPREQ,
                    seg_u2e_sem, segcp_uart_sem, seg_spi_pending_sem>>
    BY <2>1 DEF isrless, others, seg, atcmds, master
  <2>3. Programs' /\ EchoesWhole'
    <3>1. Told' <=> Told
      BY <2>2 DEF Told
    <3> QED BY <1>1, <2>2, <3>1, SlaveKeeps
  <2>4. Types'
    <3>1. handling' \subseteq Cores
      BY <1>2 DEF Interrupt, SpiInv, Types, LineTypes
    <3>2. LineTypes'
      BY <2>2, <3>1 DEF SpiInv, Types, LineTypes
    <3>3. UNCHANGED sems
      BY <2>2 DEF sems
    <3> QED BY <2>2, <3>2, <3>3, TypesKept DEF Types
  <2> QED BY <2>1, <2>3, <2>4 DEF SpiInv, Programs, Stages, Asking
<1>3. CASE HandleByte
  <2>1. (Collecting' \/ Collected') /\ Types' /\ UNCHANGED isrless
    BY <1>3, HandleCollects
  <2>2. UNCHANGED <<load, master, trig, int, recv, sent, e2u_size, g_recv_buf, data_buffer, net, resetting, done, timer,
                    u2e_size, task, u2e, segcp, half, at>>
    BY <2>1 DEF isrless, others, seg, atcmds, master
  <2>3. Programs' /\ EchoesWhole'
    <3>1. Told' <=> Told
      BY <2>2 DEF Told
    <3> QED BY <1>1, <2>2, <3>1, SlaveKeeps
  <2> QED BY <2>1, <2>3 DEF SpiInv, Programs, Stages, Asking
<1> QED BY <1>2, <1>3 DEF on_spi_rx

\* The task that moves the data.
LEMMA TransferKeeps ==
  ASSUME SpiInv, Undisturbed, spi_data_transfer_task
  PROVE  SpiInv'
<1>1. ~resetting
  BY NobodyAtWork
<1>2. ASSUME Stages', Types', UNCHANGED <<taskless, trig, int, e2u_size, data_buffer>>, done' = done, timer' => timer,
             task' # "written", op = "read" => task # "written" /\ (at = "data" => task' = task)
      PROVE  SpiInv'
  <2>1. UNCHANGED <<load, master, trig, int, recv, sent, e2u_size, g_recv_buf, data_buffer, net, resetting, done,
                    u2e_size, u2e, segcp, half, at>>
    BY <1>2 DEF taskless, others, seg, master
  <2>2. Told' <=> Told
    BY <2>1 DEF Told
  <2>3. Programs' /\ EchoesWhole'
    BY <1>1, <1>2, <2>1, <2>2, SlaveKeeps
  <2> QED BY <1>2, <2>3 DEF SpiInv, Programs
<1>3. CASE SlaveDataWrite
  <2>1. /\ Framed' /\ Types' /\ task' = "data" /\ op = "read" /\ task = "wait" /\ at # "data"
        /\ UNCHANGED <<taskless, trig, int, e2u_size, data_buffer>>
    BY <1>3, WriteAnswers
  <2>2. done' = done /\ timer' = FALSE
    BY <1>3 DEF SlaveDataWrite, atcmds
  <2> QED BY <1>2, <2>1, <2>2 DEF Stages, Serving
<1>4. CASE SlaveDataRead
  <2>1. /\ Answers' /\ Types' /\ task' = "ack" /\ op = "write" /\ half = 1
        /\ UNCHANGED <<taskless, trig, int, timer, e2u_size, data_buffer>>
    BY <1>4, ReadAnswers
  <2>2. done' = done
    BY <1>4 DEF SlaveDataRead, atcmds
  <2> QED BY <1>2, <2>1, <2>2 DEF Stages, Serving
<1>5. CASE Atcmd
  <2>1. /\ Answers' \/ Carrying'
        /\ Types' /\ op \in {"set", "get"} /\ segcp = "wait" /\ half = 1 /\ at # "data"
        /\ UNCHANGED <<taskless, trig, int, timer, e2u_size, data_buffer, done>>
    BY <1>5, AtcmdAnswers
  <2>2. task' # "written"
    BY <1>5 DEF Atcmd
  <2> QED BY <1>2, <2>1, <2>2 DEF Stages, Serving
<1>6. CASE TaskSent
  <2>1. /\ \/ task = "data" /\ DataSent' /\ task' = "written" /\ op = "read" /\ at = "data"
              /\ Copied(sent, e2u_size) /\ Ready
           \/ task = "ack" /\ task' = "bytes" /\ op = "write" /\ Reading'
           \/ task = "atack" /\ task' = "atbytes" /\ op = "set" /\ Reading'
        /\ Types'
        /\ UNCHANGED <<taskless, trig, irq, int, s, seg_spi_pending_sem, timer, e2u_size, g_send_buf,
                       data_buffer, atcmds>>
    BY <1>6, SentGoesOn
  <2>2. done' = done
    BY <2>1 DEF atcmds
  <2>3. CASE task # "data"
    BY <1>2, <2>1, <2>2, <2>3 DEF Stages, Serving
  <2>4. CASE task = "data"
    <3>1. DataSent' /\ task' = "written" /\ op = "read" /\ at = "data" /\ Copied(sent, e2u_size) /\ Ready
      BY <2>1, <2>4
    <3>2. Echoes /\ load.program = "echo"
      BY <3>1, ProgramsAre
    <3>3. UNCHANGED <<load, op, at, half, inbuf, trig, int, recv, sent, e2u_size, g_recv_buf, data_buffer, net,
                      resetting, u2e>>
      BY <2>1 DEF taskless, others, seg, master
    <3>4. InHand'
      <4>1. sent \in 1 .. sent
        BY <3>1, PacketsBelow DEF Ready
      <4>2. Copied(sent, e2u_size)' /\ Below(sent)'
        BY <3>1, <3>3 DEF Ready, Copied, AllOf, Below
      <4>3. sent' \in 1 .. sent' /\ e2u_size' \in 1 .. DATA_BUF_SIZE /\ recv' = "wait"
        BY <3>1, <3>3, <4>1 DEF Ready
      <4> QED BY <3>3, <4>2, <4>3 DEF InHand
    <3>5. Came'
      BY <3>1, <3>3 DEF Ready, Came
    <3>6. Echoes'
      BY <1>1, <3>1, <3>3, <3>4, <3>5 DEF Echoes, Ready
    <3>7. EchoesWhole'
      BY <3>3, WholeStays
    <3> QED BY <2>1, <3>1, <3>2, <3>3, <3>6, <3>7 DEF SpiInv, Stages, Serving
  <2> QED BY <2>3, <2>4
<1>7. CASE Written
  <2>1. /\ Resting' /\ Types' /\ task = "written" /\ task' = "wait" /\ at = "data"
        /\ UNCHANGED <<taskless, data_buffer>> /\ e2u_size' = 0 /\ int' /\ trig' = trig
    BY <1>7, WrittenRests
  <2>2. op = "read"
    BY <2>1, SlavePlaces DEF DataSent
  <2>3. Echoes /\ load.program = "echo"
    BY <2>2, ProgramsAre
  <2>4. UNCHANGED <<load, op, at, half, inbuf, recv, sent, g_recv_buf, net, resetting>>
    BY <2>1 DEF taskless, seg, master
  <2>5. InHand'
    BY <2>1, <2>2, <2>3, <2>4 DEF Echoes, InHand, Copied, AllOf, Below
  <2>6. recv = "wait"
    BY <2>1, <2>3 DEF Echoes
  <2>7. Echoes'
    BY <1>1, <2>1, <2>2, <2>4, <2>5, <2>6 DEF Echoes, Came
  <2>8. EchoesWhole'
    BY <2>4, WholeStays
  <2> QED BY <2>1, <2>3, <2>4, <2>7, <2>8 DEF SpiInv, Stages
<1>8. CASE ReadByte
  <2>1. /\ Reading' /\ Types' /\ op = "write" /\ task = "bytes"
        /\ UNCHANGED <<taskless, trig, int, task, timer, e2u_size, data_buffer, atcmds>>
    BY <1>8, ReadByteReads
  <2> QED BY <1>2, <2>1 DEF Stages, Serving, atcmds
<1>9. CASE DataRead
  <2>1. /\ Carrying' /\ Types' /\ op = "write" /\ task = "bytes" /\ task' = "wait" /\ u2e = "wait"
        /\ UNCHANGED <<master, trig, int, u2e, segcp, timer, resetting, e2u_size, data_buffer, seg, atcmds, load>>
    BY <1>9, DataReadCarries
  <2>2. UNCHANGED <<recv, sent, g_recv_buf, net, done, half, at>>
    BY <2>1 DEF seg, atcmds, master
  <2>3. Told' <=> Told
    BY <2>1, <2>2 DEF Told
  <2>4. Programs' /\ EchoesWhole'
    BY <1>1, <2>1, <2>2, <2>3, SlaveKeeps
  <2> QED BY <2>1, <2>4 DEF SpiInv, Programs, Stages, Serving
<1>10. CASE ReadCommandByte
  <2>1. /\ Reading' /\ Types' /\ op = "set" /\ task = "atbytes"
        /\ UNCHANGED <<taskless, trig, int, task, timer, e2u_size, data_buffer, done>>
    BY <1>10, ReadCommandByteReads
  <2> QED BY <1>2, <2>1 DEF Stages, Serving
<1>11. CASE CommandRead
  <2>1. /\ Carrying' /\ Types' /\ op \in {"set", "get"} /\ segcp = "wait" /\ at # "data"
        /\ UNCHANGED <<master, trig, int, segcp, timer, resetting, e2u_size, u2e_size, data_buffer, seg, atcmds, load>>
    BY <1>11, CommandReadCarries
  <2>2. UNCHANGED <<recv, sent, g_recv_buf, net, done>> /\ task' = "wait"
    BY <1>11, <2>1 DEF seg, atcmds, CommandRead
  <2>3. Programs' /\ EchoesWhole'
    BY <1>1, <2>1, <2>2, SlaveKeeps
  <2> QED BY <2>1, <2>3 DEF SpiInv, Programs, Stages, Serving
<1> QED BY <1>3, <1>4, <1>5, <1>6, <1>7, <1>8, <1>9, <1>10, <1>11, NoRefusal DEF spi_data_transfer_task

\* A packet the master has held goes to the socket behind all that went before.
LEMMA GivenToSocket ==
  ASSUME SpiInv, Undisturbed, Echoes, InHand, net' = Append(net, inbuf), UNCHANGED <<sent, inbuf, recv>>
  PROVE  EchoesWhole' /\ Handed' /\ (recv = "copy" => Below(sent)')
<1>1. PICK k \in 1 .. sent, n \in 1 .. DATA_BUF_SIZE : Copied(k, n) /\ Below(k) /\ (recv = "copy" => k < sent)
  BY DEF InHand
<1>2. /\ Len(net) \in Nat /\ DOMAIN net = 1 .. Len(net) /\ sent \in Nat /\ sent <= 255
      /\ \A i \in 1 .. Len(net) : net[i][1] \in 1 .. sent
  BY PacketsBelow
<1>3. inbuf \in Bytes /\ net \in Seq(Bytes) /\ n \in Nat /\ n >= 1 /\ k \in 0 .. 255
  <2>1. inbuf \in Bytes /\ net \in Seq(Bytes)
    BY DEF SpiInv, Types, MasterTypes, NetTypes
  <2>2. k \in 0 .. 255
    <3>1. sent \in Nat /\ sent <= 255
      BY <1>2
    <3> QED BY <3>1
  <2> QED BY <2>1, <2>2, SpiConstantsAre
<1>4. inbuf = Packet(k, n)
  <2>1. Packet(k, n) \in Bytes /\ Len(Packet(k, n)) = n /\ \A i \in 1 .. n : Packet(k, n)[i] = k
    BY <1>3, PacketIs
  <2>2. Len(inbuf) = n /\ \A i \in 1 .. n : inbuf[i] = k
    BY <1>1 DEF Copied, AllOf
  <2>3. Len(inbuf) = Len(Packet(k, n)) /\ \A i \in 1 .. Len(inbuf) : inbuf[i] = Packet(k, n)[i]
    BY <2>1, <2>2
  <2> QED BY <1>3, <2>1, <2>3, SameBytes
<1>5. inbuf[1] = k
  <2>1. 1 \in 1 .. Len(inbuf)
    BY <1>1, <1>3 DEF Copied
  <2> QED BY <1>1, <2>1 DEF Copied, AllOf
<1>6. /\ net' \in Seq(Bytes) /\ Len(net') = Len(net) + 1 /\ net'[Len(net) + 1] = inbuf
      /\ \A i \in 1 .. Len(net) : net'[i] = net[i]
  BY <1>3, AppendProperties
<1>7. DOMAIN net' = 1 .. Len(net) + 1
  BY <1>6, LenProperties
<1>8. Handed'
  <2>1. net' # <<>>
    <3>1. Len(net') # 0
      BY <1>2, <1>6
    <3> QED BY <3>1
  <2> QED BY <1>6, <2>1 DEF Handed
<1>9. EchoesWhole'
  <2>1. ASSUME NEW i \in DOMAIN net'
        PROVE  \E k2 \in 1 .. sent', m \in 1 .. DATA_BUF_SIZE : net'[i] = Times(k2, m)
    <3>1. CASE i \in 1 .. Len(net)
      <4>1. i \in DOMAIN net /\ net'[i] = net[i]
        BY <1>2, <1>6, <3>1
      <4>2. Whole(net[i])
        BY <4>1 DEF SpiInv, EchoesWhole
      <4> QED BY <4>1, <4>2 DEF Whole, Packet
    <3>2. CASE i = Len(net) + 1
      BY <1>1, <1>4, <1>6, <3>2 DEF Packet
    <3>3. i \in 1 .. Len(net) \/ i = Len(net) + 1
      BY <1>2, <1>7
    <3> QED BY <3>1, <3>2, <3>3
  <2>3. ASSUME NEW i \in DOMAIN net', NEW j \in DOMAIN net', i < j PROVE net'[i][1] < net'[j][1]
    <3>1. i \in 1 .. Len(net) /\ i \in Nat /\ j \in Nat
      BY <1>2, <1>7, <2>3
    <3>2. CASE j \in 1 .. Len(net)
      <4>1. i \in DOMAIN net /\ j \in DOMAIN net
        BY <1>2, <3>1, <3>2
      <4>2. net[i][1] < net[j][1]
        BY <2>3, <4>1 DEF SpiInv, EchoesWhole
      <4> QED BY <1>6, <3>1, <3>2, <4>2
    <3>3. CASE j = Len(net) + 1
      <4>1. net[i][1] < k
        BY <1>1, <3>1 DEF Below
      <4> QED BY <1>5, <1>6, <3>1, <3>3, <4>1
    <3> QED BY <1>2, <1>7, <3>2, <3>3
  <2>4. (\A i \in DOMAIN net : Whole(net[i]))'
    BY <2>1 DEF Whole, Packet, Times
  <2> QED BY <2>3, <2>4 DEF EchoesWhole
<1>10. ASSUME recv = "copy" PROVE Below(sent)'
  <2>1. k < sent
    BY <1>1, <1>10
  <2>2. ASSUME NEW i \in 1 .. Len(net') PROVE net'[i][1] < sent
    <3>1. CASE i \in 1 .. Len(net)
      <4>1. net[i][1] < sent
        BY <1>10, <3>1 DEF Echoes, Came, Below
      <4> QED BY <1>6, <3>1, <4>1
    <3>2. CASE i = Len(net) + 1
      BY <1>5, <1>6, <2>1, <3>2
    <3> QED BY <1>2, <1>6, <3>1, <3>2
  <2> QED BY <2>2 DEF Below
<1> QED BY <1>8, <1>9, <1>10

\* The task of the socket.
LEMMA SocketTaskKeeps ==
  ASSUME SpiInv, Undisturbed, seg_u2e_task
  PROVE  SpiInv'
<1>1. ~resetting
  BY NobodyAtWork
<1>2. CASE TakeData
  <2>1. /\ Carrying' /\ Types' /\ op = "write" /\ Waiting /\ u2e' = "send" /\ half = 2 /\ at # "fill"
        /\ UNCHANGED <<u2eless, net>>
    BY <1>2, TakeDataCarries
  <2>2. UNCHANGED <<load, master, trig, int, recv, sent, e2u_size, g_recv_buf, data_buffer, resetting, done, timer, task,
                    segcp, half, at>>
    BY <2>1 DEF u2eless, atcmds, master
  <2>3. Told' <=> Told
    BY <2>1, <2>2 DEF Told, Waiting, Places
  <2>4. Programs' /\ EchoesWhole'
    BY <1>1, <2>1, <2>2, <2>3, SlaveKeeps
  <2> QED BY <2>1, <2>4 DEF SpiInv, Programs, Stages, Serving
<1>3. CASE SendData
  <2>1. /\ Answered' /\ Types' /\ op = "write" /\ task = "wait" /\ half = 2 /\ at # "fill" /\ net' = Append(net, inbuf)
        /\ u2e' = "ack" /\ inbuf \in Bytes /\ u2e = "send" /\ UNCHANGED u2eless
    BY <1>3, SendDataAnswers
  <2>2. UNCHANGED <<load, op, at, half, inbuf, trig, recv, sent, e2u_size, g_recv_buf, resetting, task>>
    BY <2>1 DEF u2eless, master
  <2>3. Echoes /\ load.program = "echo"
    BY <2>1, ProgramsAre
  <2>4. InHand
    BY <2>1, <2>3 DEF Echoes, Told
  <2>5. EchoesWhole' /\ Handed' /\ (recv = "copy" => Below(sent)')
    BY <2>1, <2>2, <2>3, <2>4, GivenToSocket
  <2>6. Came'
    BY <2>2, <2>3, <2>5 DEF Echoes, Came, Packet, Times
  <2>7. Echoes'
    BY <1>1, <2>1, <2>2, <2>3, <2>5, <2>6 DEF Echoes, Told
  <2> QED BY <2>1, <2>2, <2>3, <2>5, <2>7 DEF SpiInv, Stages, Serving
<1>4. CASE DataAcked
  <2>1. /\ (Listening' \/ Resting') /\ Types' /\ u2e = "ack" /\ u2e' = "wait" /\ task = "wait" /\ segcp = "wait"
        /\ UNCHANGED <<u2eless, net>>
    BY <1>4, DataAckedRests
  <2>2. UNCHANGED <<load, master, trig, int, recv, sent, e2u_size, g_recv_buf, data_buffer, resetting, done, timer, task,
                    segcp, half, at, u2e_size>>
    BY <1>4, <2>1 DEF u2eless, atcmds, master, DataAcked
  <2>3. op = "write" => (Told' <=> Told)
    <3> SUFFICES ASSUME op = "write" PROVE Told' <=> Told
      OBVIOUS
    <3>1. Answered /\ tx = <<>>
      BY <1>4, <2>1, OtherPlaces DEF DataAcked, Pushed
    <3>2. Acks(2)
      BY <3>1 DEF Answered
    <3>3. tx # Answer(SPI_ACK)
      <4>1. Len(Answer(SPI_ACK)) = 4 /\ Len(tx) = 0
        BY <3>1, AnswerIs
      <4> QED BY <4>1
    <3>4. half = 2 /\ at = "fill"
      BY <3>2, <3>3 DEF Acks
    <3> QED BY <2>2, <3>4 DEF Told
  <2>4. Programs' /\ EchoesWhole'
    BY <1>1, <2>1, <2>2, <2>3, SlaveKeeps
  <2> QED BY <2>1, <2>4 DEF SpiInv, Programs, Stages, Asking
<1> QED BY <1>2, <1>3, <1>4 DEF seg_u2e_task

\* The task of the commands.
LEMMA CommandTaskKeeps ==
  ASSUME SpiInv, Undisturbed, segcp_serial_task
  PROVE  SpiInv'
<1>1. ~resetting
  BY NobodyAtWork
<1>2. CASE ProcessCommand
  <2>1. /\ \/ op = "set" /\ Answered' /\ segcp' = "ack" /\ done' = SetCommand /\ UNCHANGED <<int, trig>>
           \/ op = "get" /\ Framed' /\ segcp' = "reply" /\ done' = GetCommand /\ int' = FALSE
              /\ (load.program = "at" => trig' = trig)
        /\ at # "data" /\ (half = 2 => at # "fill")
        /\ Types' /\ Waiting /\ UNCHANGED segcpless
    BY <1>2, ProcessCommandAnswers
  <2>2. UNCHANGED <<load, op, at, half, inbuf, recv, sent, net, resetting, timer, u2e_size>>
    BY <2>1 DEF segcpless, seg, master
  <2>3. Commands /\ load.program = "at" /\ segcp = "wait"
    BY <2>1, ProgramIs DEF Waiting, Places
  <2>4. Commands'
    <3>1. CASE op = "set"
      <4>1. segcp' = "ack" /\ done' = SetCommand' /\ int' = int /\ trig' = trig
        BY <2>1, <3>1 DEF SetCommand, Name, Param
      <4>2. int' = (segcp' # "reply")
        BY <2>3, <4>1 DEF Commands
      <4>3. op' = "set"
        BY <2>2, <3>1
      <4> QED BY <2>2, <2>3, <4>1, <4>2, <4>3 DEF Commands
    <3>2. CASE op = "get"
      <4>1. segcp' = "reply" /\ done' = GetCommand' /\ int' = FALSE /\ trig' = trig
        BY <2>1, <2>3, <3>2 DEF GetCommand, Name, CRLF
      <4>2. op' = "get"
        BY <2>2, <3>2
      <4> QED BY <2>2, <2>3, <4>1, <4>2 DEF Commands
    <3> QED BY <2>1, <3>1, <3>2
  <2>5. EchoesWhole'
    BY <2>2, WholeStays
  <2> QED BY <2>1, <2>2, <2>3, <2>4, <2>5 DEF SpiInv, Stages, Serving
<1>3. CASE Replied
  <2>1. /\ Listening' \/ Resting'
        /\ Types' /\ segcp' = "wait" /\ u2e = "wait" /\ task = "wait"
        /\ segcp = "reply" => op = "get" /\ at = "data" /\ Copied(2, 1) /\ int' /\ UNCHANGED trig
        /\ segcp # "reply" => segcp = "ack" /\ UNCHANGED <<int, trig>>
        /\ UNCHANGED <<segcpless, data_buffer, done>>
    BY <1>3, RepliedRests
  <2>2. UNCHANGED <<load, master, op, at, half, inbuf, recv, sent, net, resetting, timer, u2e_size, e2u_size,
                    g_recv_buf, task, u2e>>
    BY <2>1 DEF segcpless, seg, master
  <2>3. CASE segcp = "reply"
    <3>1. Commands /\ load.program = "at"
      BY <2>1, <2>3, ProgramIs
    <3>2. Copied(2, 1)'
      BY <2>1, <2>2, <2>3 DEF Copied, AllOf
    <3>3. Commands'
      <4>1. op' = "get" /\ segcp' = "wait" /\ trig' = trig /\ op = "get" /\ at = "data"
        BY <2>1, <2>2, <2>3
      <4>2. int' = TRUE
        BY <1>3, <2>3 DEF Replied, Raise
      <4>3. done' = GetCommand'
        BY <2>1, <2>3, <3>1, <4>1 DEF Commands, GetCommand, Name, CRLF
      <4> QED BY <2>2, <3>1, <3>2, <4>1, <4>2, <4>3 DEF Commands
    <3>4. EchoesWhole'
      BY <2>2, WholeStays
    <3> QED BY <2>1, <2>2, <3>1, <3>3, <3>4 DEF SpiInv, Stages, Asking
  <2>4. CASE segcp = "ack"
    <3>1. op = "get" => at # "data"
      BY <2>4, OtherPlaces DEF Answered
    <3>2. Told' <=> Told
      BY <2>2 DEF Told
    <3>3. Programs' /\ EchoesWhole'
      BY <1>1, <2>1, <2>2, <2>4, <3>1, <3>2, SlaveKeeps
    <3> QED BY <2>1, <3>3 DEF SpiInv, Programs, Stages, Asking
  <2> QED BY <2>1, <2>3, <2>4
<1> QED BY <1>2, <1>3 DEF segcp_serial_task

\* The master.
LEMMA MasterTakesItsTurn ==
  ASSUME SpiInv, Undisturbed, Master
  PROVE  SpiInv'
<1>1. at # "data" /\ op # "idle" => ~resetting
  BY ProgramsAre
<1>2. at # "" => op # "idle"
  BY DEF SpiInv, Types, MasterTypes
<1>3. CASE Out
  <2>1. Stages' /\ Types'
    BY <1>3, OutEnds, OutSends
  <2>2. at = "out" /\ at' \in {"out", "len", "low", "ack"} /\ UNCHANGED <<load, slave, op, half, inbuf, trig>>
    BY <1>3 DEF Out
  <2>3. u2e' = u2e /\ at # "data" /\ at' # "data" /\ at' # "fill" /\ op # "idle"
    BY <1>2, <2>2, SlaveStays
  <2>4. (Told' <=> Told) /\ (op = "read" => task # "written")
    BY <2>2, <2>3, SlavePlaces DEF Told, DataSent
  <2>5. Programs' /\ EchoesWhole'
    BY <1>1, <2>2, <2>3, <2>4, MasterKeeps
  <2> QED BY <2>1, <2>5 DEF SpiInv, Programs
<1>4. CASE Ack
  <2>1. Stages' /\ Types' /\ (at' = "fill" => u2e' = "ack" \/ segcp' = "ack" \/ half = 1)
    BY <1>4, AckTakes
  <2>2. at = "ack" /\ at' \in {"ack", "fill"} /\ UNCHANGED <<load, slave, op, half, inbuf, trig>>
    BY <1>4 DEF Ack
  <2>3. u2e' = u2e /\ segcp' = segcp /\ op # "idle"
    BY <1>2, <2>2, SlaveStays
  <2>4. op = "write" => segcp # "ack"
    BY OtherPlaces DEF Answered, Places
  <2>5. (op = "write" => (Told' <=> Told)) /\ (op = "read" => task # "written")
    BY <2>1, <2>2, <2>3, <2>4, SlavePlaces DEF Told, DataSent
  <2>6. op = "set" => (half' = 2 /\ at' = "fill" => segcp = "ack")
    <3>1. op = "set" => u2e # "ack"
      <4> SUFFICES ASSUME op = "set", u2e = "ack" PROVE FALSE
        OBVIOUS
      <4>1. Answered
        BY OtherPlaces
      <4> QED BY <2>2, <4>1 DEF Answered, Places
    <3> QED BY <2>1, <2>2, <2>3, <3>1
  <2>7. Programs' /\ EchoesWhole'
    BY <1>1, <2>2, <2>3, <2>5, <2>6, MasterKeeps
  <2> QED BY <2>1, <2>7 DEF SpiInv, Programs
<1>5. CASE Fill
  <2>1. Stages' /\ Types'
    BY <1>5, FillTakes
  <2>2. at = "fill" /\ UNCHANGED <<load, slave, op, at, half, inbuf, trig>>
    BY <1>5 DEF Fill
  <2>3. u2e' = u2e /\ op # "idle"
    BY <1>2, <2>2, SlaveStays
  <2>4. (Told' <=> Told) /\ (op = "read" => task # "written")
    BY <2>2, <2>3, SlavePlaces DEF Told, DataSent
  <2>5. Programs' /\ EchoesWhole'
    BY <1>1, <2>2, <2>3, <2>4, MasterKeeps
  <2> QED BY <2>1, <2>5 DEF SpiInv, Programs
<1>6. CASE Acked
  <2>1. /\ Stages' /\ Types' /\ UNCHANGED <<load, slave, line, inbuf>> /\ op \in {"write", "set"} /\ at = "fill"
        /\ half \in {1, 2}
        /\ half = 1 => op' = op /\ half' = 2 /\ at' = "out" /\ trig' = trig
        /\ half = 2 => /\ op' = "idle" /\ at' = "" /\ result' = "ok"
                       /\ op = "write" => trig' = FALSE
                       /\ op = "set" => trig' = trig
    BY <1>6, AckedGoesOn
  <2>2. u2e' = u2e /\ ~resetting
    BY <1>1, <2>1, SlaveStays
  <2>3. CASE half = 1
    <3>1. Told' <=> Told
      BY <2>1, <2>2, <2>3 DEF Told
    <3>2. op = "set" => segcp # "ack"
      <4> SUFFICES ASSUME op = "set", segcp = "ack" PROVE FALSE
        OBVIOUS
      <4>1. Answered
        BY OtherPlaces
      <4> QED BY <2>1, <2>3, <4>1 DEF Answered, Acks, Awaits
    <3>3. Programs' /\ EchoesWhole'
      BY <2>1, <2>2, <2>3, <3>1, <3>2, MasterKeeps
    <3> QED BY <2>1, <3>3 DEF SpiInv, Programs
  <2>4. CASE half = 2
    <3>1. UNCHANGED <<int, recv, sent, e2u_size, g_recv_buf, net, resetting, timer, u2e_size, segcp, task>>
      BY <2>1, SlaveStays
    <3>2. EchoesWhole'
      BY <3>1, WholeStays
    <3>3. CASE op = "write"
      <4>1. Echoes /\ load.program = "echo"
        BY <3>3, ProgramsAre
      <4>2. Came'
        BY <3>1, <4>1 DEF Echoes, Came, Below, Packet, Times
      <4>3. Echoes'
        BY <2>1, <2>2, <2>4, <3>1, <3>3, <4>1, <4>2 DEF Echoes
      <4> QED BY <2>1, <3>2, <4>1, <4>3 DEF SpiInv
    <3>4. CASE op = "set"
      <4>1. Commands /\ load.program # "echo"
        BY <3>4, ProgramsAre
      <4>2. op' = "idle" /\ trig' = trig /\ load' = load
        BY <2>1, <2>4, <3>4
      <4>3. Commands'
        BY <3>1, <4>1, <4>2 DEF Commands
      <4> QED BY <2>1, <3>2, <4>1, <4>3 DEF SpiInv
    <3> QED BY <2>1, <3>3, <3>4
  <2> QED BY <2>1, <2>3, <2>4
<1>7. CASE DataLength
  <2>1. /\ Stages' /\ Types' /\ UNCHANGED <<load, slave, op, half, trig>> /\ op \in {"read", "get"}
        /\ at \in {"len", "size", "last"} /\ at' # "data"
    BY <1>7, DataLengthReads
  <2>2. op = "read" => task # "written"
    BY <2>1, SlavePlaces DEF DataSent
  <2>3. Programs' /\ EchoesWhole'
    BY <1>1, <1>2, <2>1, <2>2, MasterKeeps
  <2> QED BY <2>1, <2>3 DEF SpiInv, Programs
<1>8. CASE Length
  <2>1. /\ Stages' /\ Types' /\ UNCHANGED <<load, slave, op, half, trig>> /\ at = "length" /\ at' = "data"
        /\ op \in {"read", "get"}
        /\ op = "read" => task = "data"
        /\ op = "get" => segcp = "reply"
    BY <1>8, LengthTaken
  <2>2. Programs' /\ EchoesWhole'
    BY <1>1, <1>2, <2>1, MasterKeeps
  <2> QED BY <2>1, <2>2 DEF SpiInv, Programs
<1>9. CASE TakeByte
  <2>1. /\ Stages' /\ Types' /\ UNCHANGED <<load, slave, op, half, at, trig>> /\ at = "data" /\ want > 0
        /\ op \in {"read", "get"}
        /\ op = "read" => task = "data"
        /\ op = "get" => segcp = "reply"
    BY <1>9, TakeByteTakes
  <2>2. ~resetting
    <3>1. want \in Nat /\ want # 0
      BY <2>1 DEF SpiInv, Types, MasterTypes
    <3> QED BY <2>1, <3>1, ProgramsAre DEF Resting
  <2>3. Programs' /\ EchoesWhole'
    BY <1>2, <2>1, <2>2, MasterKeeps
  <2> QED BY <2>1, <2>3 DEF SpiInv, Programs
<1>10. CASE Fallen
  <2>1. Stages' /\ Types' /\ UNCHANGED <<load, slave, op, half, inbuf, trig>> /\ op = "get" /\ at' = "len" /\ at = "low"
    BY <1>10, FallenReads
  <2>2. Programs' /\ EchoesWhole'
    BY <1>1, <2>1, MasterKeeps
  <2> QED BY <2>1, <2>2 DEF SpiInv, Programs
<1>11. CASE Risen
  <2>1. /\ Stages' /\ Types' /\ UNCHANGED <<load, slave, inbuf, trig>> /\ op \in {"read", "get"} /\ result' = "ok"
        /\ Resting /\ at = "data" /\ ~resetting
        /\ op = "read" => op' = "write" /\ half' = 1 /\ InHand
        /\ op = "get" => op' = "idle" /\ at' = ""
    BY <1>11, RisenGoesOn
  <2>2. UNCHANGED <<int, recv, sent, e2u_size, g_recv_buf, net, resetting, timer, u2e_size, segcp, task, u2e>>
    BY <2>1, SlaveStays
  <2>3. EchoesWhole'
    BY <2>2, WholeStays
  <2>4. CASE op = "read"
    <3>1. Echoes /\ load.program = "echo"
      BY <2>4, ProgramsAre
    <3>2. Came' /\ InHand'
      BY <2>1, <2>2, <2>4, <3>1 DEF Echoes, Came, Below, Packet, Times, InHand, Copied, AllOf
    <3>3. ~Told' /\ task # "written"
      BY <2>1, <2>2, <2>4 DEF Told, Resting, Waiting, Places
    <3>4. Echoes'
      BY <2>1, <2>2, <2>4, <3>1, <3>2, <3>3 DEF Echoes
    <3> QED BY <2>1, <2>3, <3>1, <3>4 DEF SpiInv
  <2>5. CASE op = "get"
    <3>1. Commands /\ load.program # "echo"
      BY <2>5, ProgramsAre
    <3>2. Commands'
      BY <2>1, <2>2, <2>5, <3>1 DEF Commands
    <3> QED BY <2>1, <2>3, <3>1, <3>2 DEF SpiInv
  <2> QED BY <2>1, <2>4, <2>5
<1>12. CASE Begin
  <2>1. /\ Stages' /\ Types' /\ UNCHANGED <<load, slave, trig>> /\ op = "idle" /\ half' = 1 /\ at' = "out" /\ ~resetting
        /\ load.program = "echo" => trig /\ op' = "read"
        /\ load.program = "at" => op' \in {"set", "get"} /\ segcp # "reply"
    BY <1>12, BeginAsks
  <2>2. UNCHANGED <<int, recv, sent, e2u_size, g_recv_buf, net, resetting, timer, u2e_size, segcp, task, u2e,
                    data_buffer, done>>
    BY <2>1, SlaveStays
  <2>3. EchoesWhole'
    BY <2>2, WholeStays
  <2>4. CASE load.program = "echo"
    <3>1. Echoes
      BY <2>4, ProgramsAre
    <3>2. Came' /\ Ready'
      BY <2>1, <2>2, <2>4, <3>1 DEF Echoes, Came, Below, Packet, Times, Ready, FrameByte
    <3>3. task # "written"
      BY <2>1, SlavePlaces DEF DataSent
    <3>4. Echoes'
      BY <2>1, <2>2, <2>4, <3>1, <3>2, <3>3 DEF Echoes
    <3> QED BY <2>1, <2>3, <2>4, <3>4 DEF SpiInv
  <2>5. CASE load.program # "echo"
    <3>1. Commands /\ load.program = "at"
      BY <2>5, ProgramsAre, Calm
    <3>2. Commands'
      BY <2>1, <2>2, <2>5, <3>1 DEF Commands
    <3> QED BY <2>1, <2>3, <2>5, <3>2 DEF SpiInv
  <2> QED BY <2>4, <2>5
<1> QED BY <1>3, <1>4, <1>5, <1>6, <1>7, <1>8, <1>9, <1>10, <1>11, <1>12 DEF Master

-----------------------------------------------------------------------------
(* SpiSlave: the beginning, every step, and what follows.                   *)

\* The beginning is a stage.
LEMMA SpiBegins ==
  ASSUME SpiInit, Undisturbed
  PROVE  SpiInv
<1>1. op = "idle" /\ at = "" /\ out = <<>> /\ inbuf = <<>>
  BY DEF SpiInit
<1>2. half = 1 /\ want = 0 /\ rounds = 0
  BY DEF SpiInit
<1>3. rx = <<>> /\ tx = <<>> /\ handling = {}
  BY DEF SpiInit
<1>4. seg_spi_pending_sem = 0 /\ seg_u2e_sem = 0 /\ segcp_uart_sem = 0
  BY DEF SpiInit
<1>5. e2u_size = 0 /\ u2e_size = 0 /\ ulen = 0
  BY DEF SpiInit
<1>6. g_send_buf = <<>> /\ gSEGCPREQ = <<>> /\ done = <<>>
  BY DEF SpiInit
<1>7. sent = 0 /\ g_recv_buf = <<>> /\ net = <<>> /\ recv = "wait"
  BY DEF SpiInit
<1>8. trig \in BOOLEAN /\ int \in BOOLEAN /\ timer \in BOOLEAN /\ resetting \in BOOLEAN
  BY DEF SpiInit
<1>9. <<>> \in Bytes /\ <<>> \in Seq(Bytes) /\ Len(<<>>) = 0
  BY EmptySeq DEF Bytes
<1>10. load \in Loads /\ conn
  BY DEF SpiInit
<1>11. MasterTypes
  <2>1. out \in Bytes /\ inbuf \in Bytes
    BY <1>1, <1>9
  <2>2. at \in Waits /\ (op = "idle" => at = "") /\ op \in {"idle", "read", "write", "set", "get"}
    BY <1>1 DEF Waits
  <2>3. half \in 1 .. 2 /\ want \in Nat /\ rounds \in Nat
    BY <1>2
  <2> QED BY <2>1, <2>2, <2>3 DEF MasterTypes
<1>12. irq = Cores
  BY DEF SpiInit, Undisturbed, OneCore
<1>13. s \in Statics
  <2>1. 0 \in Byte
    BY DEF Byte
  <2>2. <<0, 0>> \in [1 .. 2 -> Byte] /\ <<0, 0, 0, 0>> \in [1 .. 4 -> Byte]
    BY <2>1
  <2>3. s = [state |-> "command", command |-> 0, data_length |-> 0, dummy_count |-> 0,
             length_bytes |-> <<0, 0>>, length_index |-> 0,
             atcmd_bytes |-> <<0, 0, 0, 0>>, atcmd_index |-> 0]
    BY DEF SpiInit
  <2>4. \A b2 \in [1 .. 2 -> Byte], b4 \in [1 .. 4 -> Byte] :
          [state |-> "command", command |-> 0, data_length |-> 0, dummy_count |-> 0,
           length_bytes |-> b2, length_index |-> 0, atcmd_bytes |-> b4, atcmd_index |-> 0] \in Statics
    BY <2>1 DEF Statics, SpiStates
  <2> QED BY <2>2, <2>3, <2>4
<1>14. LineTypes
  <2>1. rx \in Bytes /\ tx \in Bytes /\ Len(rx) = 0
    BY <1>9, <1>3
  <2> QED BY <1>3, <1>12, <1>13, <2>1 DEF LineTypes, Depth
<1>15. SemTypes /\ SizeTypes
  BY <1>4, <1>5, SpiConstantsAre DEF SemTypes, SizeTypes
<1>16. BufferTypes
  <2>1. DATA_BUF_SIZE + 4 \in Nat
    BY SpiConstantsAre
  <2>2. 0 \in Byte
    BY DEF Byte
  <2>3. data_buffer = [i \in 1 .. DATA_BUF_SIZE + 4 |-> 0]
    BY DEF SpiInit, Times
  <2>4. data_buffer \in Bytes /\ Len(data_buffer) = DATA_BUF_SIZE + 4
    BY <2>1, <2>2, <2>3 DEF Bytes
  <2>5. Room
    BY <2>1, <2>4 DEF Room
  <2>6. g_send_buf \in Bytes /\ gSEGCPREQ \in Bytes /\ done \in Bytes
    BY <1>9, <1>6
  <2> QED BY <2>4, <2>5, <2>6 DEF BufferTypes
<1>17. NetTypes
  <2>1. g_recv_buf \in Bytes /\ net \in Seq(Bytes)
    BY <1>9, <1>7
  <2> QED BY <1>7, <1>8, <2>1, SpiConstantsAre DEF NetTypes
<1>18. Resting
  BY <1>12 DEF SpiInit, Resting, Waiting, Places, Given, On, Fresh, Clear
<1>19. EchoesWhole
  <2>1. DOMAIN net = {}
    BY <1>9, <1>7, LenProperties
  <2> QED BY <2>1 DEF EchoesWhole
<1>20. Echoes
  BY <1>18 DEF SpiInit, Echoes, Came
<1>21. Commands
  BY DEF SpiInit, Commands
<1> QED BY <1>10, <1>11, <1>14, <1>15, <1>16, <1>17, <1>18, <1>19, <1>20, <1>21 DEF SpiInv, Types, Stages

\* Every step is a step of the slave's or of the master's: the rest of them are
\* disturbances.
LEMMA SpiStep ==
  ASSUME SpiInv, Undisturbed, SpiNext
  PROVE  /\ SpiInv'
         /\ op' # op => Master
<1>1. ASSUME on_spi_rx \/ spi_data_transfer_task \/ seg_u2e_task \/ segcp_serial_task PROVE SpiInv' /\ UNCHANGED master
  <2>1. SpiInv'
    BY <1>1, InterruptKeeps, TransferKeeps, SocketTaskKeeps, CommandTaskKeeps
  <2>2. on_spi_rx => UNCHANGED master
    BY DEF on_spi_rx, Interrupt, HandleByte, isrless
  <2>3. spi_data_transfer_task => UNCHANGED master
    BY DEF spi_data_transfer_task, SlaveDataWrite, SlaveDataRead, Atcmd, Refuse, Default, TaskSent, Written,
       Listen, ReadByte, DataRead, ReadCommandByte, CommandRead, taskless
  <2>4. seg_u2e_task => UNCHANGED master
    BY DEF seg_u2e_task, TakeData, SendData, DataAcked, u2eless
  <2>5. segcp_serial_task => UNCHANGED master
    BY DEF segcp_serial_task, ProcessCommand, Replied, segcpless
  <2> QED BY <1>1, <2>1, <2>2, <2>3, <2>4, <2>5
<1>2. ASSUME ether_to_spi \/ platform_spi_reset PROVE SpiInv' /\ UNCHANGED master
  <2>1. SpiInv'
    BY <1>2, ReceivePacketKeeps, SignalPacketKeeps, ResetStateKeeps, ReconfigureKeeps DEF ether_to_spi, platform_spi_reset
  <2>2. UNCHANGED master
    BY <1>2 DEF ether_to_spi, platform_spi_reset, ReceivePacket, SignalPacket, ResetState, Reconfigure, recvless, resetless
  <2> QED BY <2>1, <2>2
<1>3. Master => SpiInv'
  BY MasterTakesItsTurn
<1>4. UNCHANGED master => op' = op
  BY DEF master
<1> QED BY <1>1, <1>2, <1>3, <1>4, NoDisturbance DEF SpiNext

\* The invariant is of nothing but the variables.
LEMMA SpiStutters ==
  ASSUME SpiInv, Undisturbed, UNCHANGED spiVars
  PROVE  SpiInv'
<1>1. UNCHANGED <<load, master, trig, line, irq, handling, int, s, sems, task, others, timer, resetting,
                  e2u_size, u2e_size, g_send_buf, data_buffer, seg, atcmds>>
  BY DEF spiVars
<1>2. UNCHANGED <<rx, tx, recv, sent, g_recv_buf, conn, net, gSEGCPREQ, done, u2e, ulen, segcp>>
  BY <1>1 DEF line, seg, atcmds, others
<1>3. UNCHANGED <<op, at, half, inbuf>>
  BY <1>1 DEF master
<1>4. Stages'
  <2>1. Framed \/ DataSent => ~int'
    BY <1>1 DEF Framed, DataSent
  <2>2. UNCHANGED <<master, line, irq, handling, s, sems, task, others, u2e_size, g_send_buf, gSEGCPREQ>>
    BY <1>1, <1>2
  <2> QED BY <1>1, <1>2, <2>1, <2>2, StagesKept DEF SpiInv, Stages, Asking, Serving
<1>5. Types'
  <2>1. LineTypes'
    BY <1>1, <1>2 DEF SpiInv, Types, LineTypes
  <2> QED BY <1>1, <1>2, <2>1, TypesKept DEF Types
<1>6. EchoesWhole'
  BY <1>2, WholeStays
<1>7. Programs'
  <2>1. (Ready => Ready') /\ (Came => Came') /\ (InHand => InHand') /\ (Handed => Handed')
    BY <1>1, <1>2, <1>3 DEF Ready, Below, FrameByte, Came, Packet, Times, InHand, Copied, AllOf, Handed
  <2>2. (Copied(2, 1) => Copied(2, 1)') /\ (Told' <=> Told) /\ (Resting => Resting')
    BY <1>1, <1>2, <1>3 DEF Copied, AllOf, Told, Resting, Waiting, Places, Given, On, Fresh, Clear, sems, master
  <2>3. load.program = "echo" => Echoes'
    BY <1>1, <1>2, <1>3, <2>1, <2>2, ProgramsAre DEF Echoes
  <2>4. load.program # "echo" => Commands'
    BY <1>1, <1>2, <1>3, <2>2, ProgramsAre DEF Commands, GetCommand, SetCommand, Name, Param, CRLF
  <2> QED BY <1>1, <2>3, <2>4 DEF Programs
<1> QED BY <1>4, <1>5, <1>6, <1>7 DEF SpiInv, Programs

\* What the invariant says of the types.
LEMMA SpiTyped ==
  ASSUME SpiInv, Undisturbed
  PROVE  SpiTypeOK
<1>1. load \in Loads /\ MasterTypes /\ LineTypes /\ SemTypes /\ SizeTypes /\ BufferTypes /\ NetTypes
  BY DEF SpiInv, Types
<1>2. s.atcmd_bytes \in Seq(Byte) /\ Len(s.atcmd_bytes) = 4
  <2>1. s.atcmd_bytes \in [1 .. 4 -> Byte]
    BY <1>1 DEF LineTypes, Statics
  <2>2. \A b \in [1 .. 4 -> Byte] : b \in Seq(Byte)
    BY SeqDef
  <2>3. s.atcmd_bytes \in Seq(Byte) /\ DOMAIN s.atcmd_bytes = 1 .. 4
    BY <2>1, <2>2
  <2>4. DOMAIN s.atcmd_bytes = 1 .. Len(s.atcmd_bytes) /\ Len(s.atcmd_bytes) \in Nat
    BY <2>3, LenProperties
  <2>5. \A n \in Nat : 1 .. 4 = 1 .. n => n = 4
    <3>1. ASSUME NEW n \in Nat, 1 .. 4 = 1 .. n PROVE n = 4
      <4>1. 4 \in 1 .. n
        BY <3>1
      <4>2. n \in 1 .. 4
        BY <3>1, <4>1
      <4> QED BY <4>1, <4>2
    <3> QED BY <3>1
  <2> QED BY <2>3, <2>4, <2>5
<1>3. \A q \in {rx, tx, out, inbuf, g_send_buf, data_buffer, gSEGCPREQ, s.atcmd_bytes} : q \in Seq(Byte)
  BY <1>1, <1>2 DEF MasterTypes, LineTypes, BufferTypes, Bytes
<1>4. u2e_size \in Word
  <2>1. u2e_size \in 0 .. 9
    BY <1>1, SpiConstantsAre, SMTT(60) DEF SizeTypes
  <2>2. \A u \in 0 .. 9 : u \in Word
    BY DEF Word
  <2> QED BY <2>1, <2>2
<1>5. s.state \in {"command", "length", "dummy", "atcmd", "read", "write", "nack"}
  BY <1>1 DEF LineTypes, Statics, SpiStates
<1>6. Len(s.atcmd_bytes) = 4 /\ s.atcmd_index \in 0 .. 3 /\ s.length_index \in 0 .. 2 /\ s.dummy_count \in 0 .. 2
  BY <1>1, <1>2 DEF LineTypes, Statics
<1>7. op \in {"idle", "read", "write", "set", "get"} /\ half \in 1 .. 2 /\ want \in Nat
  BY <1>1 DEF MasterTypes
<1>8. Len(rx) <= Depth /\ irq \subseteq Cores /\ handling \subseteq Cores
  BY <1>1 DEF LineTypes
<1>9. \A n \in {seg_spi_pending_sem, seg_u2e_sem, segcp_uart_sem} : n \in 0 .. Tokens
  BY <1>1 DEF SemTypes
<1>10. e2u_size \in 0 .. DATA_BUF_SIZE /\ sent \in 0 .. Packets
  BY <1>1 DEF SizeTypes, NetTypes
<1> QED BY <1>1, <1>3, <1>4, <1>5, <1>6, <1>7, <1>8, <1>9, <1>10 DEF SpiTypeOK

\* An exchange ends where the last byte of the answer has been taken.
LEMMA ExchangeEnds ==
  ASSUME SpiInv, Undisturbed, Master, op # "idle", op' # op
  PROVE  /\ result' = "ok"
         /\ op = "write" => net # <<>> /\ Last(net) = inbuf
         /\ op = "set" => done = SetCommand
         /\ op = "get" => done = GetCommand /\ inbuf = StoredValue
<1>1. Acked \/ Length \/ Risen
  BY DEF Master, Begin, Out, Ack, Fill, DataLength, TakeByte, Fallen
<1>2. ~Length
  <2> SUFFICES ASSUME Length PROVE FALSE
    OBVIOUS
  <2> QED BY LengthTaken
<1>3. CASE Acked
  <2>1. op \in {"write", "set"} /\ at = "fill" /\ half = 2 /\ result' = "ok"
    BY <1>3, AckedGoesOn
  <2>2. op = "write" => Handed
    BY <2>1, ProgramsAre DEF Echoes, Told
  <2>3. op = "set" => done = SetCommand
    BY <2>1, ProgramsAre DEF Commands
  <2>4. Handed => net # <<>> /\ Last(net) = inbuf
    BY DEF Handed, Last
  <2> QED BY <2>1, <2>2, <2>3, <2>4
<1>4. CASE Risen
  <2>1. op \in {"read", "get"} /\ result' = "ok" /\ Resting /\ at = "data"
    BY <1>4, RisenGoesOn
  <2>2. op = "get" => done = GetCommand /\ Copied(2, 1)
    BY <2>1, ProgramsAre DEF Commands, Resting, Waiting, Places
  <2>3. Copied(2, 1) => inbuf = StoredValue
    <3> SUFFICES ASSUME Copied(2, 1) PROVE inbuf = <<2>>
      BY DEF StoredValue
    <3>1. inbuf \in Bytes /\ Len(inbuf) = 1 /\ inbuf[1] = 2
      <4>1. Len(inbuf) = 1 /\ 1 \in 1 .. Len(inbuf)
        BY DEF Copied
      <4> QED BY <4>1 DEF Copied, AllOf, SpiInv, Types, MasterTypes
    <3> QED BY <3>1 DEF Bytes
  <2> QED BY <2>1, <2>2, <2>3
<1> QED BY <1>1, <1>2, <1>3, <1>4

\* The load is the same for ever.
LEMMA LoadStays ==
  ASSUME [SpiNext]_spiVars
  PROVE  load' = load /\ (Undisturbed' <=> Undisturbed)
<1>1. on_spi_rx => load' = load
  BY DEF on_spi_rx, Interrupt, HandleByte, isrless
<1>2. spi_data_transfer_task => load' = load
  BY DEF spi_data_transfer_task, SlaveDataWrite, SlaveDataRead, Atcmd, Refuse, Default, TaskSent, Written,
     Listen, ReadByte, DataRead, ReadCommandByte, CommandRead, taskless
<1>3. seg_u2e_task \/ segcp_serial_task => load' = load
  BY DEF seg_u2e_task, TakeData, SendData, DataAcked, u2eless, segcp_serial_task, ProcessCommand, Replied, segcpless
<1>4. ether_to_spi \/ platform_spi_reset \/ Connection => load' = load
  BY DEF ether_to_spi, platform_spi_reset, ReceivePacket, SignalPacket, ResetState, Reconfigure, recvless, resetless,
     Connection
<1>5. Master \/ Timeout => load' = load
  <2>1. Begin \/ Out \/ Ack \/ Fill => load' = load
    BY DEF Begin, Out, Ack, Fill
  <2>2. Acked => load' = load
    BY DEF Acked
  <2>3. DataLength \/ TakeByte \/ Fallen => load' = load
    BY DEF DataLength, TakeByte, Fallen
  <2>4. Length => load' = load
    BY DEF Length
  <2>5. Risen \/ Timeout => load' = load
    BY DEF Risen, Timeout
  <2> QED BY <2>1, <2>2, <2>3, <2>4, <2>5 DEF Master
<1>6. UNCHANGED spiVars => load' = load
  BY DEF spiVars
<1> QED BY <1>1, <1>2, <1>3, <1>4, <1>5, <1>6 DEF SpiNext, Undisturbed

\* The invariant: the stage the exchange is in, which says what is in the FIFOs,
\* in the statics and at the semaphores, and where the packet or the command is.
THEOREM SpiKeeps == SpiSpec /\ Undisturbed => [](Undisturbed /\ SpiInv)
<1>1. SpiInit /\ Undisturbed => Undisturbed /\ SpiInv
  BY SpiBegins
<1>2. (Undisturbed /\ SpiInv) /\ [SpiNext]_spiVars => (Undisturbed /\ SpiInv)'
  BY SpiStep, SpiStutters, LoadStays
<1> QED BY <1>1, <1>2, PTL DEF SpiSpec

\* Types of SpiSlave, as long as nothing disturbs the exchanges: no static of the
\* interrupt is used as an index outside its array, and both sizes fit in the
\* buffers.
THEOREM SpiTypeCorrect == SpiSpec /\ Undisturbed => []SpiTypeOK
<1>1. Undisturbed /\ SpiInv => SpiTypeOK
  BY SpiTyped
<1> QED BY <1>1, SpiKeeps, PTL

\* EchoesWhole, for any number of packets up to 255 and any size of the buffer up
\* to 9: what goes to the socket are the packets that came, whole and in order,
\* also when the next one comes while the master has the last in its hand.
THEOREM EchoesAreWhole == SpiSpec /\ Undisturbed => []EchoesWhole
<1>1. Undisturbed /\ SpiInv => EchoesWhole
  BY DEF SpiInv
<1> QED BY <1>1, SpiKeeps, PTL

\* InStep, for all loads: it is about the one that nothing may disturb.  On one
\* core every exchange ends without an error, what the master wrote went to the
\* socket, and what it asked for was carried out and answered.
THEOREM StaysInStep == OneCore => (SpiSpec => InStep)
<1> SUFFICES ASSUME OneCore PROVE SpiSpec => InStep
  OBVIOUS
<1>1. ASSUME SpiInv, Undisturbed, SpiNext, op # "idle", op' # op
      PROVE  /\ result' = "ok"
             /\ op = "write" => net # <<>> /\ Last(net) = inbuf
             /\ op = "set" => done = SetCommand
             /\ op = "get" => done = GetCommand /\ inbuf = StoredValue
  BY <1>1, SpiStep, ExchangeEnds
<1>2. SpiInit => (Undisturbed => SpiInv)
  BY SpiBegins
<1>3. (Undisturbed => SpiInv) /\ [SpiNext]_spiVars => (Undisturbed => SpiInv)'
  <2> SUFFICES ASSUME Undisturbed => SpiInv, [SpiNext]_spiVars, Undisturbed' PROVE SpiInv'
    OBVIOUS
  <2>1. Undisturbed
    BY LoadStays
  <2> QED BY <2>1, SpiStep, SpiStutters
<1>4. (Undisturbed => SpiInv) /\ [SpiNext]_spiVars =>
        [op # "idle" /\ op' # op /\ load.may = {} =>
           /\ result' = "ok"
           /\ op = "write" => net # <<>> /\ Last(net) = inbuf
           /\ op = "set" => done = SetCommand
           /\ op = "get" => done = GetCommand /\ inbuf = StoredValue]_spiVars
  BY <1>1 DEF Undisturbed
<1> QED BY <1>2, <1>3, <1>4, PTL DEF InStep, SpiSpec
=============================================================================
