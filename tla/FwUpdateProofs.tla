--------------------------- MODULE FwUpdateProofs ---------------------------
(***************************************************************************)
(* For every flash geometry, receive size, set of image sizes, number of   *)
(* connections and of power losses: the variables keep their types, and    *)
(* the receive loop stays inside g_temp_buf and inside bank 1.  For every  *)
(* careful load (CarefulLoads) the banks keep a whole image: Kept says, at *)
(* every place of the bootloader, which bank holds one and how far the     *)
(* reception and the copy have come, and the update implements             *)
(* AtomicInstall.                                                          *)
(***************************************************************************)
EXTENDS FwUpdate, TLAPS

\* The receive loop counts what it wrote: full sectors and the buffer.
Counting ==
    Filling => /\ ram.size \in Sizes
               /\ f_addr >= Bank1 /\ Len(buf) < SectorSize
               /\ write_fw_len = (f_addr - Bank1) * SectorSize + Len(buf)
               /\ write_fw_len < ram.size + RecvMax
               /\ (pc \in {"erase", "program"} => job.at \in Bank1..(ConfigSector - 1))

\* It goes on only while bytes are missing, of the image and of the connection.
Missing ==
    (pc = "update" \/ (pc \in {"erase", "program"} /\ job.then = "update"))
        => /\ write_fw_len < ram.size
           /\ (sock # "CLOSED" => recv_fwsize < ram.size)

IInv == TypeOK /\ Counting /\ Missing

-----------------------------------------------------------------------------
\* Positions compare as the byte counts they stand for.
LEMMA LessBySectors ==
    ASSUME NEW a \in Int, NEW b \in Int, NEW c \in Nat \ {0}, a * c < b * c
    PROVE  a < b
<1>1. SUFFICES ASSUME a >= b PROVE FALSE
  OBVIOUS
<1>2. (a - b) * c >= 0
  BY <1>1
<1>3. a * c = b * c + (a - b) * c
  OBVIOUS
<1> QED BY <1>2, <1>3

\* An announced size is positive and fits a bank.
LEMMA SizeInBank ==
    ASSUME NEW z \in Sizes
    PROVE  /\ BankSectors * SectorSize \in Nat
           /\ z \in Nat /\ z > 0 /\ z <= BankSectors * SectorSize
<1>1. BankSectors * SectorSize \in Nat
  BY SizeAssumption
<1>2. z \in 1..(BankSectors * SectorSize)
  BY SizeAssumption
<1> QED BY <1>1, <1>2

\* The copy loop takes at most one sector more than the bank has.
LEMMA CopyLength ==
    ASSUME NEW z \in {-1, 0} \cup Sizes
    PROVE  CopySectors(z) \in Int /\ CopySectors(z) <= BankSectors + 1
<1> USE SizeAssumption
<1> DEFINE n == z + SectorSize + SectorSize - 1
<1>1. BankSectors * SectorSize \in Nat /\ z \in Int
  OBVIOUS
<1>2. z <= BankSectors * SectorSize
  BY <1>1
<1>3. (BankSectors + 2) * SectorSize = BankSectors * SectorSize + SectorSize + SectorSize
  OBVIOUS
<1>4. n \in Int /\ n < (BankSectors + 2) * SectorSize
  BY <1>1, <1>2, <1>3
<1>5. CopySectors(z) = n \div SectorSize
  BY <1>1 DEF CopySectors, SectorsOf
<1> HIDE DEF n
<1>6. n \div SectorSize \in Int /\ (n \div SectorSize) * SectorSize <= n
  <2>1. (n = SectorSize * (n \div SectorSize) + (n % SectorSize)) /\ (n % SectorSize >= 0)
    BY <1>4
  <2>2. n \div SectorSize \in Int
    BY <1>4
  <2>3. n % SectorSize \in Int
    BY <1>4
  <2> QED BY <2>1, <2>2, <2>3, <1>4
<1>7. (n \div SectorSize) * SectorSize < (BankSectors + 2) * SectorSize
  BY <1>4, <1>6
<1>8. n \div SectorSize < BankSectors + 2
  BY <1>6, <1>7, LessBySectors
<1> QED BY <1>5, <1>6, <1>8

\* A part of a buffer with its padding is a sector.
LEMMA FilledType ==
    ASSUME NEW q \in Seq(Units)
    PROVE  Filled(q) \in Sector
BY DEF Filled, Sector, Units, Erased

\* A full buffer is a sector.
LEMMA FullType ==
    ASSUME NEW q \in Seq(Units), Len(q) = SectorSize
    PROVE  q \in Sector
<1>1. q \in [1..Len(q) -> Units]
  OBVIOUS
<1> QED BY <1>1 DEF Sector

\* An erased sector is a sector.
LEMMA BlankType == Blank \in Sector /\ Units # {}
BY DEF Blank, Sector, Units, Erased

\* The type invariant and the two counts hold in the initial states.
LEMMA InitHolds == Init => IInv
<1> SUFFICES ASSUME Init PROVE IInv
  OBVIOUS
<1> USE SizeAssumption, BoundAssumption
<1>1. [i \in 1..SectorSize |-> <<1, i>>] \in Sector
  BY DEF Sector, Units, Images
<1>2. flash \in [BankArea -> Sector]
  BY <1>1, BlankType DEF Init
<1>3. TypeOK
  <2>1. nv \in Flags /\ ram \in Flags
    BY DEF Init, Flags
  <2>2. job \in [at : 0..ConfigSector, data : Sector, then : Places]
    <3>1. 0 \in 0..ConfigSector
      BY DEF ConfigSector
    <3> QED BY <3>1, BlankType DEF Init, NoJob, Places
  <2>3. size \in [Images -> {0} \cup 1..(BankSectors * SectorSize)]
    <3>1. SectorSize <= BankSectors * SectorSize
      <4>1. (BankSectors - 1) * SectorSize >= 0
        OBVIOUS
      <4> QED BY <4>1
    <3> QED BY <3>1 DEF Init, Images
  <2>4. /\ pc \in Places /\ f_addr \in Nat /\ buf \in Seq(Units)
        /\ image \in Images
    BY DEF Init, Places, Bank1, Images
  <2>5. /\ write_fw_len \in Nat /\ recv_fwsize \in Nat
        /\ sock \in {"CLOSED", "LISTEN", "ESTABLISHED", "CLOSE_WAIT"}
        /\ conns \in 0..MaxConns /\ crashes \in 0..MaxCrashes /\ load \in Loads
    BY DEF Init
  <2> QED BY <1>2, <2>1, <2>2, <2>3, <2>4, <2>5 DEF TypeOK
<1>4. Counting /\ Missing
  BY DEF Init, Counting, Missing, Filling
<1> QED BY <1>3, <1>4 DEF IInv

-----------------------------------------------------------------------------
(* One lemma per group of actions.                                         *)

\* A write_flash call keeps the type of job and pc.
LEMMA WriteType ==
    ASSUME NEW at \in 0..ConfigSector, NEW data \in Sector, NEW then \in Places,
           Write(at, data, then)
    PROVE  /\ job' \in [at : 0..ConfigSector, data : Sector, then : Places]
           /\ pc' = "erase" /\ job'.at = at /\ job'.then = then
           /\ pc' \in Places
BY DEF Write, Places

\* The configuration is written: no receive loop is under way then.
LEMMA ConfigWrite ==
    ASSUME TypeOK, NEW then \in Places, then \notin {"update", "received", "success"},
           Write(ConfigSector, Blank, then), ram' \in Flags,
           UNCHANGED <<flash, nv, receiver, image, size, crashes, load>>
    PROVE  IInv'
<1>1. ConfigSector \in 0..ConfigSector
  BY SizeAssumption DEF ConfigSector
<1>2. /\ job' \in [at : 0..ConfigSector, data : Sector, then : Places]
      /\ pc' = "erase" /\ job'.then = then /\ pc' \in Places
  BY <1>1, BlankType, WriteType
<1>3. TypeOK'
  BY <1>2 DEF TypeOK, receiver
<1> QED BY <1>2, <1>3 DEF IInv, Counting, Missing, Filling

\* A reset forgets the update under way.
LEMMA ResetStep ==
    ASSUME TypeOK, ResetMemory, pc' = "boot", UNCHANGED <<flash, nv, image, size, load>>,
           crashes' \in 0..MaxCrashes
    PROVE  IInv'
<1>1. ram' \in Flags /\ pc' \in Places
  BY DEF ResetMemory, Flags, Places
<1>2. job' \in [at : 0..ConfigSector, data : Sector, then : Places]
  <2>1. 0 \in 0..ConfigSector
    BY SizeAssumption DEF ConfigSector
  <2> QED BY <2>1, BlankType DEF ResetMemory, NoJob, Places
<1>3. f_addr' \in Nat /\ conns' \in 0..MaxConns
  BY SizeAssumption, BoundAssumption DEF ResetMemory, Bank1
<1>4. TypeOK'
  BY <1>1, <1>2, <1>3 DEF ResetMemory, TypeOK
<1> QED BY <1>4 DEF IInv, Counting, Missing, Filling

\* The two steps of a sector write.
LEMMA SectorStep == IInv /\ (EraseSector \/ ProgramSector) => IInv'
<1> SUFFICES ASSUME IInv, EraseSector \/ ProgramSector PROVE IInv'
  OBVIOUS
<1> USE SizeAssumption
<1>1. /\ flash' \in [BankArea -> Sector]
      /\ nv' \in Flags
  <2>1. CASE EraseSector
    <3>1. Cleared \in Flags
      BY DEF Cleared, Flags
    <3>2. [flash EXCEPT ![job.at] = Blank] \in [BankArea -> Sector]
      BY BlankType DEF IInv, TypeOK
    <3> QED BY <2>1, <3>1, <3>2 DEF EraseSector, IInv, TypeOK
  <2>2. CASE ProgramSector
    <3>1. [flash EXCEPT ![job.at] = job.data] \in [BankArea -> Sector]
      BY DEF IInv, TypeOK
    <3> QED BY <2>2, <3>1 DEF ProgramSector, IInv, TypeOK
  <2> QED BY <2>1, <2>2
<1>2. pc' \in Places
  BY DEF EraseSector, ProgramSector, IInv, TypeOK, Places
<1>3. TypeOK'
  BY <1>1, <1>2 DEF EraseSector, ProgramSector, IInv, TypeOK, receiver
<1>4. Counting' /\ Missing'
  BY DEF EraseSector, ProgramSector, IInv, TypeOK, Counting, Missing, Filling, receiver
<1> QED BY <1>3, <1>4 DEF IInv

\* The boot decision and the copy: no receive loop is under way after them.
LEMMA BootStep == IInv /\ (Boot \/ Copying) => IInv'
<1> USE SizeAssumption
<1>1. ASSUME IInv, Boot PROVE IInv'
  <2>1. pc' \in {"config", "copycheck", "app"}
    BY <1>1 DEF Boot, Start
  <2>2. TypeOK'
    BY <1>1, <2>1 DEF Boot, IInv, TypeOK, Places, receiver
  <2> QED BY <2>1, <2>2 DEF IInv, Counting, Missing, Filling
<1>2. ASSUME IInv, CopyCheck PROVE IInv'
  <2>1. [s \in BankArea |-> IF s < Bank1 THEN Blank ELSE flash[s]] \in [BankArea -> Sector]
    BY <1>2, BlankType DEF IInv, TypeOK
  <2>2. flash' \in [BankArea -> Sector] /\ f_addr' \in Nat
    BY <1>2, <2>1 DEF CopyCheck, IInv, TypeOK
  <2>3. pc' \in {"copy", "boot"}
    BY <1>2 DEF CopyCheck
  <2>4. TypeOK'
    BY <1>2, <2>2, <2>3 DEF CopyCheck, IInv, TypeOK, Places
  <2> QED BY <2>3, <2>4 DEF IInv, Counting, Missing, Filling
<1>3. ASSUME IInv, CopyTurn PROVE IInv'
  <2>1. f_addr \in 0..ConfigSector
    <3>1. ram.size \in {-1, 0} \cup Sizes /\ f_addr < CopySectors(ram.size)
      BY <1>3 DEF IInv, TypeOK, Flags, CopyTurn
    <3>2. CopySectors(ram.size) \in Int /\ CopySectors(ram.size) <= BankSectors + 1
      BY <3>1, CopyLength
    <3> QED BY <1>3, <3>1, <3>2 DEF IInv, TypeOK, ConfigSector
  <2>2. CopyData(f_addr) \in Sector
    <3>1. CASE Bank1 + f_addr < ConfigSector
      <4>1. Bank1 + f_addr \in BankArea
        BY <2>1, <3>1 DEF BankArea, Bank1, ConfigSector
      <4> QED BY <1>3, <3>1, <4>1 DEF CopyData, IInv, TypeOK
    <3>2. CASE ~(Bank1 + f_addr < ConfigSector)
      <4>1. [i \in 1..SectorSize |-> Config] \in Sector
        BY DEF Sector, Units, Config
      <4> QED BY <3>2, <4>1, BlankType DEF CopyData
    <3> QED BY <3>1, <3>2
  <2>3. Write(f_addr, CopyData(f_addr), "copy") /\ "copy" \in Places
    BY <1>3 DEF CopyTurn, Places
  <2>4. /\ job' \in [at : 0..ConfigSector, data : Sector, then : Places]
        /\ pc' = "erase" /\ job'.then = "copy" /\ pc' \in Places
    BY <2>1, <2>2, <2>3, WriteType
  <2>5. TypeOK'
    BY <1>3, <2>4 DEF CopyTurn, IInv, TypeOK
  <2> QED BY <2>4, <2>5 DEF IInv, Counting, Missing, Filling
<1>4. ASSUME IInv, CopyDone PROVE IInv'
  <2>1. Write(ConfigSector, Blank, "app") /\ "app" \in Places
    BY <1>4 DEF CopyDone, save_DevConfig_to_storage, Places
  <2>2. ram' \in Flags /\ UNCHANGED <<flash, nv, receiver, image, size, crashes, load>>
    BY <1>4 DEF CopyDone, IInv, TypeOK, Flags
  <2> QED BY <1>4, <2>1, <2>2, ConfigWrite DEF IInv
<1> QED BY <1>1, <1>2, <1>3, <1>4 DEF Copying

-----------------------------------------------------------------------------
(* The receive loop.                                                       *)

\* A chunk is at most what is still missing of the image.
LEMMA ChunkType ==
    ASSUME TypeOK, ram.size \in Sizes, NEW n \in Nat, recv_fwsize + n <= ram.size
    PROVE  Chunk(n) \in Seq(Units) /\ Len(Chunk(n)) = n
<1> USE SizeAssumption
<1>1. \A i \in 1..n : <<image, recv_fwsize + i>> \in Units
  <2> TAKE i \in 1..n
  <2>1. BankSectors * SectorSize \in Nat /\ ram.size <= BankSectors * SectorSize
    BY SizeInBank
  <2>2. recv_fwsize + i \in 1..(BankSectors * SectorSize)
    <3>1. recv_fwsize \in Nat /\ ram.size \in Nat
      BY SizeInBank DEF TypeOK
    <3> QED BY <2>1, <3>1
  <2> QED BY <2>2 DEF TypeOK, Units
<1>2. Chunk(n) \in [1..n -> Units]
  BY <1>1 DEF Chunk
<1> QED BY <1>2

\* A sector is written only where bank 1 has room for it.
LEMMA RoomInBank1 ==
    ASSUME TypeOK, ram.size \in Sizes, f_addr >= Bank1,
           (f_addr - Bank1) * SectorSize < ram.size
    PROVE  f_addr \in Bank1..(ConfigSector - 1)
<1> USE SizeAssumption
<1>1. BankSectors * SectorSize \in Nat /\ ram.size \in Nat /\ ram.size <= BankSectors * SectorSize
  BY SizeInBank
<1>2. f_addr - Bank1 \in Int /\ (f_addr - Bank1) * SectorSize \in Int
  BY DEF TypeOK, Bank1
<1>3. (f_addr - Bank1) * SectorSize < BankSectors * SectorSize
  BY <1>1, <1>2
<1>4. f_addr - Bank1 < BankSectors
  BY <1>2, <1>3, LessBySectors
<1> QED BY <1>4 DEF TypeOK, Bank1, ConfigSector

\* One receive: the buffer takes the chunk, a full sector of it is written.
LEMMA ReceiveStep ==
    ASSUME IInv, NEW k \in 1..RecvMax, ReceiveChunk(k)
    PROVE  IInv'
<1> USE SizeAssumption
<1> DEFINE len   == Smaller(k, ram.size - recv_fwsize)
           all   == buf \o Chunk(len)
           again == IF write_fw_len + len < ram.size THEN "update" ELSE "received"
<1>1. /\ pc = "update" /\ sock = "ESTABLISHED"
      /\ ram.size \in Sizes /\ recv_fwsize < ram.size /\ write_fw_len < ram.size
      /\ f_addr >= Bank1 /\ Len(buf) < SectorSize
      /\ write_fw_len = (f_addr - Bank1) * SectorSize + Len(buf)
  BY DEF IInv, ReceiveChunk, Counting, Missing, Filling
<1>2. /\ TypeOK /\ ram.size \in Nat /\ recv_fwsize \in Nat /\ write_fw_len \in Nat
      /\ buf \in Seq(Units) /\ Len(buf) \in Nat /\ f_addr \in Nat
  <2>1. ram.size \in Nat
    BY <1>1, SizeInBank
  <2> QED BY <2>1 DEF IInv, TypeOK
<1>3. len \in 1..RecvMax /\ recv_fwsize + len <= ram.size
  BY <1>1, <1>2 DEF Smaller
<1>4. Chunk(len) \in Seq(Units) /\ Len(Chunk(len)) = len
  BY <1>1, <1>2, <1>3, ChunkType
<1>5. /\ recv_fwsize' = recv_fwsize + len
      /\ sock' = (IF recv_fwsize' >= ram.size THEN "CLOSED" ELSE sock)
      /\ write_fw_len' = write_fw_len + len
      /\ IF Len(all) < SectorSize
         THEN buf' = all /\ pc' = again /\ UNCHANGED <<job, f_addr>>
         ELSE /\ Write(f_addr, SubSeq(all, 1, SectorSize), again)
              /\ f_addr' = f_addr + 1
              /\ buf' = SubSeq(all, SectorSize + 1, Len(all))
      /\ UNCHANGED <<flash, nv, ram, conns, image, size, crashes, load>>
  BY DEF ReceiveChunk
<1> HIDE DEF len
<1>6. all \in Seq(Units) /\ Len(all) = Len(buf) + len
  BY <1>2, <1>3, <1>4
<1> HIDE DEF all
<1>7. /\ recv_fwsize' \in Nat /\ write_fw_len' \in Nat
      /\ sock' \in {"CLOSED", "LISTEN", "ESTABLISHED", "CLOSE_WAIT"}
      /\ (sock' # "CLOSED" => recv_fwsize' < ram.size)
      /\ write_fw_len' < ram.size + RecvMax
  BY <1>1, <1>2, <1>3, <1>5, SMTT(60)
<1>8. /\ again \in Places /\ again \in {"update", "received"}
      /\ (again = "update" => write_fw_len' < ram.size)
  BY <1>5 DEF Places
<1> HIDE DEF again
<1>9. CASE Len(all) < SectorSize
  <2>1. buf' = all /\ pc' = again /\ job' = job /\ f_addr' = f_addr
    BY <1>5, <1>9
  <2>2. TypeOK'
    BY <1>2, <1>5, <1>6, <1>7, <1>8, <2>1 DEF TypeOK
  <2>3. Counting'
    <3>1. (f_addr - Bank1) * SectorSize \in Int
      BY <1>2 DEF Bank1
    <3>2. write_fw_len' = (f_addr' - Bank1) * SectorSize + Len(buf')
      <4> DEFINE x == (f_addr - Bank1) * SectorSize
      <4>1. x \in Int /\ write_fw_len = x + Len(buf) /\ write_fw_len' = write_fw_len + len
        BY <1>1, <1>5, <3>1
      <4>2. Len(buf') = Len(buf) + len /\ f_addr' = f_addr
        BY <1>6, <2>1
      <4> HIDE DEF x
      <4>3. write_fw_len' = x + Len(buf')
        BY <1>2, <1>3, <4>1, <4>2
      <4> QED BY <4>2, <4>3 DEF x
    <3>3. ram' = ram /\ pc' \in {"update", "received"}
      BY <1>5, <1>8, <2>1
    <3> QED BY <1>1, <1>7, <1>9, <2>1, <3>2, <3>3 DEF Counting
  <2>4. Missing'
    BY <1>5, <1>7, <1>8, <2>1 DEF Missing
  <2> QED BY <2>2, <2>3, <2>4 DEF IInv
<1>10. CASE ~(Len(all) < SectorSize)
  <2>1. /\ Write(f_addr, SubSeq(all, 1, SectorSize), again)
        /\ f_addr' = f_addr + 1 /\ buf' = SubSeq(all, SectorSize + 1, Len(all))
    BY <1>5, <1>10
  <2>2. f_addr \in Bank1..(ConfigSector - 1) /\ f_addr \in 0..ConfigSector
    <3>1. (f_addr - Bank1) * SectorSize \in Int
      BY <1>2 DEF Bank1
    <3>2. (f_addr - Bank1) * SectorSize < ram.size
      BY <1>1, <1>2, <3>1
    <3> QED BY <1>1, <1>2, <3>2, RoomInBank1 DEF Bank1, ConfigSector
  <2>3. SubSeq(all, 1, SectorSize) \in Sector
    <3>1. SectorSize \in 1..Len(all)
      BY <1>2, <1>3, <1>6, <1>10
    <3>2. SubSeq(all, 1, SectorSize) \in Seq(Units) /\ Len(SubSeq(all, 1, SectorSize)) = SectorSize
      BY <1>6, <3>1
    <3> QED BY <3>2, FullType
  <2>4. /\ job' \in [at : 0..ConfigSector, data : Sector, then : Places]
        /\ pc' = "erase" /\ job'.at = f_addr /\ job'.then = again /\ pc' \in Places
    BY <1>8, <2>1, <2>2, <2>3, WriteType
  <2>5. /\ buf' \in Seq(Units)
        /\ Len(buf') = Len(buf) + len - SectorSize /\ Len(buf') < SectorSize
    BY <1>1, <1>2, <1>3, <1>6, <1>10, <2>1
  <2>6. TypeOK'
    BY <1>2, <1>5, <1>7, <2>1, <2>4, <2>5, SMTT(60) DEF TypeOK
  <2>7. write_fw_len' = (f_addr' - Bank1) * SectorSize + Len(buf')
    <3>1. (f_addr + 1 - Bank1) * SectorSize = (f_addr - Bank1) * SectorSize + SectorSize
      BY <1>2 DEF Bank1
    <3>2. /\ (f_addr - Bank1) * SectorSize \in Int
          /\ (f_addr' - Bank1) * SectorSize = (f_addr - Bank1) * SectorSize + SectorSize
      BY <1>2, <2>1, <3>1 DEF Bank1
    <3>3. write_fw_len' = (f_addr - Bank1) * SectorSize + Len(buf) + len
      BY <1>1, <1>5
    <3> DEFINE x == (f_addr - Bank1) * SectorSize
               y == (f_addr' - Bank1) * SectorSize
    <3>4. x \in Int /\ y = x + SectorSize /\ write_fw_len' = x + Len(buf) + len
      BY <3>2, <3>3
    <3> HIDE DEF x, y
    <3>5. write_fw_len' = y + Len(buf')
      BY <1>2, <1>3, <2>5, <3>4
    <3> QED BY <3>5 DEF y
  <2>8. f_addr' >= Bank1
    BY <1>1, <1>2, <2>1 DEF Bank1
  <2>9. Counting'
    BY <1>1, <1>5, <1>7, <2>2, <2>4, <2>5, <2>7, <2>8 DEF Counting
  <2>10. Missing'
    BY <1>5, <1>7, <1>8, <2>4 DEF Missing
  <2> QED BY <2>6, <2>9, <2>10 DEF IInv
<1> QED BY <1>9, <1>10

\* The other steps around the receive loop.
LEMMA UpdateStep == IInv /\ Updating => IInv'
<1> USE SizeAssumption
<1>1. ASSUME IInv, OpenListener PROVE IInv'
  <2>1. recv_fwsize' = 0 /\ write_fw_len < ram.size
    BY <1>1 DEF OpenListener, IInv, Missing
  <2>2. TypeOK'
    BY <1>1 DEF OpenListener, IInv, TypeOK
  <2>3. Counting'
    BY <1>1 DEF OpenListener, IInv, Counting, Filling
  <2>4. 0 < ram.size
    <3>1. ram.size \in Sizes
      BY <1>1 DEF OpenListener, IInv, Counting, Filling
    <3> QED BY <3>1, SizeInBank
  <2>5. Missing'
    BY <1>1, <2>1, <2>4 DEF OpenListener, IInv, Missing
  <2> QED BY <2>2, <2>3, <2>5 DEF IInv
<1>2. ASSUME IInv, CloseWait PROVE IInv'
  BY <1>2 DEF CloseWait, IInv, TypeOK, Counting, Missing, Filling
<1>3. ASSUME IInv, Receive PROVE IInv'
  BY <1>3, ReceiveStep DEF Receive
<1>4. ASSUME IInv, Received PROVE IInv'
  <2>1. /\ pc = "received" /\ write_fw_len = ram.size /\ ram.size \in Sizes
        /\ f_addr >= Bank1 /\ Len(buf) < SectorSize
        /\ write_fw_len = (f_addr - Bank1) * SectorSize + Len(buf)
        /\ TypeOK /\ buf \in Seq(Units)
    BY <1>4 DEF Received, IInv, TypeOK, Counting, Filling
  <2>2. CASE buf = <<>>
    BY <1>4, <2>2 DEF Received, receiver, IInv, TypeOK, Counting, Missing, Filling, Places
  <2>3. CASE buf # <<>>
    <3>1. Write(f_addr, Filled(buf), "success") /\ "success" \in Places
      BY <1>4, <2>3 DEF Received, Places
    <3>2. (f_addr - Bank1) * SectorSize < ram.size
      <4>1. (f_addr - Bank1) * SectorSize \in Int /\ Len(buf) > 0
        BY <2>1, <2>3 DEF TypeOK, Bank1
      <4>2. ram.size = (f_addr - Bank1) * SectorSize + Len(buf)
        BY <2>1
      <4> QED BY <4>1, <4>2
    <3>3. f_addr \in Bank1..(ConfigSector - 1) /\ f_addr \in 0..ConfigSector
      BY <2>1, <3>2, RoomInBank1 DEF Bank1, ConfigSector
    <3>4. /\ job' \in [at : 0..ConfigSector, data : Sector, then : Places]
          /\ pc' = "erase" /\ job'.at = f_addr /\ job'.then = "success" /\ pc' \in Places
      BY <2>1, <3>1, <3>3, FilledType, WriteType
    <3>5. UNCHANGED <<flash, nv, ram, receiver, image, size, crashes, load>>
      BY <1>4 DEF Received
    <3>6. TypeOK'
      BY <2>1, <3>4, <3>5 DEF TypeOK, receiver
    <3>7. Counting'
      <4>1. write_fw_len < ram.size + RecvMax
        BY <1>4, <2>1 DEF IInv, Counting, Filling
      <4> QED BY <2>1, <3>3, <3>4, <3>5, <4>1 DEF Counting, receiver
    <3>8. Missing'
      BY <3>4 DEF Missing
    <3> QED BY <3>6, <3>7, <3>8 DEF IInv
  <2> QED BY <2>2, <2>3
<1>5. ASSUME IInv, Success PROVE IInv'
  <2>1. Write(ConfigSector, Blank, "reboot") /\ "reboot" \in Places
    BY <1>5 DEF Success, save_DevConfig_to_storage, Places
  <2>2. ram' \in Flags
    BY <1>5 DEF Success, IInv, TypeOK, Flags
  <2>3. UNCHANGED <<flash, nv, receiver, image, size, crashes, load>>
    BY <1>5 DEF Success
  <2> QED BY <1>5, <2>1, <2>2, <2>3, ConfigWrite DEF IInv
<1>6. ASSUME IInv, Reboot PROVE IInv'
  <2>1. TypeOK /\ crashes' \in 0..MaxCrashes
    BY <1>6 DEF Reboot, IInv, TypeOK
  <2> QED BY <1>6, <2>1, ResetStep DEF Reboot
<1>7. ASSUME IInv, Failed PROVE IInv'
  <2>1. ram' \in Flags
    BY <1>7 DEF Failed, IInv, TypeOK, Flags
  <2>2. TypeOK'
    BY <1>7, <2>1 DEF Failed, IInv, TypeOK, Places
  <2>3. pc' = "config"
    BY <1>7 DEF Failed
  <2> QED BY <2>2, <2>3 DEF IInv, Counting, Missing, Filling
<1> QED BY <1>1, <1>2, <1>3, <1>4, <1>5, <1>6, <1>7 DEF Updating

-----------------------------------------------------------------------------
\* A command either starts the receive loop with nothing counted, or leaves no
\* loop under way.
LEMMA CommandStep == IInv /\ Commands => IInv'
<1> USE SizeAssumption
<1>1. ASSUME IInv, NEW n \in Sizes, BeginUpdate(n) PROVE IInv'
  <2>1. /\ n \in Nat /\ n > 0 /\ n \in 1..(BankSectors * SectorSize)
    BY SizeInBank
  <2>2. ram' \in Flags /\ ram'.size = n
    BY <1>1 DEF BeginUpdate, IInv, TypeOK, Flags
  <2>3. size' \in [Images -> {0} \cup 1..(BankSectors * SectorSize)] /\ image' \in Images
    BY <1>1, <2>1, BoundAssumption, SMTT(60) DEF BeginUpdate, IInv, TypeOK, Images
  <2>4. /\ write_fw_len' = 0 /\ f_addr' = Bank1 /\ buf' = <<>> /\ sock' = "CLOSED"
        /\ conns' = 0 /\ pc' = "update"
        /\ UNCHANGED <<flash, nv, job, recv_fwsize, crashes, load>>
    BY <1>1 DEF BeginUpdate
  <2>5. f_addr' \in Nat /\ conns' \in 0..MaxConns /\ buf' \in Seq(Units)
    BY <2>4, BoundAssumption DEF Bank1
  <2>6. TypeOK'
    BY <1>1, <2>2, <2>3, <2>4, <2>5 DEF IInv, TypeOK, Places
  <2>7. write_fw_len' = (f_addr' - Bank1) * SectorSize + Len(buf')
    BY <2>4 DEF Bank1
  <2>8. Counting'
    <3>1. Len(buf') = 0 /\ f_addr' >= Bank1
      BY <2>4 DEF Bank1
    <3> QED BY <2>1, <2>2, <2>4, <2>7, <3>1 DEF Counting
  <2>9. Missing'
    BY <2>1, <2>2, <2>4 DEF Missing
  <2> QED BY <2>6, <2>8, <2>9 DEF IInv
<1>2. ASSUME IInv, RefuseUpdate PROVE IInv'
  <2>1. ram' \in Flags
    BY <1>2 DEF RefuseUpdate, IInv, TypeOK, Flags
  <2>2. TypeOK' /\ pc' = "config"
    BY <1>2, <2>1 DEF RefuseUpdate, IInv, TypeOK, receiver
  <2> QED BY <2>2 DEF IInv, Counting, Missing, Filling
<1>3. ASSUME IInv, SaveCommand PROVE IInv'
  <2>1. Write(ConfigSector, Blank, "config") /\ "config" \in Places
    BY <1>3 DEF SaveCommand, save_DevConfig_to_storage, Places
  <2>2. ram' \in Flags /\ UNCHANGED <<flash, nv, receiver, image, size, crashes, load>>
    BY <1>3 DEF SaveCommand, IInv, TypeOK
  <2> QED BY <1>3, <2>1, <2>2, ConfigWrite DEF IInv
<1>4. ASSUME IInv, RebootCommand PROVE IInv'
  <2>1. TypeOK /\ crashes' \in 0..MaxCrashes
    BY <1>4 DEF RebootCommand, IInv, TypeOK
  <2> QED BY <1>4, <2>1, ResetStep DEF RebootCommand
<1> QED BY <1>1, <1>2, <1>3, <1>4 DEF Commands

\* The tool, a power loss and a restart.
LEMMA OutsideStep == IInv /\ (Tool \/ PowerLoss \/ Restart) => IInv'
<1>1. ASSUME IInv, ToolConnects PROVE IInv'
  <2>1. conns' \in 0..MaxConns
    <3>1. load.conns \in 1..MaxConns
      BY <1>1, BoundAssumption DEF IInv, TypeOK, AllLoads
    <3> QED BY <1>1, <3>1, BoundAssumption DEF ToolConnects, IInv, TypeOK
  <2>2. TypeOK'
    BY <1>1, <2>1 DEF ToolConnects, IInv, TypeOK
  <2> QED BY <1>1, <2>2 DEF ToolConnects, IInv, Counting, Missing, Filling
<1>2. ASSUME IInv, ToolCloses PROVE IInv'
  BY <1>2 DEF ToolCloses, IInv, TypeOK, Counting, Missing, Filling
<1>3. ASSUME IInv, PowerLoss PROVE IInv'
  <2>1. crashes' \in 0..MaxCrashes
    <3>1. load.crashes \in 0..MaxCrashes
      BY <1>3, BoundAssumption DEF IInv, TypeOK, AllLoads
    <3> QED BY <1>3, <3>1, BoundAssumption DEF PowerLoss, IInv, TypeOK
  <2> QED BY <1>3, <2>1, ResetStep DEF PowerLoss, IInv
<1>4. ASSUME IInv, Restart PROVE IInv'
  <2>1. TypeOK /\ crashes' \in 0..MaxCrashes
    BY <1>4 DEF Restart, IInv, TypeOK
  <2> QED BY <1>4, <2>1, ResetStep DEF Restart
<1> QED BY <1>1, <1>2, <1>3, <1>4 DEF Tool

\* Every step keeps the inductive invariant.
LEMMA Inductive == IInv /\ [Next]_vars => IInv'
<1> SUFFICES ASSUME IInv, [Next]_vars PROVE IInv'
  OBVIOUS
<1>1. CASE UNCHANGED vars
  BY <1>1 DEF vars, IInv, TypeOK, Counting, Missing, Filling
<1> QED BY <1>1, SectorStep, BootStep, UpdateStep, CommandStep, OutsideStep
        DEF Next, Device

-----------------------------------------------------------------------------
\* The loop stops at the latest one receive past the end of bank 1.
LEMMA AddressInBank1 ==
    ASSUME TypeOK, Counting, Filling
    PROVE  f_addr \in Bank1..ConfigSector
<1> USE SizeAssumption
<1> DEFINE x == (f_addr - Bank1) * SectorSize
<1>1. /\ ram.size \in Sizes /\ f_addr >= Bank1 /\ write_fw_len = x + Len(buf)
      /\ write_fw_len < ram.size + RecvMax /\ f_addr - Bank1 \in Nat /\ Len(buf) \in Nat
  BY DEF Counting, TypeOK, Bank1
<1>2. /\ BankSectors * SectorSize \in Nat
      /\ ram.size \in Nat /\ ram.size <= BankSectors * SectorSize
  BY <1>1, SizeInBank
<1>3. x \in Int
  BY <1>1
<1> HIDE DEF x
<1>4. x < BankSectors * SectorSize + SectorSize
  BY <1>1, <1>2, <1>3
<1>5. (BankSectors + 1) * SectorSize = BankSectors * SectorSize + SectorSize
  OBVIOUS
<1>6. (f_addr - Bank1) * SectorSize < (BankSectors + 1) * SectorSize
  BY <1>4, <1>5 DEF x
<1>7. f_addr - Bank1 < BankSectors + 1
  BY <1>1, <1>6, LessBySectors
<1> QED BY <1>1, <1>7 DEF TypeOK, Bank1, ConfigSector

\* The invariant holds for ever.
LEMMA InvariantHolds == Spec => []IInv
BY InitHolds, Inductive, PTL DEF Spec

\* Whatever the geometry of the flash and the tool do, every variable of the
\* bootloader keeps the type of its C declaration.
THEOREM TypeCorrect == Spec => []TypeOK
<1>1. IInv => TypeOK
  BY DEF IInv
<1> QED BY <1>1, InvariantHolds, PTL

\* The receive loop of device_bank_update stays inside g_temp_buf and inside
\* bank 1, however the tool cuts the image into connections and receives.
THEOREM ReceiveInBounds == Spec => []UpdateInBank1
<1>1. IInv => UpdateInBank1
  <2> SUFFICES ASSUME IInv, Filling PROVE UpdateInBank1
    BY DEF UpdateInBank1
  <2>1. /\ ram.size \in Sizes /\ f_addr >= Bank1 /\ Len(buf) < SectorSize
        /\ write_fw_len = (f_addr - Bank1) * SectorSize + Len(buf)
        /\ (pc \in {"erase", "program"} => job.at \in Bank1..(ConfigSector - 1))
        /\ TypeOK /\ buf \in Seq(Units) /\ f_addr \in Nat
    BY DEF IInv, TypeOK, Counting
  <2>2. f_addr \in Bank1..ConfigSector
    BY AddressInBank1 DEF IInv
  <2>3. f_addr = ConfigSector /\ buf # <<>> => write_fw_len # ram.size
    <3> SUFFICES ASSUME f_addr = ConfigSector, buf # <<>>, write_fw_len = ram.size
                 PROVE  FALSE
      OBVIOUS
    <3>1. (f_addr - Bank1) * SectorSize \in Int /\ Len(buf) > 0
      BY <2>1, SizeAssumption DEF Bank1
    <3>2. ram.size = (f_addr - Bank1) * SectorSize + Len(buf)
      BY <2>1
    <3>3. (f_addr - Bank1) * SectorSize < ram.size
      BY <2>1, <3>1, <3>2
    <3>4. f_addr \in Bank1..(ConfigSector - 1)
      BY <2>1, <3>3, RoomInBank1
    <3> QED BY <3>4, SizeAssumption DEF ConfigSector
  <2> QED BY <2>1, <2>2, <2>3 DEF UpdateInBank1
<1> QED BY <1>1, InvariantHolds, PTL

-----------------------------------------------------------------------------
(* What is in the banks.                                                   *)

\* The loads whose images the device is expected to keep whole: one connection an
\* update, a firmware in bank 0 at first, the boot pin released while a copy is
\* due, and images whose copy, one sector longer than they are, ends in bank 0.
CarefulLoads ==
    \A l \in Loads : l.whole => /\ l.conns = 1 /\ l.factory /\ ~l.pin
                                /\ \A n \in l.sizes : CopySectors(n) <= BankSectors

\* Sector s of image g.
ImageSector(g, s) == [i \in 1..SectorSize |-> <<g, s * SectorSize + i>>]

Writing   == pc \in {"erase", "program"}
During(S) == pc \in S \/ (Writing /\ job.then \in S)

\* The first n units of a bank are those of image g: what Present says of any flash.
WholeIn(f, bank, g, n) ==
    n > 0 /\ \A p \in 1..n : f[bank + (p - 1) \div SectorSize][((p - 1) % SectorSize) + 1] = <<g, p>>

\* The first n sectors of bank 1 are those of the image being sent; and of bank 0
\* those of bank 1.
Stored(n) == \A s \in 0..(n - 1) : flash[Bank1 + s] = ImageSector(image, s)
Copied(n) == \A s \in 0..(n - 1) : flash[s] = flash[Bank1 + s]

\* The stored flag is set exactly from the save that ends an update to the save
\* that ends the copy; a reset in between changes nothing of it.
FlagPlaces ==
    pc # "boot" =>
        (nv.copy = 1 <=> \/ pc \in {"reboot", "copycheck", "copy"}
                         \/ Writing /\ job.then = "copy"
                         \/ pc = "erase" /\ job.then = "app")

\* Which sector is being written.
JobPlaces ==
    Writing => \/ Filling
               \/ job.then = "copy" /\ job.at < Bank1
               \/ job.then \in {"app", "config", "reboot"} /\ job.at = ConfigSector
\* What a completed save would store.
RamFlag ==
    /\ During({"config", "update", "received", "success"}) => ram.copy # 1
    /\ During({"copycheck", "copy"}) => ram = nv
    /\ Writing /\ job.then = "app" => ram.copy # 1
    /\ Writing /\ job.then = "reboot" =>
           ram.copy = 1 /\ ram.size = size[image] /\ ram.size \in load.sizes
           /\ WholeIn(flash, Bank1, image, size[image])

\* While a copy is due bank 1 has the image, otherwise bank 0 has one, older than
\* the one being received; when the flag is about to go, both have it.
DueWhole ==
    nv.copy = 1 => /\ nv.size \in load.sizes
                   /\ \E g \in 1..image : /\ size[g] = nv.size /\ WholeIn(flash, Bank1, g, size[g])
                                          /\ (Writing /\ job.then = "app" => WholeIn(flash, 0, g, size[g]))
OldWhole ==
    nv.copy # 1 => \E g \in 1..image :
        WholeIn(flash, 0, g, size[g]) /\ ((Filling \/ (Writing /\ job.then = "reboot")) => g < image)

\* The image being received, as far as it has come.
Receiving ==
    Filling =>
        /\ ram.size = size[image] /\ ram.size \in load.sizes
        /\ (sock = "ESTABLISHED" => recv_fwsize = write_fw_len /\ conns # 0)
        /\ (sock = "LISTEN" => recv_fwsize = 0)
        /\ (conns = 0 => write_fw_len = 0)
        /\ \A i \in 1..Len(buf) : buf[i] = ImageSector(image, f_addr - Bank1)[i]
        /\ (pc \in {"update", "received"} => Stored(f_addr - Bank1))
        /\ (Writing /\ job.then # "success" =>
               /\ job.at = f_addr - 1 /\ job.data = ImageSector(image, job.at - Bank1)
               /\ Stored(job.at - Bank1))
        /\ (Writing /\ job.then = "success" =>
               /\ job.at = f_addr /\ job.data = Filled(buf) /\ write_fw_len = ram.size
               /\ Stored(job.at - Bank1))
        /\ (pc = "success" => WholeIn(flash, Bank1, image, size[image]))

\* The copy, as far as it has come.
CopyingInv ==
    /\ During({"copy"}) => f_addr \in 0..CopySectors(ram.size)
    /\ pc = "copy" => Copied(f_addr)
    /\ Writing /\ job.then = "copy" =>
           /\ job.at = f_addr - 1 /\ job.data = flash[Bank1 + job.at] /\ Copied(job.at)

\* What is kept of the banks of a careful load, and under that condition.
Kept ==
    /\ FlagPlaces /\ JobPlaces /\ RamFlag /\ DueWhole /\ OldWhole
    /\ Receiving /\ CopyingInv

WholeInv == load.whole => Kept

-----------------------------------------------------------------------------
\* A unit of an image lies in a sector of its bank, at its position.
LEMMA UnitPlace ==
    ASSUME NEW n \in Nat, n <= BankSectors * SectorSize, NEW p \in 1..n
    PROVE  /\ (p - 1) \div SectorSize \in 0..(BankSectors - 1)
           /\ ((p - 1) % SectorSize) + 1 \in 1..SectorSize
           /\ p = ((p - 1) \div SectorSize) * SectorSize + (((p - 1) % SectorSize) + 1)
<1> USE SizeAssumption
<1> DEFINE q == (p - 1) \div SectorSize
           r == (p - 1) % SectorSize
<1>1. p - 1 \in Nat /\ BankSectors * SectorSize \in Nat
  OBVIOUS
<1>2. q \in Nat /\ r \in 0..(SectorSize - 1) /\ p - 1 = q * SectorSize + r /\ q * SectorSize \in Nat
  BY <1>1
<1> HIDE DEF q, r
<1>3. q * SectorSize < BankSectors * SectorSize
  BY <1>1, <1>2
<1>4. q < BankSectors
  BY <1>2, <1>3, LessBySectors
<1>5. p = q * SectorSize + (r + 1) /\ r + 1 \in 1..SectorSize /\ q \in 0..(BankSectors - 1)
  BY <1>2, <1>4
<1> QED BY <1>5 DEF q, r

\* Whether a bank holds an image depends on the sectors of that bank only.
LEMMA WholeFrame ==
    ASSUME NEW f, NEW h, NEW bank \in Nat, NEW g, NEW n \in Nat,
           n <= BankSectors * SectorSize,
           \A s \in 0..(BankSectors - 1) : h[bank + s] = f[bank + s],
           WholeIn(f, bank, g, n)
    PROVE  WholeIn(h, bank, g, n)
<1> SUFFICES ASSUME NEW p \in 1..n
             PROVE  h[bank + (p - 1) \div SectorSize][((p - 1) % SectorSize) + 1] = <<g, p>>
  BY DEF WholeIn
<1>1. (p - 1) \div SectorSize \in 0..(BankSectors - 1)
  BY UnitPlace
<1>2. h[bank + (p - 1) \div SectorSize] = f[bank + (p - 1) \div SectorSize]
  BY <1>1
<1> QED BY <1>2 DEF WholeIn

\* A bank with the full sectors of an image and the rest of it holds the image.
LEMMA WholeSectors ==
    ASSUME NEW f, NEW bank \in Nat, NEW g, NEW k \in Nat, NEW r \in 0..(SectorSize - 1),
           NEW n \in Nat, n > 0, n <= BankSectors * SectorSize, n = k * SectorSize + r,
           \A s \in 0..(k - 1) : f[bank + s] = ImageSector(g, s),
           \A i \in 1..r : f[bank + k][i] = ImageSector(g, k)[i]
    PROVE  WholeIn(f, bank, g, n)
<1> USE SizeAssumption
<1> SUFFICES ASSUME NEW p \in 1..n
             PROVE  f[bank + (p - 1) \div SectorSize][((p - 1) % SectorSize) + 1] = <<g, p>>
  BY DEF WholeIn
<1> DEFINE q == (p - 1) \div SectorSize
           j == ((p - 1) % SectorSize) + 1
<1>1. q \in 0..(BankSectors - 1) /\ j \in 1..SectorSize /\ p = q * SectorSize + j
  BY UnitPlace
<1> HIDE DEF q, j
<1>2. /\ q * SectorSize \in Int /\ k * SectorSize \in Int
      /\ (k + 1) * SectorSize = k * SectorSize + SectorSize
  BY <1>1
<1>3. q < k + 1
  <2>1. q * SectorSize < (k + 1) * SectorSize
    BY <1>1, <1>2
  <2> QED BY <1>1, <2>1, LessBySectors
<1>4. ImageSector(g, q)[j] = <<g, p>>
  BY <1>1 DEF ImageSector
<1>5. CASE q < k
  <2>1. f[bank + q] = ImageSector(g, q)
    BY <1>1, <1>5
  <2> QED BY <1>4, <2>1 DEF q, j
<1>6. CASE q = k
  <2>1. k * SectorSize + j <= k * SectorSize + r
    BY <1>1, <1>6
  <2>2. j \in 1..r
    BY <1>1, <1>2, <2>1
  <2>3. f[bank + q][j] = ImageSector(g, q)[j]
    BY <1>6, <2>2
  <2> QED BY <1>4, <2>3 DEF q, j
<1> QED BY <1>1, <1>3, <1>5, <1>6

\* The copy loop moves at least the sectors that hold the image.
LEMMA CopyCovers ==
    ASSUME NEW n \in Nat \ {0}
    PROVE  /\ CopySectors(n) \in Nat
           /\ \A p \in 1..n : (p - 1) \div SectorSize \in 0..(CopySectors(n) - 1)
<1> USE SizeAssumption
<1> DEFINE m == n + SectorSize + SectorSize - 1
           c == m \div SectorSize
<1>1. m \in Nat /\ CopySectors(n) = c
  BY DEF CopySectors, SectorsOf
<1>2. m - SectorSize >= n
  OBVIOUS
<1> HIDE DEF m
<1>3. c \in Nat /\ m = c * SectorSize + (m % SectorSize) /\ m % SectorSize \in 0..(SectorSize - 1)
  BY <1>1
<1> HIDE DEF c
<1>4. c * SectorSize \in Int /\ c * SectorSize > n
  BY <1>1, <1>2, <1>3
<1>5. ASSUME NEW p \in 1..n
      PROVE  (p - 1) \div SectorSize \in 0..(c - 1)
  <2> DEFINE q == (p - 1) \div SectorSize
  <2>1. q \in Nat /\ q * SectorSize \in Int /\ q * SectorSize <= p - 1
    <3>1. p - 1 \in Nat
      OBVIOUS
    <3>2. q \in Nat /\ p - 1 = q * SectorSize + ((p - 1) % SectorSize) /\ (p - 1) % SectorSize >= 0
      BY <3>1
    <3>3. (p - 1) % SectorSize \in Int /\ q * SectorSize \in Int
      BY <3>1, <3>2
    <3> QED BY <3>2, <3>3
  <2> HIDE DEF q
  <2>2. q * SectorSize < c * SectorSize
    BY <1>4, <2>1
  <2>3. q < c
    BY <1>3, <2>1, <2>2, LessBySectors
  <2> QED BY <1>3, <2>1, <2>3 DEF q
<1> QED BY <1>1, <1>3, <1>5

\* A bank that has the copied sectors of one that holds an image holds it too.
LEMMA CopiedWhole ==
    ASSUME NEW f, NEW from \in Nat, NEW g, NEW n \in Nat,
           WholeIn(f, from, g, n),
           \A s \in 0..(CopySectors(n) - 1) : f[s] = f[from + s]
    PROVE  WholeIn(f, 0, g, n)
<1> SUFFICES ASSUME NEW p \in 1..n
             PROVE  f[0 + (p - 1) \div SectorSize][((p - 1) % SectorSize) + 1] = <<g, p>>
  BY DEF WholeIn
<1> DEFINE q == (p - 1) \div SectorSize
<1>1. q \in 0..(CopySectors(n) - 1) /\ CopySectors(n) \in Nat
  BY CopyCovers
<1>2. f[from + q][((p - 1) % SectorSize) + 1] = <<g, p>>
  BY DEF WholeIn
<1> HIDE DEF q
<1>3. f[q] = f[from + q] /\ 0 + q = q
  BY <1>1
<1> QED BY <1>2, <1>3 DEF q

\* The first unit of a whole image says which image it is; it is not erased flash.
LEMMA WholeFirst ==
    ASSUME NEW f, NEW bank \in Nat, NEW g, NEW n \in Nat, WholeIn(f, bank, g, n)
    PROVE  f[bank][1] = <<g, 1>>
<1> USE SizeAssumption
<1>1. 1 \in 1..n /\ (1 - 1) \div SectorSize = 0 /\ ((1 - 1) % SectorSize) + 1 = 1
  BY DEF WholeIn
<1>2. f[bank + (1 - 1) \div SectorSize][((1 - 1) % SectorSize) + 1] = <<g, 1>>
  BY <1>1 DEF WholeIn
<1> QED BY <1>1, <1>2

-----------------------------------------------------------------------------
(* One lemma per group of actions: what is in the banks stays kept.        *)

\* What is asked of a careful load.
LEMMA Careful ==
    ASSUME CarefulLoads, TypeOK, load.whole
    PROVE  /\ load.conns = 1 /\ load.factory /\ ~load.pin
           /\ \A n \in load.sizes : /\ n \in Sizes /\ n \in Nat \ {0}
                                    /\ CopySectors(n) \in Nat
                                    /\ CopySectors(n) <= BankSectors
<1>1. load \in Loads /\ load \in AllLoads
  BY BoundAssumption DEF TypeOK
<1>2. load.sizes \subseteq Sizes
  BY <1>1 DEF AllLoads
<1>3. ASSUME NEW n \in load.sizes
      PROVE  n \in Sizes /\ n \in Nat \ {0} /\ CopySectors(n) \in Nat /\ CopySectors(n) <= BankSectors
  <2>1. n \in Sizes /\ n \in Nat \ {0}
    BY <1>2, SizeInBank
  <2>2. CopySectors(n) \in Nat
    BY <2>1, CopyCovers
  <2>3. CopySectors(n) <= BankSectors
    BY <1>1 DEF CarefulLoads
  <2> QED BY <2>1, <2>2, <2>3
<1> QED BY <1>1, <1>3 DEF CarefulLoads

\* An image of the types of the module fits a bank.
LEMMA ImageFits ==
    ASSUME TypeOK, NEW g \in Images
    PROVE  size[g] \in Nat /\ size[g] <= BankSectors * SectorSize
<1>1. BankSectors * SectorSize \in Nat
  BY SizeAssumption
<1>2. size[g] \in {0} \cup 1..(BankSectors * SectorSize)
  BY DEF TypeOK
<1> QED BY <1>1, <1>2

\* An image of one sector is whole when that sector is its first.
LEMMA OneSector ==
    ASSUME NEW f, NEW g, NEW n \in Nat, n > 0, n = SectorSize, f[0] = ImageSector(g, 0)
    PROVE  WholeIn(f, 0, g, n)
<1> SUFFICES ASSUME NEW p \in 1..n
             PROVE  f[0 + (p - 1) \div SectorSize][((p - 1) % SectorSize) + 1] = <<g, p>>
  BY DEF WholeIn
<1> DEFINE q == (p - 1) \div SectorSize
           j == ((p - 1) % SectorSize) + 1
<1>1. q = 0 /\ j = p
  BY SizeAssumption
<1>2. f[0][p] = <<g, 0 * SectorSize + p>>
  BY DEF ImageSector
<1> HIDE DEF q, j
<1>3. f[0 + q][j] = <<g, p>>
  BY <1>1, <1>2, SizeAssumption
<1> QED BY <1>3 DEF q, j

\* At power-on bank 0 holds the factory's image.
LEMMA InitKept == CarefulLoads /\ Init => WholeInv
<1> SUFFICES ASSUME CarefulLoads, Init, load.whole PROVE Kept
  BY DEF WholeInv
<1> USE SizeAssumption, BoundAssumption
<1>1. TypeOK
  BY InitHolds DEF IInv
<1>2. flash[0] = ImageSector(1, 0) /\ 1 \in Images /\ size[1] = SectorSize
  <2>1. load.factory /\ 0 \in BankArea
    BY <1>1, Careful DEF BankArea, ConfigSector
  <2> QED BY <2>1 DEF Init, ImageSector, Images
<1>3. WholeIn(flash, 0, 1, size[1])
  <2>1. SectorSize \in Nat /\ SectorSize > 0
    OBVIOUS
  <2> QED BY <1>2, <2>1, OneSector
<1>4. OldWhole
  BY <1>2, <1>3 DEF Init, OldWhole, Filling, Writing
<1> QED BY <1>4 DEF Init, Kept, FlagPlaces, JobPlaces, RamFlag, DueWhole, Receiving,
        CopyingInv, During, Writing, Filling

\* The erase of a sector: of the configuration, or of a bank nobody relies on.
LEMMA EraseKeeps ==
    ASSUME CarefulLoads, IInv, Kept, load.whole, EraseSector
    PROVE  Kept'
<1> USE SizeAssumption
<1>1. /\ pc = "erase" /\ pc' = "program" /\ job' = job
      /\ UNCHANGED <<ram, f_addr, buf, write_fw_len, recv_fwsize, sock, conns, image, size, load>>
      /\ Writing /\ Writing' /\ (Filling' <=> Filling)
      /\ TypeOK /\ flash \in [BankArea -> Sector] /\ job.at \in 0..ConfigSector
  BY DEF EraseSector, receiver, Writing, Filling, IInv, TypeOK
<1>2. Filling => job.at \in Bank1..(ConfigSector - 1)
  BY <1>1 DEF IInv, Counting, Writing
<1>3. ConfigSector \in Nat /\ Bank1 \in Nat \ {0} /\ ConfigSector = Bank1 + BankSectors
  BY DEF ConfigSector, Bank1
<1>4. CASE job.at = ConfigSector
  <2>1. flash' = flash /\ nv' = Cleared /\ nv'.copy # 1
    BY <1>4 DEF EraseSector, Cleared
  <2>2. job.then \in {"app", "config", "reboot"} /\ ~Filling
    BY <1>1, <1>2, <1>3, <1>4 DEF Kept, JobPlaces
  <2>3. FlagPlaces' /\ JobPlaces' /\ RamFlag' /\ DueWhole' /\ Receiving' /\ CopyingInv'
    BY <1>1, <1>4, <2>1, <2>2
       DEF Kept, FlagPlaces, JobPlaces, RamFlag, DueWhole, Receiving, CopyingInv, During, Writing
  <2>4. OldWhole'
    <3>1. CASE job.then = "app"
      BY <1>1, <2>1, <2>2, <3>1 DEF Kept, FlagPlaces, DueWhole, OldWhole
    <3>2. CASE job.then # "app"
      BY <1>1, <2>1, <2>2, <3>2 DEF Kept, FlagPlaces, OldWhole
    <3> QED BY <3>1, <3>2
  <2> QED BY <2>3, <2>4 DEF Kept
<1>5. CASE job.at # ConfigSector
  <2>1. nv' = nv /\ flash' = [flash EXCEPT ![job.at] = Blank]
    BY <1>5 DEF EraseSector
  <2>2. Filling \/ (job.then = "copy" /\ job.at < Bank1)
    BY <1>1, <1>5 DEF Kept, JobPlaces
  <2>3. \A s \in BankArea : s # job.at => flash'[s] = flash[s]
    BY <1>1, <2>1
  <2>4. FlagPlaces' /\ JobPlaces'
    BY <1>1, <2>1, <2>2 DEF Kept, FlagPlaces, JobPlaces, Filling
  <2>5. CASE Filling
    <3>1. /\ job.then \in {"update", "received", "success"} /\ nv.copy # 1
          /\ job.at \in Bank1..(ConfigSector - 1)
      BY <1>1, <1>2, <2>5 DEF Filling, Kept, FlagPlaces
    <3>2. RamFlag' /\ DueWhole' /\ CopyingInv'
      BY <1>1, <2>1, <3>1 DEF Kept, RamFlag, DueWhole, CopyingInv, During
    <3>3. OldWhole'
      <4>1. PICK g \in 1..image : WholeIn(flash, 0, g, size[g]) /\ g < image
        BY <2>5, <3>1 DEF Kept, OldWhole
      <4>2. \A s \in 0..(BankSectors - 1) : flash'[0 + s] = flash[0 + s]
        BY <1>3, <2>3, <3>1 DEF BankArea, Bank1
      <4>3. g \in Images
        BY <1>1, <4>1, BoundAssumption DEF TypeOK, Images
      <4>4. WholeIn(flash', 0, g, size[g])
        BY <1>1, <4>1, <4>2, <4>3, ImageFits, WholeFrame
      <4> QED BY <1>1, <4>1, <4>4 DEF OldWhole
    <3>4. Receiving'
      <4>1. Stored(job.at - Bank1) => Stored(job.at - Bank1)'
        <5>1. \A s \in 0..((job.at - Bank1) - 1) : flash'[Bank1 + s] = flash[Bank1 + s]
          BY <1>3, <2>3, <3>1 DEF BankArea
        <5> QED BY <1>1, <5>1 DEF Stored
      <4> QED BY <1>1, <2>5, <4>1 DEF Kept, Receiving
    <3> QED BY <2>4, <3>2, <3>3, <3>4 DEF Kept
  <2>6. CASE ~Filling
    <3>1. job.then = "copy" /\ job.at < Bank1 /\ nv.copy = 1
      BY <1>1, <2>2, <2>6 DEF Kept, FlagPlaces
    <3>2. RamFlag' /\ OldWhole' /\ Receiving'
      BY <1>1, <2>1, <2>6, <3>1 DEF Kept, RamFlag, OldWhole, Receiving, During
    <3>3. \A s \in 0..(BankSectors - 1) : flash'[Bank1 + s] = flash[Bank1 + s]
      BY <1>3, <2>3, <3>1 DEF BankArea
    <3>4. DueWhole'
      <4>1. PICK g \in 1..image : size[g] = nv.size /\ WholeIn(flash, Bank1, g, size[g])
        BY <3>1 DEF Kept, DueWhole
      <4>2. g \in Images
        BY <1>1, <4>1, BoundAssumption DEF TypeOK, Images
      <4>3. WholeIn(flash', Bank1, g, size[g])
        BY <1>1, <1>3, <3>3, <4>1, <4>2, ImageFits, WholeFrame
      <4> QED BY <1>1, <2>1, <3>1, <4>1, <4>3 DEF Kept, DueWhole
    <3>5. CopyingInv'
      <4>1. Copied(job.at) /\ job.data = flash[Bank1 + job.at]
        BY <1>1, <3>1 DEF Kept, CopyingInv
      <4>2. \A s \in 0..(job.at - 1) : flash'[s] = flash[s] /\ flash'[Bank1 + s] = flash[Bank1 + s]
        BY <1>1, <1>3, <2>3, <3>1, <3>3 DEF BankArea, Bank1
      <4>3. flash'[Bank1 + job.at] = flash[Bank1 + job.at]
        BY <1>1, <3>1, <3>3 DEF Bank1
      <4>4. Copied(job.at)'
        BY <1>1, <4>1, <4>2 DEF Copied
      <4> QED BY <1>1, <3>1, <4>1, <4>3, <4>4 DEF Kept, CopyingInv, During
    <3> QED BY <2>4, <3>2, <3>4, <3>5 DEF Kept
  <2> QED BY <2>5, <2>6
<1> QED BY <1>4, <1>5

\* The program of a sector, with what write_flash was called for done.
LEMMA ProgramKeeps ==
    ASSUME CarefulLoads, IInv, Kept, load.whole, ProgramSector
    PROVE  Kept'
<1> USE SizeAssumption
<1>1. /\ pc = "program" /\ pc' = job.then /\ job' = job
      /\ UNCHANGED <<ram, f_addr, buf, write_fw_len, recv_fwsize, sock, conns, image, size, load>>
      /\ Writing
      /\ TypeOK /\ flash \in [BankArea -> Sector] /\ job.at \in 0..ConfigSector
  BY DEF ProgramSector, receiver, Writing, IInv, TypeOK
<1>2. Filling => job.at \in Bank1..(ConfigSector - 1)
  BY <1>1 DEF IInv, Counting, Writing
<1>3. ConfigSector \in Nat /\ Bank1 \in Nat \ {0} /\ ConfigSector = Bank1 + BankSectors
  BY DEF ConfigSector, Bank1
<1>4. CASE job.at = ConfigSector
  <2>1. flash' = flash /\ nv' = ram
    BY <1>4 DEF ProgramSector
  <2>2. job.then \in {"app", "config", "reboot"} /\ ~Filling /\ ~Filling' /\ ~Writing'
    BY <1>1, <1>2, <1>3, <1>4 DEF Kept, JobPlaces, Filling, Writing
  <2>3. nv.copy # 1 /\ (nv'.copy = 1 <=> job.then = "reboot")
    BY <1>1, <2>1, <2>2 DEF Kept, FlagPlaces, RamFlag, During
  <2>4. FlagPlaces' /\ JobPlaces' /\ RamFlag' /\ Receiving' /\ CopyingInv'
    BY <1>1, <2>1, <2>2, <2>3
       DEF Kept, FlagPlaces, JobPlaces, RamFlag, Receiving, CopyingInv, During
  <2>5. OldWhole'
    BY <1>1, <2>1, <2>2, <2>3 DEF Kept, OldWhole
  <2>6. DueWhole'
    <3> SUFFICES ASSUME job.then = "reboot" PROVE DueWhole'
      BY <2>3 DEF DueWhole
    <3>1. ram.size = size[image] /\ ram.size \in load.sizes /\ WholeIn(flash, Bank1, image, size[image])
      BY <1>1 DEF Kept, RamFlag
    <3>2. image \in 1..image
      BY <1>1, BoundAssumption DEF TypeOK, Images
    <3> QED BY <1>1, <2>1, <2>2, <3>1, <3>2 DEF DueWhole
  <2> QED BY <2>4, <2>5, <2>6 DEF Kept
<1>5. CASE job.at # ConfigSector
  <2>1. nv' = nv /\ flash' = [flash EXCEPT ![job.at] = job.data]
    BY <1>5 DEF ProgramSector
  <2>2. Filling \/ (job.then = "copy" /\ job.at < Bank1)
    BY <1>1, <1>5 DEF Kept, JobPlaces
  <2>3. /\ \A s \in BankArea : s # job.at => flash'[s] = flash[s]
        /\ job.at \in BankArea /\ flash'[job.at] = job.data
    BY <1>1, <1>3, <1>5, <2>1 DEF BankArea
  <2>4. ~Writing' /\ JobPlaces'
    BY <1>1, <2>2 DEF Writing, JobPlaces, Filling
  <2>5. CASE Filling
    <3>1. /\ job.then \in {"update", "received", "success"} /\ nv.copy # 1 /\ Filling'
          /\ job.at \in Bank1..(ConfigSector - 1)
      BY <1>1, <1>2, <2>5 DEF Filling, Kept, FlagPlaces
    <3>2. FlagPlaces' /\ RamFlag' /\ DueWhole' /\ CopyingInv'
      BY <1>1, <2>1, <2>4, <3>1 DEF Kept, FlagPlaces, RamFlag, DueWhole, CopyingInv, During
    <3>3. OldWhole'
      <4>1. PICK g \in 1..image : WholeIn(flash, 0, g, size[g]) /\ g < image
        BY <2>5, <3>1 DEF Kept, OldWhole
      <4>2. \A s \in 0..(BankSectors - 1) : flash'[0 + s] = flash[0 + s]
        BY <1>3, <2>3, <3>1 DEF BankArea, Bank1
      <4>3. g \in Images
        BY <1>1, <4>1, BoundAssumption DEF TypeOK, Images
      <4>4. WholeIn(flash', 0, g, size[g])
        BY <1>1, <4>1, <4>2, <4>3, ImageFits, WholeFrame
      <4> QED BY <1>1, <4>1, <4>4 DEF OldWhole
    <3>4. /\ ram.size = size[image] /\ ram.size \in load.sizes
          /\ (sock = "ESTABLISHED" => recv_fwsize = write_fw_len /\ conns # 0)
          /\ (sock = "LISTEN" => recv_fwsize = 0)
          /\ (conns = 0 => write_fw_len = 0)
          /\ \A i \in 1..Len(buf) : buf[i] = ImageSector(image, f_addr - Bank1)[i]
          /\ Stored(job.at - Bank1)
      BY <1>1, <2>5 DEF Kept, Receiving
    <3>5. \A s \in 0..((job.at - Bank1) - 1) : flash'[Bank1 + s] = ImageSector(image, s)
      <4> TAKE s \in 0..((job.at - Bank1) - 1)
      <4>1. Bank1 + s \in BankArea /\ Bank1 + s # job.at
        BY <1>3, <3>1 DEF BankArea
      <4> QED BY <2>3, <3>4, <4>1 DEF Stored
    <3>6. CASE job.then \in {"update", "received"}
      <4>1. job.at = f_addr - 1 /\ job.data = ImageSector(image, job.at - Bank1)
        BY <1>1, <2>5, <3>6 DEF Kept, Receiving
      <4>2. f_addr \in Nat
        BY <1>1 DEF TypeOK
      <4>3. Stored(f_addr - Bank1)'
        <5>1. SUFFICES ASSUME NEW s \in 0..((f_addr - Bank1) - 1)
                       PROVE  flash'[Bank1 + s] = ImageSector(image, s)
          BY <1>1 DEF Stored
        <5>2. CASE s < job.at - Bank1
          BY <1>3, <3>1, <3>5, <5>2
        <5>3. CASE s = job.at - Bank1
          <6>1. Bank1 + s = job.at
            BY <1>3, <3>1, <5>3
          <6> QED BY <2>3, <4>1, <5>3, <6>1
        <5> QED BY <1>3, <3>1, <4>1, <4>2, <5>2, <5>3
      <4>4. Receiving'
        BY <1>1, <2>4, <3>4, <3>6, <4>3 DEF Receiving
      <4> QED BY <2>4, <3>2, <3>3, <4>4 DEF Kept
    <3>7. CASE job.then = "success"
      <4>1. job.at = f_addr /\ job.data = Filled(buf) /\ write_fw_len = ram.size
        BY <1>1, <2>5, <3>7 DEF Kept, Receiving
      <4>2. /\ f_addr >= Bank1 /\ Len(buf) < SectorSize /\ Len(buf) \in Nat /\ f_addr \in Nat
            /\ write_fw_len = (f_addr - Bank1) * SectorSize + Len(buf)
        BY <1>1, <2>5 DEF IInv, Counting, TypeOK
      <4>3. WholeIn(flash', Bank1, image, size[image])
        <5> DEFINE k == f_addr - Bank1
        <5>1. k \in Nat /\ Len(buf) \in 0..(SectorSize - 1) /\ f_addr = Bank1 + k
          BY <1>3, <4>2
        <5>2. size[image] \in Nat /\ size[image] <= BankSectors * SectorSize /\ size[image] > 0
          <6>1. image \in Images /\ size[image] \in load.sizes
            BY <1>1, <3>4 DEF TypeOK
          <6> QED BY <1>1, <6>1, ImageFits, Careful
        <5>3. size[image] = k * SectorSize + Len(buf)
          BY <3>4, <4>1, <4>2
        <5>4. \A s \in 0..(k - 1) : flash'[Bank1 + s] = ImageSector(image, s)
          BY <3>5, <4>1
        <5>5. \A i \in 1..Len(buf) : flash'[Bank1 + k][i] = ImageSector(image, k)[i]
          <6> TAKE i \in 1..Len(buf)
          <6>1. Filled(buf)[i] = buf[i]
            BY <4>2 DEF Filled
          <6>2. flash'[Bank1 + k] = Filled(buf)
            BY <2>3, <4>1, <5>1
          <6> QED BY <3>4, <6>1, <6>2
        <5> HIDE DEF k
        <5> QED BY <1>3, <5>1, <5>2, <5>3, <5>4, <5>5, WholeSectors
      <4>4. Receiving'
        BY <1>1, <2>4, <3>4, <3>7, <4>3 DEF Receiving
      <4> QED BY <2>4, <3>2, <3>3, <4>4 DEF Kept
    <3> QED BY <3>1, <3>6, <3>7
  <2>6. CASE ~Filling
    <3>1. job.then = "copy" /\ job.at < Bank1 /\ nv.copy = 1 /\ ~Filling'
      BY <1>1, <2>2, <2>6 DEF Kept, FlagPlaces, Filling
    <3>2. FlagPlaces' /\ RamFlag' /\ OldWhole' /\ Receiving'
      BY <1>1, <2>1, <2>4, <3>1 DEF Kept, FlagPlaces, RamFlag, OldWhole, Receiving, During
    <3>3. \A s \in 0..(BankSectors - 1) : flash'[Bank1 + s] = flash[Bank1 + s]
      BY <1>3, <2>3, <3>1 DEF BankArea
    <3>4. DueWhole'
      <4>1. PICK g \in 1..image : size[g] = nv.size /\ WholeIn(flash, Bank1, g, size[g])
        BY <3>1 DEF Kept, DueWhole
      <4>2. g \in Images
        BY <1>1, <4>1, BoundAssumption DEF TypeOK, Images
      <4>3. WholeIn(flash', Bank1, g, size[g])
        BY <1>1, <1>3, <3>3, <4>1, <4>2, ImageFits, WholeFrame
      <4> QED BY <1>1, <2>1, <2>4, <3>1, <4>1, <4>3 DEF Kept, DueWhole
    <3>5. CopyingInv'
      <4>1. /\ Copied(job.at) /\ job.data = flash[Bank1 + job.at] /\ job.at = f_addr - 1
            /\ f_addr \in 0..CopySectors(ram.size)
        BY <1>1, <3>1 DEF Kept, CopyingInv, During
      <4>2. Copied(f_addr)'
        <5>1. SUFFICES ASSUME NEW s \in 0..(f_addr - 1)
                       PROVE  flash'[s] = flash'[Bank1 + s]
          BY <1>1 DEF Copied
        <5>2. f_addr \in Nat /\ s \in Nat /\ s <= job.at
          BY <1>1, <4>1 DEF TypeOK
        <5>3. flash'[Bank1 + s] = flash[Bank1 + s]
          BY <3>1, <3>3, <5>2, <1>1 DEF Bank1
        <5>4. CASE s < job.at
          <6>1. flash[s] = flash[Bank1 + s]
            BY <1>1, <4>1, <5>2, <5>4 DEF Copied
          <6>2. flash'[s] = flash[s]
            BY <1>1, <1>3, <2>3, <3>1, <5>2, <5>4 DEF BankArea
          <6> QED BY <5>3, <6>1, <6>2
        <5>5. CASE s = job.at
          BY <2>3, <4>1, <5>3, <5>5
        <5> QED BY <1>1, <5>2, <5>4, <5>5
      <4> QED BY <1>1, <2>4, <3>1, <4>1, <4>2 DEF CopyingInv, During
    <3> QED BY <2>4, <3>2, <3>4, <3>5 DEF Kept
  <2> QED BY <2>5, <2>6
<1> QED BY <1>4, <1>5

\* The bank a reset would run or copy from is never blank.
LEMMA BankUsable ==
    ASSUME CarefulLoads, IInv, Kept, load.whole
    PROVE  /\ nv.copy # 1 => device_bank_check(0)
           /\ nv.copy = 1 => device_bank_check(Bank1)
<1> USE SizeAssumption
<1>1. ASSUME NEW bank \in Nat, NEW g \in 1..image, WholeIn(flash, bank, g, size[g])
      PROVE  device_bank_check(bank)
  <2>1. g \in Images /\ g > 0
    BY <1>1, BoundAssumption DEF IInv, TypeOK, Images
  <2>2. flash[bank][1] = <<g, 1>>
    BY <1>1, <2>1, ImageFits, WholeFirst DEF IInv
  <2>3. <<g, 1>> # <<0, 0>>
    OBVIOUS
  <2> QED BY <2>2, <2>3 DEF device_bank_check, Erased
<1>2. 0 \in Nat /\ Bank1 \in Nat
  BY DEF Bank1
<1> QED BY <1>1, <1>2 DEF Kept, DueWhole, OldWhole

\* The decision at reset: a due copy is made, otherwise bank 0 is run.
LEMMA BootKeeps ==
    ASSUME CarefulLoads, IInv, Kept, load.whole, Boot
    PROVE  Kept'
<1>1. /\ pc = "boot" /\ ram' = nv
      /\ UNCHANGED <<flash, nv, job, f_addr, buf, write_fw_len, recv_fwsize, sock, conns,
                     image, size, load>>
  BY DEF Boot, receiver
<1>2. IF nv.copy = 1 THEN pc' = "copycheck" ELSE pc' \in {"config", "app"}
  <2>1. PICK pin \in BOOLEAN : (pin => load.pin \/ nv.copy # 1) /\ pc' = Start(pin)
    BY DEF Boot
  <2>2. ~load.pin
    BY Careful DEF IInv
  <2> QED BY <2>1, <2>2, BankUsable DEF Start
<1> QED BY <1>1, <1>2 DEF Kept, FlagPlaces, JobPlaces, RamFlag, DueWhole, OldWhole,
        Receiving, CopyingInv, During, Writing, Filling

\* A reset keeps what is stored, and the two banks.
LEMMA ResetKeeps ==
    ASSUME Kept, pc' = "boot", UNCHANGED <<flash, nv, image, size, load>>
    PROVE  Kept'
BY DEF Kept, FlagPlaces, JobPlaces, RamFlag, DueWhole, OldWhole,
       Receiving, CopyingInv, During, Writing, Filling

\* The copy starts by erasing bank 0, with the image in bank 1.
LEMMA CopyCheckKeeps ==
    ASSUME CarefulLoads, IInv, Kept, load.whole, CopyCheck
    PROVE  Kept'
<1> USE SizeAssumption
<1>1. /\ pc = "copycheck" /\ nv.copy = 1 /\ ram = nv /\ TypeOK
      /\ UNCHANGED <<nv, ram, job, buf, write_fw_len, recv_fwsize, sock, conns, image, size, load>>
  BY DEF CopyCheck, Kept, FlagPlaces, RamFlag, During, IInv
<1>2. /\ flash' = [s \in BankArea |-> IF s < Bank1 THEN Blank ELSE flash[s]]
      /\ f_addr' = 0 /\ pc' = "copy"
  BY <1>1, BankUsable DEF CopyCheck
<1>3. ~Writing /\ ~Writing' /\ ~Filling' /\ ~Filling
  BY <1>1, <1>2 DEF Writing, Filling
<1>4. DueWhole'
  <2>1. PICK g \in 1..image : size[g] = nv.size /\ WholeIn(flash, Bank1, g, size[g])
    BY <1>1 DEF Kept, DueWhole
  <2>2. g \in Images /\ Bank1 \in Nat
    BY <1>1, <2>1, BoundAssumption DEF TypeOK, Images, Bank1
  <2>3. \A s \in 0..(BankSectors - 1) : flash'[Bank1 + s] = flash[Bank1 + s]
    BY <1>2 DEF BankArea, Bank1, ConfigSector
  <2>4. WholeIn(flash', Bank1, g, size[g])
    BY <1>1, <2>1, <2>2, <2>3, ImageFits, WholeFrame
  <2> QED BY <1>1, <1>3, <2>1, <2>4 DEF Kept, DueWhole
<1>5. CopyingInv'
  <2>1. CopySectors(ram.size) \in Nat
    BY <1>1, Careful DEF Kept, DueWhole
  <2>2. Copied(0)'
    BY DEF Copied
  <2> QED BY <1>1, <1>2, <1>3, <2>1, <2>2 DEF CopyingInv, During
<1> QED BY <1>1, <1>2, <1>3, <1>4, <1>5
        DEF Kept, FlagPlaces, JobPlaces, RamFlag, OldWhole, Receiving, During

\* A turn of the copy reads its sector from bank 1 and writes it into bank 0.
LEMMA CopyTurnKeeps ==
    ASSUME CarefulLoads, IInv, Kept, load.whole, CopyTurn
    PROVE  Kept'
<1> USE SizeAssumption
<1>1. /\ pc = "copy" /\ nv.copy = 1 /\ ram = nv /\ TypeOK /\ f_addr \in Nat
      /\ f_addr < CopySectors(ram.size) /\ Copied(f_addr)
      /\ UNCHANGED <<flash, nv, ram, buf, write_fw_len, recv_fwsize, sock, conns, image, size, load>>
      /\ pc' = "erase" /\ f_addr' = f_addr + 1
      /\ job' = [at |-> f_addr, data |-> CopyData(f_addr), then |-> "copy"]
  BY DEF CopyTurn, Kept, FlagPlaces, RamFlag, CopyingInv, During, IInv, TypeOK, Write
<1>2. CopySectors(ram.size) \in Nat /\ CopySectors(ram.size) <= BankSectors
  BY <1>1, Careful DEF Kept, DueWhole
<1>3. f_addr < Bank1 /\ CopyData(f_addr) = flash[Bank1 + f_addr]
  BY <1>1, <1>2 DEF CopyData, Bank1, ConfigSector
<1>4. ~Writing /\ ~Filling /\ Writing' /\ ~Filling' /\ job'.then = "copy"
  BY <1>1 DEF Writing, Filling
<1>5. CopyingInv'
  <2>1. Copied(job'.at) /\ job'.at = f_addr' - 1 /\ job'.data = flash[Bank1 + job'.at]
    BY <1>1, <1>3
  <2>2. (Copied(job.at))'
    BY <1>1, <2>1 DEF Copied
  <2> QED BY <1>1, <1>2, <1>4, <2>1, <2>2 DEF CopyingInv, During
<1> QED BY <1>1, <1>3, <1>4, <1>5
        DEF Kept, FlagPlaces, JobPlaces, RamFlag, DueWhole, OldWhole, Receiving, During

\* When the copy is done both banks hold the image, and the flag may go.
LEMMA CopyDoneKeeps ==
    ASSUME CarefulLoads, IInv, Kept, load.whole, CopyDone
    PROVE  Kept'
<1> USE SizeAssumption
<1>1. /\ pc = "copy" /\ nv.copy = 1 /\ ram = nv /\ TypeOK /\ f_addr \in Nat
      /\ f_addr >= CopySectors(ram.size) /\ Copied(f_addr)
      /\ UNCHANGED <<flash, nv, f_addr, buf, write_fw_len, recv_fwsize, sock, conns,
                     image, size, load>>
      /\ ram' = [ram EXCEPT !.copy = 0] /\ pc' = "erase"
      /\ job' = [at |-> ConfigSector, data |-> Blank, then |-> "app"]
  BY DEF CopyDone, save_DevConfig_to_storage, Kept, FlagPlaces, RamFlag, CopyingInv, During,
         IInv, TypeOK, Write, receiver
<1>2. ram'.copy = 0 /\ ~Writing /\ ~Filling /\ Writing' /\ ~Filling'
      /\ job'.then = "app" /\ job'.at = ConfigSector
  BY <1>1 DEF Writing, Filling, TypeOK, Flags
<1>3. DueWhole'
  <2>1. PICK g \in 1..image : size[g] = nv.size /\ WholeIn(flash, Bank1, g, size[g])
    BY <1>1 DEF Kept, DueWhole
  <2>2. g \in Images /\ Bank1 \in Nat /\ size[g] \in Nat
    BY <1>1, <2>1, BoundAssumption, ImageFits, SMTT(60) DEF TypeOK, Images, Bank1
  <2>3. CopySectors(nv.size) \in Nat
    BY <1>1, Careful DEF Kept, DueWhole
  <2>4. \A s \in 0..(CopySectors(size[g]) - 1) : flash[s] = flash[Bank1 + s]
    BY <1>1, <2>1, <2>3 DEF Copied
  <2>5. WholeIn(flash, 0, g, size[g])
    BY <2>1, <2>2, <2>4, CopiedWhole
  <2> QED BY <1>1, <2>1, <2>5 DEF Kept, DueWhole
<1> QED BY <1>1, <1>2, <1>3
        DEF Kept, FlagPlaces, JobPlaces, RamFlag, OldWhole, Receiving, CopyingInv, During

\* One receive adds the next units of the image, in the buffer or in its sector.
LEMMA ReceiveKeeps ==
    ASSUME CarefulLoads, IInv, Kept, load.whole, NEW k \in 1..RecvMax, ReceiveChunk(k)
    PROVE  Kept'
<1> USE SizeAssumption
<1> DEFINE len   == Smaller(k, ram.size - recv_fwsize)
           all   == buf \o Chunk(len)
           again == IF write_fw_len + len < ram.size THEN "update" ELSE "received"
           n     == f_addr - Bank1
<1>1. /\ pc = "update" /\ sock = "ESTABLISHED" /\ Filling /\ ~Writing
      /\ ram.size \in Sizes /\ recv_fwsize < ram.size /\ write_fw_len < ram.size
      /\ f_addr >= Bank1 /\ Len(buf) < SectorSize
      /\ write_fw_len = n * SectorSize + Len(buf)
  BY DEF IInv, ReceiveChunk, Counting, Missing, Filling, Writing
<1>2. /\ TypeOK /\ ram.size \in Nat /\ recv_fwsize \in Nat /\ write_fw_len \in Nat
      /\ buf \in Seq(Units) /\ Len(buf) \in Nat /\ f_addr \in Nat /\ n \in Nat
  <2>1. ram.size \in Nat
    BY <1>1, SizeInBank
  <2> QED BY <1>1, <2>1 DEF IInv, TypeOK, Bank1
<1>3. /\ ram.size = size[image] /\ ram.size \in load.sizes /\ nv.copy # 1 /\ ram.copy # 1
      /\ recv_fwsize = write_fw_len /\ conns # 0
      /\ \A i \in 1..Len(buf) : buf[i] = ImageSector(image, n)[i]
      /\ Stored(n)
  BY <1>1 DEF Kept, Receiving, FlagPlaces, RamFlag, During
<1>4. /\ recv_fwsize' = recv_fwsize + len
      /\ sock' = (IF recv_fwsize' >= ram.size THEN "CLOSED" ELSE sock)
      /\ write_fw_len' = write_fw_len + len
      /\ IF Len(all) < SectorSize
         THEN buf' = all /\ pc' = again /\ UNCHANGED <<job, f_addr>>
         ELSE /\ job' = [at |-> f_addr, data |-> SubSeq(all, 1, SectorSize), then |-> again]
              /\ pc' = "erase" /\ f_addr' = f_addr + 1
              /\ buf' = SubSeq(all, SectorSize + 1, Len(all))
      /\ UNCHANGED <<flash, nv, ram, conns, image, size, load>>
  BY DEF ReceiveChunk, Write
<1>5. len \in 1..RecvMax /\ recv_fwsize + len <= ram.size
  BY <1>1, <1>2 DEF Smaller
<1>6. Chunk(len) \in Seq(Units) /\ Len(Chunk(len)) = len
  BY <1>1, <1>2, <1>5, ChunkType
<1>7. \A i \in 1..len : Chunk(len)[i] = <<image, recv_fwsize + i>>
  BY <1>5 DEF Chunk
<1> HIDE DEF len
<1>8. all \in Seq(Units) /\ Len(all) = Len(buf) + len
  BY <1>2, <1>5, <1>6
<1>9. \A i \in 1..Len(all) : all[i] = <<image, n * SectorSize + i>>
  <2> DEFINE x == n * SectorSize
  <2>1. x \in Int /\ recv_fwsize = x + Len(buf)
    BY <1>1, <1>2, <1>3
  <2>2. ASSUME NEW i \in 1..Len(buf)
        PROVE  buf[i] = <<image, x + i>>
    <3>1. i \in 1..SectorSize /\ buf[i] = ImageSector(image, n)[i]
      BY <1>1, <1>2, <1>3
    <3>2. ImageSector(image, n)[i] = <<image, x + i>>
      BY <3>1 DEF ImageSector
    <3> QED BY <3>1, <3>2
  <2> HIDE DEF x
  <2>3. ASSUME NEW i \in 1..Len(all)
        PROVE  all[i] = <<image, x + i>>
    <3>1. CASE i <= Len(buf)
      BY <1>2, <1>6, <1>8, <2>2, <3>1
    <3>2. CASE ~(i <= Len(buf))
      <4>1. i - Len(buf) \in 1..len /\ all[i] = Chunk(len)[i - Len(buf)]
        BY <1>2, <1>5, <1>6, <1>8, <3>2
      <4>2. Chunk(len)[i - Len(buf)] = <<image, recv_fwsize + (i - Len(buf))>>
        BY <1>7, <4>1
      <4>3. recv_fwsize + (i - Len(buf)) = x + i
        BY <1>2, <2>1, <4>1
      <4> QED BY <4>1, <4>2, <4>3
    <3> QED BY <3>1, <3>2
  <2> QED BY <2>3 DEF x
<1> HIDE DEF all
<1>10. again \in {"update", "received"}
  OBVIOUS
<1> HIDE DEF again
<1>11. /\ (sock' = "ESTABLISHED" => recv_fwsize' = write_fw_len' /\ conns' # 0)
       /\ sock' # "LISTEN" /\ conns' # 0
  BY <1>1, <1>2, <1>3, <1>4
<1>12. DueWhole'
  BY <1>3, <1>4 DEF DueWhole
<1>13. OldWhole /\ (Filling' => OldWhole')
  BY <1>1, <1>3, <1>4 DEF Kept, OldWhole
<1>14. CASE Len(all) < SectorSize
  <2>1. buf' = all /\ pc' = again /\ job' = job /\ f_addr' = f_addr
    BY <1>4, <1>14
  <2>2. Filling' /\ ~Writing'
    BY <1>10, <2>1 DEF Filling, Writing
  <2>3. ASSUME NEW i \in 1..Len(buf')
        PROVE  buf'[i] = ImageSector(image, n)[i]
    <3>1. i \in 1..SectorSize /\ all[i] = <<image, n * SectorSize + i>>
      <4>1. Len(all) \in Nat
        BY <1>8
      <4> QED BY <1>9, <1>14, <2>1, <4>1
    <3>2. ImageSector(image, n)[i] = <<image, n * SectorSize + i>>
      BY <3>1 DEF ImageSector
    <3> QED BY <2>1, <3>1, <3>2
  <2>4. (Stored(f_addr - Bank1))'
    BY <1>3, <1>4, <2>1 DEF Stored
  <2>5. Receiving'
    BY <1>3, <1>4, <1>10, <1>11, <2>1, <2>2, <2>3, <2>4 DEF Receiving
  <2> QED BY <1>3, <1>4, <1>10, <1>12, <1>13, <2>1, <2>2, <2>5
          DEF Kept, FlagPlaces, JobPlaces, RamFlag, CopyingInv, During
<1>15. CASE ~(Len(all) < SectorSize)
  <2>1. /\ job' = [at |-> f_addr, data |-> SubSeq(all, 1, SectorSize), then |-> again]
        /\ pc' = "erase" /\ f_addr' = f_addr + 1
        /\ buf' = SubSeq(all, SectorSize + 1, Len(all))
    BY <1>4, <1>15
  <2>2. Filling' /\ Writing' /\ job'.then = again /\ job'.at = f_addr
    BY <1>10, <2>1 DEF Filling, Writing
  <2>3. SubSeq(all, 1, SectorSize) = ImageSector(image, n)
    <3>1. SubSeq(all, 1, SectorSize) = [i \in 1..SectorSize |-> all[i]]
      BY <1>8, <1>15
    <3>2. \A i \in 1..SectorSize : all[i] = <<image, n * SectorSize + i>>
      BY <1>2, <1>5, <1>8, <1>9, <1>15
    <3> QED BY <3>1, <3>2 DEF ImageSector
  <2>4. \A i \in 1..Len(buf') : buf'[i] = ImageSector(image, f_addr' - Bank1)[i]
    <3> DEFINE x == n * SectorSize
               y == (f_addr' - Bank1) * SectorSize
    <3>1. x \in Int /\ y = x + SectorSize
      <4>1. f_addr' - Bank1 = n + 1
        BY <1>2, <2>1 DEF Bank1
      <4>2. (n + 1) * SectorSize = n * SectorSize + SectorSize
        BY <1>2
      <4> QED BY <1>2, <4>1, <4>2
    <3>2. /\ Len(buf') = Len(all) - SectorSize /\ Len(buf') \in Nat /\ Len(buf') < SectorSize
          /\ \A i \in 1..Len(buf') : buf'[i] = all[SectorSize + i] /\ SectorSize + i \in 1..Len(all)
      <4>1. /\ Len(all) \in Nat /\ Len(all) >= SectorSize /\ Len(all) < SectorSize + SectorSize
            /\ len \in Nat /\ SectorSize \in Nat
        <5>1. len \in Nat /\ len <= SectorSize
          BY <1>5
        <5>2. Len(buf) < SectorSize
          BY <1>1
        <5> QED BY <1>2, <1>8, <1>15, <5>1, <5>2
      <4>2. SectorSize + 1 \in 1..(Len(all) + 1)
        BY <4>1
      <4>3. /\ Len(SubSeq(all, SectorSize + 1, Len(all))) = Len(all) - SectorSize
            /\ \A i \in 1..(Len(all) - SectorSize) :
                   SubSeq(all, SectorSize + 1, Len(all))[i] = all[SectorSize + i]
        BY <1>8, <4>1, <4>2, SMTT(60)
      <4> QED BY <2>1, <4>1, <4>3
    <3>3. \A i \in 1..Len(all) : all[i] = <<image, x + i>>
      BY <1>9
    <3> HIDE DEF x
    <3>4. ASSUME NEW i \in 1..Len(buf')
          PROVE  buf'[i] = ImageSector(image, f_addr' - Bank1)[i]
      <4>1. buf'[i] = all[SectorSize + i] /\ SectorSize + i \in 1..Len(all)
        BY <3>2
      <4>2. all[SectorSize + i] = <<image, x + (SectorSize + i)>>
        BY <3>3, <4>1
      <4>3. ImageSector(image, f_addr' - Bank1)[i] = <<image, y + i>>
        BY <3>2 DEF ImageSector
      <4> HIDE DEF y
      <4>4. x + (SectorSize + i) = y + i
        BY <3>1
      <4> QED BY <4>1, <4>2, <4>3, <4>4
    <3> QED BY <3>4
  <2>5. (Stored(job.at - Bank1))'
    BY <1>3, <1>4, <2>1 DEF Stored
  <2>6. Receiving'
    <3>1. job'.at = f_addr' - 1 /\ job'.data = ImageSector(image, job'.at - Bank1)
      BY <1>2, <2>1, <2>3
    <3> QED BY <1>3, <1>4, <1>10, <1>11, <2>1, <2>2, <2>4, <2>5, <3>1 DEF Receiving
  <2> QED BY <1>3, <1>4, <1>10, <1>12, <1>13, <2>1, <2>2, <2>6
          DEF Kept, FlagPlaces, JobPlaces, RamFlag, CopyingInv, During
<1> QED BY <1>14, <1>15

\* The end of the reception: the last sector, the flag, or a failure.
LEMMA EndKeeps ==
    ASSUME CarefulLoads, IInv, Kept, load.whole, Received \/ Success \/ Failed
    PROVE  Kept'
<1> USE SizeAssumption
<1>1. CASE Received
  <2>1. /\ pc = "received" /\ write_fw_len = ram.size /\ Filling /\ ~Writing /\ TypeOK
        /\ ram.size \in Sizes /\ f_addr >= Bank1 /\ Len(buf) < SectorSize
        /\ write_fw_len = (f_addr - Bank1) * SectorSize + Len(buf)
        /\ UNCHANGED <<flash, nv, ram, f_addr, buf, write_fw_len, recv_fwsize, sock, conns,
                       image, size, load>>
    BY <1>1 DEF Received, Filling, Writing, IInv, Counting, receiver
  <2>2. /\ ram.size = size[image] /\ ram.size \in load.sizes /\ nv.copy # 1 /\ ram.copy # 1
        /\ Stored(f_addr - Bank1) /\ OldWhole /\ Receiving
    BY <2>1 DEF Kept, Receiving, FlagPlaces, RamFlag, During
  <2>3. CASE buf = <<>>
    <3>1. pc' = "success" /\ Filling' /\ ~Writing' /\ job' = job
      BY <1>1, <2>3 DEF Received, Filling, Writing
    <3>2. WholeIn(flash, Bank1, image, size[image])
      <4> DEFINE n == f_addr - Bank1
      <4>1. n \in Nat /\ Bank1 \in Nat /\ 0 \in 0..(SectorSize - 1) /\ Len(buf) = 0
        BY <2>1, <2>3 DEF TypeOK, Bank1
      <4>2. size[image] \in Nat /\ size[image] <= BankSectors * SectorSize /\ size[image] > 0
        <5>1. TypeOK /\ image \in Images /\ size[image] \in load.sizes
          BY <2>1, <2>2 DEF TypeOK
        <5> QED BY <5>1, ImageFits, Careful
      <4>3. size[image] = n * SectorSize + 0
        BY <2>1, <2>2, <4>1
      <4>4. \A s \in 0..(n - 1) : flash[Bank1 + s] = ImageSector(image, s)
        BY <2>2 DEF Stored
      <4>5. \A i \in 1..0 : flash[Bank1 + n][i] = ImageSector(image, n)[i]
        OBVIOUS
      <4> HIDE DEF n
      <4> QED BY <4>1, <4>2, <4>3, <4>4, <4>5, WholeSectors
    <3>3. Receiving'
      BY <2>1, <2>2, <3>1, <3>2 DEF Receiving
    <3>4. DueWhole' /\ OldWhole'
      BY <2>1, <2>2, <3>1 DEF DueWhole, OldWhole
    <3> QED BY <2>1, <2>2, <3>1, <3>3, <3>4
            DEF Kept, FlagPlaces, JobPlaces, RamFlag, CopyingInv, During
  <2>4. CASE buf # <<>>
    <3>1. /\ job' = [at |-> f_addr, data |-> Filled(buf), then |-> "success"] /\ pc' = "erase"
          /\ Filling' /\ Writing'
      BY <1>1, <2>4 DEF Received, Write, Filling, Writing
    <3>2. (Stored(job.at - Bank1))'
      BY <2>1, <2>2, <3>1 DEF Stored
    <3>3. Receiving'
      BY <2>1, <2>2, <3>1, <3>2 DEF Receiving
    <3>4. DueWhole' /\ OldWhole'
      BY <2>1, <2>2, <3>1 DEF DueWhole, OldWhole
    <3> QED BY <2>1, <2>2, <3>1, <3>3, <3>4
            DEF Kept, FlagPlaces, JobPlaces, RamFlag, CopyingInv, During
  <2> QED BY <2>3, <2>4
<1>2. CASE Success
  <2>1. /\ pc = "success" /\ Filling /\ ~Writing /\ ram \in Flags
        /\ ram' = [ram EXCEPT !.copy = 1]
        /\ job' = [at |-> ConfigSector, data |-> Blank, then |-> "reboot"] /\ pc' = "erase"
        /\ UNCHANGED <<flash, nv, image, size, load>>
    BY <1>2 DEF Success, save_DevConfig_to_storage, Write, Filling, Writing, IInv, TypeOK
  <2>2. /\ ram.size = size[image] /\ ram.size \in load.sizes /\ nv.copy # 1 /\ OldWhole
        /\ WholeIn(flash, Bank1, image, size[image])
    BY <2>1 DEF Kept, Receiving, FlagPlaces
  <2>3. /\ Writing' /\ ~Filling' /\ job'.then = "reboot" /\ job'.at = ConfigSector
        /\ ram'.copy = 1 /\ ram'.size = ram.size
    BY <2>1 DEF Writing, Filling, Flags
  <2>4. DueWhole' /\ OldWhole'
    BY <2>1, <2>2 DEF DueWhole, OldWhole
  <2>5. FlagPlaces' /\ JobPlaces' /\ Receiving' /\ CopyingInv' /\ RamFlag'
    BY <2>1, <2>2, <2>3
       DEF FlagPlaces, JobPlaces, RamFlag, Receiving, CopyingInv, During
  <2> QED BY <2>4, <2>5 DEF Kept
<1>3. CASE Failed
  <2>1. /\ pc = "received" /\ Filling /\ ~Writing /\ ram \in Flags
        /\ ram' = [ram EXCEPT !.size = 0] /\ pc' = "config"
        /\ UNCHANGED <<flash, nv, job, image, size, load>>
    BY <1>3 DEF Failed, Filling, Writing, IInv, TypeOK
  <2>2. nv.copy # 1 /\ ram.copy # 1 /\ OldWhole /\ ram'.copy = ram.copy
    BY <2>1 DEF Kept, FlagPlaces, RamFlag, During, Flags
  <2>3. ~Filling' /\ ~Writing'
    BY <2>1 DEF Filling, Writing
  <2>4. DueWhole' /\ OldWhole'
    BY <2>1, <2>2, <2>3 DEF DueWhole, OldWhole
  <2> QED BY <2>1, <2>2, <2>3, <2>4
          DEF Kept, FlagPlaces, JobPlaces, RamFlag, Receiving, CopyingInv, During
<1> QED BY <1>1, <1>2, <1>3

\* The listener and the tool: a careful tool connects once, before any byte.
LEMMA SocketKeeps ==
    ASSUME CarefulLoads, IInv, Kept, load.whole,
           OpenListener \/ CloseWait \/ ToolConnects \/ ToolCloses
    PROVE  Kept'
<1>1. /\ pc = "update" /\ Filling /\ ~Writing /\ conns \in Nat
      /\ UNCHANGED <<flash, nv, ram, pc, job, f_addr, buf, write_fw_len, image, size, load>>
  BY DEF OpenListener, CloseWait, ToolConnects, ToolCloses, Filling, Writing, IInv, TypeOK
<1>2. Filling' /\ ~Writing'
  BY <1>1 DEF Filling, Writing
<1>3. /\ (sock' = "ESTABLISHED" => recv_fwsize' = write_fw_len' /\ conns' # 0)
      /\ (sock' = "LISTEN" => recv_fwsize' = 0)
      /\ (conns' = 0 => write_fw_len' = 0)
  <2>1. CASE OpenListener \/ CloseWait \/ ToolCloses
    BY <1>1, <2>1 DEF OpenListener, CloseWait, ToolCloses, Kept, Receiving
  <2>2. CASE ToolConnects
    <3>1. load.conns = 1
      BY Careful DEF IInv
    <3>2. conns = 0
      BY <1>1, <2>2, <3>1 DEF ToolConnects
    <3> QED BY <1>1, <2>2, <3>2 DEF ToolConnects, Kept, Receiving
  <2> QED BY <2>1, <2>2
<1>4. (Stored(f_addr - Bank1))'
  BY <1>1 DEF Kept, Receiving, Stored
<1>5. Receiving'
  BY <1>1, <1>2, <1>3, <1>4 DEF Kept, Receiving
<1>6. DueWhole' /\ OldWhole'
  BY <1>1, <1>2 DEF Kept, DueWhole, OldWhole
<1> QED BY <1>1, <1>2, <1>5, <1>6
        DEF Kept, FlagPlaces, JobPlaces, RamFlag, CopyingInv, During

\* A command of the tool: while no copy is due bank 1 is free to be written.
LEMMA CommandKeeps ==
    ASSUME CarefulLoads, IInv, Kept, load.whole, Commands
    PROVE  Kept'
<1>1. ASSUME NEW n \in Sizes, BeginUpdate(n)
      PROVE  Kept'
  <2>1. /\ pc = "config" /\ ~Writing /\ image < MaxImages /\ n \in load.sizes
        /\ image' = image + 1 /\ size' = [size EXCEPT ![image + 1] = n]
        /\ ram' = [ram EXCEPT !.size = n] /\ write_fw_len' = 0 /\ f_addr' = Bank1
        /\ buf' = <<>> /\ sock' = "CLOSED" /\ conns' = 0 /\ pc' = "update"
        /\ UNCHANGED <<flash, nv, job, load>>
    BY <1>1 DEF BeginUpdate, Writing
  <2>2. Filling' /\ ~Writing' /\ nv.copy # 1 /\ ram.copy # 1
    BY <2>1 DEF Filling, Writing, Kept, FlagPlaces, RamFlag, During
  <2>3. image \in Nat /\ image + 1 \in Images /\ ram'.size = n /\ ram'.copy = ram.copy
        /\ size'[image + 1] = n /\ \A g \in 1..image : size'[g] = size[g]
    BY <2>1, BoundAssumption DEF IInv, TypeOK, Images, Flags
  <2>4. OldWhole'
    <3>1. PICK g \in 1..image : WholeIn(flash, 0, g, size[g])
      BY <2>2 DEF Kept, OldWhole
    <3> QED BY <2>1, <2>3, <3>1 DEF OldWhole
  <2>5. (Stored(f_addr - Bank1))'
    BY <2>1, SizeAssumption DEF Stored, Bank1
  <2>6. Receiving'
    BY <2>1, <2>2, <2>3, <2>5 DEF Receiving
  <2> QED BY <2>1, <2>2, <2>3, <2>4, <2>6
          DEF Kept, FlagPlaces, JobPlaces, RamFlag, DueWhole, CopyingInv, During
<1>2. CASE RefuseUpdate
  <2>1. /\ pc = "config" /\ ram \in Flags /\ ram' = [ram EXCEPT !.size = 0]
        /\ UNCHANGED <<flash, nv, pc, job, image, size, load>>
    BY <1>2 DEF RefuseUpdate, IInv, TypeOK
  <2>2. ram'.copy = ram.copy /\ ~Writing /\ ~Filling /\ ~Writing' /\ ~Filling'
    BY <2>1 DEF Flags, Writing, Filling
  <2> QED BY <2>1, <2>2
          DEF Kept, FlagPlaces, JobPlaces, RamFlag, DueWhole, OldWhole, Receiving,
              CopyingInv, During
<1>3. CASE SaveCommand
  <2>1. /\ pc = "config" /\ pc' = "erase"
        /\ job' = [at |-> ConfigSector, data |-> Blank, then |-> "config"]
        /\ UNCHANGED <<flash, nv, ram, image, size, load>>
    BY <1>3 DEF SaveCommand, save_DevConfig_to_storage, Write
  <2>2. ~Writing /\ ~Filling /\ Writing' /\ ~Filling' /\ job'.then = "config"
        /\ job'.at = ConfigSector
    BY <2>1 DEF Writing, Filling
  <2> QED BY <2>1, <2>2
          DEF Kept, FlagPlaces, JobPlaces, RamFlag, DueWhole, OldWhole, Receiving,
              CopyingInv, During
<1>4. CASE RebootCommand
  BY <1>4, ResetKeeps DEF RebootCommand
<1> QED BY <1>1, <1>2, <1>3, <1>4 DEF Commands

\* Every step keeps what is in the banks.
LEMMA StepKeeps ==
    ASSUME CarefulLoads, IInv, WholeInv, [Next]_vars
    PROVE  WholeInv'
<1>1. load' = load
  BY DEF vars, Next, Device, EraseSector, ProgramSector, Boot, Copying, CopyCheck, CopyTurn,
         CopyDone, Updating, OpenListener, CloseWait, Receive, ReceiveChunk, Received, Success,
         Reboot, Failed, Commands, BeginUpdate, RefuseUpdate, SaveCommand, RebootCommand, Tool,
         ToolConnects, ToolCloses, PowerLoss, Restart
<1> SUFFICES ASSUME load.whole PROVE Kept'
  BY <1>1 DEF WholeInv
<1>2. Kept
  BY DEF WholeInv
<1>3. CASE UNCHANGED vars
  BY <1>2, <1>3 DEF vars, Kept, FlagPlaces, JobPlaces, RamFlag, DueWhole, OldWhole, Receiving,
                    CopyingInv, During, Writing, Filling, Stored, Copied
<1>4. CASE EraseSector \/ ProgramSector
  BY <1>2, <1>4, EraseKeeps, ProgramKeeps
<1>5. CASE Boot \/ Copying
  BY <1>2, <1>5, BootKeeps, CopyCheckKeeps, CopyTurnKeeps, CopyDoneKeeps DEF Copying
<1>6. CASE Receive
  BY <1>2, <1>6, ReceiveKeeps DEF Receive
<1>7. CASE Reboot \/ PowerLoss \/ Restart
  BY <1>2, <1>7, ResetKeeps DEF Reboot, PowerLoss, Restart
<1>8. CASE OpenListener \/ CloseWait \/ Tool
  BY <1>2, <1>8, SocketKeeps DEF Tool
<1>9. CASE Received \/ Success \/ Failed
  BY <1>2, <1>9, EndKeeps
<1>10. CASE Commands
  BY <1>2, <1>10, CommandKeeps
<1> QED BY <1>3, <1>4, <1>5, <1>6, <1>7, <1>8, <1>9, <1>10 DEF Next, Device, Updating

\* Of a careful load the banks are kept for ever.
LEMMA ImagesKept == ASSUME CarefulLoads PROVE Spec => [](IInv /\ WholeInv)
<1>1. Init => IInv /\ WholeInv
  BY InitHolds, InitKept
<1>2. IInv /\ WholeInv /\ [Next]_vars => (IInv /\ WholeInv)'
  BY Inductive, StepKeeps
<1> QED BY <1>1, <1>2, PTL DEF Spec

-----------------------------------------------------------------------------
(* What the banks hold, for every flash and every careful load.            *)

\* Present is WholeIn of the flash there is.
LEMMA PresentIsWhole ==
    ASSUME NEW bank, NEW g
    PROVE  /\ Present(bank, g) <=> WholeIn(flash, bank, g, size[g])
           /\ Present(bank, g)' <=> WholeIn(flash', bank, g, size'[g])
BY DEF Present, Holds, UnitAt, WholeIn

\* A power loss at any step of a reception, of a save or of a copy never makes
\* main() hand over to a bank 0 without one whole image, if images leave a sector
\* free, the tool sends each in one connection and the boot pin is released.
THEOREM FirmwareWhole == ASSUME CarefulLoads PROVE Spec => []WholeImage
<1>1. IInv /\ WholeInv => WholeImage
  <2> SUFFICES ASSUME IInv, Kept, load.whole, pc = "app"
               PROVE  \E g \in Images : Present(0, g)
    BY DEF WholeInv, WholeImage
  <2>1. nv.copy # 1
    BY DEF Kept, FlagPlaces, Writing
  <2>2. PICK g \in 1..image : WholeIn(flash, 0, g, size[g])
    BY <2>1 DEF Kept, OldWhole
  <2>3. g \in Images
    BY <2>2, BoundAssumption DEF IInv, TypeOK, Images
  <2> QED BY <2>2, <2>3, PresentIsWhole
<1> QED BY <1>1, ImagesKept, PTL

\* Whenever the stored configuration asks for a copy, bank 1 holds the whole image
\* of the stored size, under the same conditions.
THEOREM FlagWhole == ASSUME CarefulLoads PROVE Spec => []FlaggedBankWhole
<1>1. IInv /\ WholeInv => FlaggedBankWhole
  <2> SUFFICES ASSUME IInv, Kept, load.whole, nv.copy = 1
               PROVE  \E g \in Images : size[g] = nv.size /\ Present(Bank1, g)
    BY DEF WholeInv, FlaggedBankWhole
  <2>1. PICK g \in 1..image : size[g] = nv.size /\ WholeIn(flash, Bank1, g, size[g])
    BY DEF Kept, DueWhole
  <2>2. g \in Images
    BY <2>1, BoundAssumption DEF IInv, TypeOK, Images
  <2> QED BY <2>1, <2>2, PresentIsWhole
<1> QED BY <1>1, ImagesKept, PTL

-----------------------------------------------------------------------------
(* The update implements AtomicInstall.                                    *)

\* The image of a bank, and whether g is the image a reset would run, for any
\* contents of the flash and of the stored flag.
ImageOf(f, bank, z) == IF \E g \in Images : WholeIn(f, bank, g, z[g])
                       THEN CHOOSE g \in Images : WholeIn(f, bank, g, z[g]) ELSE 0
Installs(f, v, z, g) == IF v.copy = 1 THEN WholeIn(f, Bank1, g, z[g]) ELSE WholeIn(f, 0, g, z[g])

\* The refinement mapping, before and after a step.
LEMMA MappingIs ==
    /\ installed = (IF ~load.whole THEN 1 ELSE IF nv.copy = 1 THEN ImageOf(flash, Bank1, size)
                    ELSE ImageOf(flash, 0, size))
    /\ installed' = (IF ~load'.whole THEN 1 ELSE IF nv'.copy = 1 THEN ImageOf(flash', Bank1, size')
                     ELSE ImageOf(flash', 0, size'))
    /\ running = IF load.whole /\ pc = "app" THEN ImageOf(flash, 0, size) ELSE 0
    /\ running' = IF load'.whole /\ pc' = "app" THEN ImageOf(flash', 0, size') ELSE 0
<1>1. ASSUME NEW bank
      PROVE  ImageIn(bank) = ImageOf(flash, bank, size) /\ ImageIn(bank)' = ImageOf(flash', bank, size')
  BY DEF ImageIn, ImageOf, Present, Holds, UnitAt, WholeIn
<1> QED BY <1>1 DEF installed, running, Bank1

\* A bank holds one image at most.
LEMMA ImageIs ==
    ASSUME NEW f, NEW bank \in Nat, NEW z \in [Images -> Nat], NEW g \in Images,
           WholeIn(f, bank, g, z[g])
    PROVE  ImageOf(f, bank, z) = g
<1>1. f[bank][1] = <<g, 1>>
  BY WholeFirst
<1>2. ASSUME NEW h \in Images, WholeIn(f, bank, h, z[h])
      PROVE  h = g
  <2>1. f[bank][1] = <<h, 1>>
    BY <1>2, WholeFirst
  <2> QED BY <1>1, <2>1
<1> DEFINE c == CHOOSE h \in Images : WholeIn(f, bank, h, z[h])
<1>3. c \in Images /\ WholeIn(f, bank, c, z[c])
  OBVIOUS
<1>4. c = g
  BY <1>2, <1>3
<1> QED BY <1>4 DEF ImageOf

\* A careful device always has an image installed.
LEMMA SomeInstalled ==
    ASSUME IInv, Kept
    PROVE  \E g \in Images : Installs(flash, nv, size, g) /\ (Filling => g < image)
<1>1. ASSUME NEW g \in 1..image
      PROVE  g \in Images
  BY BoundAssumption DEF IInv, TypeOK, Images
<1>2. CASE nv.copy = 1
  <2>1. PICK g \in 1..image : WholeIn(flash, Bank1, g, size[g])
    BY <1>2 DEF Kept, DueWhole
  <2>2. ~Filling
    BY <1>2 DEF Kept, FlagPlaces, Filling, Writing
  <2> QED BY <1>1, <1>2, <2>1, <2>2 DEF Installs
<1>3. CASE nv.copy # 1
  BY <1>1, <1>3 DEF Kept, OldWhole, Installs
<1> QED BY <1>2, <1>3

\* A step changes the installed image only when it programs the flag that ends an
\* update, and then to the newer image of bank 1.
LEMMA StepInstalls ==
    ASSUME CarefulLoads, IInv, Kept, load.whole, [Next]_vars
    PROVE  \/ \E g \in Images : Installs(flash, nv, size, g) /\ Installs(flash', nv', size', g)
           \/ /\ pc = "program" /\ pc' = "reboot"
              /\ \E g, h \in Images : /\ Installs(flash, nv, size, g)
                                      /\ Installs(flash', nv', size', h) /\ g < h
<1> USE SizeAssumption
<1>1. PICK g \in Images : Installs(flash, nv, size, g)
  BY SomeInstalled
<1>2. ConfigSector \in Nat /\ Bank1 \in Nat \ {0} /\ ConfigSector = Bank1 + BankSectors
  BY DEF ConfigSector, Bank1
<1>3. /\ TypeOK /\ flash \in [BankArea -> Sector] /\ job.at \in 0..ConfigSector
      /\ size[g] \in Nat /\ size[g] <= BankSectors * SectorSize
  BY ImageFits DEF IInv, TypeOK
<1>4. \/ UNCHANGED <<flash, nv, size>>
      \/ EraseSector \/ ProgramSector \/ CopyCheck \/ \E n \in Sizes : BeginUpdate(n)
  BY DEF vars, Next, Device, Boot, Copying, CopyTurn, CopyDone, Updating, OpenListener,
         CloseWait, Receive, ReceiveChunk, Received, Success, Reboot, Failed, Commands,
         RefuseUpdate, SaveCommand, RebootCommand, Tool, ToolConnects, ToolCloses, PowerLoss, Restart
<1>5. CASE UNCHANGED <<flash, nv, size>>
  BY <1>1, <1>5
<1>6. CASE \E n \in Sizes : BeginUpdate(n)
  <2>1. /\ pc = "config" /\ UNCHANGED <<flash, nv>>
        /\ \E n \in Sizes : size' = [size EXCEPT ![image + 1] = n]
    BY <1>6 DEF BeginUpdate
  <2>2. nv.copy # 1
    BY <2>1 DEF Kept, FlagPlaces, Writing
  <2>3. PICK h \in 1..image : WholeIn(flash, 0, h, size[h])
    BY <2>2 DEF Kept, OldWhole
  <2>4. h \in Images /\ size'[h] = size[h]
    BY <1>3, <2>1, <2>3, BoundAssumption DEF TypeOK, Images
  <2> QED BY <2>1, <2>2, <2>3, <2>4 DEF Installs
<1>7. CASE CopyCheck
  <2>1. nv.copy = 1 /\ nv' = nv /\ size' = size
    BY <1>7 DEF CopyCheck, Kept, FlagPlaces
  <2>2. \A s \in 0..(BankSectors - 1) : flash'[Bank1 + s] = flash[Bank1 + s]
    BY <1>7 DEF CopyCheck, BankArea, Bank1, ConfigSector
  <2>3. WholeIn(flash', Bank1, g, size[g])
    BY <1>1, <1>2, <1>3, <2>1, <2>2, WholeFrame DEF Installs
  <2> QED BY <1>1, <2>1, <2>3 DEF Installs
<1>8. CASE EraseSector \/ ProgramSector
  <2>1. /\ Writing /\ size' = size
        /\ job.at = ConfigSector => /\ flash' = flash
                                    /\ nv' = IF pc = "erase" THEN Cleared ELSE ram
                                    /\ pc = "program" => pc' = job.then
        /\ job.at # ConfigSector =>
              nv' = nv /\ \A s \in BankArea : s # job.at => flash'[s] = flash[s]
    BY <1>3, <1>8 DEF EraseSector, ProgramSector, Writing
  <2>2. Filling => job.at \in Bank1..(ConfigSector - 1)
    BY <2>1 DEF IInv, Counting, Writing
  <2>3. CASE job.at = ConfigSector
    <3>1. job.then \in {"app", "config", "reboot"}
      BY <1>2, <2>1, <2>2, <2>3 DEF Kept, JobPlaces
    <3>2. CASE nv.copy = 1
      <4>1. pc = "erase" /\ job.then = "app"
        BY <2>1, <3>1, <3>2 DEF Kept, FlagPlaces, Writing
      <4>2. PICK h \in 1..image : WholeIn(flash, Bank1, h, size[h]) /\ WholeIn(flash, 0, h, size[h])
        BY <2>1, <3>2, <4>1 DEF Kept, DueWhole
      <4>3. h \in Images /\ nv'.copy # 1
        BY <1>3, <2>1, <2>3, <4>1, <4>2, BoundAssumption DEF TypeOK, Images, Cleared
      <4> QED BY <2>1, <2>3, <3>2, <4>2, <4>3 DEF Installs
    <3>3. CASE nv.copy # 1 /\ nv'.copy # 1
      BY <1>1, <2>1, <2>3, <3>3 DEF Installs
    <3>4. CASE nv.copy # 1 /\ nv'.copy = 1
      <4>1. pc = "program" /\ nv' = ram
        BY <2>1, <2>3, <3>4 DEF Writing, Cleared
      <4>2. job.then = "reboot" /\ pc' = "reboot"
        BY <2>1, <2>3, <3>1, <3>4, <4>1 DEF Kept, RamFlag, During, Writing
      <4>3. PICK h \in 1..image : WholeIn(flash, 0, h, size[h]) /\ h < image
        BY <2>1, <3>4, <4>2 DEF Kept, OldWhole
      <4>4. WholeIn(flash, Bank1, image, size[image])
        BY <2>1, <4>2 DEF Kept, RamFlag
      <4>5. h \in Images /\ image \in Images
        BY <1>3, <4>3, BoundAssumption DEF TypeOK, Images
      <4> QED BY <2>1, <2>3, <3>4, <4>1, <4>2, <4>3, <4>4, <4>5 DEF Installs
    <3> QED BY <3>2, <3>3, <3>4
  <2>4. CASE job.at # ConfigSector
    <3>1. CASE Filling
      <4>1. nv.copy # 1 /\ job.at \in Bank1..(ConfigSector - 1)
        BY <2>1, <2>2, <3>1 DEF Filling, Kept, FlagPlaces, Writing
      <4>2. \A s \in 0..(BankSectors - 1) : flash'[0 + s] = flash[0 + s]
        BY <1>2, <2>1, <2>4, <4>1 DEF BankArea, Bank1
      <4>3. WholeIn(flash', 0, g, size[g])
        BY <1>1, <1>3, <4>1, <4>2, WholeFrame DEF Installs
      <4> QED BY <1>1, <2>1, <2>4, <4>1, <4>3 DEF Installs
    <3>2. CASE ~Filling
      <4>1. nv.copy = 1 /\ job.at < Bank1
        BY <2>1, <2>4, <3>2 DEF Kept, JobPlaces, FlagPlaces, Writing
      <4>2. \A s \in 0..(BankSectors - 1) : flash'[Bank1 + s] = flash[Bank1 + s]
        BY <1>2, <1>3, <2>1, <2>4, <4>1 DEF BankArea
      <4>3. WholeIn(flash', Bank1, g, size[g])
        BY <1>1, <1>2, <1>3, <4>1, <4>2, WholeFrame DEF Installs
      <4> QED BY <1>1, <2>1, <2>4, <4>1, <4>3 DEF Installs
    <3> QED BY <3>1, <3>2
  <2> QED BY <2>3, <2>4
<1> QED BY <1>4, <1>5, <1>6, <1>7, <1>8

\* The application runs only while no copy is due.
LEMMA RunsInstalled == Kept => (pc = "app" => nv.copy # 1)
BY DEF Kept, FlagPlaces, Writing

\* For every flash and every careful load, what a reset would run changes in one
\* step to a newer image, and is what main() hands over to.
THEOREM Implements == ASSUME CarefulLoads PROVE Spec => InstallsAtomically
<1> USE DEF Install!Next, Install!Install, Install!Start, Install!Stop
<1>1. ASSUME IInv, WholeInv, Init
      PROVE  Install!Init
  <2>1. running = 0 /\ 1 \in Images /\ size \in [Images -> Nat] /\ nv.copy = 0
    BY <1>1, MappingIs, BoundAssumption, SizeAssumption DEF Init, Images
  <2>2. CASE ~load.whole
    BY <2>1, <2>2, MappingIs DEF Install!Init
  <2>3. CASE load.whole
    <3>1. PICK g \in Images : Installs(flash, nv, size, g)
      BY <1>1, <2>3, SomeInstalled DEF WholeInv
    <3>2. WholeIn(flash, 0, g, size[g])
      BY <2>1, <3>1 DEF Installs
    <3>3. ImageOf(flash, 0, size) = g
      BY <2>1, <3>2, ImageIs
    <3> QED BY <2>1, <2>3, <3>3, MappingIs DEF Install!Init
  <2> QED BY <2>2, <2>3
<1>2. ASSUME IInv, WholeInv, IInv', WholeInv', [Next]_vars
      PROVE  [Install!Next]_(Install!vars)
  <2>1. load' = load
    BY <1>2 DEF vars, Next, Device, EraseSector, ProgramSector, Boot, Copying, CopyCheck,
         CopyTurn, CopyDone, Updating, OpenListener, CloseWait, Receive, ReceiveChunk, Received,
         Success, Reboot, Failed, Commands, BeginUpdate, RefuseUpdate, SaveCommand, RebootCommand,
         Tool, ToolConnects, ToolCloses, PowerLoss, Restart
  <2>2. CASE ~load.whole
    BY <2>1, <2>2, MappingIs DEF Install!vars
  <2>3. CASE load.whole
    <3>1. Kept /\ Kept' /\ size \in [Images -> Nat] /\ size' \in [Images -> Nat] /\ 0 \in Nat
          /\ Bank1 \in Nat
      <4>1. Kept /\ Kept' /\ TypeOK /\ TypeOK'
        BY <1>2, <2>1, <2>3 DEF WholeInv, IInv
      <4>2. {0} \cup 1..(BankSectors * SectorSize) \subseteq Nat
        BY SizeAssumption
      <4> QED BY <4>1, <4>2, SizeAssumption DEF TypeOK, Bank1
    <3>2. \A g \in Images : Installs(flash, nv, size, g) => installed = g
      BY <2>3, <3>1, ImageIs, MappingIs DEF Installs
    <3>3. \A g \in Images : Installs(flash', nv', size', g) => installed' = g
      BY <2>1, <2>3, <3>1, ImageIs, MappingIs DEF Installs
    <3>4. running = IF pc = "app" THEN installed ELSE 0
      BY <2>3, <3>1, RunsInstalled, MappingIs
    <3>5. running' = IF pc' = "app" THEN installed' ELSE 0
      <4>1. Kept' => (pc' = "app" => nv'.copy # 1)
        BY DEF Kept, FlagPlaces, Writing
      <4> QED BY <2>1, <2>3, <3>1, <4>1, MappingIs
    <3>6. \A g \in Images : g # 0
      BY DEF Images
    <3>7. CASE \E g \in Images : Installs(flash, nv, size, g) /\ Installs(flash', nv', size', g)
      <4>1. installed' = installed /\ installed # 0
        BY <3>2, <3>3, <3>6, <3>7
      <4> QED BY <3>4, <3>5, <4>1 DEF Install!vars
    <3>8. CASE /\ pc = "program" /\ pc' = "reboot"
               /\ \E g, h \in Images : /\ Installs(flash, nv, size, g)
                                       /\ Installs(flash', nv', size', h) /\ g < h
      <4>1. installed' \in Images /\ installed' > installed
        BY <3>2, <3>3, <3>8 DEF Images
      <4> QED BY <3>4, <3>5, <3>8, <4>1 DEF Install!vars
    <3> QED BY <1>2, <2>3, <3>1, <3>7, <3>8, StepInstalls
  <2> QED BY <2>2, <2>3
<1> QED BY <1>1, <1>2, ImagesKept, PTL DEF Spec, InstallsAtomically, Install!Spec
=============================================================================
