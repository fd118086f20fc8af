------------------------------ MODULE FwUpdate ------------------------------
(***************************************************************************)
(* Firmware update of the bootloader (main/Boot and port/boot): the image  *)
(* received over TCP into flash bank 1, the copy flag stored with the      *)
(* configuration, and the copy of bank 1 over bank 0 at the next boot, with *)
(* the power lost at any step.                                             *)
(*                                                                         *)
(* Flash is an array of sectors: BankSectors of bank 0, BankSectors of     *)
(* bank 1, and behind them the sector of the configuration, of which only  *)
(* the two fields of the update are kept (nv).  A sector is SectorSize     *)
(* units; a unit of an image is <<image, position>>.                       *)
(***************************************************************************)
EXTENDS Integers, Sequences

CONSTANTS
    SectorSize,       \* FLASH_SECTOR_SIZE
    BankSectors,      \* FLASH_APP_BANK_SIZE in sectors
    RecvMax,          \* DATA_BUF_SIZE, the most one receive returns
    Sizes,            \* the sizes a configuration tool may announce
    MaxImages,        \* bound: images ever sent, the factory's included
    MaxConns,         \* bound: connections of the tool in one update
    MaxCrashes,       \* bound: power losses
    Loads             \* what may be asked of the device: a subset of AllLoads

\* The sizes of the images, connections in one update and power losses; whether
\* bank 0 holds a firmware at first and the boot pin may be held low while a copy
\* is due; whether the device is then expected to keep a whole image.
AllLoads == [sizes : SUBSET Sizes, conns : 1..MaxConns, crashes : 0..MaxCrashes,
             factory : BOOLEAN, pin : BOOLEAN, whole : BOOLEAN]

ASSUME SizeAssumption ==
    /\ SectorSize \in Nat \ {0} /\ BankSectors \in Nat \ {0}
    /\ RecvMax \in 1..SectorSize
    /\ Sizes \subseteq 1..(BankSectors * SectorSize)
ASSUME BoundAssumption ==
    /\ MaxImages \in Nat \ {0} /\ MaxConns \in Nat \ {0} /\ MaxCrashes \in Nat
    /\ Loads \subseteq AllLoads

VARIABLES
    load,         \* what is asked of the device: one of Loads
    flash,        \* the two banks, by sector
    nv,           \* the stored configuration: [copy, size]
    ram,          \* dev_config.firmware_update: [copy, size]
    pc,           \* where the bootloader is
    job,          \* the write_flash call under way: [at, data, then]
    f_addr,       \* sector the next full buffer goes to
    buf,          \* g_temp_buf[0 .. buf_len-1]
    write_fw_len, \* bytes taken by device_bank_update
    recv_fwsize,  \* bytes received on this connection
    sock,         \* SOCK_FWUPDATE
    conns,        \* connections the tool made in this update
    image,        \* the image the tool sends
    size,         \* the announced size of each image
    crashes

vars == <<load, flash, nv, ram, pc, job, f_addr, buf, write_fw_len, recv_fwsize,
          sock, conns, image, size, crashes>>
receiver == <<f_addr, buf, write_fw_len, recv_fwsize, sock, conns>>

Images == 1..MaxImages
Erased == <<0, 0>>                     \* 0xFF
Config == <<0, 1>>                     \* a byte of the configuration sector
Units  == (Images \X (1..(BankSectors * SectorSize))) \cup {Erased, Config}
Sector == [1..SectorSize -> Units]
Blank  == [i \in 1..SectorSize |-> Erased]
Filled(q) == [i \in 1..SectorSize |-> IF i <= Len(q) THEN q[i] ELSE Erased]

Bank1        == BankSectors            \* FLASH_START_ADDR_BANK1_OFFSET
ConfigSector == 2 * BankSectors        \* FLASH_DEV_INFO_ADDR
BankArea     == 0..(ConfigSector - 1)
NoJob        == [at |-> 0, data |-> Blank, then |-> "boot"]
Cleared      == [copy |-> -1, size |-> -1]        \* the fields read 0xFF..

Smaller(a, b) == IF a < b THEN a ELSE b
SectorsOf(n)  == (n + SectorSize - 1) \div SectorSize

\* Unit p of a bank, and whether that bank begins with the whole image g.
UnitAt(bank, p) == flash[bank + (p - 1) \div SectorSize]
                        [((p - 1) % SectorSize) + 1]
Holds(bank, g)  == \A p \in 1..size[g] : UnitAt(bank, p) = <<g, p>>

Present(bank, g) == size[g] > 0 /\ Holds(bank, g)

\* The first word of a bank is neither erased nor zero.
device_bank_check(bank) == flash[bank][1] # Erased

-----------------------------------------------------------------------------
Init ==
    /\ load \in Loads
    /\ flash = [s \in BankArea |->
                  IF load.factory /\ s = 0
                  THEN [i \in 1..SectorSize |-> <<1, i>>] ELSE Blank]
    /\ nv = [copy |-> 0, size |-> 0] /\ ram = nv
    /\ pc = "boot" /\ job = NoJob
    /\ f_addr = Bank1 /\ buf = <<>> /\ write_fw_len = 0 /\ recv_fwsize = 0
    /\ sock = "CLOSED" /\ conns = 0
    /\ image = 1 /\ size = [g \in Images |-> IF g = 1 THEN SectorSize ELSE 0]
    /\ crashes = 0

\* RAM after a reset: nothing of an update in progress is left.
ResetMemory ==
    /\ job' = NoJob /\ f_addr' = Bank1 /\ buf' = <<>>
    /\ write_fw_len' = 0 /\ recv_fwsize' = 0 /\ sock' = "CLOSED" /\ conns' = 0
    /\ ram' = [copy |-> 0, size |-> 0]

-----------------------------------------------------------------------------
(* write_flash on one sector: the erase, then the program.                 *)

Write(at, data, then) ==
    /\ job' = [at |-> at, data |-> data, then |-> then]
    /\ pc' = "erase"

EraseSector ==
    /\ pc = "erase"
    /\ IF job.at = ConfigSector
       THEN nv' = Cleared /\ UNCHANGED flash
       ELSE flash' = [flash EXCEPT ![job.at] = Blank] /\ UNCHANGED nv
    /\ pc' = "program"
    /\ UNCHANGED <<ram, job, receiver, image, size, crashes, load>>

ProgramSector ==
    /\ pc = "program"
    /\ IF job.at = ConfigSector
       THEN nv' = ram /\ UNCHANGED flash
       ELSE flash' = [flash EXCEPT ![job.at] = job.data] /\ UNCHANGED nv
    /\ pc' = job.then
    /\ UNCHANGED <<ram, job, receiver, image, size, crashes, load>>

save_DevConfig_to_storage(then) == Write(ConfigSector, Blank, then)

-----------------------------------------------------------------------------
(* main(): the decision at reset.                                          *)

\* Mutant: the copy flag is not looked at.
Start_IgnoresFlag(pin) ==
    IF pin \/ (~device_bank_check(0) /\ ~device_bank_check(Bank1)) THEN "config"
    ELSE "app"

Start(pin) ==
    IF pin \/ (~device_bank_check(0) /\ ~device_bank_check(Bank1)) THEN "config"
    ELSE IF nv.copy = 1 THEN "copycheck" ELSE "app"

Boot ==
    /\ pc = "boot"
    /\ \E pin \in BOOLEAN :          \* the boot pin is read low
         /\ pin => load.pin \/ nv.copy # 1
         /\ pc' = Start(pin)
    /\ ram' = nv                     \* load_boot_DevConfig_from_storage
    /\ UNCHANGED <<flash, nv, job, receiver, image, size, crashes, load>>

\* A copy is due: without an image in bank 1 the device resets and tries again.
CopyCheck ==
    /\ pc = "copycheck"
    /\ IF device_bank_check(Bank1)
       THEN /\ flash' = [s \in BankArea |-> IF s < Bank1 THEN Blank ELSE flash[s]]
            /\ f_addr' = 0           \* f_addr_dst
            /\ pc' = "copy"
       ELSE /\ pc' = "boot" /\ UNCHANGED <<flash, f_addr>>
    /\ UNCHANGED <<nv, ram, job, buf, write_fw_len, recv_fwsize, sock, conns,
                   image, size, crashes, load>>

\* Sectors device_bank_copy moves: write_fw_len runs up to fwup_size plus one.
\* Mutant: the partial last sector is not copied.
CopySectors_WholeOnly(n) == n \div SectorSize

CopySectors(n) == SectorsOf(n + SectorSize)

\* device_bank_copy: one turn of the loop, then the flag is cleared and stored.
CopyData(s) ==
    IF Bank1 + s < ConfigSector THEN flash[Bank1 + s]
    ELSE IF nv = Cleared THEN Blank ELSE [i \in 1..SectorSize |-> Config]

CopyTurn ==
    /\ pc = "copy" /\ f_addr < CopySectors(ram.size)
    /\ Write(f_addr, CopyData(f_addr), "copy")
    /\ f_addr' = f_addr + 1
    /\ UNCHANGED <<flash, nv, ram, buf, write_fw_len, recv_fwsize, sock, conns,
                   image, size, crashes, load>>

\* Mutant: the flag is left set and the device reset.
CopyDone_KeepsFlag ==
    /\ pc = "copy" /\ f_addr >= CopySectors(ram.size)
    /\ save_DevConfig_to_storage("boot")
    /\ UNCHANGED <<flash, nv, ram, receiver, image, size, crashes, load>>

CopyDone ==
    /\ pc = "copy" /\ f_addr >= CopySectors(ram.size)
    /\ ram' = [ram EXCEPT !.copy = 0]
    /\ save_DevConfig_to_storage("app")
    /\ UNCHANGED <<flash, nv, receiver, image, size, crashes, load>>

-----------------------------------------------------------------------------
(* The configuration mode: the commands the tool may send (do_segcp).      *)

\* FW: the size is stored and device_bank_update starts over in bank 1.
\* Mutant: the write address goes on where the last update stopped.
BeginUpdate_KeepsAddress(n) ==
    /\ pc = "config" /\ image < MaxImages /\ n \in load.sizes
    /\ image' = image + 1 /\ size' = [size EXCEPT ![image + 1] = n]
    /\ ram' = [ram EXCEPT !.size = n]
    /\ write_fw_len' = 0 /\ buf' = <<>> /\ sock' = "CLOSED" /\ conns' = 0
    /\ pc' = "update"
    /\ UNCHANGED <<flash, nv, job, f_addr, recv_fwsize, crashes, load>>

BeginUpdate(n) ==
    /\ pc = "config" /\ image < MaxImages /\ n \in load.sizes
    /\ image' = image + 1 /\ size' = [size EXCEPT ![image + 1] = n]
    /\ ram' = [ram EXCEPT !.size = n]
    /\ write_fw_len' = 0 /\ f_addr' = Bank1 /\ buf' = <<>>
    /\ sock' = "CLOSED" /\ conns' = 0
    /\ pc' = "update"
    /\ UNCHANGED <<flash, nv, job, recv_fwsize, crashes, load>>

\* FW with a size of zero or beyond the bank: the size is forgotten.
RefuseUpdate ==
    /\ pc = "config" /\ ram.size # 0
    /\ ram' = [ram EXCEPT !.size = 0]
    /\ UNCHANGED <<flash, nv, pc, job, receiver, image, size, crashes, load>>

\* SV: the configuration in RAM is stored as it is.
SaveCommand ==
    /\ pc = "config"
    /\ save_DevConfig_to_storage("config")
    /\ UNCHANGED <<flash, nv, ram, receiver, image, size, crashes, load>>

\* RT: device_reboot.
RebootCommand ==
    /\ pc = "config"
    /\ pc' = "boot" /\ ResetMemory
    /\ UNCHANGED <<flash, nv, image, size, crashes, load>>

-----------------------------------------------------------------------------
(* get_firmware_from_network, by the state of the socket, and the receive  *)
(* loop of device_bank_update around it.                                   *)

OpenListener ==
    /\ pc = "update" /\ sock = "CLOSED"
    /\ sock' = "LISTEN" /\ recv_fwsize' = 0
    /\ UNCHANGED <<flash, nv, ram, pc, job, f_addr, buf, write_fw_len, conns,
                   image, size, crashes, load>>

CloseWait ==
    /\ pc = "update" /\ sock = "CLOSE_WAIT"
    /\ sock' = "CLOSED"              \* disconnect
    /\ UNCHANGED <<flash, nv, ram, pc, job, f_addr, buf, write_fw_len, recv_fwsize,
                   conns, image, size, crashes, load>>

\* What the tool sends next on this connection: always from the first byte on.
Chunk(n) == [i \in 1..n |-> <<image, recv_fwsize + i>>]

ReceiveChunk(k) ==
    LET len   == Smaller(k, ram.size - recv_fwsize)
        all   == buf \o Chunk(len)
        wlen  == write_fw_len + len
        again == IF wlen < ram.size THEN "update" ELSE "received"
    IN  /\ pc = "update" /\ sock = "ESTABLISHED"
        /\ recv_fwsize' = recv_fwsize + len
        /\ sock' = IF recv_fwsize' >= ram.size THEN "CLOSED" ELSE sock
        /\ write_fw_len' = wlen
        /\ IF Len(all) < SectorSize
           THEN /\ buf' = all /\ pc' = again /\ UNCHANGED <<job, f_addr>>
           ELSE /\ Write(f_addr, SubSeq(all, 1, SectorSize), again)
                /\ f_addr' = f_addr + 1
                /\ buf' = SubSeq(all, SectorSize + 1, Len(all))
        /\ UNCHANGED <<flash, nv, ram, conns, image, size, crashes, load>>

\* The loop is left; the rest of the buffer is written if the count is exact.
\* Mutant: the rest of the buffer is never written.
Received_DropsRest ==
    /\ pc = "received" /\ write_fw_len = ram.size
    /\ pc' = "success" /\ UNCHANGED job
    /\ UNCHANGED <<flash, nv, ram, receiver, image, size, crashes, load>>

Received ==
    /\ pc = "received" /\ write_fw_len = ram.size
    /\ IF buf # <<>> THEN Write(f_addr, Filled(buf), "success")
                     ELSE pc' = "success" /\ UNCHANGED job
    /\ UNCHANGED <<flash, nv, ram, receiver, image, size, crashes, load>>

\* Success: the flag is set, the configuration stored and the device reboots.
Success ==
    /\ pc = "success"
    /\ ram' = [ram EXCEPT !.copy = 1]
    /\ save_DevConfig_to_storage("reboot")
    /\ UNCHANGED <<flash, nv, receiver, image, size, crashes, load>>

Reboot ==
    /\ pc = "reboot"
    /\ pc' = "boot" /\ ResetMemory
    /\ UNCHANGED <<flash, nv, image, size, crashes, load>>

\* Any other count: the size is forgotten (segcp_ret_handler).
Failed ==
    /\ pc = "received" /\ write_fw_len # ram.size
    /\ ram' = [ram EXCEPT !.size = 0] /\ sock' = "CLOSED"
    /\ pc' = "config"
    /\ UNCHANGED <<flash, nv, job, f_addr, buf, write_fw_len, recv_fwsize, conns,
                   image, size, crashes, load>>

-----------------------------------------------------------------------------
(* The tool at the other end, and the power supply.                        *)

ToolConnects ==
    /\ pc = "update" /\ sock = "LISTEN" /\ conns < load.conns
    /\ sock' = "ESTABLISHED" /\ conns' = conns + 1
    /\ UNCHANGED <<flash, nv, ram, pc, job, f_addr, buf, write_fw_len, recv_fwsize,
                   image, size, crashes, load>>

ToolCloses ==
    /\ pc = "update" /\ sock = "ESTABLISHED"
    /\ sock' = "CLOSE_WAIT"
    /\ UNCHANGED <<flash, nv, ram, pc, job, f_addr, buf, write_fw_len, recv_fwsize,
                   conns, image, size, crashes, load>>

PowerLoss ==
    /\ crashes < load.crashes /\ pc # "boot"
    /\ crashes' = crashes + 1
    /\ pc' = "boot" /\ ResetMemory
    /\ UNCHANGED <<flash, nv, image, size, load>>

\* The firmware is restarted on purpose.
Restart ==
    /\ pc = "app"
    /\ pc' = "boot" /\ ResetMemory
    /\ UNCHANGED <<flash, nv, image, size, crashes, load>>

-----------------------------------------------------------------------------
Receive == \E k \in 1..RecvMax : ReceiveChunk(k)

Copying  == CopyCheck \/ CopyTurn \/ CopyDone
Updating == OpenListener \/ CloseWait \/ Receive \/ Received \/ Success
            \/ Reboot \/ Failed
Device   == EraseSector \/ ProgramSector \/ Boot \/ Copying \/ Updating
Commands == (\E n \in Sizes : BeginUpdate(n)) \/ RefuseUpdate \/ SaveCommand
            \/ RebootCommand
Tool     == ToolConnects \/ ToolCloses

Next == Device \/ Commands \/ Tool \/ PowerLoss \/ Restart

Spec     == Init /\ [][Next]_vars
FairSpec == Spec /\ WF_vars(Device)

-----------------------------------------------------------------------------
Places == {"boot", "config", "update", "received", "success", "reboot",
           "copycheck", "copy", "erase", "program", "app"}
Flags  == [copy : {-1, 0, 1}, size : {-1, 0} \cup Sizes]

\* Every variable keeps the type its C declaration gives it.
TypeOK ==
    /\ load \in Loads
    /\ flash \in [BankArea -> Sector]
    /\ nv \in Flags /\ ram \in Flags
    /\ pc \in Places
    /\ job \in [at : 0..ConfigSector, data : Sector, then : Places]
    /\ f_addr \in Nat /\ buf \in Seq(Units)
    /\ write_fw_len \in Nat /\ recv_fwsize \in Nat
    /\ sock \in {"CLOSED", "LISTEN", "ESTABLISHED", "CLOSE_WAIT"}
    /\ conns \in 0..MaxConns /\ image \in Images
    /\ size \in [Images -> {0} \cup 1..(BankSectors * SectorSize)]
    /\ crashes \in 0..MaxCrashes

\* Wherever the tool drops and resumes, the receive loop fills g_temp_buf
\* without passing its end and writes no sector outside bank 1, although a
\* second connection is allowed to bring more bytes than are still missing.
Filling == pc \in {"update", "received", "success"}
           \/ (pc \in {"erase", "program"}
               /\ job.then \in {"update", "received", "success"})
UpdateInBank1 ==
    Filling => /\ Len(buf) < SectorSize
               /\ f_addr \in Bank1..ConfigSector
               /\ (f_addr = ConfigSector => buf = <<>> \/ write_fw_len # ram.size)
               /\ (pc \in {"erase", "program"} => job.at \in Bank1..(ConfigSector - 1))

\* The firmware handed over to is whole: an update that lost power at any step,
\* of the reception, of the copy or of a configuration write, never leaves a mixed
\* or partial image in bank 0.
WholeImage == load.whole /\ pc = "app" => \E g \in Images : Present(0, g)

\* A stored copy flag is only ever seen with the whole image in bank 1: it is
\* stored after the last sector and cleared before bank 1 is written again.
FlaggedBankWhole ==
    load.whole /\ nv.copy = 1 => \E g \in Images : size[g] = nv.size /\ Present(Bank1, g)

\* A copy that is due is completed, however often the power is lost on the way:
\* the image of bank 1 comes to be in bank 0 and the flag is cleared.
CopyCompletes ==
    \A g \in Images : (load.whole /\ nv.copy = 1 /\ Present(Bank1, g))
            ~> (nv.copy # 1 /\ Present(0, g) /\ pc \in {"app", "config"})

\* What the tool is told with BU_UPDATE:SUCCESS: bank 1 holds the image it sent.
SuccessMeansReceived == pc = "success" => Holds(Bank1, image)

\* The message of device_bank_copy for a size of zero says the copy FAILED; the
\* loop then must not run, and bank 0 must not be given to the application.
InvalidSizeNotCopied == pc = "copy" => ram.size \in Sizes

\* The receive loop is left again even if the tool stops sending: there is a
\* timeout for it (flag_fw_update_timeout).
UpdateEnds == (pc = "update") ~> (pc # "update")

\* The image a reset would run: that of bank 1 while a copy is due.  0 is none.
ImageIn(bank) == IF \E g \in Images : Present(bank, g)
                 THEN CHOOSE g \in Images : Present(bank, g) ELSE 0
installed == IF ~load.whole THEN 1
             ELSE IF nv.copy = 1 THEN ImageIn(Bank1) ELSE ImageIn(0)
running   == IF load.whole /\ pc = "app" THEN ImageIn(0) ELSE 0
Install   == INSTANCE AtomicInstall

\* The update implements the atomic installation of whole images: what a reset
\* would run changes in one step, to a newer image, and it is what then runs.
InstallsAtomically == Install!Spec
=============================================================================
