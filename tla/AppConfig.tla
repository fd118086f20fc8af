------------------------------ MODULE AppConfig ------------------------------
(***************************************************************************)
(* The application's configuration protocol and firmware update: three     *)
(* tasks, one for each channel (UDP, TCP and the serial line in AT mode),   *)
(* that take a request, run its commands, and then do what the commands    *)
(* asked for: save, restart, update.  The tasks run at the same time and    *)
(* share dev_config, the request buffer with strtok's place in it, and the  *)
(* flash.  A flash operation masks the interrupts of both cores, so that    *)
(* nothing but a reset comes between its steps.                             *)
(*                                                                         *)
(* Of the flash there remain the configuration sector (nv), the sector of   *)
(* the root certificate, bank 1 unit by unit, and the image in bank 0.  The *)
(* copy that the bootloader makes is one step here (FwUpdate has its own).  *)
(* Where HttpsServer has a name too, the one here begins with App or app.   *)
(***************************************************************************)
EXTENDS SegcpCommands

CONSTANTS
    SectorSize,     \* FLASH_SECTOR_SIZE
    BankSectors,    \* FLASH_APP_BANK_SIZE in sectors
    RecvMax,        \* DATA_BUF_SIZE, the most one receive returns
    Settings,       \* the settings followed, LP among them
    Factory,        \* their factory values
    Loads,          \* what tools send: by channel, a set of requests
    MaxImages,      \* bound: images ever sent, the factory's included
    MaxConns,       \* bound: connections of the tool in one update
    MaxCrashes      \* bound: power losses

Channels == {"UDP", "TCP", "serial"}
Sizes    == 1..(BankSectors * SectorSize)
TooBig   == BankSectors * SectorSize + 1     \* stands for every larger size

\* A command asks, or it sets with a parameter: that of a setting, the size of an
\* image, the state of a certificate's text.
Asks(c)    == [cmd |-> c, asks |-> TRUE, arg |-> ""]
Sets(c, p) == [cmd |-> c, asks |-> FALSE, arg |-> p]

Commands ==
    [cmd : Queries \cup SettingCommands \cup {"FW", "unknown"}, asks : {TRUE}, arg : {""}]
    \cup [cmd : SettingCommands, asks : {FALSE}, arg : Params]
    \cup [cmd : {"UF"}, asks : {FALSE}, arg : {0, 1}]
    \cup [cmd : {"FW"}, asks : {FALSE}, arg : {0, TooBig} \cup Sizes]
    \cup [cmd : {"OC"}, asks : {FALSE}, arg : {"whole", "cut", "bad"}]

AppConstants ==
    /\ SectorSize \in Nat \ {0} /\ BankSectors \in Nat \ {0}
    /\ RecvMax \in 1..SectorSize
    /\ "LP" \in Settings /\ Settings = DOMAIN Factory
    /\ \A l \in Loads : DOMAIN l = Channels /\ \A c \in Channels : l[c] \subseteq Seq(Commands)
    /\ MaxImages \in Nat \ {0} /\ MaxConns \in Nat /\ MaxCrashes \in Nat
ASSUME AppAssumption == AppConstants

VARIABLES
    nv,           \* the configuration sector
    cert,         \* the certificate sector: "none", "whole"
    bank,         \* bank 1: its units, <<image, position>>
    main,         \* the image in bank 0, 0 for none
    ram,          \* dev_config
    opmode,       \* "GW" or "AT"
    at,           \* where each task is
    then,         \* where its save goes on
    todo,         \* strtok's place in the request buffer: the commands after it
    ret,          \* segcp_ret of each task, as a set of flags
    update,       \* the locals and statics of device_bank_update
    sock, conns,  \* SOCK_FWUPDATE, and the connections it has had
    armed,        \* reset_timer runs
    reset,        \* the watchdog has been started to reset the device
    image, size,  \* the image the tool sends, and the size of each
    load,         \* the load of this behaviour
    crashes

flash == <<nv, cert, bank, main>>
task  == <<at, then, todo, ret, opmode>>
tool  == <<image, size, load>>
appVars  == <<flash, ram, task, update, sock, conns, armed, reset, tool, crashes>>

Images == 1..MaxImages
Blank  == <<0, 0>>
Flags  == {"ERR", "SAVE", "FACTORY", "ERASE", "SWITCH", "FWUP", "REBOOT"}

\* copy and size are fwup_copy_flag and fwup_size; ca is rootca_len.
Erased == [ok |-> FALSE, set |-> Factory, copy |-> 255, size |-> 0, ca |-> "none"]
set_DevConfig_to_factory_value(c) == [c EXCEPT !.ok = TRUE, !.set = Factory, !.ca = "none"]

\* The second page of the sector, where firmware_update and ssl_option are.
FirstPage(c) == [c EXCEPT !.copy = 255, !.size = 0, !.ca = "none"]

NoUpdate == [f_addr |-> 0, buf |-> <<>>, write_fw_len |-> 0, recv_fwsize |-> 0]

Smaller(a, b) == IF a < b THEN a ELSE b

\* Bank 1 begins with the whole image g.
Holds(g) == size[g] > 0 /\ \A p \in 1..size[g] : bank[p] = <<g, p>>

-----------------------------------------------------------------------------
AppInit ==
    /\ nv = [set_DevConfig_to_factory_value(Erased) EXCEPT !.copy = 0]
    /\ cert = "none" /\ bank = [p \in Sizes |-> Blank] /\ main = 1
    /\ ram = Erased /\ opmode = "GW"
    /\ at = [c \in Channels |-> "off"] /\ then = [c \in Channels |-> "off"]
    /\ todo = <<>> /\ ret = [c \in Channels |-> {}]
    /\ update = NoUpdate /\ sock = "CLOSED" /\ conns = 0
    /\ armed = FALSE /\ reset = FALSE
    /\ image = 1 /\ size = [g \in Images |-> 0]
    /\ load \in Loads /\ crashes = 0

\* A reset: all that is in RAM is lost.
Restart ==
    /\ ram' = Erased /\ opmode' = "GW"
    /\ at' = [c \in Channels |-> "off"] /\ then' = [c \in Channels |-> "off"]
    /\ todo' = <<>> /\ ret' = [c \in Channels |-> {}]
    /\ update' = NoUpdate /\ sock' = "CLOSED" /\ conns' = 0
    /\ armed' = FALSE /\ reset' = FALSE

Off == \A c \in Channels : at[c] = "off"

\* flash_safe_execute: while a task writes, no other task and no timer runs.
Writing(c) == at[c] \in {"erase", "program", "second page", "bank program", "cert write"}
Free == \A c \in Channels : ~Writing(c)

Goes(c, place) == at' = [at EXCEPT ![c] = place]

-----------------------------------------------------------------------------
(* The start.  The bootloader copies bank 1 if the stored flag says so;     *)
(* the application rejects a sector that is not its own, stores factory     *)
(* values and resets.                                                       *)

BankCopied == IF \E g \in Images : size[g] = nv.size /\ Holds(g)
              THEN CHOOSE g \in Images : size[g] = nv.size /\ Holds(g) ELSE 0

BankCopy ==
    /\ Off /\ ~reset /\ nv.copy = 1
    /\ main' = BankCopied /\ nv' = [nv EXCEPT !.copy = 0]
    /\ UNCHANGED <<cert, bank, ram, task, update, sock, conns, armed, reset, tool,
                   crashes>>

load_DevConfig_from_storage ==
    /\ Off /\ ~reset /\ nv.copy # 1 /\ main # 0
    /\ IF nv.ok
       THEN /\ ram' = nv /\ at' = [c \in Channels |-> "wait"]
            /\ UNCHANGED then
       ELSE /\ ram' = set_DevConfig_to_factory_value(nv)
            /\ at' = [at EXCEPT !["serial"] = "erase"]       \* the start task
            /\ then' = [then EXCEPT !["serial"] = "dead"]
    /\ UNCHANGED <<flash, opmode, todo, ret, update, sock, conns, armed, reset, tool,
                   crashes>>

-----------------------------------------------------------------------------
(* save_DevConfig_to_storage: write_flash reads the sector, erases it and   *)
(* programs its pages.                                                      *)

save_DevConfig_to_storage(c, next) ==
    /\ Goes(c, "erase") /\ then' = [then EXCEPT ![c] = next]

EraseSector(c) ==
    /\ at[c] = "erase" /\ nv' = Erased /\ Goes(c, "program")
    /\ UNCHANGED <<cert, bank, main, ram, opmode, then, todo, ret, update, sock, conns,
                   armed, reset, tool, crashes>>

ProgramFirst(c) ==
    /\ at[c] = "program" /\ nv' = FirstPage(ram) /\ Goes(c, "second page")
    /\ UNCHANGED <<cert, bank, main, ram, opmode, then, todo, ret, update, sock, conns,
                   armed, reset, tool, crashes>>

\* The program ends with the comparison; a start that rejected its sector resets.
ProgramSecond(c) ==
    /\ at[c] = "second page" /\ nv' = ram /\ Goes(c, then[c])
    /\ then' = [then EXCEPT ![c] = "off"]
    /\ reset' = (reset \/ then[c] = "dead")
    /\ UNCHANGED <<cert, bank, main, ram, opmode, todo, ret, update, sock, conns,
                   armed, tool, crashes>>

-----------------------------------------------------------------------------
(* A request arrives.  strtok restarts in the shared buffer, whatever task  *)
(* was still at work in it.  A tool starts one update at a time.            *)

UpdateUnderWay ==
    \/ reset
    \/ \E i \in 1..Len(todo) : todo[i].cmd = "FW"
    \/ \E c \in Channels : "FWUP" \in ret[c]

Brings(q, sizes) == \E i \in 1..Len(q) : q[i].cmd = "FW" /\ q[i].arg \in sizes

TakeRequest(c, q) ==
    /\ at[c] = "wait" /\ Free
    /\ c = "serial" => opmode = "AT"
    /\ Brings(q, {0, TooBig} \cup Sizes) => ~UpdateUnderWay
    /\ Brings(q, Sizes) => image < MaxImages
    /\ todo' = q /\ Goes(c, "command")
    /\ UNCHANGED <<flash, ram, opmode, then, ret, update, sock, conns, armed, reset,
                   tool, crashes>>

\* A request for another device, or with another password, is read into the
\* buffer all the same: what another task had still to read of its own is gone.
TakeForeign(c) ==
    /\ c # "serial" /\ at[c] = "wait" /\ Free /\ todo # <<>>
    /\ todo' \in {<<>>, <<Asks("unknown")>>}
    /\ UNCHANGED <<flash, ram, opmode, at, then, ret, update, sock, conns, armed, reset,
                   tool, crashes>>

-----------------------------------------------------------------------------
(* proc_SEGCP: one command.                                                 *)

\* In AT mode an error ends the request, and flushes the serial buffer.
Ends(c) == todo' = <<>> \/ (opmode = "AT" /\ "ERR" \in ret'[c])
Proceeds(c) == Goes(c, IF Ends(c) THEN "handle" ELSE "command") /\ UNCHANGED then

Raises(c, flags) == ret' = [ret EXCEPT ![c] = @ \cup flags]

Setting(c, d) ==
    /\ ~d.asks /\ d.cmd \in SettingCommands
    /\ \E v \in Outcomes(d.cmd, d.arg, FALSE) :
         /\ ram' = IF v # Refused /\ d.cmd \in Settings
                   THEN [ram EXCEPT !.set[d.cmd] = v] ELSE ram
         /\ Raises(c, IF v = Refused THEN {"ERR"} ELSE {})
    /\ Proceeds(c)
    /\ UNCHANGED tool

Query(c, d) ==
    /\ d.asks /\ Raises(c, Asked(d.cmd, ram.set["LP"]))
    /\ Proceeds(c)
    /\ UNCHANGED <<ram, tool>>

\* UF: the copy flag itself, if the bank does not begin with erased flash.
device_bank_check(n) == IF n = 0 THEN main # 0 ELSE bank[1] # Blank

CopyFlag(c, d) ==
    /\ d.cmd = "UF" /\ ~d.asks /\ Raises(c, {}) /\ Proceeds(c)
    /\ ram' = IF device_bank_check(d.arg) THEN [ram EXCEPT !.copy = d.arg] ELSE ram
    /\ UNCHANGED tool

Firmware(c, d) ==
    /\ d.cmd = "FW" /\ ~d.asks
    /\ ram' = [ram EXCEPT !.size = IF d.arg = TooBig THEN 0 ELSE d.arg]
    /\ Raises(c, IF d.arg = TooBig THEN {"ERR"} ELSE {"FWUP"}) /\ Proceeds(c)
    /\ image' = IF d.arg \in Sizes THEN image + 1 ELSE image
    /\ size' = IF d.arg \in Sizes THEN [size EXCEPT ![image + 1] = d.arg] ELSE size
    /\ UNCHANGED load

\* OC, and LC and PK likewise: the length is set before the text is checked, the
\* configuration is saved before the certificate is, and the request ends there;
\* but a text without an end is only refused.
Certificate(c, d) ==
    /\ d.cmd = "OC"
    /\ IF "ERR" \in ret[c]
       THEN Goes(c, "handle") /\ UNCHANGED <<ram, ret, then>>
       ELSE /\ Raises(c, IF d.arg = "whole" THEN {} ELSE {"ERR"})
            /\ ram' = IF d.arg = "cut" THEN ram ELSE [ram EXCEPT !.ca = d.arg]
            /\ CASE d.arg = "cut"   -> Proceeds(c)
                 [] d.arg = "bad"   -> Goes(c, "handle") /\ UNCHANGED then
                 [] d.arg = "whole" -> save_DevConfig_to_storage(c, "cert erase")
    /\ UNCHANGED tool

Command(c) ==
    /\ at[c] = "command" /\ Free
    /\ IF todo = <<>>
       THEN Goes(c, "handle") /\ UNCHANGED <<ram, then, todo, ret, tool>>
       ELSE /\ todo' = Tail(todo)
            /\ LET d == Head(todo) IN
                 Setting(c, d) \/ Query(c, d) \/ CopyFlag(c, d) \/ Firmware(c, d)
                 \/ Certificate(c, d)
    /\ UNCHANGED <<flash, opmode, update, sock, conns, armed, reset, crashes>>

EraseCertificate(c) ==
    /\ at[c] = "cert erase" /\ Free
    /\ cert' = "none" /\ Goes(c, "cert write")
    /\ UNCHANGED <<nv, bank, main, ram, opmode, then, todo, ret, update, sock, conns,
                   armed, reset, tool, crashes>>

WriteCertificate(c) ==
    /\ at[c] = "cert write"
    /\ cert' = "whole" /\ Goes(c, "handle")
    /\ UNCHANGED <<nv, bank, main, ram, opmode, then, todo, ret, update, sock, conns,
                   armed, reset, tool, crashes>>

-----------------------------------------------------------------------------
(* segcp_ret_handler, up to the update.                                     *)

Rests(c) == Goes(c, "wait") /\ ret' = [ret EXCEPT ![c] = {}]

Switched(c) == IF "SWITCH" \notin ret[c] THEN opmode
               ELSE IF opmode = "GW" THEN "AT" ELSE "GW"

segcp_ret_handler(c) ==
    /\ at[c] = "handle" /\ Free
    /\ IF ret[c] = {} \/ "ERR" \in ret[c]
       THEN Rests(c) /\ UNCHANGED <<nv, ram, opmode, then>>
       ELSE /\ opmode' = Switched(c) /\ UNCHANGED ret
            /\ ram' = IF "FACTORY" \in ret[c] THEN set_DevConfig_to_factory_value(ram)
                      ELSE ram
            /\ IF ret[c] \cap {"FACTORY", "SAVE"} # {}
               THEN save_DevConfig_to_storage(c, "fw") /\ UNCHANGED nv
               ELSE /\ nv' = IF "ERASE" \in ret[c] THEN Erased ELSE nv
                    /\ Goes(c, "fw") /\ UNCHANGED then
    /\ UNCHANGED <<cert, bank, main, todo, update, sock, conns, armed, reset, tool,
                   crashes>>

\* The update goes on alone; with any other flag, or without a size, it fails.
\* Mutant: reset_timer is not started.
BeginUpdate_NoTimer(c) ==
    /\ at[c] = "fw" /\ Free
    /\ "FWUP" \in ret[c]
    /\ IF ret[c] = {"FWUP"} /\ ram.size \in Sizes
       THEN /\ update' = [update EXCEPT !.write_fw_len = 0, !.f_addr = 0, !.buf = <<>>]
            /\ Goes(c, "update") /\ UNCHANGED ram
       ELSE /\ ram' = [ram EXCEPT !.size = 0] /\ Goes(c, "reboot")
            /\ UNCHANGED update
    /\ sock' = "CLOSED" /\ conns' = 0
    /\ UNCHANGED <<flash, opmode, then, todo, ret, armed, reset, tool, crashes>>

BeginUpdate(c) ==
    /\ at[c] = "fw" /\ Free
    /\ "FWUP" \in ret[c]
    /\ IF ret[c] = {"FWUP"} /\ ram.size \in Sizes
       THEN /\ update' = [update EXCEPT !.write_fw_len = 0, !.f_addr = 0, !.buf = <<>>]
            /\ armed' = TRUE
            /\ Goes(c, "update") /\ UNCHANGED ram
       ELSE /\ ram' = [ram EXCEPT !.size = 0] /\ Goes(c, "reboot")
            /\ UNCHANGED <<update, armed>>
    /\ sock' = "CLOSED" /\ conns' = 0
    /\ UNCHANGED <<flash, opmode, then, todo, ret, reset, tool, crashes>>

\* device_reboot: the watchdog resets within ten milliseconds; the other tasks
\* run on.
EndRequest(c) ==
    /\ \/ at[c] = "fw" /\ "FWUP" \notin ret[c]
       \/ at[c] = "reboot"
    /\ Free
    /\ IF "REBOOT" \in ret[c]
       THEN Goes(c, "dead") /\ reset' = TRUE /\ UNCHANGED ret
       ELSE Rests(c) /\ UNCHANGED reset
    /\ UNCHANGED <<flash, ram, opmode, then, todo, update, sock, conns, armed, tool,
                   crashes>>

-----------------------------------------------------------------------------
(* device_bank_update and get_firmware_from_network.  An action without a   *)
(* guard on a task is the surroundings'.                                    *)

Receiving(c) == at[c] = "update" /\ Free

OpenListener(c) ==
    /\ Receiving(c) /\ sock = "CLOSED"
    /\ sock' = "LISTEN" /\ update' = [update EXCEPT !.recv_fwsize = 0]
    /\ UNCHANGED <<flash, ram, task, conns, armed, reset, tool, crashes>>

CloseWait(c) ==
    /\ Receiving(c) /\ sock = "CLOSE_WAIT" /\ sock' = "CLOSED"
    /\ UNCHANGED <<flash, ram, task, update, conns, armed, reset, tool, crashes>>

\* What the tool sends next on this connection: always from the first byte on.
Chunk(n) == [i \in 1..n |-> <<image, update.recv_fwsize + i>>]

\* The task goes to write the first sector of the buffer, or takes the next turn.
After(c, all, wlen) ==
    Goes(c, IF Len(all) >= SectorSize THEN "bank erase"
            ELSE IF wlen < ram.size THEN "update" ELSE "received")

ReceiveChunk(c, k) ==
    LET len  == Smaller(k, ram.size - update.recv_fwsize)
        all  == update.buf \o Chunk(len)
        wlen == update.write_fw_len + len
        recv == update.recv_fwsize + len
    IN  /\ Receiving(c) /\ sock = "ESTABLISHED" /\ len > 0
        /\ update' = [update EXCEPT !.buf = all, !.write_fw_len = wlen,
                                    !.recv_fwsize = recv]
        /\ sock' = IF recv >= ram.size THEN "CLOSED" ELSE sock
        /\ armed' = TRUE                              \* xTimerReset
        /\ After(c, all, wlen)
        /\ UNCHANGED <<flash, ram, opmode, then, todo, ret, conns, reset, tool, crashes>>

\* write_flash on the sector at f_addr.
Sector(n) == (n * SectorSize + 1)..((n + 1) * SectorSize)

EraseBank(c) ==
    /\ at[c] = "bank erase" /\ Free
    /\ bank' = [p \in Sizes |-> IF p \in Sector(update.f_addr) THEN Blank ELSE bank[p]]
    /\ Goes(c, "bank program")
    /\ UNCHANGED <<nv, cert, main, ram, opmode, then, todo, ret, update, sock, conns,
                   armed, reset, tool, crashes>>

ProgramBank(c) ==
    LET q    == update.buf
        base == update.f_addr * SectorSize
        rest == SubSeq(q, SectorSize + 1, Len(q))
    IN  /\ at[c] = "bank program"
        /\ bank' = [p \in Sizes |-> IF p \in (base + 1)..(base + Smaller(SectorSize, Len(q)))
                                    THEN q[p - base] ELSE bank[p]]
        /\ update' = [update EXCEPT !.buf = rest, !.f_addr = @ + 1]
        /\ Goes(c, IF update.write_fw_len < ram.size THEN "update" ELSE "received")
        /\ UNCHANGED <<nv, cert, main, ram, opmode, then, todo, ret, sock, conns, armed,
                       reset, tool, crashes>>

\* The loop is left: the rest of the buffer is written, then success is saved and
\* the device reboots; a wrong count fails.
\* Mutant: the rest of the buffer is never written.
Received_DropsRest(c) ==
    /\ at[c] = "received" /\ Free
    /\ armed' = FALSE
    /\ IF update.write_fw_len = ram.size
       THEN /\ ram' = [ram EXCEPT !.copy = 1]
            /\ save_DevConfig_to_storage(c, "dead")
            /\ UNCHANGED sock
       ELSE /\ ram' = [ram EXCEPT !.size = 0] /\ sock' = "CLOSED"
            /\ Goes(c, "reboot") /\ UNCHANGED then
    /\ UNCHANGED <<flash, opmode, todo, ret, update, conns, reset, tool, crashes>>

Received(c) ==
    /\ at[c] = "received" /\ Free
    /\ IF update.write_fw_len # ram.size
       THEN /\ ram' = [ram EXCEPT !.size = 0] /\ sock' = "CLOSED" /\ armed' = FALSE
            /\ Goes(c, "reboot") /\ UNCHANGED then
       ELSE IF update.buf # <<>>
       THEN Goes(c, "bank erase") /\ UNCHANGED <<ram, then, sock, armed>>
       ELSE /\ ram' = [ram EXCEPT !.copy = 1] /\ armed' = FALSE
            /\ save_DevConfig_to_storage(c, "dead") /\ UNCHANGED sock
    /\ UNCHANGED <<flash, opmode, todo, ret, update, conns, reset, tool, crashes>>

-----------------------------------------------------------------------------
(* The tool of the update, the timer, the watchdog and the power supply.    *)

ToolConnects ==
    /\ sock = "LISTEN" /\ conns < MaxConns
    /\ sock' = "ESTABLISHED" /\ conns' = conns + 1
    /\ UNCHANGED <<flash, ram, task, update, armed, reset, tool, crashes>>

ToolCloses ==
    /\ sock = "ESTABLISHED" /\ sock' = "CLOSE_WAIT"
    /\ UNCHANGED <<flash, ram, task, update, conns, armed, reset, tool, crashes>>

\* reset_timer_callback: five seconds without data.
ResetTimer ==
    /\ armed /\ Free
    /\ armed' = FALSE /\ reset' = TRUE
    /\ UNCHANGED <<flash, ram, task, update, sock, conns, tool, crashes>>

WatchdogReset ==
    /\ reset /\ Restart
    /\ UNCHANGED <<flash, tool, crashes>>

PowerLoss ==
    /\ crashes < MaxCrashes /\ ~Off
    /\ crashes' = crashes + 1 /\ Restart
    /\ UNCHANGED <<flash, tool>>

-----------------------------------------------------------------------------
Requesting(c) == (\E q \in load[c] : TakeRequest(c, q)) \/ TakeForeign(c)
Saving(c) == EraseSector(c) \/ ProgramFirst(c) \/ ProgramSecond(c)
             \/ EraseCertificate(c) \/ WriteCertificate(c)
Updating(c) ==
    \/ BeginUpdate(c) \/ OpenListener(c) \/ CloseWait(c)
    \/ (\E k \in 1..RecvMax : ReceiveChunk(c, k))
    \/ EraseBank(c) \/ ProgramBank(c) \/ Received(c)
Works(c) == Saving(c) \/ Updating(c) \/ Command(c) \/ segcp_ret_handler(c)
            \/ EndRequest(c)
Start    == BankCopy \/ load_DevConfig_from_storage
Outside  == ToolConnects \/ ToolCloses \/ PowerLoss

AppNext ==
    \/ Start \/ ResetTimer \/ WatchdogReset \/ Outside
    \/ \E c \in Channels : Works(c) \/ Requesting(c)

AppSpec == AppInit /\ [][AppNext]_appVars

\* Tasks, the timer task (of the highest priority, held up by flash writes only)
\* and the watchdog go on.  The tool need not send.
FairAppSpec ==
    /\ AppSpec
    /\ WF_appVars(Start) /\ SF_appVars(ResetTimer) /\ WF_appVars(WatchdogReset)
    /\ \A c \in Channels : WF_appVars(Works(c))

-----------------------------------------------------------------------------
Places == {"off", "wait", "command", "handle", "fw", "reboot", "dead", "update",
           "received", "bank erase", "bank program", "cert erase", "cert write",
           "erase", "program", "second page"}
StoredAs(c) == [ok : BOOLEAN, set : {c.set}, copy : {0, 1, 255},
                size : {0} \cup Sizes, ca : {"none", "whole", "bad"}]

\* Every variable has a value of its kind.
AppTypeOK ==
    /\ nv \in StoredAs(nv) /\ ram \in StoredAs(ram)
    /\ DOMAIN nv.set = Settings /\ DOMAIN ram.set = Settings
    /\ cert \in {"none", "whole"} /\ main \in 0..MaxImages
    /\ bank \in [Sizes -> {Blank} \cup (Images \X Sizes)]
    /\ at \in [Channels -> Places] /\ then \in [Channels -> Places]
    /\ ret \in [Channels -> SUBSET Flags] /\ opmode \in {"GW", "AT"}
    /\ todo \in Seq(Commands)
    /\ update \in [f_addr : Nat, buf : Seq({Blank} \cup (Images \X Sizes)),
                   write_fw_len : Nat, recv_fwsize : Nat]
    /\ sock \in {"CLOSED", "LISTEN", "ESTABLISHED", "CLOSE_WAIT"} /\ conns \in 0..MaxConns
    /\ image \in Images /\ size \in [Images -> {0} \cup Sizes]
    /\ load \in Loads /\ crashes \in 0..MaxCrashes
    /\ armed \in BOOLEAN /\ reset \in BOOLEAN

\* A stored copy flag is only seen with a whole image of the stored size in bank
\* 1, whatever the other channels save, reset or switch during the update, and
\* wherever the power is lost: the bootloader erases bank 0 for it
\* (deviceHandler.c:109-187, segcp.c:124-190).
CopyDueIsWhole == nv.copy = 1 => BankCopied # 0

\* An update that has begun comes to an end, whether or not the tool goes on
\* sending: reset_timer restarts the device five seconds after the last data
\* (deviceHandler.c:70-74, 137, 149).
UpdateEnds == \A c \in Channels : at[c] = "update" ~> at[c] # "update"

\* Without a power loss, a stored certificate length has its certificate.
CertificateStored ==
    (\A c \in Channels : at[c] \in {"wait", "off"}) /\ crashes = 0 /\ nv.ca # "none"
        => cert = "whole"

\* A stored baud rate is one that baud_table has.
RateInTable == nv.set["BR"] \in Rates
=============================================================================
