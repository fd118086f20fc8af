---------------------------- MODULE DeviceConfig ----------------------------
(***************************************************************************)
(* The stored configuration: the bootloader's configuration mode with the  *)
(* commands of a configuration tool (do_segcp), the save into the sector,  *)
(* the factory reset button, and the start of either program from what the *)
(* sector holds, with the power lost at any step.                          *)
(*                                                                         *)
(* The bootloader is one thread; the button's reset runs in its timer      *)
(* interrupt, which does not return.  A save is three steps: the erase and *)
(* the program of the two pages the modelled fields are in.  Of dev_config *)
(* there remain: which program's size it has (by, packet_size), an address *)
(* that stands for every parameter of the first page that a tool sets,     *)
(* and the ones that steer the program.                                    *)
(***************************************************************************)
EXTENDS Integers, Sequences

CONSTANTS
    Addresses,      \* addresses a tool may set
    Passwords,      \* search passwords, NoPassword among them
    Messages,       \* what tools send to each socket: [ours, pw, cmds]
    PinAnyTime,     \* the boot pin may be held while a firmware copy is due
    MaxCrashes      \* bound: power losses

Sockets    == {"UDP", "TCP"}
NoPassword == ""
FactoryAddress == "factory"
Leased         == "leased"         \* whatever DHCP gives

Commands ==
    [cmd : {"read", "refused", "SV", "RT", "FR", "EX"}, arg : {""}]
    \cup [cmd : {"LI"}, arg : Addresses]
    \cup [cmd : {"IM", "LP"}, arg : BOOLEAN]     \* DHCP on; local port 1
    \cup [cmd : {"SP"}, arg : Passwords]
    \cup [cmd : {"FW"}, arg : {"none", "fits", "too big"}]

ASSUME ConfigAssumption ==
    /\ NoPassword \in Passwords
    /\ \A s \in Sockets : \A m \in Messages[s] :
           m \in [ours : BOOLEAN, pw : Passwords, cmds : Seq(Commands)]
    /\ PinAnyTime \in BOOLEAN /\ MaxCrashes \in Nat

VARIABLES
    nv,        \* the configuration sector
    ram,       \* dev_config
    pc, then,  \* where the device is, and where a save goes on
    before,    \* history: the sector when the save under way began, else Erased
    sock,      \* state of the two sockets
    todo,      \* commands of the message still to be done
    back,      \* where proc_SEGCP returns to
    ret,       \* segcp_ret, as a set of flags
    opmode,
    dhcp,      \* DHCP in configuration mode: off, asking, leased
    crashes

vars == <<nv, ram, pc, then, before, sock, todo, back, ret, opmode,
          dhcp, crashes>>
protocol == <<sock, todo, back, ret, opmode, dhcp>>

Flags   == {"ERR", "SAVE", "FACTORY", "ERASE", "SWITCH", "FWUP", "REBOOT"}

\* copy and sized are fwup_copy_flag and whether fwup_size is a possible size.
Config == [by : {"none", "boot", "app"},
           addr : Addresses \cup {FactoryAddress, Leased},
           use_dhcp : BOOLEAN, port1 : BOOLEAN, pw : Passwords,
           copy : {0, 1, 255}, sized : BOOLEAN]

\* An erased sector: packet_size reads 0xFFFF and is taken for no configuration.
Erased == [by |-> "none", addr |-> FactoryAddress, use_dhcp |-> TRUE,
           port1 |-> FALSE, pw |-> NoPassword, copy |-> 255, sized |-> FALSE]
\* The second page, where firmware_update is, still erased.
FirstPage(c) == [c EXCEPT !.copy = 255, !.sized = FALSE]

set_DevConfig_to_factory_value(c, prog) ==
    [c EXCEPT !.by = prog, !.addr = FactoryAddress, !.use_dhcp = FALSE,
              !.port1 = FALSE, !.pw = NoPassword]

-----------------------------------------------------------------------------
Init ==
    /\ nv \in {Erased} \cup
              {set_DevConfig_to_factory_value([Erased EXCEPT !.copy = 0], p) :
                   p \in {"boot", "app"}}
    /\ ram = Erased /\ before = Erased /\ crashes = 0
    /\ pc = "boot" /\ then = "boot" /\ back = "tcp"
    /\ sock = [s \in Sockets |-> "CLOSED"]
    /\ todo = <<>> /\ ret = {} /\ opmode = "GW" /\ dhcp = "off"

\* A reset: all that is in RAM is lost, and the sockets with it.
Restart ==
    /\ pc' = "boot" /\ then' = "boot" /\ back' = "tcp"
    /\ ram' = Erased /\ before' = Erased
    /\ sock' = [s \in Sockets |-> "CLOSED"]
    /\ todo' = <<>> /\ ret' = {} /\ opmode' = "GW" /\ dhcp' = "off"

-----------------------------------------------------------------------------
(* save_DevConfig_to_storage.  before is kept when the button interrupts a *)
(* save.                                                                   *)

Writing == pc \in {"erase", "program", "second page"}

save_DevConfig_to_storage(next) ==
    /\ pc' = "erase" /\ then' = next
    /\ before' = IF Writing THEN before ELSE nv

EraseSector ==
    /\ pc = "erase" /\ nv' = Erased /\ pc' = "program"
    /\ UNCHANGED <<ram, then, before, protocol, crashes>>

\* Mutant: a sector of one page.
ProgramFirst_Only ==
    /\ pc = "program" /\ nv' = FirstPage(ram) /\ pc' = then
    /\ then' = "boot" /\ before' = Erased
    /\ UNCHANGED <<ram, protocol, crashes>>

ProgramFirst ==
    /\ pc = "program" /\ nv' = FirstPage(ram) /\ pc' = "second page"
    /\ UNCHANGED <<ram, then, before, protocol, crashes>>

ProgramSecond ==
    /\ pc = "second page" /\ nv' = ram /\ pc' = then
    /\ then' = "boot" /\ before' = Erased
    /\ UNCHANGED <<ram, protocol, crashes>>

-----------------------------------------------------------------------------
(* The start of the bootloader and of the application.                     *)

load_boot_DevConfig_from_storage ==
    IF nv.by = "none" THEN set_DevConfig_to_factory_value(nv, "boot") ELSE nv

\* held: the boot pin, or no firmware in either bank.
Boot ==
    /\ pc = "boot"
    /\ ram' = load_boot_DevConfig_from_storage
    /\ \E held \in BOOLEAN :
         /\ held => PinAnyTime \/ nv.copy # 1
         /\ IF held THEN /\ pc' = "udp"
                         /\ dhcp' = IF ram'.use_dhcp THEN "asking" ELSE "off"
            ELSE /\ pc' = IF ram'.copy = 1 THEN "copy" ELSE "jump"
                 /\ UNCHANGED dhcp
    /\ UNCHANGED <<nv, then, before, sock, todo, back, ret, opmode, crashes>>

\* Mutant: the flag is not cleared.
BankCopy_Forgets ==
    /\ pc = "copy" /\ Restart /\ UNCHANGED <<nv, crashes>>

\* A copy without a size fails after bank 0 has been erased, and reboots.
BankCopy ==
    /\ pc = "copy"
    /\ IF ram.sized
       THEN /\ ram' = [ram EXCEPT !.copy = 0]
            /\ save_DevConfig_to_storage("jump")
            /\ UNCHANGED protocol
       ELSE Restart
    /\ UNCHANGED <<nv, crashes>>

jump_to_app ==
    /\ pc = "jump" /\ pc' = "application" /\ ram' = Erased
    /\ UNCHANGED <<nv, then, before, protocol, crashes>>

\* Mutant: the settings that replace rejected ones are not saved.
load_DevConfig_from_storage_NoSave ==
    /\ pc = "application" /\ pc' = "runtime"
    /\ ram' = IF nv.by = "app" THEN nv ELSE set_DevConfig_to_factory_value(nv, "app")
    /\ UNCHANGED <<nv, then, before, protocol, crashes>>

\* packet_size must be the application's: it rejects the bootloader's.
load_DevConfig_from_storage ==
    /\ pc = "application"
    /\ IF nv.by = "app"
       THEN ram' = nv /\ pc' = "runtime" /\ UNCHANGED <<then, before>>
       ELSE /\ ram' = set_DevConfig_to_factory_value(nv, "app")
            /\ save_DevConfig_to_storage("reset")
    /\ UNCHANGED <<nv, protocol, crashes>>

set_minimal_runtime_config ==
    /\ pc = "runtime" /\ ram' = [ram EXCEPT !.use_dhcp = TRUE] /\ pc' = "running"
    /\ UNCHANGED <<nv, then, before, protocol, crashes>>

device_reboot ==
    /\ pc \in {"updated", "reset"}
    /\ Restart /\ UNCHANGED <<nv, crashes>>

-----------------------------------------------------------------------------
(* do_segcp: one message from each socket, then the handler.  The serial   *)
(* line brings no command: the bootloader never starts its UART interrupt. *)

\* MA with this device's address, or with all ones, then PW.
Accepted(m) == m.ours /\ m.pw = ram.pw

\* The place after the message of a socket.
After(s) == IF s = "UDP" THEN "tcp" ELSE "handle"

TakeMessage(s, m) ==
    /\ sock[s] \in {"UDP", "ESTABLISHED"}
    /\ todo' = IF Accepted(m) THEN m.cmds ELSE <<>>
    /\ back' = After(s)
    /\ pc' = IF todo' = <<>> THEN After(s) ELSE "command"
    /\ UNCHANGED sock

proc_SEGCP_udp ==
    /\ pc = "udp"
    /\ \/ \E m \in Messages["UDP"] : TakeMessage("UDP", m)
       \/ /\ sock' = [sock EXCEPT !["UDP"] = "UDP"]
          /\ pc' = "tcp" /\ UNCHANGED <<todo, back>>
    /\ UNCHANGED <<nv, ram, then, before, ret, opmode, dhcp, crashes>>

\* A closed connection is replaced by a listening socket.
proc_SEGCP_tcp ==
    /\ pc = "tcp"
    /\ \/ \E m \in Messages["TCP"] : TakeMessage("TCP", m)
       \/ /\ sock' = [sock EXCEPT !["TCP"] =
                        IF @ \in {"CLOSED", "CLOSE_WAIT"} THEN "LISTEN" ELSE @]
          /\ pc' = "handle" /\ UNCHANGED <<todo, back>>
    /\ UNCHANGED <<nv, ram, then, before, ret, opmode, dhcp, crashes>>

\* What a command with a parameter does to dev_config: the network's ones, ...
SetNetwork(c) == CASE c.cmd = "LI" -> [ram EXCEPT !.addr = c.arg]
                   [] c.cmd = "IM" -> [ram EXCEPT !.use_dhcp = c.arg]
                   [] c.cmd = "LP" -> [ram EXCEPT !.port1 = c.arg]
                   [] OTHER -> ram
\* ... the search password, ...
SetPassword(c) == [ram EXCEPT !.pw = c.arg]
\* ... and the size of an image, 0 when it does not fit.
SetFirmware(c) == [ram EXCEPT !.sized = c.arg = "fits"]

Set(c) == CASE c.cmd = "FW" -> SetFirmware(c)
            [] c.cmd = "SP" -> SetPassword(c)
            [] OTHER -> SetNetwork(c)

\* A parameter asked for is only answered.
Answered(c) == c.cmd = "read"

\* What a command without a parameter adds to segcp_ret, ...
RaisedByGet(c) == CASE c.cmd = "SV" -> {"SAVE"}
                    [] c.cmd = "EX" -> {"SWITCH"}
                    [] c.cmd = "RT" -> {"REBOOT"}
                    [] c.cmd = "FR" -> {"REBOOT", IF ram.port1 THEN "ERASE" ELSE "FACTORY"}
                    [] OTHER -> {"ERR"}
\* ... and one with a parameter.
RaisedBySet(c) == IF c.cmd = "FW" THEN {IF c.arg = "too big" THEN "ERR" ELSE "FWUP"} ELSE {}

Raised(c) == CASE Answered(c) -> {}
               [] c.cmd \in {"refused", "SV", "EX", "RT", "FR"} -> RaisedByGet(c)
               [] OTHER -> RaisedBySet(c)

\* In AT mode the first error ends the message.
proc_SEGCP ==
    /\ pc = "command"
    /\ LET c == Head(todo) IN
         /\ ram' = Set(c)
         /\ ret' = ret \cup Raised(c)
         /\ todo' = IF opmode = "AT" /\ "ERR" \in Raised(c) THEN <<>> ELSE Tail(todo)
    /\ pc' = IF todo' = <<>> THEN back ELSE "command"
    /\ UNCHANGED <<nv, then, before, sock, back, opmode, dhcp, crashes>>

\* segcp_ret_handler: an error in either message cancels everything.
segcp_ret_handler ==
    /\ pc = "handle"
    /\ IF ret = {} \/ "ERR" \in ret
       THEN /\ pc' = "udp" /\ ret' = {}
            /\ UNCHANGED <<nv, ram, then, before, opmode>>
       ELSE /\ UNCHANGED ret
            /\ opmode' = IF "SWITCH" \notin ret THEN opmode
                         ELSE IF opmode = "GW" THEN "AT" ELSE "GW"
            /\ \/ /\ "FACTORY" \in ret
                  /\ ram' = set_DevConfig_to_factory_value(ram, "boot")
                  /\ save_DevConfig_to_storage("update") /\ UNCHANGED nv
               \/ /\ "FACTORY" \notin ret /\ "SAVE" \in ret
                  /\ save_DevConfig_to_storage("update") /\ UNCHANGED <<nv, ram>>
               \/ /\ ret \cap {"FACTORY", "SAVE"} = {}
                  /\ nv' = IF "ERASE" \in ret THEN Erased ELSE nv
                  /\ pc' = "update" /\ UNCHANGED <<ram, then, before>>
    /\ UNCHANGED <<sock, todo, back, dhcp, crashes>>

\* Mutant: the copy is asked for before the update has succeeded.
FirmwareUpdate_Early ==
    /\ pc = "update"
    /\ ram' = IF "FWUP" \in ret THEN [ram EXCEPT !.copy = 1] ELSE ram
    /\ IF ret = {"FWUP"} THEN save_DevConfig_to_storage("updated")
       ELSE pc' = "reboot" /\ UNCHANGED <<then, before>>
    /\ UNCHANGED <<nv, protocol, crashes>>

\* The update itself is external here: it ends with the whole image or not.
FirmwareUpdate ==
    /\ pc = "update"
    /\ \/ /\ "FWUP" \notin ret
          /\ pc' = "reboot" /\ UNCHANGED <<ram, then, before>>
       \/ /\ ret = {"FWUP"} /\ ram.sized
          /\ ram' = [ram EXCEPT !.copy = 1]
          /\ save_DevConfig_to_storage("updated")
       \/ /\ "FWUP" \in ret
          /\ ram' = [ram EXCEPT !.sized = FALSE]
          /\ pc' = "reboot" /\ UNCHANGED <<then, before>>
    /\ UNCHANGED <<nv, protocol, crashes>>

RebootCommand ==
    /\ pc = "reboot"
    /\ IF "REBOOT" \in ret THEN Restart
       ELSE /\ pc' = "udp" /\ ret' = {}
            /\ UNCHANGED <<ram, then, before, sock, todo, back, opmode, dhcp>>
    /\ UNCHANGED <<nv, crashes>>

-----------------------------------------------------------------------------
(* The surroundings.                                                       *)

InConfigMode ==
    \/ pc \in {"udp", "tcp", "command", "handle", "update", "reboot"}
    \/ Writing /\ then \in {"update", "updated"}

Connect ==
    /\ InConfigMode /\ sock["TCP"] = "LISTEN"
    /\ sock' = [sock EXCEPT !["TCP"] = "ESTABLISHED"]
    /\ UNCHANGED <<nv, ram, pc, then, before, todo, back, ret, opmode, dhcp, crashes>>

Disconnect ==
    /\ InConfigMode /\ sock["TCP"] = "ESTABLISHED"
    /\ sock' = [sock EXCEPT !["TCP"] = "CLOSE_WAIT"]
    /\ UNCHANGED <<nv, ram, pc, then, before, todo, back, ret, opmode, dhcp, crashes>>

\* DHCP_run in the loop, or in process_dhcp around it, or in the application.
w5x00_dhcp_assign ==
    /\ \/ pc = "udp" /\ dhcp # "off" /\ dhcp' = "leased"
       \/ pc = "running" /\ UNCHANGED dhcp
    /\ ram' = [ram EXCEPT !.addr = Leased]
    /\ UNCHANGED <<nv, pc, then, before, sock, todo, back, ret, opmode, crashes>>

\* check_phylink_status in the loop, which process_dhcp does not call.
LinkLost ==
    /\ pc = "udp" /\ dhcp # "asking"
    /\ Restart /\ UNCHANGED <<nv, crashes>>

\* The button has been held for five seconds.  The program of a sector masks
\* interrupts.
FactoryButton ==
    /\ InConfigMode /\ pc # "second page"
    /\ ram' = set_DevConfig_to_factory_value(ram, "boot")
    /\ save_DevConfig_to_storage("reset")
    /\ UNCHANGED <<nv, protocol, crashes>>

PowerLoss ==
    /\ crashes < MaxCrashes /\ crashes' = crashes + 1
    /\ Restart /\ UNCHANGED nv

-----------------------------------------------------------------------------
Device ==
    \/ EraseSector \/ ProgramFirst \/ ProgramSecond
    \/ Boot \/ BankCopy \/ jump_to_app \/ device_reboot
    \/ load_DevConfig_from_storage \/ set_minimal_runtime_config
    \/ proc_SEGCP_udp \/ proc_SEGCP_tcp \/ proc_SEGCP
    \/ segcp_ret_handler \/ FirmwareUpdate \/ RebootCommand

Surroundings ==
    \/ Connect \/ Disconnect \/ w5x00_dhcp_assign
    \/ LinkLost \/ FactoryButton \/ PowerLoss

Next == Device \/ Surroundings

Spec     == Init /\ [][Next]_vars
FairSpec == Spec /\ WF_vars(Device)

-----------------------------------------------------------------------------
Places == {"boot", "erase", "program", "second page", "copy", "jump",
           "application", "runtime", "running", "udp", "tcp", "command",
           "handle", "update", "updated", "reboot", "reset"}

\* Every variable has a value of its kind (all of the module's actions).
TypeOK ==
    /\ nv \in Config /\ ram \in Config /\ before \in Config
    /\ pc \in Places /\ then \in {"boot", "jump", "update", "updated", "reset"}
    /\ sock \in [Sockets -> {"CLOSED", "UDP", "LISTEN", "ESTABLISHED", "CLOSE_WAIT"}]
    /\ todo \in Seq(Commands) /\ (pc = "command" => todo # <<>>)
    /\ back \in {"tcp", "handle"} /\ ret \subseteq Flags /\ opmode \in {"GW", "AT"}
    /\ dhcp \in {"off", "asking", "leased"} /\ crashes \in 0..MaxCrashes

\* When the handler goes on to the update or the reboot, and when a reset
\* follows a save, the sector holds dev_config: no reset overtakes a save
\* (segcp.c:118-139, timerHandler.c:83-86, ConfigData.c:235-239 of the application).
SavedBeforeGoingOn ==
    \/ pc \in {"updated", "reset"}
    \/ pc = "update" /\ {"FACTORY", "SAVE"} \cap ret # {}
    => nv = ram

\* A sector that asks for a firmware copy has a size to copy, after any
\* sequence of updates, failures, saves, resets and power losses: the copy
\* erases bank 0 before it looks at the size (Boot.c:132-144, segcp.c:126-157).
DueHasSize == nv.copy = 1 => nv.sized

\* The device always comes to the application or to its configuration mode:
\* no start rejects what the start before it has stored, for ever
\* (ConfigData.c:214-238 of the application, ConfigData.c:190-227 of the bootloader).
Starts == []<>(pc \in {"running", "udp"})

View(c) == [by |-> c.by, due |-> c.copy = 1,
            choice |-> <<c.addr, c.use_dhcp, c.port1, c.pw>>]
Readable(c) == IF c.by = "none" THEN set_DevConfig_to_factory_value(c, "boot") ELSE c
Factory == <<FactoryAddress, FALSE, FALSE, NoPassword>>
AllChoices == (Addresses \cup {FactoryAddress, Leased}) \X BOOLEAN \X BOOLEAN \X Passwords
Off == pc \in {"boot", "application"}
Nobody == [by |-> "none", choice |-> Factory, due |-> FALSE]

Store == INSTANCE SettingsStore WITH
    Choices <- AllChoices, Default <- Factory,
    kept   <- View(Readable(IF Writing THEN before ELSE nv)),
    live   <- IF Off THEN Nobody ELSE View(ram),
    saving <- Writing

\* The settings survive as SettingsStore says: a start finds what the last
\* completed save wrote, a power loss outside a save changes nothing, and one
\* inside it leaves the old, the factory's or the new settings without the
\* copy flag (write_flash, save_DevConfig_to_storage and both loads).
StoreSpec == Store!Spec
=============================================================================
