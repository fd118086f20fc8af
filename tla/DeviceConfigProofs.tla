------------------------- MODULE DeviceConfigProofs -------------------------
(***************************************************************************)
(* Proofs about DeviceConfig, for every set of addresses, passwords and    *)
(* messages and any number of power losses.  TypeOK and SavedBeforeGoingOn *)
(* are inductive by themselves; Sized adds what the copy request needs,    *)
(* Sector what the refinement needs.                                       *)
(***************************************************************************)
EXTENDS DeviceConfig, TLAPS

\* The erased sector has the type of a configuration.
LEMMA ErasedType == Erased \in Config
BY ConfigAssumption DEF Erased, Config, FactoryAddress, NoPassword

\* Factory values, and a sector of one page, have it too.
LEMMA FactoryType ==
  ASSUME NEW c \in Config
  PROVE  /\ \A p \in {"boot", "app"} : set_DevConfig_to_factory_value(c, p) \in Config
         /\ FirstPage(c) \in Config
<1>1. ASSUME NEW p \in {"boot", "app"}
      PROVE  set_DevConfig_to_factory_value(c, p) \in Config
  BY ConfigAssumption, ZenonT(60)
  DEF Config, set_DevConfig_to_factory_value, FactoryAddress, NoPassword
<1>2. FirstPage(c) \in Config
  BY ZenonT(60) DEF Config, FirstPage
<1> QED BY <1>1, <1>2

\* What the actions assign to single fields keeps it.
LEMMA FieldType ==
  ASSUME NEW c \in Config
  PROVE  /\ [c EXCEPT !.copy = 0] \in Config
         /\ [c EXCEPT !.copy = 1] \in Config
         /\ [c EXCEPT !.sized = FALSE] \in Config
         /\ [c EXCEPT !.use_dhcp = TRUE] \in Config
         /\ [c EXCEPT !.addr = Leased] \in Config
<1>1. [c EXCEPT !.copy = 0] \in Config
  BY DEF Config
<1>2. [c EXCEPT !.copy = 1] \in Config
  BY DEF Config
<1>3. [c EXCEPT !.sized = FALSE] \in Config
  BY DEF Config
<1>4. [c EXCEPT !.use_dhcp = TRUE] \in Config
  BY DEF Config
<1>5. [c EXCEPT !.addr = Leased] \in Config
  BY DEF Config
<1> QED BY <1>1, <1>2, <1>3, <1>4, <1>5

\* The two loads give a configuration.
LEMMA LoadType ==
  ASSUME nv \in Config
  PROVE  load_boot_DevConfig_from_storage \in Config
BY FactoryType DEF load_boot_DevConfig_from_storage

\* A command keeps the type of dev_config and raises flags of segcp_ret.
LEMMA CommandType ==
  ASSUME ram \in Config, NEW c \in Commands
  PROVE  Set(c) \in Config /\ Raised(c) \subseteq Flags
<1>1. Raised(c) \subseteq Flags
  BY DEF Raised, RaisedByGet, RaisedBySet, Answered, Flags
<1>2. CASE c.cmd = "LI"
  <2>1. c.arg \in Addresses
    BY <1>2 DEF Commands
  <2> QED BY <1>1, <1>2, <2>1 DEF Set, SetNetwork, SetPassword, SetFirmware, Config
<1>3. CASE c.cmd \in {"IM", "LP"}
  <2>1. c.arg \in BOOLEAN
    BY <1>3 DEF Commands
  <2> QED BY <1>1, <1>3, <2>1 DEF Set, SetNetwork, SetPassword, SetFirmware, Config
<1>4. CASE c.cmd = "SP"
  <2>1. c.arg \in Passwords
    BY <1>4 DEF Commands
  <2> QED BY <1>1, <1>4, <2>1 DEF Set, SetNetwork, SetPassword, SetFirmware, Config
<1>5. CASE c.cmd = "FW"
  BY <1>1, <1>5 DEF Set, SetNetwork, SetPassword, SetFirmware, Config
<1>6. CASE c.cmd \notin {"LI", "IM", "LP", "SP", "FW"}
  BY <1>1, <1>6 DEF Set, SetNetwork
<1> QED BY <1>2, <1>3, <1>4, <1>5, <1>6

\* A reset sets every variable it assigns to a value of its type.
LEMMA RestartType ==
  ASSUME Restart, nv' \in Config, crashes' \in 0..MaxCrashes
  PROVE  TypeOK'
BY ErasedType DEF Restart, TypeOK, Places, Sockets

\* So does the beginning of a save.
LEMMA SaveType ==
  ASSUME TypeOK, NEW next \in {"jump", "update", "updated", "reset"},
         save_DevConfig_to_storage(next)
  PROVE  /\ pc' = "erase" /\ pc' \in Places /\ before' \in Config
         /\ then' \in {"boot", "jump", "update", "updated", "reset"}
BY DEF TypeOK, save_DevConfig_to_storage, Places

\* And the reading of a message.
LEMMA MessageType ==
  ASSUME TypeOK, NEW s \in Sockets, NEW m \in Messages[s], TakeMessage(s, m)
  PROVE  /\ todo' \in Seq(Commands) /\ back' \in {"tcp", "handle"}
         /\ pc' \in Places /\ (pc' = "command" => todo' # <<>>)
<1>1. m.cmds \in Seq(Commands)
  BY ConfigAssumption
<1>2. todo' \in Seq(Commands)
  BY <1>1 DEF TakeMessage
<1> QED BY <1>2 DEF TakeMessage, After, Places

-----------------------------------------------------------------------------
\* Every variable has its type at the start.
LEMMA InitType == Init => TypeOK
<1> SUFFICES ASSUME Init PROVE TypeOK
  OBVIOUS
<1>1. nv \in Config
  <2>1. [Erased EXCEPT !.copy = 0] \in Config
    BY ErasedType DEF Config
  <2> QED BY <2>1, ErasedType, FactoryType DEF Init
<1>2. crashes \in 0..MaxCrashes
  BY ConfigAssumption DEF Init
<1> QED BY <1>1, <1>2, ErasedType DEF Init, TypeOK, Places, Sockets, Flags

\* Every step keeps the types.
LEMMA NextType ==
  ASSUME TypeOK, [Next]_vars
  PROVE  TypeOK'
<1> USE DEF protocol
<1>1. CASE EraseSector
  BY <1>1, ErasedType DEF EraseSector, TypeOK, Places
<1>2. CASE ProgramFirst
  BY <1>2, FactoryType DEF ProgramFirst, TypeOK, Places
<1>3. CASE ProgramSecond
  BY <1>3, ErasedType DEF ProgramSecond, TypeOK, Places
<1>4. CASE Boot
  BY <1>4, LoadType DEF Boot, TypeOK, Places
<1>5. CASE BankCopy
  <2>1. CASE ram.sized
    <3>1. [ram EXCEPT !.copy = 0] \in Config
      BY FieldType DEF TypeOK
    <3>2. save_DevConfig_to_storage("jump") /\ UNCHANGED <<nv, protocol, crashes>>
      BY <1>5, <2>1 DEF BankCopy
    <3> QED BY <1>5, <2>1, <3>1, <3>2, SaveType DEF BankCopy, TypeOK
  <2>2. CASE ~ram.sized
    BY <1>5, <2>2, RestartType DEF BankCopy, TypeOK
  <2> QED BY <2>1, <2>2
<1>6. CASE jump_to_app
  BY <1>6, ErasedType DEF jump_to_app, TypeOK, Places
<1>7. CASE device_reboot
  BY <1>7, RestartType DEF device_reboot, TypeOK
<1>8. CASE load_DevConfig_from_storage
  <2>1. CASE nv.by = "app"
    BY <1>8, <2>1 DEF load_DevConfig_from_storage, TypeOK, Places
  <2>2. CASE nv.by # "app"
    <3>1. save_DevConfig_to_storage("reset") /\ UNCHANGED <<nv, protocol, crashes>>
      BY <1>8, <2>2 DEF load_DevConfig_from_storage
    <3>2. ram' \in Config
      BY <1>8, <2>2, FactoryType DEF load_DevConfig_from_storage, TypeOK
    <3> QED BY <3>1, <3>2, SaveType DEF TypeOK
  <2> QED BY <2>1, <2>2
<1>9. CASE set_minimal_runtime_config
  <2>1. [ram EXCEPT !.use_dhcp = TRUE] \in Config
    BY FieldType DEF TypeOK
  <2> QED BY <1>9, <2>1 DEF set_minimal_runtime_config, TypeOK, Places
<1>10. CASE proc_SEGCP_udp
  <2>1. CASE \E m \in Messages["UDP"] : TakeMessage("UDP", m)
    <3>1. PICK m \in Messages["UDP"] : TakeMessage("UDP", m)
      BY <2>1
    <3>2. UNCHANGED sock
      BY <3>1 DEF TakeMessage
    <3> QED BY <1>10, <3>1, <3>2, MessageType DEF proc_SEGCP_udp, TypeOK, Sockets
  <2>2. CASE ~\E m \in Messages["UDP"] : TakeMessage("UDP", m)
    BY <1>10, <2>2 DEF proc_SEGCP_udp, TypeOK, Places
  <2> QED BY <2>1, <2>2
<1>11. CASE proc_SEGCP_tcp
  <2>1. CASE \E m \in Messages["TCP"] : TakeMessage("TCP", m)
    <3>1. PICK m \in Messages["TCP"] : TakeMessage("TCP", m)
      BY <2>1
    <3>2. UNCHANGED sock
      BY <3>1 DEF TakeMessage
    <3> QED BY <1>11, <3>1, <3>2, MessageType DEF proc_SEGCP_tcp, TypeOK, Sockets
  <2>2. CASE ~\E m \in Messages["TCP"] : TakeMessage("TCP", m)
    BY <1>11, <2>2 DEF proc_SEGCP_tcp, TypeOK, Places
  <2> QED BY <2>1, <2>2
<1>12. CASE proc_SEGCP
  <2>1. Head(todo) \in Commands /\ Tail(todo) \in Seq(Commands)
    BY <1>12 DEF proc_SEGCP, TypeOK
  <2>2. Set(Head(todo)) \in Config /\ Raised(Head(todo)) \subseteq Flags
    BY <2>1, CommandType DEF TypeOK
  <2>3. todo' \in Seq(Commands)
    BY <1>12, <2>1 DEF proc_SEGCP
  <2> QED BY <1>12, <2>2, <2>3 DEF proc_SEGCP, TypeOK, Places
<1>13. CASE segcp_ret_handler
  <2>1. opmode' \in {"GW", "AT"} /\ ret' \subseteq Flags
    BY <1>13 DEF segcp_ret_handler, TypeOK
  <2>2. CASE ret = {} \/ "ERR" \in ret
    BY <1>13, <2>1, <2>2 DEF segcp_ret_handler, TypeOK, Places
  <2>3. CASE ~(ret = {} \/ "ERR" \in ret) /\ "FACTORY" \in ret
    <3>1. save_DevConfig_to_storage("update") /\ UNCHANGED <<nv, sock, todo, back, dhcp, crashes>>
      BY <1>13, <2>3 DEF segcp_ret_handler
    <3>2. ram' \in Config
      BY <1>13, <2>3, FactoryType DEF segcp_ret_handler, TypeOK
    <3> QED BY <2>1, <3>1, <3>2, SaveType DEF TypeOK
  <2>4. CASE ~(ret = {} \/ "ERR" \in ret) /\ "FACTORY" \notin ret /\ "SAVE" \in ret
    <3>1. save_DevConfig_to_storage("update")
          /\ UNCHANGED <<nv, ram, sock, todo, back, dhcp, crashes>>
      BY <1>13, <2>4 DEF segcp_ret_handler
    <3> QED BY <2>1, <3>1, SaveType DEF TypeOK
  <2>5. CASE ~(ret = {} \/ "ERR" \in ret) /\ ret \cap {"FACTORY", "SAVE"} = {}
    BY <1>13, <2>1, <2>5, ErasedType DEF segcp_ret_handler, TypeOK, Places
  <2> QED BY <2>2, <2>3, <2>4, <2>5
<1>14. CASE FirmwareUpdate
  <2>1. [ram EXCEPT !.copy = 1] \in Config
    BY FieldType DEF TypeOK
  <2>2. [ram EXCEPT !.sized = FALSE] \in Config
    BY FieldType DEF TypeOK
  <2>3. CASE save_DevConfig_to_storage("updated") /\ ram' = [ram EXCEPT !.copy = 1]
    BY <1>14, <2>1, <2>3, SaveType DEF FirmwareUpdate, TypeOK
  <2>4. CASE ~(save_DevConfig_to_storage("updated") /\ ram' = [ram EXCEPT !.copy = 1])
    BY <1>14, <2>2, <2>4 DEF FirmwareUpdate, TypeOK, Places
  <2> QED BY <2>3, <2>4
<1>15. CASE RebootCommand
  <2>1. CASE "REBOOT" \in ret
    BY <1>15, <2>1, RestartType DEF RebootCommand, TypeOK
  <2>2. CASE "REBOOT" \notin ret
    BY <1>15, <2>2 DEF RebootCommand, TypeOK, Places
  <2> QED BY <2>1, <2>2
<1>16. CASE Connect \/ Disconnect
  BY <1>16 DEF Connect, Disconnect, TypeOK, Sockets
<1>17. CASE w5x00_dhcp_assign
  <2>1. [ram EXCEPT !.addr = Leased] \in Config
    BY FieldType DEF TypeOK
  <2> QED BY <1>17, <2>1 DEF w5x00_dhcp_assign, TypeOK
<1>18. CASE LinkLost
  BY <1>18, RestartType DEF LinkLost, TypeOK
<1>19. CASE FactoryButton
  BY <1>19, FactoryType, SaveType DEF FactoryButton, TypeOK
<1>20. CASE PowerLoss
  <2>1. crashes' \in 0..MaxCrashes
    BY <1>20, ConfigAssumption DEF PowerLoss, TypeOK
  <2> QED BY <1>20, <2>1, RestartType DEF PowerLoss, TypeOK
<1>21. CASE UNCHANGED vars
  BY <1>21 DEF vars, TypeOK
<1> QED
  BY <1>1, <1>2, <1>3, <1>4, <1>5, <1>6, <1>7, <1>8, <1>9, <1>10, <1>11, <1>12,
     <1>13, <1>14, <1>15, <1>16, <1>17, <1>18, <1>19, <1>20, <1>21
  DEF Next, Device, Surroundings

\* In every reachable state every variable has its type, whatever the tools
\* send and however often the power is lost.
THEOREM TypeCorrect == Spec => []TypeOK
BY InitType, NextType, PTL DEF Spec

-----------------------------------------------------------------------------
\* Wherever the device goes on after a save, the sector holds dev_config: only
\* the program of the second page leaves a save, and it makes them equal.
THEOREM SavedFirst == Spec => []SavedBeforeGoingOn
<1>1. Init => SavedBeforeGoingOn
  BY DEF Init, SavedBeforeGoingOn
<1>2. TypeOK /\ SavedBeforeGoingOn /\ [Next]_vars => SavedBeforeGoingOn'
  <2> SUFFICES ASSUME TypeOK, SavedBeforeGoingOn, [Next]_vars
               PROVE  SavedBeforeGoingOn'
    OBVIOUS
  <2> USE DEF protocol, Restart, save_DevConfig_to_storage
  <2>1. CASE EraseSector \/ ProgramFirst \/ ProgramSecond
    BY <2>1 DEF EraseSector, ProgramFirst, ProgramSecond, SavedBeforeGoingOn
  <2>2. CASE Boot \/ BankCopy \/ jump_to_app \/ device_reboot
    BY <2>2 DEF Boot, BankCopy, jump_to_app, device_reboot, SavedBeforeGoingOn
  <2>3. CASE load_DevConfig_from_storage \/ set_minimal_runtime_config
    BY <2>3 DEF load_DevConfig_from_storage, set_minimal_runtime_config, SavedBeforeGoingOn
  <2>4. CASE proc_SEGCP_udp \/ proc_SEGCP_tcp
    BY <2>4 DEF proc_SEGCP_udp, proc_SEGCP_tcp, TakeMessage, After, SavedBeforeGoingOn
  <2>5. CASE proc_SEGCP
    BY <2>5 DEF proc_SEGCP, TypeOK, SavedBeforeGoingOn
  <2>6. CASE segcp_ret_handler
    BY <2>6 DEF segcp_ret_handler, SavedBeforeGoingOn
  <2>7. CASE FirmwareUpdate \/ RebootCommand
    BY <2>7 DEF FirmwareUpdate, RebootCommand, SavedBeforeGoingOn
  <2>8. CASE Surroundings
    BY <2>8 DEF Surroundings, Connect, Disconnect, w5x00_dhcp_assign, LinkLost,
                FactoryButton, PowerLoss, SavedBeforeGoingOn
  <2>9. CASE UNCHANGED vars
    BY <2>9 DEF vars, SavedBeforeGoingOn
  <2> QED
    BY <2>1, <2>2, <2>3, <2>4, <2>5, <2>6, <2>7, <2>8, <2>9 DEF Next, Device
<1> QED BY <1>1, <1>2, TypeCorrect, PTL DEF Spec

-----------------------------------------------------------------------------
\* What the copy request of the sector needs of dev_config: a request has a
\* size, and configuration mode holds none but to store it and reset.
Sized ==
    /\ DueHasSize
    /\ ram.copy = 1 => ram.sized
    /\ \/ pc \in {"udp", "tcp", "command", "handle", "update", "reboot"}
       \/ Writing /\ then = "update"
       => ram.copy # 1

\* A command keeps the copy flag, and only FW touches the size.
LEMMA CommandKeepsCopy ==
  ASSUME ram \in Config, NEW c \in Commands
  PROVE  Set(c).copy = ram.copy
<1>1. /\ \A x : [ram EXCEPT !.addr = x].copy = ram.copy
      /\ \A x : [ram EXCEPT !.use_dhcp = x].copy = ram.copy
      /\ \A x : [ram EXCEPT !.port1 = x].copy = ram.copy
      /\ \A x : [ram EXCEPT !.pw = x].copy = ram.copy
      /\ \A x : [ram EXCEPT !.sized = x].copy = ram.copy
  BY DEF Config
<1> QED BY <1>1 DEF Set, SetNetwork, SetPassword, SetFirmware

\* Factory values keep the request and the size.
LEMMA FactoryKeepsCopy ==
  ASSUME NEW c \in Config, NEW p
  PROVE  /\ set_DevConfig_to_factory_value(c, p).copy = c.copy
         /\ set_DevConfig_to_factory_value(c, p).sized = c.sized
BY DEF Config, set_DevConfig_to_factory_value

\* An erased sector, and one whose second page is erased, hold no request.
LEMMA ErasedAsksNothing ==
  /\ Erased.copy # 1
  /\ \A c \in Config : FirstPage(c).copy # 1
BY DEF Config, FirstPage, Erased

\* With the boot pin not held while a copy is due, the sector never asks for
\* a copy without a size.
THEOREM DueSized ==
  ASSUME PinAnyTime = FALSE
  PROVE  Spec => []DueHasSize
<1>1. Init => Sized
  <2> SUFFICES ASSUME Init PROVE Sized
    OBVIOUS
  <2>1. nv.copy # 1
    <3>1. [Erased EXCEPT !.copy = 0] \in Config /\ [Erased EXCEPT !.copy = 0].copy = 0
      BY ErasedType DEF Config
    <3>2. \A q : set_DevConfig_to_factory_value([Erased EXCEPT !.copy = 0], q).copy = 0
      BY <3>1, FactoryKeepsCopy
    <3> QED BY <3>2, ErasedAsksNothing DEF Init
  <2>2. ram.copy # 1
    BY ErasedAsksNothing DEF Init
  <2> QED BY <2>1, <2>2 DEF Sized, DueHasSize
<1>2. TypeOK /\ Sized /\ [Next]_vars => Sized'
  <2> SUFFICES ASSUME TypeOK, nv \in Config, ram \in Config, Sized, [Next]_vars
               PROVE  Sized'
    BY DEF TypeOK
  <2> USE DEF protocol
  <2>1. CASE Restart /\ UNCHANGED nv
    BY <2>1, ErasedAsksNothing DEF Restart, Sized, DueHasSize, Writing
  <2>2. CASE EraseSector \/ ProgramFirst \/ ProgramSecond
    BY <2>2, ErasedAsksNothing
    DEF EraseSector, ProgramFirst, ProgramSecond, TypeOK, Sized, DueHasSize, Writing
  <2>3. CASE Boot
    <3>1. ram'.copy = nv.copy /\ ram'.sized = nv.sized
      BY <2>3, FactoryKeepsCopy DEF Boot, load_boot_DevConfig_from_storage
    <3> QED BY <2>3, <3>1 DEF Boot, Sized, DueHasSize, Writing
  <2>4. CASE BankCopy /\ ram.sized
    <3>1. [ram EXCEPT !.copy = 0].copy # 1
      BY DEF Config
    <3>2. ram' = [ram EXCEPT !.copy = 0] /\ UNCHANGED nv
      BY <2>4 DEF BankCopy
    <3> QED BY <3>1, <3>2 DEF Sized, DueHasSize, Writing
  <2>5. CASE jump_to_app
    BY <2>5, ErasedAsksNothing DEF jump_to_app, Sized, DueHasSize, Writing
  <2>6. CASE load_DevConfig_from_storage
    <3>1. ram'.copy = nv.copy /\ ram'.sized = nv.sized /\ UNCHANGED nv
      BY <2>6, FactoryKeepsCopy DEF load_DevConfig_from_storage
    <3>2. \/ pc' = "runtime"
          \/ pc' = "erase" /\ then' = "reset"
      BY <2>6 DEF load_DevConfig_from_storage, save_DevConfig_to_storage
    <3> QED BY <3>1, <3>2 DEF Sized, DueHasSize, Writing
  <2>7. CASE set_minimal_runtime_config \/ w5x00_dhcp_assign
    <3>1. ram'.copy = ram.copy /\ ram'.sized = ram.sized /\ UNCHANGED nv
      BY <2>7 DEF set_minimal_runtime_config, w5x00_dhcp_assign, Config
    <3>2. \/ pc' = "running"
          \/ pc' = "udp" /\ pc = "udp"
      BY <2>7 DEF set_minimal_runtime_config, w5x00_dhcp_assign
    <3> QED BY <3>1, <3>2 DEF Sized, DueHasSize, Writing
  <2>8. CASE proc_SEGCP_udp \/ proc_SEGCP_tcp
    BY <2>8 DEF proc_SEGCP_udp, proc_SEGCP_tcp, TakeMessage, After, Sized, DueHasSize, Writing
  <2>9. CASE proc_SEGCP
    <3>1. Head(todo) \in Commands
      BY <2>9 DEF proc_SEGCP, TypeOK
    <3>2. ram'.copy = ram.copy
      BY <2>9, <3>1, CommandKeepsCopy DEF proc_SEGCP
    <3> QED BY <2>9, <3>2 DEF proc_SEGCP, TypeOK, Sized, DueHasSize, Writing
  <2>10. CASE segcp_ret_handler
    <3>1. ram'.copy = ram.copy /\ ram.copy # 1
      BY <2>10, FactoryKeepsCopy DEF segcp_ret_handler, Sized
    <3>2. nv' = nv \/ nv' = Erased
      BY <2>10 DEF segcp_ret_handler, save_DevConfig_to_storage
    <3> QED BY <3>1, <3>2, ErasedAsksNothing DEF Sized, DueHasSize
  <2>11. CASE FirmwareUpdate
    <3>1. /\ [ram EXCEPT !.copy = 1].sized = ram.sized
          /\ [ram EXCEPT !.sized = FALSE].copy = ram.copy
      BY DEF TypeOK, Config
    <3> QED BY <2>11, <3>1 DEF FirmwareUpdate, save_DevConfig_to_storage, Sized, DueHasSize, Writing
  <2>12. CASE RebootCommand /\ "REBOOT" \notin ret
    BY <2>12 DEF RebootCommand, Sized, DueHasSize, Writing
  <2>13. CASE FactoryButton
    <3>1. ram'.copy = ram.copy /\ ram'.sized = ram.sized /\ UNCHANGED nv
      BY <2>13, FactoryKeepsCopy DEF FactoryButton
    <3>2. pc' = "erase" /\ then' = "reset"
      BY <2>13 DEF FactoryButton, save_DevConfig_to_storage
    <3> QED BY <3>1, <3>2 DEF Sized, DueHasSize, Writing
  <2>14. CASE Connect \/ Disconnect \/ UNCHANGED vars
    BY <2>14 DEF Connect, Disconnect, vars, Sized, DueHasSize, Writing
  <2>15. ASSUME \/ device_reboot \/ LinkLost \/ PowerLoss
                \/ BankCopy /\ ~ram.sized
                \/ RebootCommand /\ "REBOOT" \in ret
         PROVE  Restart /\ UNCHANGED nv
    BY <2>15 DEF device_reboot, LinkLost, PowerLoss, BankCopy, RebootCommand
  <2> QED
    BY <2>1, <2>2, <2>3, <2>4, <2>5, <2>6, <2>7, <2>8, <2>9, <2>10, <2>11, <2>12,
       <2>13, <2>14, <2>15
    DEF Next, Device, Surroundings
<1>3. Sized => DueHasSize
  BY DEF Sized
<1> QED BY <1>1, <1>2, <1>3, TypeCorrect, PTL DEF Spec

-----------------------------------------------------------------------------
\* What the sector holds within a save, and that a running program has
\* settings of its own or of the other.
Sector ==
    /\ ~Off => ram.by # "none"
    /\ Writing => then # "boot"
    /\ pc = "erase" => nv \in {before, Erased}
    /\ pc = "program" => nv = Erased
    /\ pc = "second page" => nv = FirstPage(ram)

\* No program runs at the start, and no save is under way.
LEMMA SectorInit == Init => Sector
BY DEF Init, Sector, Off, Writing

\* Factory values are those of a program; the other operations on dev_config
\* leave whose settings they are.
LEMMA KeepsBy ==
  /\ \A c \in Config : \A p \in {"boot", "app"} :
         set_DevConfig_to_factory_value(c, p).by # "none"
  /\ \A c \in Config : /\ [c EXCEPT !.copy = 0].by = c.by
                       /\ [c EXCEPT !.copy = 1].by = c.by
                       /\ [c EXCEPT !.sized = FALSE].by = c.by
                       /\ [c EXCEPT !.use_dhcp = TRUE].by = c.by
                       /\ [c EXCEPT !.addr = Leased].by = c.by
BY DEF Config, set_DevConfig_to_factory_value

\* So does a command.
LEMMA CommandKeepsBy ==
  ASSUME ram \in Config, NEW c \in Commands
  PROVE  Set(c).by = ram.by
<1>1. /\ \A x : [ram EXCEPT !.addr = x].by = ram.by
      /\ \A x : [ram EXCEPT !.use_dhcp = x].by = ram.by
      /\ \A x : [ram EXCEPT !.port1 = x].by = ram.by
      /\ \A x : [ram EXCEPT !.pw = x].by = ram.by
      /\ \A x : [ram EXCEPT !.sized = x].by = ram.by
  BY DEF Config
<1> QED BY <1>1 DEF Set, SetNetwork, SetPassword, SetFirmware

\* Every step keeps what Sector says.
LEMMA SectorNext ==
  ASSUME TypeOK, Sector, [Next]_vars
  PROVE  Sector'
<1> USE DEF protocol
<1> SUFFICES ASSUME nv \in Config, ram \in Config PROVE Sector'
  BY DEF TypeOK
<1>1. CASE Restart /\ UNCHANGED nv
  BY <1>1 DEF Restart, Sector, Off, Writing
<1>2. CASE EraseSector \/ ProgramFirst
  BY <1>2 DEF EraseSector, ProgramFirst, Sector, Off, Writing
<1>3. CASE ProgramSecond
  BY <1>3 DEF ProgramSecond, TypeOK, Sector, Off, Writing
<1>4. CASE Boot
  <2>1. ram'.by # "none"
    BY <1>4, KeepsBy DEF Boot, load_boot_DevConfig_from_storage
  <2> QED BY <1>4, <2>1 DEF Boot, Sector, Off, Writing
<1>5. CASE BankCopy /\ ram.sized
  <2>1. [ram EXCEPT !.copy = 0].by = ram.by
    BY KeepsBy
  <2>2. ram'.by # "none"
    BY <1>5, <2>1 DEF BankCopy, Sector, Off
  <2> QED BY <1>5, <2>2 DEF BankCopy, save_DevConfig_to_storage, Sector, Off, Writing
<1>6. CASE jump_to_app
  BY <1>6 DEF jump_to_app, Sector, Off, Writing
<1>7. CASE load_DevConfig_from_storage
  <2>1. CASE nv.by = "app"
    BY <1>7, <2>1 DEF load_DevConfig_from_storage, Sector, Off, Writing
  <2>2. CASE nv.by # "app"
    <3>1. ram'.by # "none"
      BY <1>7, <2>2, KeepsBy DEF load_DevConfig_from_storage
    <3> QED BY <1>7, <2>2, <3>1
            DEF load_DevConfig_from_storage, save_DevConfig_to_storage, Sector, Off, Writing
  <2> QED BY <2>1, <2>2
<1>8. CASE set_minimal_runtime_config \/ w5x00_dhcp_assign
  <2>1. ram'.by = ram.by
    BY <1>8, KeepsBy DEF set_minimal_runtime_config, w5x00_dhcp_assign
  <2> QED BY <1>8, <2>1
          DEF set_minimal_runtime_config, w5x00_dhcp_assign, Sector, Off, Writing
<1>9. CASE proc_SEGCP_udp \/ proc_SEGCP_tcp
  BY <1>9 DEF proc_SEGCP_udp, proc_SEGCP_tcp, TakeMessage, After, Sector, Off, Writing
<1>10. CASE proc_SEGCP
  <2>1. Head(todo) \in Commands
    BY <1>10 DEF proc_SEGCP, TypeOK
  <2>2. ram'.by = ram.by
    BY <1>10, <2>1, CommandKeepsBy DEF proc_SEGCP
  <2> QED BY <1>10, <2>2 DEF proc_SEGCP, TypeOK, Sector, Off, Writing
<1>11. CASE segcp_ret_handler
  <2>1. ram'.by # "none"
    BY <1>11, KeepsBy DEF segcp_ret_handler, Sector, Off
  <2>2. \/ pc' \in {"udp", "update"}
        \/ pc' = "erase" /\ then' = "update" /\ before' = nv /\ nv' = nv
    BY <1>11 DEF segcp_ret_handler, save_DevConfig_to_storage, Writing
  <2> QED BY <2>1, <2>2 DEF Sector, Off, Writing
<1>12. CASE FirmwareUpdate
  <2>1. ram'.by = ram.by
    BY <1>12, KeepsBy DEF FirmwareUpdate
  <2>2. \/ pc' = "reboot"
        \/ pc' = "erase" /\ then' = "updated" /\ before' = nv /\ nv' = nv
    BY <1>12 DEF FirmwareUpdate, save_DevConfig_to_storage, Writing
  <2> QED BY <1>12, <2>1, <2>2 DEF FirmwareUpdate, Sector, Off, Writing
<1>13. CASE RebootCommand /\ "REBOOT" \notin ret
  BY <1>13 DEF RebootCommand, Sector, Off, Writing
<1>14. CASE FactoryButton
  <2>1. ram'.by # "none"
    BY <1>14, KeepsBy DEF FactoryButton
  <2>2. nv' \in {before', Erased}
    BY <1>14 DEF FactoryButton, save_DevConfig_to_storage, Sector, Writing
  <2> QED BY <1>14, <2>1, <2>2
          DEF FactoryButton, save_DevConfig_to_storage, Sector, Off, Writing
<1>15. CASE Connect \/ Disconnect \/ UNCHANGED vars
  BY <1>15 DEF Connect, Disconnect, vars, Sector, Off, Writing
<1>16. ASSUME \/ device_reboot \/ LinkLost \/ PowerLoss
              \/ BankCopy /\ ~ram.sized
              \/ RebootCommand /\ "REBOOT" \in ret
       PROVE  Restart /\ UNCHANGED nv
  BY <1>16 DEF device_reboot, LinkLost, PowerLoss, BankCopy, RebootCommand
<1> QED
  BY <1>1, <1>2, <1>3, <1>4, <1>5, <1>6, <1>7, <1>8, <1>9, <1>10, <1>11, <1>12,
     <1>13, <1>14, <1>15, <1>16
  DEF Next, Device, Surroundings

-----------------------------------------------------------------------------
(* The refinement of SettingsStore.                                        *)

Kept == View(Readable(IF Writing THEN before ELSE nv))
Live == IF Off THEN Nobody ELSE View(ram)

\* What a program reads in a sector is a configuration of a program.
LEMMA ReadableType ==
  ASSUME NEW c \in Config
  PROVE  Readable(c) \in Config /\ Readable(c).by # "none"
BY FactoryType, KeepsBy DEF Readable

\* The view of a program's configuration is one of the abstract settings.
LEMMA ViewType ==
  ASSUME NEW c \in Config, c.by # "none"
  PROVE  View(c) \in Store!Settings
<1>1. /\ c.by \in {"boot", "app"} /\ c.pw \in Passwords
      /\ c.addr \in Addresses \cup {FactoryAddress, Leased}
      /\ c.use_dhcp \in BOOLEAN /\ c.port1 \in BOOLEAN
  BY DEF Config
<1>2. <<c.addr, c.use_dhcp, c.port1, c.pw>> \in AllChoices
  BY <1>1 DEF AllChoices
<1>3. (c.copy = 1) \in BOOLEAN
  OBVIOUS
<1> QED BY <1>1, <1>2, <1>3 DEF View, Store!Settings

\* Factory values are the abstract ones.
LEMMA ViewFactory ==
  ASSUME NEW c \in Config, NEW p \in {"boot", "app"}
  PROVE  View(set_DevConfig_to_factory_value(c, p)) = Store!Factory(View(c), p)
BY DEF View, Store!Factory, Factory, Config, set_DevConfig_to_factory_value

\* An erased sector is read as the bootloader's factory values, a sector of
\* one page as what was to be saved without the copy flag.
LEMMA ViewErased ==
  /\ View(Readable(Erased)) = Store!Nothing
  /\ \A c \in Config :
        c.by # "none" => View(Readable(FirstPage(c))) = Store!WithoutCopy(View(c))
<1>1. View(Readable(Erased)) = Store!Nothing
  <2>1. Readable(Erased) = set_DevConfig_to_factory_value(Erased, "boot")
    BY DEF Readable, Erased
  <2>2. View(Erased).due = FALSE
    <3>1. (Erased.copy = 1) = FALSE
      BY ErasedAsksNothing
    <3> QED BY <3>1, Zenon DEF View
  <2> QED BY <2>1, <2>2, ErasedType, ViewFactory DEF Store!Nothing, Store!Factory
<1>2. ASSUME NEW c \in Config, c.by # "none"
      PROVE  View(Readable(FirstPage(c))) = Store!WithoutCopy(View(c))
  <2>1. /\ FirstPage(c).by = c.by /\ FirstPage(c).addr = c.addr
        /\ FirstPage(c).use_dhcp = c.use_dhcp /\ FirstPage(c).port1 = c.port1
        /\ FirstPage(c).pw = c.pw /\ FirstPage(c).copy # 1
    BY DEF FirstPage, Config
  <2>2. Readable(FirstPage(c)) = FirstPage(c)
    BY <1>2, <2>1 DEF Readable
  <2>3. (FirstPage(c).copy = 1) = FALSE
    BY <2>1
  <2>4. View(FirstPage(c)) = [by |-> c.by, due |-> FALSE,
                              choice |-> <<c.addr, c.use_dhcp, c.port1, c.pw>>]
    BY <2>1, <2>3, Zenon DEF View
  <2>5. /\ View(c).by = c.by
        /\ View(c).choice = <<c.addr, c.use_dhcp, c.port1, c.pw>>
    BY DEF View
  <2> QED BY <2>2, <2>4, <2>5 DEF Store!WithoutCopy
<1> QED BY <1>1, <1>2

\* A reset, in a save or not, is the end of the program.
LEMMA RestartStops ==
  ASSUME TypeOK, Sector, Restart, UNCHANGED nv
  PROVE  Store!Stop
<1>1. ~Writing' /\ Live' = Nobody /\ Kept' = View(Readable(nv))
  BY DEF Restart, Writing, Live, Off, Kept
<1>2. CASE ~Writing
  BY <1>1, <1>2 DEF Store!Stop, Store!None, Nobody, Kept, Live
<1>3. CASE Writing
  <2>1. ~Off /\ ram.by # "none" /\ ram \in Config
    BY <1>3 DEF Writing, Off, Sector, TypeOK
  <2>2. \/ nv = before \/ nv = Erased \/ nv = FirstPage(ram)
    BY <1>3 DEF Sector, Writing
  <2>3. Kept' \in {Kept, Store!Nothing, Store!WithoutCopy(Live)}
    BY <1>1, <1>3, <2>1, <2>2, ViewErased DEF Kept, Live
  <2> QED BY <1>1, <1>3, <2>3 DEF Store!Stop, Store!None, Nobody, Kept, Live
<1> QED BY <1>2, <1>3

\* The beginning of a save by a running program, whatever it has changed.
LEMMA SaveBegins ==
  ASSUME TypeOK, Sector, ~Off, ~Writing, NEW next, save_DevConfig_to_storage(next),
         nv' = nv, ram' \in Config, ram'.by # "none"
  PROVE  Store!Begin
<1>1. ~Off' /\ Writing' /\ before' = nv
  BY DEF save_DevConfig_to_storage, Off, Writing
<1>2. View(ram') \in Store!Settings
  BY ViewType
<1>3. Live # Nobody
  BY DEF Live, View, Nobody, Sector
<1>4. Live' = View(ram') /\ Kept' = Kept
  BY <1>1 DEF Live, Kept
<1> QED BY <1>1, <1>2, <1>3, <1>4 DEF Store!Begin, Store!None, Nobody, Live, Kept

\* A running program changes its settings outside a save.
LEMMA ProgramChanges ==
  ASSUME TypeOK, Sector, ~Off, ~Writing, ~Off', ~Writing',
         nv' = nv, ram' \in Config, ram'.by # "none"
  PROVE  Store!Change
<1>1. View(ram') \in Store!Settings
  BY ViewType
<1>2. Live # Nobody
  BY DEF Live, View, Nobody, Sector
<1>3. Live' = View(ram')
  BY DEF Live
<1>4. Kept' = Kept
  BY DEF Kept
<1>5. Writing = FALSE
  OBVIOUS
<1>6. Writing' = FALSE
  OBVIOUS
<1> QED BY <1>1, <1>2, <1>3, <1>4, <1>5, <1>6 DEF Store!Change, Store!None, Nobody, Live, Kept

\* Nothing that the abstract store shows.
LEMMA NothingShown ==
  ASSUME Off' <=> Off, Writing' <=> Writing, UNCHANGED <<ram, before>>, Writing \/ nv' = nv
  PROVE  UNCHANGED Store!vars
<1>1. Live' = Live /\ Kept' = Kept
  BY DEF Live, Kept
<1> QED BY <1>1 DEF Store!vars, Live, Kept

\* The two starts.
LEMMA StartsShown ==
  ASSUME TypeOK, Sector, Boot \/ load_DevConfig_from_storage
  PROVE  Store!Start \/ Store!Reject
<1>1. Off /\ ~Writing /\ ~Off' /\ UNCHANGED nv /\ nv \in Config
  BY DEF Boot, load_DevConfig_from_storage, save_DevConfig_to_storage, Off, Writing, TypeOK
<1>2. Live = Nobody /\ Kept = View(Readable(nv)) /\ Live' = View(ram')
  BY <1>1 DEF Live, Kept
<1>3. CASE Boot \/ (load_DevConfig_from_storage /\ nv.by = "app")
  <2>1. ram' = Readable(nv) /\ ~Writing'
    BY <1>3 DEF Boot, load_boot_DevConfig_from_storage, load_DevConfig_from_storage,
                Readable, Writing
  <2>2. Live' = Kept /\ Kept' = Kept
    BY <1>1, <1>2, <2>1 DEF Kept
  <2>3. Writing = FALSE
    BY <1>1
  <2>4. Writing' = FALSE
    BY <2>1
  <2> QED BY <1>2, <2>2, <2>3, <2>4 DEF Store!Start, Store!None, Nobody, Live, Kept
<1>4. CASE load_DevConfig_from_storage /\ nv.by # "app"
  <2>1. ram' = set_DevConfig_to_factory_value(nv, "app") /\ Writing' /\ before' = nv
    BY <1>1, <1>4 DEF load_DevConfig_from_storage, save_DevConfig_to_storage, Writing
  <2>2. Kept' = Kept
    BY <1>2, <2>1 DEF Kept
  <2>3. Kept.by # "app" /\ Live' = Store!Factory(Kept, "app")
    <3>1. Kept.by = Readable(nv).by /\ Kept.due = (Readable(nv).copy = 1)
      BY <1>2 DEF View
    <3>2. Readable(nv).by # "app"
      <4>1. set_DevConfig_to_factory_value(nv, "boot").by = "boot"
        BY <1>1 DEF set_DevConfig_to_factory_value, Config
      <4> QED BY <1>4, <4>1 DEF Readable
    <3>3. Readable(nv).copy = nv.copy
      BY <1>1, FactoryKeepsCopy DEF Readable
    <3>4. View(nv).due = Kept.due
      BY <3>1, <3>3 DEF View
    <3>5. Live' = Store!Factory(View(nv), "app")
      BY <1>1, <1>2, <2>1, ViewFactory
    <3> QED BY <3>1, <3>2, <3>4, <3>5 DEF Store!Factory
  <2> QED BY <1>2, <2>1, <2>2, <2>3 DEF Store!Reject, Store!None, Nobody, Live, Kept
<1> QED BY <1>3, <1>4

\* The button: a save of factory values, in place of the one it interrupts.
LEMMA ButtonShown ==
  ASSUME TypeOK, Sector, FactoryButton
  PROVE  Store!Reset \/ Store!Begin
<1>1. /\ ~Off /\ UNCHANGED nv /\ save_DevConfig_to_storage("reset")
      /\ ram' = set_DevConfig_to_factory_value(ram, "boot") /\ ram \in Config
  BY DEF FactoryButton, InConfigMode, Off, Writing, TypeOK
<1>2. ram' \in Config /\ ram'.by # "none"
  BY <1>1, FactoryType, KeepsBy
<1>3. CASE ~Writing
  BY <1>1, <1>2, <1>3, SaveBegins
<1>4. CASE Writing
  <2>1. ~Off' /\ Writing' /\ before' = before
    BY <1>1, <1>4 DEF save_DevConfig_to_storage, Off, Writing
  <2>2. Kept' = Kept /\ Live' = View(ram') /\ Live = View(ram)
    BY <1>1, <1>4, <2>1 DEF Kept, Live
  <2>3. Live' = Store!Factory(Live, "boot")
    BY <1>1, <2>2, ViewFactory
  <2>4. Writing = TRUE
    BY <1>4
  <2>5. Writing' = TRUE
    BY <2>1
  <2> QED BY <2>2, <2>3, <2>4, <2>5 DEF Store!Reset, Live, Kept
<1> QED BY <1>3, <1>4

\* The end of a save.
LEMMA SaveEnds ==
  ASSUME TypeOK, Sector, ProgramSecond
  PROVE  Store!End
<1>1. Writing /\ ~Writing' /\ ~Off /\ ~Off' /\ ram.by # "none"
  BY DEF ProgramSecond, TypeOK, Sector, Writing, Off
<1>2. nv' = ram /\ ram' = ram
  BY DEF ProgramSecond
<1>3. Kept' = View(ram) /\ Live' = View(ram) /\ Live = View(ram)
  BY <1>1, <1>2 DEF Kept, Live, Readable
<1>4. Writing = TRUE
  BY <1>1
<1>5. Writing' = FALSE
  BY <1>1
<1> QED BY <1>3, <1>4, <1>5 DEF Store!End, Kept, Live

\* The handler: a save, an erase, or the end of the pass.
LEMMA HandlerShown ==
  ASSUME TypeOK, Sector, segcp_ret_handler
  PROVE  Store!Begin \/ Store!Forget \/ UNCHANGED Store!vars
<1>1. ~Off /\ ~Writing /\ ram \in Config /\ ram.by # "none"
  BY DEF segcp_ret_handler, Off, Writing, TypeOK, Sector
<1>2. CASE pc' \in {"udp", "update"} /\ UNCHANGED <<nv, ram, before>>
  <2>1. (Off' <=> Off) /\ (Writing' <=> Writing)
    BY <1>1, <1>2 DEF Off, Writing
  <2> QED BY <1>2, <2>1, NothingShown
<1>3. CASE /\ pc' \in {"udp", "update"} /\ UNCHANGED <<ram, before>>
           /\ nv' = Erased
  <2>1. ~Off' /\ ~Writing'
    BY <1>3 DEF Off, Writing
  <2>2. Kept' = Store!Nothing /\ Live' = Live
    BY <1>1, <1>3, <2>1, ViewErased DEF Kept, Live
  <2>3. Live # Nobody
    BY <1>1 DEF Live, View, Nobody
  <2>4. Writing = FALSE
    BY <1>1
  <2>5. Writing' = FALSE
    BY <2>1
  <2> QED BY <2>2, <2>3, <2>4, <2>5 DEF Store!Forget, Store!None, Nobody, Kept, Live
<1>4. CASE save_DevConfig_to_storage("update") /\ UNCHANGED nv
  <2>1. ram' \in Config /\ ram'.by # "none"
    BY <1>1, FactoryType, KeepsBy DEF segcp_ret_handler
  <2> QED BY <1>1, <1>4, <2>1, SaveBegins
<1> QED BY <1>2, <1>3, <1>4 DEF segcp_ret_handler

\* Every step of the device is one of the store or shows nothing of it.
LEMMA StepShown ==
  ASSUME TypeOK, Sector, [Next]_vars
  PROVE  [Store!Next]_(Store!vars)
<1> USE DEF protocol
<1> SUFFICES ASSUME nv \in Config, ram \in Config
             PROVE  [Store!Next]_(Store!vars)
  BY DEF TypeOK
<1>1. CASE Restart /\ UNCHANGED nv
  BY <1>1, RestartStops DEF Store!Next
<1>2. CASE EraseSector \/ ProgramFirst
  <2>1. (Off' <=> Off) /\ (Writing' <=> Writing) /\ Writing
    BY <1>2 DEF EraseSector, ProgramFirst, Off, Writing
  <2> QED BY <1>2, <2>1, NothingShown DEF EraseSector, ProgramFirst
<1>3. CASE ProgramSecond
  BY <1>3, SaveEnds DEF Store!Next
<1>4. CASE Boot \/ load_DevConfig_from_storage
  BY <1>4, StartsShown DEF Store!Next
<1>5. CASE BankCopy /\ ram.sized
  <2>1. [ram EXCEPT !.copy = 0] \in Config
    BY FieldType
  <2>2. /\ save_DevConfig_to_storage("jump") /\ UNCHANGED nv
        /\ ram' = [ram EXCEPT !.copy = 0] /\ ~Off /\ ~Writing
    BY <1>5 DEF BankCopy, Off, Writing
  <2>3. ram'.by # "none"
    BY <2>2, KeepsBy DEF Sector
  <2> QED BY <2>1, <2>2, <2>3, SaveBegins DEF Store!Next
<1>6. CASE jump_to_app
  <2>1. Live' = Nobody /\ Kept' = Kept
    BY <1>6 DEF jump_to_app, Live, Kept, Off, Writing
  <2>2. ~Writing /\ ~Writing'
    BY <1>6 DEF jump_to_app, Writing
  <2>3. Store!Stop
    BY <2>1, <2>2 DEF Store!Stop, Store!None, Nobody, Live, Kept
  <2> QED BY <2>3 DEF Store!Next
<1>7. CASE set_minimal_runtime_config \/ w5x00_dhcp_assign
  <2>1. [ram EXCEPT !.use_dhcp = TRUE] \in Config
    BY FieldType
  <2>2. [ram EXCEPT !.addr = Leased] \in Config
    BY FieldType
  <2>3. /\ ~Off /\ ~Writing /\ ~Off' /\ ~Writing' /\ UNCHANGED nv
    BY <1>7 DEF set_minimal_runtime_config, w5x00_dhcp_assign, Off, Writing
  <2>4. ram' \in Config /\ ram'.by # "none"
    BY <1>7, <2>1, <2>2, <2>3, KeepsBy
    DEF set_minimal_runtime_config, w5x00_dhcp_assign, Sector
  <2> QED BY <2>3, <2>4, ProgramChanges DEF Store!Next
<1>8. CASE proc_SEGCP_udp \/ proc_SEGCP_tcp
  <2>1. pc \in {"udp", "tcp"} /\ pc' \in {"tcp", "handle", "command"}
    BY <1>8 DEF proc_SEGCP_udp, proc_SEGCP_tcp, TakeMessage, After
  <2>2. (Off' <=> Off) /\ (Writing' <=> Writing)
    BY <2>1 DEF Off, Writing
  <2> QED BY <1>8, <2>2, NothingShown DEF proc_SEGCP_udp, proc_SEGCP_tcp
<1>9. CASE proc_SEGCP
  <2>1. Head(todo) \in Commands
    BY <1>9 DEF proc_SEGCP, TypeOK
  <2>2. ~Off /\ ~Writing /\ ~Off' /\ ~Writing' /\ UNCHANGED nv
    BY <1>9 DEF proc_SEGCP, TypeOK, Off, Writing
  <2>3. ram' \in Config /\ ram'.by # "none"
    BY <1>9, <2>1, <2>2, CommandType, CommandKeepsBy DEF proc_SEGCP, Sector
  <2> QED BY <2>2, <2>3, ProgramChanges DEF Store!Next
<1>10. CASE segcp_ret_handler
  BY <1>10, HandlerShown DEF Store!Next
<1>11. CASE FirmwareUpdate
  <2>1. [ram EXCEPT !.copy = 1] \in Config
    BY FieldType
  <2>2. [ram EXCEPT !.sized = FALSE] \in Config
    BY FieldType
  <2>3. ~Off /\ ~Writing /\ UNCHANGED nv /\ ram.by # "none"
    BY <1>11 DEF FirmwareUpdate, Off, Writing, Sector
  <2>4. ram' \in Config /\ ram'.by # "none"
    BY <1>11, <2>1, <2>2, <2>3, KeepsBy DEF FirmwareUpdate
  <2>5. CASE save_DevConfig_to_storage("updated")
    BY <2>3, <2>4, <2>5, SaveBegins DEF Store!Next
  <2>6. CASE pc' = "reboot"
    <3>1. ~Off' /\ ~Writing'
      BY <2>6 DEF Off, Writing
    <3> QED BY <2>3, <2>4, <3>1, ProgramChanges DEF Store!Next
  <2> QED BY <1>11, <2>5, <2>6 DEF FirmwareUpdate
<1>12. CASE RebootCommand /\ "REBOOT" \notin ret
  <2>1. (Off' <=> Off) /\ (Writing' <=> Writing)
    BY <1>12 DEF RebootCommand, Off, Writing
  <2> QED BY <1>12, <2>1, NothingShown DEF RebootCommand
<1>13. CASE FactoryButton
  BY <1>13, ButtonShown DEF Store!Next
<1>14. CASE Connect \/ Disconnect \/ UNCHANGED vars
  <2>1. UNCHANGED <<pc, nv, ram, before>>
    BY <1>14 DEF Connect, Disconnect, vars
  <2>2. (Off' <=> Off) /\ (Writing' <=> Writing)
    BY <2>1 DEF Off, Writing
  <2> QED BY <2>1, <2>2, NothingShown
<1>15. ASSUME \/ device_reboot \/ LinkLost \/ PowerLoss
              \/ BankCopy /\ ~ram.sized
              \/ RebootCommand /\ "REBOOT" \in ret
       PROVE  Restart /\ UNCHANGED nv
  BY <1>15 DEF device_reboot, LinkLost, PowerLoss, BankCopy, RebootCommand
<1> QED
  BY <1>1, <1>2, <1>3, <1>4, <1>5, <1>6, <1>7, <1>8, <1>9, <1>10, <1>11, <1>12,
     <1>13, <1>14, <1>15
  DEF Next, Device, Surroundings

\* Every behaviour of the device is one of SettingsStore: what a start finds
\* is what the last completed save wrote, and a power loss touches the stored
\* settings only within a save.
THEOREM Implements == Spec => StoreSpec
<1>1. Init => Store!Init
  <2> SUFFICES ASSUME Init PROVE Store!Init
    OBVIOUS
  <2>1. Off /\ ~Writing /\ nv \in Config
    BY InitType DEF Init, Off, Writing, TypeOK
  <2>2. Kept \in Store!Settings /\ Live = Nobody
    BY <2>1, ReadableType, ViewType DEF Kept, Live
  <2> QED BY <2>1, <2>2 DEF Store!Init, Store!None, Nobody, Kept, Live
<1>2. TypeOK /\ Sector /\ [Next]_vars => Sector' /\ [Store!Next]_(Store!vars)
  BY SectorNext, StepShown
<1> QED BY <1>1, <1>2, SectorInit, TypeCorrect, PTL DEF Spec, StoreSpec, Store!Spec
=============================================================================
