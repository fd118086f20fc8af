---------------------------- MODULE SegcpCommands ----------------------------
(***************************************************************************)
(* What the commands of the application's configuration protocol accept    *)
(* and store (proc_SEGCP).                                                 *)
(*                                                                         *)
(* A setting is named by its command.  A parameter is what the conversions *)
(* of the C library and of util.c make of its text: its number (atoi), its *)
(* length, its first character, its first byte as hexadecimal (NoByte when *)
(* str_to_hex refuses it), and whether is_ipaddr takes it.  An operator of *)
(* a group of commands gives the set of outcomes: the values that may be   *)
(* stored, and Refused for ERINVALIDPARAM.                                 *)
(***************************************************************************)
EXTENDS Integers, Sequences

Refused == -1
NoByte  == -1

Params == [atoi : Int, len : Nat, first : 0..255, byte : Int,
           addr : BOOLEAN, text : STRING]

Byte(n)       == n % 256           \* uint8_t
HalfWord(n)   == n % 65536         \* uint16_t

\* One character read as a digit: the letters from Q on count from zero again.
is_hex(ch) ==
    IF ch < 17 THEN 255
    ELSE IF ch \in 48..57 THEN ch - 48
    ELSE IF ch \in 40..102 THEN Byte(ch - 97 + 16)
    ELSE IF ch > 102 THEN Byte(ch - 65 + 16)
    ELSE ch

Kept(v, accepted) == {IF accepted THEN v ELSE Refused}

Digit(p, max)      == Kept(is_hex(p.first), p.len = 1 /\ is_hex(p.first) <= max)
Word(p)            == Kept(p.atoi, p.atoi \in 0..65535)
Short(p, len, max) == Kept(HalfWord(p.atoi), p.len <= len /\ HalfWord(p.atoi) <= max)
Small(p, max)      == Kept(Byte(p.atoi), Byte(p.atoi) <= max)
Text(p, max)       == Kept(p.text, p.len <= max)
AnyText(p)         == {p.text}
Address(p)         == Kept(p.text, p.addr)

-----------------------------------------------------------------------------
(* The commands that set something, in the order of the code.              *)

\* DHCP, operation mode, connection password, debug output, keep-alive; the
\* address of the device itself cannot be set.
CommonDigits == [IM |-> 1, OP |-> 6, CP |-> 1, DG |-> 4, KA |-> 1]
SetCommon(c, p) ==
    CASE c \in DOMAIN CommonDigits -> Digit(p, CommonDigits[c])
      [] c \in {"KI", "KE", "RI"} -> Word(p)
      [] c \in {"MC", "VR", "MN"} -> {Refused}

SetAddress(c, p) ==
    CASE c \in {"LI", "SM", "GW", "DS"} -> Address(p)
      [] c = "DH" -> Text(p, 19)
      [] c \in {"LP", "RP"} -> Word(p)
      [] c = "RH" -> AnyText(p)          \* an address, or else a name

\* The flow controls an RS-422 or RS-485 line can have.
FlowOf(v, rs485) == IF rs485 /\ v \notin {3, 4} THEN 0 ELSE v

\* baud_max is the number of rates, not the last of them.
SetLine(c, p, rs485) ==
    CASE c = "BR" -> Short(p, 2, 20)
      [] c \in {"DB", "SB"} -> Digit(p, 1)
      [] c = "PR" -> Digit(p, 2)
      [] c = "FL" -> {IF v = Refused THEN v ELSE FlowOf(v, rs485) : v \in Digit(p, 4)}
      [] c = "PO" -> Short(p, 2, 2)

SetPacking(c, p) ==
    CASE c \in {"IT", "PT"} -> Word(p)
      [] c = "PS" -> Short(p, 4, 2048)
      [] c = "PD" -> Kept(p.byte, p.len = 2 /\ p.byte # NoByte)
      [] c = "TE" -> Digit(p, 1)
      [] c = "SS" -> Kept(p.text, p.len = 6 /\ p.byte # NoByte)
      [] c = "NP" -> Text(p, 9)
      [] c = "SP" -> Text(p, 9)

\* SC: two bits as hexadecimal digits.  Without them an earlier command's byte is
\* still in tmp_byte and is taken instead.
StatusPins(p) ==
    LET bits(b) == IF p.len <= 2 /\ b % 16 <= 1 /\ b \div 16 <= 1 THEN b ELSE Refused
    IN  IF p.byte # NoByte THEN {bits(p.byte)} ELSE {bits(b) : b \in 0..17}

SetOption(c, p) ==
    CASE c = "SC" -> StatusPins(p)
      [] c \in {"S0", "S1", "RX"} -> {Refused}
      [] c = "EC" -> Digit(p, 1)
      [] c = "TR" -> Kept(p.atoi, p.len <= 3 /\ p.atoi \in 1..255)
      [] c \in {"RC", "QO"} -> Small(p, 2)
      [] c = "CE" -> Small(p, 1)
      [] c = "SO" -> Short(p, p.len, 60000)
      [] c = "QK" -> {HalfWord(p.atoi)}

SetTopic(c, p) == AnyText(p)
TopicCommands  == {"QU", "QP", "QC", "PU", "U0", "U1", "U2"}
SetGreeting(c, p)    == AnyText(p)
GreetingCommands     == {"SD", "DD", "SE"}
NotAvailableCommands == {"UN", "ST", "MA", "EX", "SV", "RT", "FR", "PW", "UI"}

LineCommands    == {"BR", "DB", "SB", "PR", "FL", "PO"}
PackingCommands == {"IT", "PT", "PS", "PD", "TE", "SS", "NP", "SP"}
OptionCommands  == {"SC", "S0", "S1", "RX", "EC", "TR", "RC", "QO", "CE", "SO", "QK"}
AddressCommands == {"LI", "SM", "GW", "DS", "DH", "LP", "RP", "RH"}
CommonCommands  == DOMAIN CommonDigits \cup {"KI", "KE", "RI", "MC", "VR", "MN"}

SettingCommands == CommonCommands \cup AddressCommands \cup LineCommands
                   \cup PackingCommands \cup OptionCommands \cup TopicCommands
                   \cup GreetingCommands \cup NotAvailableCommands

\* What a command with a parameter stores as its setting.
Outcomes(c, p, rs485) ==
    CASE c \in CommonCommands       -> SetCommon(c, p)
      [] c \in AddressCommands      -> SetAddress(c, p)
      [] c \in LineCommands         -> SetLine(c, p, rs485)
      [] c \in PackingCommands      -> SetPacking(c, p)
      [] c \in OptionCommands       -> SetOption(c, p)
      [] c \in TopicCommands        -> SetTopic(c, p)
      [] c \in GreetingCommands     -> SetGreeting(c, p)
      [] c \in NotAvailableCommands -> {Refused}

-----------------------------------------------------------------------------
(* A command without a parameter asks for its setting; it changes nothing  *)
(* and raises no flag, but for the five that act and the two refused.      *)

NetworkQueries == {"MC", "VR", "MN", "IM", "OP", "CP", "DG", "KA", "KI", "KE", "RI",
                   "LI", "SM", "GW", "DS", "DH", "LP", "RP", "RH"}
SerialQueries  == {"BR", "DB", "PR", "SB", "FL", "PO", "IT", "PT", "PS", "PD", "TE",
                   "SS", "NP", "SP", "SC", "S0", "S1"}
OptionQueries  == {"UN", "UI", "ST", "EC", "TR", "RC", "CE", "SO", "QU", "QP", "QC",
                   "QK", "PU", "U0", "U1", "U2", "QO", "UF", "SD", "DD", "SE"}
Queries == NetworkQueries \cup SerialQueries \cup OptionQueries

\* The flags of segcp_ret that a command without a parameter raises.
Asked(c, port) ==
    CASE c = "SV" -> {"SAVE"}
      [] c = "EX" -> {"SWITCH"}
      [] c = "RT" -> {"REBOOT"}
      [] c = "FR" -> {"REBOOT", IF port = 1 THEN "ERASE" ELSE "FACTORY"}
      [] c \in {"MA", "PW", "unknown"} -> {"ERR"}
      [] OTHER -> {}

\* baud_table has a rate for these values of BR.
Rates == 0..19
=============================================================================
