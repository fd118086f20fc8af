--------------------------- MODULE MCDeviceConfig ---------------------------
(* The messages of an instance: every command, alone and with others.      *)
EXTENDS DeviceConfig

Do(cmd) == [cmd |-> cmd, arg |-> ""]
With(cmd, arg) == [cmd |-> cmd, arg |-> arg]
To(pw, cmds) == [ours |-> TRUE, pw |-> pw, cmds |-> cmds]

\* Over TCP a tool sets, saves and updates; an error in the middle of a request.
OverTcp == {To("", q) : q \in {
    <<With("LI", "a"), Do("SV"), Do("RT")>>,
    <<With("IM", TRUE), Do("refused"), Do("SV")>>,
    <<Do("read"), With("FW", "fits")>>,
    <<With("FW", "none")>> }}

\* Over UDP come searches, resets and messages for other devices.
OverUdp == {To("", q) : q \in {
    <<Do("refused"), Do("EX")>>,
    <<With("SP", "p"), Do("SV")>>,
    <<Do("FR")>>,
    <<With("LP", TRUE), Do("FR")>>,
    <<With("FW", "too big")>> }}
  \cup {To("p", <<With("SP", ""), Do("EX")>>),
        [ours |-> FALSE, pw |-> "", cmds |-> <<Do("SV")>>]}

Requests == [s \in Sockets |-> IF s = "TCP" THEN OverTcp ELSE OverUdp]
=============================================================================
