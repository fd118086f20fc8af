----------------------------- MODULE MCAppConfig -----------------------------
(* The requests of an instance.                                            *)
EXTENDS AppConfig

\* A number without a sign, and a single letter.
Number(n) == [atoi |-> n, len |-> IF n < 10 THEN 1 ELSE 2,
              first |-> 48 + (IF n < 10 THEN n ELSE n \div 10),
              byte |-> NoByte, addr |-> FALSE, text |-> "number"]
Letter(ch) == [atoi |-> 0, len |-> 1, first |-> ch, byte |-> NoByte, addr |-> FALSE,
               text |-> "letter"]

FollowedSettings == {"LP", "BR"}
FactorySettings  == [s \in FollowedSettings |-> IF s = "LP" THEN 5000 ELSE 12]

Load(tcp, udp, serial) ==
    [c \in Channels |-> CASE c = "TCP" -> tcp [] c = "UDP" -> udp [] c = "serial" -> serial]

\* The tool of the update uses TCP.  Meanwhile come, over UDP, settings and resets;
\* certificates; or a switch to AT mode, and requests of the host on the line.
UpdateLoads == {
    Load({<<Sets("FW", 3)>>, <<Sets("FW", TooBig)>>},
         {<<Sets("LP", Number(1)), Asks("SV")>>, <<Asks("FR")>>, <<Sets("UF", 0)>>}, {}),
    Load({<<Sets("FW", 3)>>, <<Sets("FW", 0), Asks("RT")>>},
         {<<Sets("OC", s)>> : s \in {"whole", "cut", "bad"}}, {}),
    Load({<<Sets("FW", 3)>>}, {<<Asks("EX")>>},
         {<<Sets("TE", Letter(65)), Asks("SV")>>}) }

\* One channel sets the last rate and the one after it; certificates are sent and
\* refused; a tool sets the copy flag by itself.
RateLoads == {Load({}, {<<Sets("BR", Number(19)), Asks("SV")>>,
                        <<Sets("BR", Number(20)), Asks("SV")>>}, {})}
CertificateLoads == {Load({}, {<<Sets("OC", s)>> : s \in {"whole", "cut", "bad"}}
                              \cup {<<Asks("SV"), Asks("RT")>>}, {})}
CopyFlagLoads == {Load({<<Sets("FW", 3)>>},
                       {<<Sets("UF", 1), Asks("SV"), Asks("RT")>>}, {})}
=============================================================================
