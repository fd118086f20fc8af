--------------------------- MODULE HttpsConnection ---------------------------
(***************************************************************************)
(* What the HTTPS server promises a browser, one TCP socket at a time: a   *)
(* socket that is down starts to listen, accepts one connection, secures   *)
(* it with a TLS handshake, and only then answers it, once, with the page. *)
(* Any socket may go down at any time (peer reset, link loss, close).      *)
(* HttpsServer implements this specification.                              *)
(***************************************************************************)
CONSTANT Socks          \* the sockets reserved for port 443

VARIABLE phase          \* phase[s]: how far socket s has come

Phases == {"down", "listening", "plain", "secured", "served"}

PhaseOK == phase \in [Socks -> Phases]

Advance(s, from, to) == /\ phase[s] = from
                        /\ phase' = [phase EXCEPT ![s] = to]

Listen(s) == Advance(s, "down", "listening")
Accept(s) == Advance(s, "listening", "plain")
Secure(s) == Advance(s, "plain", "secured")
Serve(s)  == Advance(s, "secured", "served")
Drop(S)   == phase' = [s \in Socks |-> IF s \in S THEN "down" ELSE phase[s]]

Init == phase = [s \in Socks |-> "down"]

Next == \/ \E s \in Socks : Listen(s) \/ Accept(s) \/ Secure(s) \/ Serve(s)
        \/ \E S \in SUBSET Socks : Drop(S)

Spec == Init /\ [][Next]_phase
==============================================================================
