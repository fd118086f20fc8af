----------------------------- MODULE MCHttpServer -----------------------------
(* Instances of HttpServer for TLC. *)
EXTENDS HttpServer

\* One content that fits in a part, one of three whole parts.
Contents == {"page", "image"}
Lengths  == [c \in Contents |-> IF c = "page" THEN 1 ELSE 6]

\* Peers that send a request in one piece and wait for the answer; peers that are
\* gone early; peers whose requests come in parts.
Patient == [peers |-> {}, whole |-> TRUE]
Gone    == [peers |-> {"closes", "resets"}, whole |-> FALSE]
Slow    == [peers |-> {"parts"}, whole |-> FALSE]
All     == {Patient, Gone, Slow}

\* The answers to peers that close early, or whose requests come in parts.
Hasty   == {[peers |-> {"closes"}, whole |-> TRUE]}
InParts == {[peers |-> {"parts"}, whole |-> TRUE]}
=============================================================================
