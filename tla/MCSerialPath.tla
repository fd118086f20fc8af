---------------------------- MODULE MCSerialPath ----------------------------
(***************************************************************************)
(* Configurations of SerialPath for model checking.  Each is as small as   *)
(* the case it is for allows.                                              *)
(***************************************************************************)
EXTENDS SerialPath

Load(size, send, packing, kinds, ahead) ==
    [size |-> size, send |-> send, gap |-> 1, pack |-> packing, time |-> 1,
     bytes |-> 2, kinds |-> kinds, ahead |-> ahead, start |-> "CONNECT",
     reconnects |-> FALSE, fails |-> FALSE]

Unsteady(l) == [l EXCEPT !.start = "OPEN", !.reconnects = TRUE, !.fails = TRUE]

\* Connections come and go, sends fail, the ring wraps.
Streams == {Unsteady(Load(4, 3, p, {"data"}, 3)) : p \in {"none", "time", "size"}}

\* Escape sequences, broken off at any place, complete or in a longer run.
Escapes == {[Load(5, 1, "none", {"data", "plus"}, 4) EXCEPT !.gap = 2, !.bytes = 1]}

\* The UART peer sends as fast as it likes: the interrupt flushes the ring.
Overruns == {Unsteady(Load(3, 2, p, {"data", "delim"}, 3)) : p \in {"none", "delim"}}

StreamLoads == Streams \cup Escapes \cup Overruns

\* What is delivered for ever; the bytes are counted in both buffers.
Steady == {Load(5, 4, "none", {"data"}, 3)}

\* Variants that are not.
Backlog == {Load(4, 2, "none", {"data"}, 3)}
Pluses  == {Load(5, 4, "none", {"plus"}, 3)}
Timed   == {Load(3, 2, "time", {"data"}, 1)}
Switch  == {Load(5, 4, "none", {"data", "plus"}, 4)}
Held    == {[Unsteady(Load(4, 3, "none", {"data", "plus"}, 3)) EXCEPT !.gap = 2]}
=============================================================================
