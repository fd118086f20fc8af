----------------------------- MODULE MCFwUpdate -----------------------------
(* Instances of the firmware update: two units a sector, three sectors a   *)
(* bank.                                                                   *)
EXTENDS FwUpdate

AllSizes == {1, 3, 4, 5, 6}

\* A tool that sends an image in one connection, images that leave a sector of
\* the bank free, a firmware in bank 0, the boot pin released while a copy is due.
Careful == [sizes |-> {1, 3, 4}, conns |-> 1, crashes |-> 3,
            factory |-> TRUE, pin |-> FALSE, whole |-> TRUE]

\* None of this.
Careless == [sizes |-> {3, 5, 6}, conns |-> 3, crashes |-> 1,
             factory |-> FALSE, pin |-> TRUE, whole |-> FALSE]

UpdateLoads == {Careful, Careless}
CarefulOnly == {Careful}

\* One of the assumptions dropped.
Reconnecting == {[Careful EXCEPT !.conns = 2]}
LastSector   == {[Careful EXCEPT !.sizes = {5, 6}]}
PinHeld      == {[Careful EXCEPT !.pin = TRUE]}
NoFactory    == {[Careful EXCEPT !.factory = FALSE]}
=============================================================================
