--------------------------- MODULE MCModbusGateway ---------------------------
(* Instances of ModbusGateway for TLC. *)
EXTENDS ModbusGateway

Rtu(damage, eager, t35) == [protocol |-> "rtu", damage |-> damage, eager |-> eager, t35 |-> t35]
Ascii(damage, eager)    == [protocol |-> "ascii", damage |-> damage, eager |-> eager, t35 |-> TRUE]

\* A client that waits, and the damage each protocol copes with.
Patient == {Rtu({"bad", "lost", "babble"}, FALSE, TRUE), Ascii({"bad", "lost"}, FALSE)}

\* The client gives up while the reply may still come.
Eager == {Rtu({}, TRUE, TRUE), Ascii({}, TRUE)}

\* An ASCII reply without its LF, or with more symbols than the buffer holds.
LostLF  == {Ascii({"lf"}, FALSE)}
Babbled == {Ascii({"babble"}, FALSE)}

\* Nobody has called eMBRTUInit.
NoTime == {Rtu({}, FALSE, FALSE)}

\* Every reply is damaged.
Damage == {Rtu({"bad"}, FALSE, TRUE)}
=============================================================================
