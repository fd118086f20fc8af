------------------------------ MODULE MCChipBus ------------------------------
(* An instance of ChipBus for TLC: the accesses of the tasks, and what may be *)
(* free when the bus is opened.                                               *)
EXTENDS ChipBus

\* One byte and bursts of two and three bytes, overlapping; three bytes is as
\* long as a header.
SomeAccesses ==
  {[op |-> "write", form |-> "byte", addr |-> 1, data |-> <<1>>],
   [op |-> "write", form |-> "burst", addr |-> 1, data |-> <<2, 1>>],
   [op |-> "write", form |-> "burst", addr |-> 0, data |-> <<1, 2, 2>>],
   [op |-> "read", form |-> "byte", addr |-> 1, data |-> <<0>>],
   [op |-> "read", form |-> "burst", addr |-> 0, data |-> <<0, 0, 0>>]}

\* Everything, nothing of one kind, or only the PIO that is not preferred.
FreeToStart ==
  LET sms(n) == [p \in {0, 1} |-> n]
  IN {[room |-> {0, 1}, sms |-> sms(4), dmas |-> 12],
      [room |-> {0}, sms |-> sms(1), dmas |-> 2],
      [room |-> {}, sms |-> sms(4), dmas |-> 12],
      [room |-> {1}, sms |-> sms(0), dmas |-> 2],
      [room |-> {1}, sms |-> sms(1), dmas |-> 1]}
=============================================================================
