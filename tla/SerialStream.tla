---------------------------- MODULE SerialStream ----------------------------
(***************************************************************************)
(* What the serial side of the gateway promises the peer of a connection:  *)
(* the bytes that arrive on the UART while the connection is up reach it   *)
(* in their order, each once, except an escape sequence.                   *)
(* SerialPath implements this specification.                               *)
(***************************************************************************)
EXTENDS Naturals, Sequences

CONSTANT Ids            \* the bytes are numbered 0..Ids-1, round and round

VARIABLES
    up,                 \* the connection is established
    fifo,               \* bytes on their way to its peer
    next                \* number of the next byte to arrive

Init == up \in BOOLEAN /\ fifo = <<>> /\ next = 0

Open  == ~up /\ up' /\ fifo' = <<>> /\ UNCHANGED next
Close == up /\ ~up' /\ fifo' = <<>> /\ UNCHANGED next

Arrive == /\ next' = (next + 1) % Ids
          /\ fifo' = IF up THEN Append(fifo, next) ELSE <<>>
          /\ UNCHANGED up

Deliver == /\ up
           /\ \E n \in 1..Len(fifo) : fifo' = SubSeq(fifo, n + 1, Len(fifo))
           /\ UNCHANGED <<up, next>>

\* The last three bytes were the escape sequence.
Escape == /\ up /\ Len(fifo) >= 3
          /\ fifo' = SubSeq(fifo, 1, Len(fifo) - 3)
          /\ UNCHANGED <<up, next>>

vars == <<up, fifo, next>>
Next == Open \/ Close \/ Arrive \/ Deliver \/ Escape
Spec == Init /\ [][Next]_vars
=============================================================================
