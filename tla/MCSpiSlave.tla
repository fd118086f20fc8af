----------------------------- MODULE MCSpiSlave -----------------------------
(* Instances of SpiSlave for TLC. *)
EXTENDS SpiSlave

Echo(may) == [program |-> "echo", may |-> may]
At(may)   == [program |-> "at", may |-> may]

\* The stack of a task is filled with 0xA5 before it runs.
Filled == {Times(165, 4)}

\* The exchanges undisturbed; with packets that do not wait for the echo; with
\* the timer running out at any moment while the connection comes and goes
\* between exchanges.
Served == {Echo({}), Echo({"stream"}), Echo({"slow", "refuse"}), At({})}

\* A packet comes before the master has read the last one.
Burst == {Echo({"burst"})}

\* The connection closes during a write.
Cut == {Echo({"cut"})}

\* A parameter is refused.
Refused == {At({"error"})}

\* A task is kept from the line.
Late == {Echo({"late"})}

\* The timer runs out while the master writes.
Slow == {Echo({"slow", "stream"})}
=============================================================================
