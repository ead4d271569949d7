--------------------------- MODULE MCJobLifecycle ---------------------------
(* Two slots, so that a delivery can overlap an execution BullMQ gave up on. *)
EXTENDS JobLifecycle

CONSTANTS x1, x2

MCExecution == {x1, x2}
MCMaxFaults == [crash |-> 2, stall |-> 1, database |-> 2, redis |-> 1]
NoFaults == [k \in Fault |-> 0]
=============================================================================
