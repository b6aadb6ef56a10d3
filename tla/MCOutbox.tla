------------------------------ MODULE MCOutbox ------------------------------
(* Outbox on one or two channels, with a queue short enough to fill up and  *)
(* a backoff that doubles once before it meets its ceiling.                 *)
EXTENDS Outbox

CONSTANTS A, B, k   \* two channels and a coalescing key
=============================================================================
