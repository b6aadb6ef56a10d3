----------------------------- MODULE MCPairing -----------------------------
(* Small instances of Pairing: a founder and two devices that join. *)
EXTENDS Pairing
CONSTANTS m, p, j
=============================================================================
