----------------------------- MODULE MCAccount -----------------------------
(* Small instances of Account: two phones. *)
EXTENDS Account
CONSTANTS x, y
=============================================================================
