----------------------------- MODULE MCSession -----------------------------
(* Small instances of Session: two devices. *)
EXTENDS Session
CONSTANTS a, b
=============================================================================
