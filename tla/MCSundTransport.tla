-------------------------- MODULE MCSundTransport --------------------------
(* Small instances of SundTransport: one caller manages the channel, another *)
(* sends and drains.                                                         *)
EXTENDS SundTransport
CONSTANTS front, loop, s1, s2
=============================================================================
