---------------------------- MODULE MCServerLink ----------------------------
(* Small instances of ServerLink: a server at home, on the port that the other *)
(* form leaves out, and one with a name.                                       *)
EXTENDS ServerLink
AtHome == [scheme |-> "sund", host |-> "ip", port |-> 443, fragment |-> "lowercase hex", more |-> FALSE]
Named == [scheme |-> "sund+webpki", host |-> "name", port |-> 443, fragment |-> None, more |-> FALSE]
Either == {AtHome, Named}
=============================================================================
