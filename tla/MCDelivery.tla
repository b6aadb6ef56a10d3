----------------------------- MODULE MCDelivery ----------------------------
(* Small instances of Delivery: a watches over b, and c makes things up. *)
EXTENDS Delivery
CONSTANTS a, b, c
Talk == {<<b, "location", a>>, <<a, "attention", b>>}
SharesAndAllows == {<<b, "location", a>>, <<b, "attention", a>>}
=============================================================================
