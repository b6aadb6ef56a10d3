----------------------------- MODULE Membership -----------------------------
(***************************************************************************)
(* What the roster layer promises, with no message, key, epoch or budget:  *)
(* how each device may see each other device, and what may change that.    *)
(*                                                                         *)
(*   stranger   no vouch has been admitted                                 *)
(*   member     active                                                     *)
(*   suspended  taken away on the server's word; a vouch brings it back    *)
(*   gone       removed by a member; nothing brings it back                *)
(*                                                                         *)
(* A device becomes a member of d's family only on the vouch of a device   *)
(* that is a member of it at that moment, or by d adopting the family of   *)
(* the member that vouched for d.  It is gone for d only when d removes it *)
(* or a member of d's family for which it is gone says so.                 *)
(***************************************************************************)
EXTENDS FiniteSets

CONSTANTS Device, Founder

VARIABLES
  view,     \* view[d][x]: what x is to d
  vouches   \* the pairs <<i, x>> such that i has vouched for x

Standing == {"stranger", "member", "suspended", "gone"}

Init ==
  /\ view = [d \in Device |-> [x \in Device |->
               IF d = Founder /\ x = Founder THEN "member" ELSE "stranger"]]
  /\ vouches = {}

\* i puts its name on x, and may take x in itself at once.
Vouch(i, x) ==
  /\ view[i][i] = "member"
  /\ view[i][x] # "gone"
  /\ vouches' = vouches \cup {<<i, x>>}
  /\ view' \in {view, [view EXCEPT ![i][x] = "member"]}

\* x, new to any family, enters i's and takes over what i knows.  Those that i
\* holds suspended may be left out.
Join(i, x) ==
  /\ view[i][i] = "member"
  /\ view[i][x] # "gone"
  /\ view[x][x] = "stranger"
  /\ vouches' = vouches \cup {<<i, x>>}
  /\ \E left \in SUBSET {y \in Device : view[i][y] = "suspended"} :
       view' = [view EXCEPT
                  ![i][x] = "member",
                  ![x] = [y \in Device |->
                            IF y = x THEN "member"
                            ELSE IF y \in left THEN "stranger" ELSE view[i][y]]]

\* d admits x on the vouch of v, a member as d sees it.
Admit(d, x) ==
  /\ view[d][d] # "stranger"
  /\ view[d][x] \in {"stranger", "suspended"}
  /\ \E v \in Device : view[d][v] = "member" /\ <<v, x>> \in vouches
  /\ view' = [view EXCEPT ![d][x] = "member"]
  /\ UNCHANGED vouches

\* Everything in S is gone for d: by d's own doing, or on the word of a member
\* r for which it is gone already.
Remove(d, S) ==
  /\ \E r \in Device :
       /\ view[d][r] = "member"
       /\ r # d => d \notin S /\ \A x \in S : view[r][x] = "gone"
  /\ view' = [view EXCEPT ![d] = [x \in Device |-> IF x \in S THEN "gone" ELSE @[x]]]
  /\ UNCHANGED vouches

\* The server takes the devices in R away from d.
Suspend(d, R) ==
  /\ view' = [view EXCEPT ![d] = [x \in Device |->
                IF x \in R /\ @[x] = "member" THEN "suspended" ELSE @[x]]]
  /\ UNCHANGED vouches

Next ==
  \/ \E d \in Device, R \in SUBSET Device : Suspend(d, R)
  \/ \E i, x \in Device : Vouch(i, x) \/ Join(i, x)
  \/ \E d, x \in Device : Admit(d, x)
  \/ \E d \in Device, S \in SUBSET Device : Remove(d, S)

Spec == Init /\ [][Next]_<<view, vouches>>

=============================================================================
