------------------------------ MODULE MCRoster ------------------------------
(* Roster on a small family.  The devices other than the founder are        *)
(* interchangeable, and so are the keys.                                    *)
EXTENDS Roster, TLC

CONSTANTS First, Second   \* two devices that joined the founder, in this order

Symmetry == Permutations(Device \ {Founder}) \cup Permutations(Keys)

-----------------------------------------------------------------------------
(* A family of three that has formed: the founder admitted First, and then  *)
(* Second, which adopted both.  First has yet to receive Second's vouch.    *)
Admission(x) ==
  CHOOSE m \in RosterIntroduce : m.from = Founder /\ m.subject = x

FormedInit ==
  /\ devices = [d \in Device |-> [x \in Device |->
                  IF d = First /\ x = Second THEN Unknown
                  ELSE ActiveRecord(CHOOSE k \in Keys : TRUE)]]
  /\ tombstones = [d \in Device |-> {}]
  /\ epoch = [d \in Device |-> 0]
  /\ churn = [d \in Device |-> [s \in Device |-> 0]]
  /\ held = [d \in Device |-> {}]
  /\ removedMe = [d \in Device |-> {}]
  /\ msgs = {Admission(First), Admission(Second)}
  /\ syncs = {}

\* Everything but new ceremonies.
FormedNext ==
  \/ \E d \in Device, m \in msgs :
       ReceiveIntroduce(d, m) \/ ReceiveRemove(d, m) \/ ReceiveRemovalOfSelf(d, m)
  \/ \E d, x \in Device : Remove(d, x)
  \/ \E d \in Device : SendSync(d)
  \/ \E m \in syncs : LoseSync(m) \/ \E d \in Device : ReceiveSync(d, m)

FormedSpec ==
  /\ FormedInit /\ [][FormedNext]_vars
  /\ SyncsReach(First, Second) /\ RemovalReaches(First, Second)

(* What First has removed, Second stops counting as a member while it still *)
(* listens to First: the removal of the founder, who brought both in, made  *)
(* concurrently with any other removal.                                     *)
RemovalOfFounderSpreads == RemovalSpreads(First, Second, Founder)

(* First and Second remove each other, whatever the founder does meanwhile: *)
(* Second comes to see the split.                                           *)
MutualEvictionSurfaces == EvictionSurfaces(First, Second)
=============================================================================
