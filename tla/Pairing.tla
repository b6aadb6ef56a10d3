------------------------------ MODULE Pairing ------------------------------
(***************************************************************************)
(* How the devices of a family become able to send to each other           *)
(* (pairing.rs), on top of what the roster promises (Membership): a device *)
(* that joins is paired with its introducer on the spot, and its address   *)
(* is carried to everyone else by a member that reaches both.              *)
(*                                                                         *)
(* An address is a queue its owner made for one peer; a queue is dead once *)
(* the owner rotated it.  An offer is the address sealed by its owner to   *)
(* that peer, and the session layer opens it only as the work of the       *)
(* device whose session it is; who handed an envelope over is what the     *)
(* session authenticated.  The driver, which the repository has in its     *)
(* contract tests (membership.rs), is modelled from them.  Envelopes are   *)
(* lost and delivered again, and some devices make offers up.              *)
(*                                                                         *)
(* A definition named Op_Variant, just before Op, is Op with a plausible   *)
(* mistake in it; no action uses it.                                       *)
(***************************************************************************)
EXTENDS Naturals, FiniteSets

CONSTANTS
  Device, Founder,
  Dishonest,     \* the devices that make offers up
  MaxTroubles    \* bound of the model: queues replaced, envelopes lost, delivered
                 \* again and made up, and changes of the family but joining

ASSUME PairingAssumption ==
  /\ Founder \in Device
  /\ Dishonest \subseteq Device
  /\ MaxTroubles \in Nat

VARIABLES
  view, vouches,  \* the family, as the roster of each device sees it
  minted,    \* minted[q][d]: how many queues q has made for d; the last is live
  route,     \* route[d][q]: the address d sends to q at
  wire,      \* the envelopes that carry an offer and are under way
  handed,    \* the offers owners handed to a courier
  troubles

family == <<view, vouches>>
vars == <<family, minted, route, wire, handed, troubles>>

Family == INSTANCE Membership WITH Device <- Device, Founder <- Founder,
                                   view <- view, vouches <- vouches

None == [owner |-> Founder, number |-> 0]

IsActive(d, x) == view[d][x] = "member"
Address(q, d) == [owner |-> q, number |-> minted[q][d]]
Reaches(d, q) == route[d][q] # None /\ route[d][q] = Address(q, d)
Trouble == troubles < MaxTroubles /\ troubles' = troubles + 1

Offer(q, d) == [of |-> q, for |-> d, seal |-> q, address |-> Address(q, d)']
Carried(from, to, o) == [from |-> from, to |-> to, offer |-> o]

-----------------------------------------------------------------------------
(* The family.  Two devices that meet exchange addresses on the spot.      *)
Join(i, x) ==
  /\ i # x
  /\ Family!Join(i, x)
  /\ minted' = [minted EXCEPT ![i][x] = 1, ![x][i] = 1]
  /\ route' = [route EXCEPT ![i][x] = Address(x, i)', ![x][i] = Address(i, x)']
  /\ UNCHANGED <<wire, handed, troubles>>

Admit(d, x) ==
  /\ Family!Admit(d, x)
  /\ UNCHANGED <<minted, route, wire, handed, troubles>>

Leave(d, x) ==
  /\ Family!Remove(d, {x}) \/ Family!Suspend(d, {x})
  /\ view' # view
  /\ Trouble
  /\ UNCHANGED <<minted, route, wire, handed>>

-----------------------------------------------------------------------------
(* Who is owed an address, what is relayed and what is accepted.           *)
PeersNeedingOffers_Once(d) ==
  {x \in Device : IsActive(d, x) /\ x # d /\ route[d][x] = None /\ minted[d][x] = 0}
PeersNeedingOffers(d) == {x \in Device : IsActive(d, x) /\ x # d /\ route[d][x] = None}

RelayTarget(d, o, from) ==
  o.for # d /\ o.of = from /\ IsActive(d, o.of) /\ IsActive(d, o.for)

AcceptOffer_OfAnyone(d, o, by) == o.for = d /\ o.of # d /\ IsActive(d, by)
AcceptOffer(d, o, by) ==
  o.for = d /\ o.of # d /\ IsActive(d, by) /\ IsActive(d, o.of)

\* The offer is opened with the session of the device it claims to be of.
Unseals_RelayersSession(o, by) == o.seal \in {o.of, by}
Unseals(o, by) == o.seal = o.of

-----------------------------------------------------------------------------
(* The driver.  d opens a queue for x if there is none, and has a courier   *)
(* that it reaches take the address there.                                 *)
OpenQueue(q, d) == minted' = [minted EXCEPT ![q][d] = IF @ = 0 THEN 1 ELSE @]

MakeOffer(d, x, c) ==
  /\ x \in PeersNeedingOffers(d)
  /\ c \notin {d, x}
  /\ Reaches(d, c)
  /\ OpenQueue(d, x)
  /\ Carried(d, c, Offer(d, x)) \notin wire
  /\ wire' = wire \cup {Carried(d, c, Offer(d, x))}
  /\ handed' = handed \cup {<<c, Offer(d, x)>>}
  /\ UNCHANGED <<family, route, troubles>>

\* The courier passes it on, if it can.
Relay(e, d) ==
  /\ RelayTarget(d, e.offer, e.from)
  /\ wire' = (wire \ {e}) \cup
       (IF Reaches(d, e.offer.for) THEN {Carried(d, e.offer.for, e.offer)} ELSE {})
  /\ UNCHANGED <<minted, route>>

\* The peer attaches the address, and to an offer that was carried answers with
\* its own, over the channel there now is.
Accept(e, d) ==
  LET o == e.offer
      answer == Carried(d, o.of, Offer(d, o.of)) IN
  /\ AcceptOffer(d, o, e.from)
  /\ IF Unseals(o, e.from)
     THEN /\ route' = [route EXCEPT ![d][o.of] = o.address]
          /\ IF o.of = e.from
             THEN UNCHANGED minted /\ wire' = wire \ {e}
             ELSE /\ OpenQueue(d, o.of)
                  /\ wire' = (wire \ {e}) \cup
                       (IF o.address = Address(o.of, d) THEN {answer} ELSE {})
     ELSE UNCHANGED <<minted, route>> /\ wire' = wire \ {e}

Refuse(e, d) ==
  /\ ~RelayTarget(d, e.offer, e.from)
  /\ ~AcceptOffer(d, e.offer, e.from)
  /\ wire' = wire \ {e}
  /\ UNCHANGED <<minted, route>>

\* Something that is there for d is looked at, or nothing is there.
Deliver(d) ==
  /\ \/ \E e \in {x \in wire : x.to = d} : Relay(e, d) \/ Accept(e, d) \/ Refuse(e, d)
     \/ (\A e \in wire : e.to # d) /\ UNCHANGED <<minted, route, wire>>
  /\ UNCHANGED <<family, handed, troubles>>

\* The owner replaces a queue and tells the peer, if it reaches it.
Rotate(q, d) ==
  /\ minted[q][d] # 0
  /\ Trouble
  /\ minted' = [minted EXCEPT ![q][d] = @ + 1]
  /\ wire' = wire \cup (IF Reaches(q, d) THEN {Carried(q, d, Offer(q, d))} ELSE {})
  /\ UNCHANGED <<family, route, handed>>

\* A message comes back with the news that the queue is gone.
SendRetired(d, q) ==
  /\ route[d][q] # None
  /\ ~Reaches(d, q)
  /\ route' = [route EXCEPT ![d][q] = None]
  /\ UNCHANGED <<family, minted, wire, handed, troubles>>

-----------------------------------------------------------------------------
(* What goes wrong on the way.                                             *)
Lose ==
  /\ \E e \in wire : wire' = wire \ {e}
  /\ Trouble
  /\ UNCHANGED <<family, minted, route, handed>>

\* An offer a courier has been handed, or has made up, is put on the way.
Inject(b) ==
  /\ \E o \in {h[2] : h \in {k \in handed : k[1] = b}}
             \cup [of : Device, for : Device \ {b}, seal : {b},
                   address : {[owner |-> b, number |-> 1]}] :
       \E c \in {x \in Device : Reaches(b, x)} :
         /\ b \in Dishonest \/ (c = o.for /\ <<b, o>> \in handed)
         /\ Carried(b, c, o) \notin wire
         /\ wire' = wire \cup {Carried(b, c, o)}
         /\ handed' = IF o.of = b THEN handed \cup {<<c, o>>} ELSE handed
  /\ Trouble
  /\ UNCHANGED <<family, minted, route>>

-----------------------------------------------------------------------------
Init ==
  /\ Family!Init
  /\ minted = [q \in Device |-> [d \in Device |-> 0]]
  /\ route = [d \in Device |-> [q \in Device |-> None]]
  /\ wire = {}
  /\ handed = {}
  /\ troubles = 0

Next ==
  \/ \E d, x \in Device :
       Join(d, x) \/ Admit(d, x) \/ Leave(d, x) \/ Rotate(d, x) \/ SendRetired(d, x)
  \/ \E d, x, c \in Device : MakeOffer(d, x, c)
  \/ \E d \in Device : Deliver(d) \/ Inject(d)
  \/ Lose

\* The driver delivers what arrives, offers an address to whom it is owed, through
\* every courier there is, and finds out about dead queues as it sends.
Spec ==
  /\ Init /\ [][Next]_vars
  /\ \A d \in Device : WF_vars(Deliver(d))
  /\ \A d \in Device : \A x \in Device \ {d} :
       /\ WF_vars(SendRetired(d, x))
       /\ \A c \in Device \ {d, x} : WF_vars(MakeOffer(d, x, c))

-----------------------------------------------------------------------------
Addresses == [owner : Device, number : Nat]
Offers == [of : Device, for : Device, seal : Device, address : Addresses]

\* Routes, envelopes and queues are of the devices there are, and what is counted
\* stays in its bounds.
TypeOK ==
  /\ view \in [Device -> [Device -> Family!Standing]]
  /\ vouches \subseteq Device \X Device
  /\ minted \in [Device -> [Device -> 0..(1 + MaxTroubles)]]
  /\ route \in [Device -> [Device -> Addresses]]
  /\ wire \subseteq [from : Device, to : Device, offer : Offers]
  /\ handed \subseteq Device \X Offers
  /\ troubles \in 0..MaxTroubles

\* "An address its owner personally handed it" (pairing.rs, relay_target): an
\* honest courier passes on only what the owner itself sealed and handed to it.
CourierCarriesOwn ==
  \A e \in wire :
    (e.from # e.offer.of /\ e.from \notin Dishonest) => <<e.from, e.offer>> \in handed

\* "There is no path from unvalidated bytes to an attached address" (pairing.rs,
\* AcceptedOffer): a device sends to another only where that one made a queue for it,
\* whoever carried the address and whatever was made up on the way.
RouteIsOwners ==
  \A d, q \in Device :
    route[d][q] # None =>
      /\ route[d][q].owner = q
      /\ q \notin Dishonest => route[d][q].number \in 1..minted[q][d]

\* "Removal is fail-safe, so the late offer loses" (pairing.rs tests): a device that
\* is not, or no longer, of the family gets no new address attached, by an offer
\* made before it was removed either, nor on the word of one who is not.
LateOfferLoses ==
  [][\A d, q \in Device :
       route'[d][q] \notin {route[d][q], None} => view'[d][q] = "member"]_vars

\* An offer that is lost, refused because its vouch is still on its way, or made
\* through a courier that cannot pass it on keeps no two members apart: when
\* everyone is a member to everyone and no queue was replaced, every device comes
\* to reach every other (pairing.rs, peers_needing_offers: "the joiner can ask again").
Whole == \A d, q \in Device : IsActive(d, q) /\ minted[q][d] < 2
Connected == \A d, q \in Device : d # q => Reaches(d, q)
EveryPairGoesLive == (<>[]Whole) => <>[]Connected
=============================================================================
