---------------------------- MODULE PairingProofs ----------------------------
(***************************************************************************)
(* RouteIsOwners, LateOfferLoses and CourierCarriesOwn for any family, any  *)
(* dishonest devices and any troubles.                                     *)
(*                                                                         *)
(* A route is attached long after the offer was sealed, and by way of      *)
(* couriers, so the invariant is about what is on the way and what was     *)
(* handed over: an offer names a queue of the device that sealed it, and   *)
(* an honest one seals only in its own name, for queues it has made.       *)
(* Queues are numbered anew when two devices meet; they meet before the    *)
(* newcomer has made any, which is what Strangers says.                    *)
(***************************************************************************)
EXTENDS Pairing, TLAPS

Shapes ==
  /\ view \in [Device -> [Device -> Family!Standing]]
  /\ minted \in [Device -> [Device -> Nat]]
  /\ route \in [Device -> [Device -> Addresses]]
  /\ wire \subseteq [from : Device, to : Device, offer : Offers]
  /\ handed \subseteq Device \X Offers

\* The address a of owner q for d is one that q has, unless q makes things up.
OwnersTrue(a, q, d) == a.owner = q /\ (q \notin Dishonest => a.number \in 1..minted[q][d])

OfferTrue(o) ==
  /\ OwnersTrue(o.address, o.seal, o.for)
  /\ o.seal \notin Dishonest => o.of = o.seal

\* Nobody has made a queue for, or vouched for, a device that is in no family yet, which
\* knows nobody and has made none.
Strangers ==
  \A x \in Device : view[x][x] = "stranger" =>
    \A d \in Device : /\ view[d][x] # "member" /\ view[x][d] = "stranger"
                      /\ <<d, x>> \notin vouches
                      /\ minted[d][x] = 0 /\ minted[x][d] = 0

OffersTrue ==
  /\ \A e \in wire : OfferTrue(e.offer)
  /\ \A h \in handed : OfferTrue(h[2])

RoutesTrue == \A d, q \in Device : route[d][q] # None => OwnersTrue(route[d][q], q, d)

IInv == Shapes /\ Strangers /\ OffersTrue /\ RoutesTrue

-----------------------------------------------------------------------------
LEMMA InitHolds == Init => IInv
  <1> SUFFICES ASSUME Init PROVE IInv
    OBVIOUS
  <1>1. Shapes
    BY PairingAssumption DEF Init, Shapes, Family!Init, Family!Standing, None, Addresses
  <1>2. Strangers
    BY PairingAssumption DEF Init, Strangers, Family!Init
  <1>3. OffersTrue /\ RoutesTrue
    BY DEF Init, OffersTrue, RoutesTrue
  <1> QED
    BY <1>1, <1>2, <1>3 DEF IInv

\* Queues are only ever added.
Grows ==
  /\ minted' \in [Device -> [Device -> Nat]]
  /\ \A q, d \in Device : minted[q][d] <= minted'[q][d]

LEMMA StaysTrue ==
  ASSUME Shapes, Grows, NEW q \in Device, NEW d \in Device, NEW a, OwnersTrue(a, q, d)
  PROVE  a.owner = q /\ (q \notin Dishonest => a.number \in 1..minted'[q][d])
  <1>1. minted[q][d] \in Nat /\ minted'[q][d] \in Nat /\ minted[q][d] <= minted'[q][d]
    BY DEF Shapes, Grows
  <1> QED
    BY <1>1 DEF OwnersTrue

LEMMA OfferStaysTrue ==
  ASSUME Shapes, Grows, NEW o \in Offers, OfferTrue(o)
  PROVE  OfferTrue(o)'
  <1>1. o.seal \in Device /\ o.for \in Device
    BY DEF Offers
  <1> QED
    BY <1>1, StaysTrue DEF OfferTrue, OwnersTrue

\* Offers that are there already stay true.
LEMMA OffersStayTrue ==
  ASSUME IInv, Grows
  PROVE  /\ \A e \in wire : OfferTrue(e.offer)'
         /\ \A h \in handed : OfferTrue(h[2])'
         /\ \A d, q \in Device : route[d][q] # None =>
              route[d][q].owner = q /\ (q \notin Dishonest => route[d][q].number \in 1..minted'[q][d])
  <1>1. \A e \in wire : e.offer \in Offers /\ OfferTrue(e.offer)
    BY DEF IInv, Shapes, OffersTrue
  <1>2. \A h \in handed : h[2] \in Offers /\ OfferTrue(h[2])
    BY DEF IInv, Shapes, OffersTrue
  <1>3. \A e \in wire : OfferTrue(e.offer)'
    BY <1>1, OfferStaysTrue DEF IInv
  <1>4. \A h \in handed : OfferTrue(h[2])'
    BY <1>2, OfferStaysTrue DEF IInv
  <1> QED
    BY <1>3, <1>4, StaysTrue DEF IInv, RoutesTrue

\* An offer a device makes of the last queue it has made is true.
LEMMA OwnOffer ==
  ASSUME Shapes, Grows, NEW q \in Device, NEW d \in Device, minted'[q][d] # 0,
         NEW o, o = Offer(q, d)
  PROVE  o \in Offers /\ OfferTrue(o)'
  <1>1. minted'[q][d] \in Nat /\ minted'[q][d] \in 1..minted'[q][d]
    BY DEF Grows
  <1>2. o = [of |-> q, for |-> d, seal |-> q,
             address |-> [owner |-> q, number |-> minted'[q][d]]]
    BY DEF Offer, Address
  <1>3. /\ o \in Offers /\ o.seal = q /\ o.of = q /\ o.for = d
        /\ o.address.owner = q /\ o.address.number = minted'[q][d]
    BY <1>1, <1>2 DEF Offers, Addresses
  <1> QED
    BY <1>1, <1>3 DEF OfferTrue, OwnersTrue

LEMMA OpenGrows ==
  ASSUME IInv, NEW q \in Device, NEW d \in Device, OpenQueue(q, d),
         view[d][d] # "stranger", view[q][q] # "stranger", UNCHANGED family
  PROVE  Grows /\ minted'[q][d] # 0 /\ Strangers'
  <1>1. /\ minted' \in [Device -> [Device -> Nat]]
        /\ \A x, y \in Device : minted'[x][y] = IF x = q /\ y = d /\ minted[q][d] = 0
                                                THEN 1 ELSE minted[x][y]
    BY DEF IInv, Shapes, OpenQueue
  <1>2. Grows /\ minted'[q][d] # 0
    BY <1>1 DEF Grows, IInv, Shapes
  <1>3. Strangers'
    BY <1>1 DEF IInv, Strangers, family
  <1> QED
    BY <1>2, <1>3

LEMMA NoneMade == ASSUME Shapes, UNCHANGED minted PROVE Grows
  BY DEF Shapes, Grows

\* A step keeps the invariant when what it adds is true.
LEMMA StepHolds ==
  ASSUME IInv, Grows, Shapes', Strangers',
         \A e \in wire' \ wire : OfferTrue(e.offer)',
         \A h \in handed' \ handed : OfferTrue(h[2])',
         \A d, q \in Device : route'[d][q] \in {route[d][q], None} \/ OwnersTrue(route[d][q], q, d)'
  PROVE  IInv'
  <1>1. OffersTrue'
    BY OffersStayTrue DEF OffersTrue
  <1>2. RoutesTrue'
    <2> SUFFICES ASSUME NEW d \in Device, NEW q \in Device, route'[d][q] # None
                 PROVE  OwnersTrue(route[d][q], q, d)'
      BY DEF RoutesTrue, None
    <2>1. CASE route'[d][q] = route[d][q]
      BY <2>1, OffersStayTrue DEF OwnersTrue
    <2> QED
      BY <2>1
  <1> QED
    BY <1>1, <1>2 DEF IInv

\* What leaves queues, envelopes and routes alone.
LEMMA FamilyHolds ==
  ASSUME IInv, UNCHANGED <<minted, route, wire, handed>>,
         view' \in [Device -> [Device -> Family!Standing]], Strangers'
  PROVE  IInv'
  <1>1. Shapes' /\ Grows
    BY DEF IInv, Shapes, Grows
  <1> QED
    BY <1>1, StepHolds

LEMMA JoinHolds ==
  ASSUME IInv, NEW i \in Device, NEW x \in Device, Join(i, x)
  PROVE  IInv'
  <1>1. i # x /\ view[i][i] = "member" /\ view[x][x] = "stranger"
    BY DEF Join, Family!Join
  <1>2. PICK left \in SUBSET {y \in Device : view[i][y] = "suspended"} :
          view' = [view EXCEPT
                     ![i][x] = "member",
                     ![x] = [y \in Device |->
                               IF y = x THEN "member"
                               ELSE IF y \in left THEN "stranger" ELSE view[i][y]]]
    BY DEF Join, Family!Join
  <1>3. /\ view' \in [Device -> [Device -> Family!Standing]]
        /\ \A d, y \in Device : d # x => view'[d][y] = IF d = i /\ y = x THEN "member" ELSE view[d][y]
        /\ \A y \in Device : view'[x][y] \in {"member", "stranger", view[i][y]}
        /\ \A y \in Device : y # x => view'[x][y] \in {"stranger", view[i][y]}
        /\ view'[x][x] = "member"
    <2> DEFINE row == [y \in Device |-> IF y = x THEN "member"
                                        ELSE IF y \in left THEN "stranger" ELSE view[i][y]]
               mid == [view EXCEPT ![i][x] = "member"]
    <2>1. view' = [mid EXCEPT ![x] = row]
      BY <1>2
    <2>2. row \in [Device -> Family!Standing]
      BY DEF IInv, Shapes, Family!Standing
    <2>3. /\ mid \in [Device -> [Device -> Family!Standing]]
          /\ \A d, y \in Device : mid[d][y] = IF d = i /\ y = x THEN "member" ELSE view[d][y]
      BY DEF IInv, Shapes, Family!Standing
    <2>4. \A y \in Device : row[y] = IF y = x THEN "member"
                                     ELSE IF y \in left THEN "stranger" ELSE view[i][y]
      OBVIOUS
    <2> HIDE DEF row, mid
    <2> QED
      BY <2>1, <2>2, <2>3, <2>4
  <1>4. minted[i][x] = 0 /\ minted[x][i] = 0
    BY <1>1 DEF IInv, Strangers
  <1>5. /\ minted' \in [Device -> [Device -> Nat]]
        /\ \A q, d \in Device : minted'[q][d] =
             IF (q = i /\ d = x) \/ (q = x /\ d = i) THEN 1 ELSE minted[q][d]
    <2> DEFINE mid == [minted EXCEPT ![i][x] = 1]
    <2>1. minted' = [mid EXCEPT ![x][i] = 1]
      BY DEF Join
    <2>2. /\ mid \in [Device -> [Device -> Nat]]
          /\ \A q, d \in Device : mid[q][d] = IF q = i /\ d = x THEN 1 ELSE minted[q][d]
      BY DEF IInv, Shapes
    <2> HIDE DEF mid
    <2> QED
      BY <2>1, <2>2
  <1>6. Grows
    BY <1>4, <1>5 DEF Grows, IInv, Shapes
  <1>7. /\ route' \in [Device -> [Device -> Addresses]]
        /\ \A d, q \in Device : route'[d][q] =
             IF (d = i /\ q = x) \/ (d = x /\ q = i) THEN [owner |-> q, number |-> 1]
             ELSE route[d][q]
    <2> DEFINE atX == [owner |-> x, number |-> 1]
               atI == [owner |-> i, number |-> 1]
               mid == [route EXCEPT ![i][x] = atX]
    <2>1. Address(x, i)' = atX /\ Address(i, x)' = atI
      BY <1>5 DEF Address
    <2>2. route' = [mid EXCEPT ![x][i] = atI]
      BY <2>1 DEF Join
    <2>3. atX \in Addresses /\ atI \in Addresses /\ atX.owner = x /\ atI.owner = i
      BY DEF Addresses
    <2>4. /\ mid \in [Device -> [Device -> Addresses]]
          /\ \A d, q \in Device : mid[d][q] = IF d = i /\ q = x THEN atX ELSE route[d][q]
      <3> HIDE DEF atX
      <3> QED
        BY <2>3 DEF IInv, Shapes, mid
    <2>5. \A d, q \in Device : route'[d][q] = IF d = x /\ q = i THEN atI ELSE mid[d][q]
      <3> HIDE DEF atI, mid
      <3> QED
        BY <2>2, <2>4
    <2>6. route' \in [Device -> [Device -> Addresses]]
      <3> HIDE DEF atI, mid
      <3> QED
        BY <2>2, <2>3, <2>4
    <2> QED
      BY <1>1, <2>4, <2>5, <2>6
  <1>8. UNCHANGED wire /\ UNCHANGED handed /\ vouches' = vouches \cup {<<i, x>>}
    BY DEF Join, Family!Join
  <1>9. Shapes'
    BY <1>3, <1>5, <1>7, <1>8 DEF IInv, Shapes
  <1>10. Strangers'
    <2> SUFFICES ASSUME NEW y \in Device, view'[y][y] = "stranger", NEW d \in Device
                 PROVE  /\ view'[d][y] # "member" /\ view'[y][d] = "stranger"
                        /\ <<d, y>> \notin vouches'
                        /\ minted'[d][y] = 0 /\ minted'[y][d] = 0
      BY DEF Strangers
    <2>1. y # x /\ y # i /\ view[y][y] = "stranger"
      BY <1>1, <1>3
    <2>2. /\ view[d][y] # "member" /\ view[i][y] # "member" /\ view[y][d] = "stranger"
          /\ <<d, y>> \notin vouches /\ minted[d][y] = 0 /\ minted[y][d] = 0
      BY <2>1 DEF IInv, Strangers
    <2> QED
      BY <2>1, <2>2, <1>3, <1>5, <1>8
  <1>11. \A d, q \in Device :
           route'[d][q] \in {route[d][q], None} \/ OwnersTrue(route[d][q], q, d)'
    <2> SUFFICES ASSUME NEW d \in Device, NEW q \in Device,
                        (d = i /\ q = x) \/ (d = x /\ q = i)
                 PROVE  OwnersTrue(route[d][q], q, d)'
      BY <1>7
    <2>1. route'[d][q] = [owner |-> q, number |-> 1] /\ minted'[q][d] = 1
      BY <1>5, <1>7
    <2>2. route'[d][q].owner = q /\ route'[d][q].number = 1 /\ 1 \in 1..minted'[q][d]
      BY <2>1
    <2> QED
      BY <2>2 DEF OwnersTrue
  <1> QED
    BY <1>6, <1>8, <1>9, <1>10, <1>11, StepHolds

LEMMA AdmitHolds ==
  ASSUME IInv, NEW d \in Device, NEW x \in Device, Admit(d, x)
  PROVE  IInv'
  <1>1. PICK v \in Device : view[d][v] = "member" /\ <<v, x>> \in vouches
    BY DEF Admit, Family!Admit
  <1>2. view[d][d] # "stranger" /\ view[x][x] # "stranger"
    BY <1>1 DEF IInv, Strangers
  <1>3. /\ view' = [view EXCEPT ![d][x] = "member"]
        /\ UNCHANGED <<vouches, minted, route, wire, handed>>
    BY DEF Admit, Family!Admit
  <1>4. /\ view' \in [Device -> [Device -> Family!Standing]]
        /\ \A p, y \in Device : view'[p][y] = IF p = d /\ y = x THEN "member" ELSE view[p][y]
    BY <1>3 DEF IInv, Shapes, Family!Standing
  <1>5. Strangers'
    BY <1>2, <1>3, <1>4 DEF IInv, Strangers
  <1> QED
    BY <1>3, <1>4, <1>5, FamilyHolds

LEMMA LeaveHolds ==
  ASSUME IInv, NEW d \in Device, NEW x \in Device, Leave(d, x)
  PROVE  IInv'
  <1>1. UNCHANGED <<vouches, minted, route, wire, handed>>
    BY DEF Leave, Family!Remove, Family!Suspend
  <1>2. /\ view' \in [Device -> [Device -> Family!Standing]]
        /\ \A p, y \in Device :
             /\ view'[p][y] \in {view[p][y], "gone", "suspended"}
             /\ view[p][y] = "stranger" => view'[p][y] = "stranger" \/ view[p][p] # "stranger"
    <2>1. CASE Family!Remove(d, {x})
      <3>1. view[d][d] # "stranger"
        BY <2>1 DEF IInv, Strangers, Family!Remove
      <3>2. view' = [view EXCEPT ![d] = [y \in Device |-> IF y \in {x} THEN "gone" ELSE view[d][y]]]
        BY <2>1 DEF Family!Remove
      <3> QED
        BY <3>1, <3>2 DEF IInv, Shapes, Family!Standing
    <2>2. CASE Family!Suspend(d, {x})
      <3>1. view' = [view EXCEPT ![d] = [y \in Device |->
               IF y \in {x} /\ view[d][y] = "member" THEN "suspended" ELSE view[d][y]]]
        BY <2>2 DEF Family!Suspend
      <3> QED
        BY <3>1 DEF IInv, Shapes, Family!Standing
    <2> QED
      BY <2>1, <2>2 DEF Leave
  <1>3. Strangers'
    BY <1>1, <1>2 DEF IInv, Strangers
  <1> QED
    BY <1>1, <1>2, <1>3, FamilyHolds

-----------------------------------------------------------------------------
\* An envelope with a true offer is one that may be on the way.
LEMMA CarriedTrue ==
  ASSUME NEW from \in Device, NEW to \in Device, NEW o \in Offers
  PROVE  /\ Carried(from, to, o) \in [from : Device, to : Device, offer : Offers]
         /\ Carried(from, to, o).offer = o
  BY DEF Carried

\* One queue more, of a device that is in the family, for one that is.
LEMMA RotationGrows ==
  ASSUME IInv, NEW q \in Device, NEW d \in Device, minted[q][d] # 0,
         minted' = [minted EXCEPT ![q][d] = minted[q][d] + 1], UNCHANGED family
  PROVE  Grows /\ minted'[q][d] # 0 /\ Strangers'
  <1>1. /\ minted' \in [Device -> [Device -> Nat]]
        /\ \A x, y \in Device : minted'[x][y] = IF x = q /\ y = d THEN minted[q][d] + 1
                                                ELSE minted[x][y]
    BY DEF IInv, Shapes
  <1>2. Grows /\ minted'[q][d] # 0
    BY <1>1 DEF Grows, IInv, Shapes
  <1>3. Strangers'
    BY <1>1 DEF IInv, Strangers, family
  <1> QED
    BY <1>2, <1>3

LEMMA StrangersStay ==
  ASSUME IInv, UNCHANGED family, UNCHANGED minted
  PROVE  Grows /\ Strangers'
  BY DEF IInv, Strangers, family, Grows, Shapes

LEMMA MakeOfferHolds ==
  ASSUME IInv, NEW d \in Device, NEW x \in Device, NEW c \in Device, MakeOffer(d, x, c)
  PROVE  IInv'
  <1>1. view[x][x] # "stranger" /\ view[d][d] # "stranger"
    BY DEF MakeOffer, PeersNeedingOffers, IsActive, IInv, Strangers
  <1>2. OpenQueue(d, x) /\ UNCHANGED family /\ UNCHANGED route
    BY DEF MakeOffer
  <1>3. Grows /\ minted'[d][x] # 0 /\ Strangers'
    BY <1>1, <1>2, OpenGrows
  <1>o. PICK o : o = Offer(d, x)
    OBVIOUS
  <1>4. o \in Offers /\ OfferTrue(o)'
    BY <1>3, <1>o, OwnOffer DEF IInv
  <1>5. wire' = wire \cup {Carried(d, c, o)} /\ handed' = handed \cup {<<c, o>>}
    BY <1>o DEF MakeOffer
  <1>6. Shapes'
    BY <1>2, <1>3, <1>4, <1>5, CarriedTrue DEF IInv, Shapes, Grows, family
  <1>7. \A e \in wire' \ wire : e.offer = o
    BY <1>4, <1>5, CarriedTrue
  <1>8. \A h \in handed' \ handed : h[2] = o
    BY <1>5
  <1> QED
    BY <1>2, <1>3, <1>4, <1>6, <1>7, <1>8, StepHolds

LEMMA RotateHolds ==
  ASSUME IInv, NEW q \in Device, NEW d \in Device, Rotate(q, d)
  PROVE  IInv'
  <1>1. UNCHANGED <<family, route, handed>>
    BY DEF Rotate
  <1>2. Grows /\ minted'[q][d] # 0 /\ Strangers'
    BY RotationGrows DEF Rotate
  <1>o. PICK o : o = Offer(q, d)
    OBVIOUS
  <1>3. o \in Offers /\ OfferTrue(o)'
    BY <1>2, <1>o, OwnOffer DEF IInv
  <1>4. wire' \subseteq wire \cup {Carried(q, d, o)}
    BY <1>o DEF Rotate
  <1>5. Shapes'
    BY <1>1, <1>2, <1>3, <1>4, CarriedTrue DEF IInv, Shapes, Grows, family
  <1>6. \A e \in wire' \ wire : e.offer = o
    BY <1>3, <1>4, CarriedTrue
  <1> QED
    BY <1>1, <1>2, <1>3, <1>5, <1>6, StepHolds

\* What is taken off the way, or forgotten, adds nothing.
LEMMA SendRetiredHolds ==
  ASSUME IInv, NEW d \in Device, NEW q \in Device, SendRetired(d, q)
  PROVE  IInv'
  <1>1. UNCHANGED <<family, minted, wire, handed>> /\ route' = [route EXCEPT ![d][q] = None]
    BY DEF SendRetired
  <1>2. None \in Addresses
    BY PairingAssumption DEF None, Addresses
  <1>3. /\ route' \in [Device -> [Device -> Addresses]]
        /\ \A x, y \in Device : route'[x][y] \in {route[x][y], None}
    BY <1>1, <1>2 DEF IInv, Shapes
  <1>4. Grows /\ Strangers'
    BY <1>1, StrangersStay
  <1>5. Shapes'
    BY <1>1, <1>3 DEF IInv, Shapes, family
  <1> QED
    BY <1>1, <1>3, <1>4, <1>5, StepHolds

LEMMA LoseHolds ==
  ASSUME IInv, Lose
  PROVE  IInv'
  <1>1. UNCHANGED <<family, minted, route, handed>> /\ wire' \subseteq wire
    BY DEF Lose
  <1>2. Grows /\ Strangers'
    BY <1>1, StrangersStay
  <1>3. Shapes'
    BY <1>1 DEF IInv, Shapes, family
  <1> QED
    BY <1>1, <1>2, <1>3, StepHolds

\* What an honest courier repeats it was handed; what is made up bears the seal of one
\* that makes things up.
LEMMA InjectHolds ==
  ASSUME IInv, NEW b \in Device, Inject(b)
  PROVE  IInv'
  <1>1. UNCHANGED <<family, minted, route>>
    BY DEF Inject
  <1>2. Grows /\ Strangers'
    BY <1>1, StrangersStay
  <1>3. PICK o \in {h[2] : h \in {k \in handed : k[1] = b}}
                   \cup [of : Device, for : Device \ {b}, seal : {b},
                         address : {[owner |-> b, number |-> 1]}],
             c \in Device :
          /\ b \in Dishonest \/ <<b, o>> \in handed
          /\ wire' = wire \cup {Carried(b, c, o)}
          /\ handed' \subseteq handed \cup {<<c, o>>}
    BY DEF Inject
  <1>4. o \in Offers /\ OfferTrue(o)
    <2>1. CASE \E h \in handed : o = h[2]
      BY <2>1 DEF IInv, Shapes, OffersTrue
    <2>2. CASE /\ b \in Dishonest
               /\ o \in [of : Device, for : Device, seal : {b}, address : {[owner |-> b, number |-> 1]}]
      BY <2>2 DEF Offers, Addresses, OfferTrue, OwnersTrue
    <2>3. CASE <<b, o>> \in handed
      BY <2>3, <2>1
    <2> QED
      BY <1>3, <2>1, <2>2, <2>3
  <1>5. OfferTrue(o)'
    BY <1>2, <1>4, OfferStaysTrue DEF IInv
  <1>6. Shapes'
    BY <1>1, <1>3, <1>4, CarriedTrue DEF IInv, Shapes, family
  <1>7. /\ \A e \in wire' \ wire : e.offer = o
        /\ \A h \in handed' \ handed : h[2] = o
    BY <1>3, <1>4, CarriedTrue
  <1> QED
    BY <1>1, <1>2, <1>5, <1>6, <1>7, StepHolds

-----------------------------------------------------------------------------
LEMMA RelayHolds ==
  ASSUME IInv, UNCHANGED family, UNCHANGED handed,
         NEW e \in wire, NEW d \in Device, e.to = d, Relay(e, d)
  PROVE  IInv'
  <1>1. UNCHANGED minted /\ UNCHANGED route
    BY DEF Relay
  <1>2. Grows /\ Strangers'
    BY <1>1, StrangersStay
  <1> DEFINE o == e.offer
  <1>3. o \in Offers /\ o.for \in Device /\ OfferTrue(o)
    BY DEF IInv, Shapes, OffersTrue, Offers
  <1>4. wire' \subseteq wire \cup {Carried(d, o.for, o)}
    BY DEF Relay
  <1> HIDE DEF o
  <1>5. OfferTrue(o)'
    BY <1>2, <1>3, OfferStaysTrue DEF IInv
  <1>6. Shapes'
    BY <1>1, <1>3, <1>4, CarriedTrue DEF IInv, Shapes, family
  <1>7. \A x \in wire' \ wire : x.offer = o
    BY <1>3, <1>4, CarriedTrue
  <1> QED
    BY <1>1, <1>2, <1>5, <1>6, <1>7, StepHolds

\* The offer that is accepted was opened as the work of the device it is of, so its
\* address is one of that device's; the answer is the accepter's own.
LEMMA AcceptHolds ==
  ASSUME IInv, UNCHANGED family, UNCHANGED handed,
         NEW e \in wire, NEW d \in Device, e.to = d, Accept(e, d)
  PROVE  IInv'
  <1> DEFINE o == e.offer
             q == o.of
             answer == Offer(d, q)
  <1>1. /\ o \in Offers /\ q \in Device /\ o.address \in Addresses /\ OfferTrue(o)
        /\ o.for = d /\ view[d][q] = "member"
    BY DEF IInv, Shapes, OffersTrue, Offers, Accept, AcceptOffer, IsActive
  <1>2. view[d][d] # "stranger" /\ view[q][q] # "stranger"
    BY <1>1 DEF IInv, Strangers
  <1>3. CASE UNCHANGED minted /\ UNCHANGED route /\ wire' \subseteq wire
    <2>1. Grows /\ Strangers'
      BY <1>3, StrangersStay
    <2>2. Shapes'
      BY <1>3 DEF IInv, Shapes, family
    <2> QED
      BY <1>3, <2>1, <2>2, StepHolds
  <1>4. CASE /\ Unseals(o, e.from)
             /\ route' = [route EXCEPT ![d][q] = o.address]
             /\ \/ UNCHANGED minted /\ wire' \subseteq wire
                \/ OpenQueue(d, q) /\ wire' \subseteq wire \cup {Carried(d, q, answer)}
    <2>1. Grows /\ Strangers'
      BY <1>1, <1>2, <1>4, StrangersStay, OpenGrows
    <2>2. OwnersTrue(o.address, q, d)
      BY <1>1, <1>4 DEF OfferTrue, Unseals
    <2>3. OwnersTrue(o.address, q, d)'
      BY <1>1, <2>1, <2>2, StaysTrue DEF IInv, OwnersTrue
    <2>4. \A e2 \in wire' \ wire : e2.offer \in Offers /\ OfferTrue(e2.offer)'
      <3>1. CASE wire' \subseteq wire
        BY <3>1
      <3>2. CASE OpenQueue(d, q) /\ wire' \subseteq wire \cup {Carried(d, q, answer)}
        <4>1. minted'[d][q] # 0
          BY <1>1, <1>2, <3>2, OpenGrows
        <4>2. PICK a : a = answer
          OBVIOUS
        <4>3. a \in Offers /\ OfferTrue(a)'
          BY <1>1, <2>1, <4>1, <4>2, OwnOffer DEF IInv
        <4>4. \A e2 \in wire' \ wire : e2.offer = a
          BY <3>2, <4>2 DEF Carried
        <4> QED
          BY <4>3, <4>4
      <3> QED
        BY <1>4, <3>1, <3>2
    <2>5. \A e2 \in wire' \ wire : e2 \in [from : Device, to : Device, offer : Offers]
      <3>1. \A e2 \in wire' \ wire : e2 = Carried(d, q, answer)
        BY <1>4
      <3> QED
        BY <1>1, <2>4, <3>1 DEF Carried
    <2>6. /\ route' \in [Device -> [Device -> Addresses]]
          /\ \A x, y \in Device : route'[x][y] = IF x = d /\ y = q THEN o.address ELSE route[x][y]
      BY <1>1, <1>4 DEF IInv, Shapes
    <2>7. Shapes'
      BY <2>1, <2>5, <2>6 DEF IInv, Shapes, family, Grows
    <2>8. \A x, y \in Device : route'[x][y] = route[x][y] \/ OwnersTrue(route[x][y], y, x)'
      BY <2>3, <2>6 DEF OwnersTrue
    <2> QED
      BY <2>1, <2>4, <2>7, <2>8, StepHolds
  <1> QED
    BY <1>3, <1>4 DEF Accept

LEMMA DeliverHolds ==
  ASSUME IInv, NEW d \in Device, Deliver(d)
  PROVE  IInv'
  <1>1. UNCHANGED family /\ UNCHANGED handed
    BY DEF Deliver
  <1>2. CASE \E e \in wire : e.to = d /\ (Relay(e, d) \/ Accept(e, d))
    BY <1>1, <1>2, RelayHolds, AcceptHolds
  <1>3. CASE UNCHANGED minted /\ UNCHANGED route /\ wire' \subseteq wire
    <2>1. Grows /\ Strangers'
      BY <1>1, <1>3, StrangersStay
    <2>2. Shapes'
      BY <1>1, <1>3 DEF IInv, Shapes, family
    <2> QED
      BY <1>1, <1>3, <2>1, <2>2, StepHolds
  <1> QED
    BY <1>2, <1>3 DEF Deliver, Refuse

-----------------------------------------------------------------------------
LEMMA NextHolds == IInv /\ [Next]_vars => IInv'
  <1> SUFFICES ASSUME IInv, [Next]_vars PROVE IInv'
    OBVIOUS
  <1>1. CASE \E d, x \in Device :
               Join(d, x) \/ Admit(d, x) \/ Leave(d, x) \/ Rotate(d, x) \/ SendRetired(d, x)
    BY <1>1, JoinHolds, AdmitHolds, LeaveHolds, RotateHolds, SendRetiredHolds
  <1>2. CASE \E d, x, c \in Device : MakeOffer(d, x, c)
    BY <1>2, MakeOfferHolds
  <1>3. CASE \E d \in Device : Deliver(d) \/ Inject(d)
    BY <1>3, DeliverHolds, InjectHolds
  <1>4. CASE Lose
    BY <1>4, LoseHolds
  <1>5. CASE UNCHANGED vars
    BY <1>5 DEF vars, family, IInv, Shapes, Strangers, OffersTrue, OfferTrue, OwnersTrue,
                RoutesTrue
  <1> QED
    BY <1>1, <1>2, <1>3, <1>4, <1>5 DEF Next

\* In any family a device sends to another only where that one made a queue for it: the
\* address is accepted as the work of its owner, whoever carried it (accept_offer).
THEOREM RouteIsOwnersAlways == Spec => []RouteIsOwners
  <1>1. IInv => RouteIsOwners
    BY DEF IInv, RoutesTrue, RouteIsOwners, OwnersTrue
  <1> QED
    BY InitHolds, NextHolds, <1>1, PTL DEF Spec

-----------------------------------------------------------------------------
(* What an attached address takes: its owner is a member.                   *)
NewRoutesAreMembers ==
  \A d, q \in Device : route'[d][q] \notin {route[d][q], None} => view'[d][q] = "member"

LEMMA JoinMeets ==
  ASSUME IInv, NEW i \in Device, NEW x \in Device, Join(i, x)
  PROVE  NewRoutesAreMembers
  <1>1. i # x /\ view[i][i] = "member"
    BY DEF Join, Family!Join
  <1>2. PICK left \in SUBSET {y \in Device : view[i][y] = "suspended"} :
          view' = [view EXCEPT
                     ![i][x] = "member",
                     ![x] = [y \in Device |->
                               IF y = x THEN "member"
                               ELSE IF y \in left THEN "stranger" ELSE view[i][y]]]
    BY DEF Join, Family!Join
  <1>3. view'[i][x] = "member" /\ view'[x][i] = "member"
    <2> DEFINE row == [y \in Device |-> IF y = x THEN "member"
                                        ELSE IF y \in left THEN "stranger" ELSE view[i][y]]
               mid == [view EXCEPT ![i][x] = "member"]
    <2>1. view' = [mid EXCEPT ![x] = row]
      BY <1>2
    <2>2. row[i] = "member"
      BY <1>1
    <2>3. DOMAIN mid = Device /\ mid[i][x] = "member"
      BY DEF IInv, Shapes
    <2> HIDE DEF row, mid
    <2> QED
      BY <1>1, <2>1, <2>2, <2>3
  <1>4. \A d, q \in Device :
          ~((d = i /\ q = x) \/ (d = x /\ q = i)) => route'[d][q] = route[d][q]
    <2> DEFINE mid == [route EXCEPT ![i][x] = Address(x, i)']
               new == [mid EXCEPT ![x][i] = Address(i, x)']
    <2>1. route' = new
      BY DEF Join
    <2>2. /\ mid \in [Device -> [Device -> {mid[d][q] : d, q \in Device}]]
          /\ \A d, q \in Device : ~(d = i /\ q = x) => mid[d][q] = route[d][q]
      BY DEF IInv, Shapes
    <2> HIDE DEF mid
    <2>3. \A d, q \in Device : ~(d = x /\ q = i) => new[d][q] = mid[d][q]
      BY <2>2
    <2> HIDE DEF new
    <2>4. ASSUME NEW d \in Device, NEW q \in Device,
                 ~((d = i /\ q = x) \/ (d = x /\ q = i))
          PROVE  route'[d][q] = route[d][q]
      <3>1. new[d][q] = mid[d][q] /\ mid[d][q] = route[d][q]
        <4>1. ~(d = i /\ q = x) /\ ~(d = x /\ q = i)
          BY <2>4
        <4>2. new[d][q] = mid[d][q]
          BY <2>3, <4>1
        <4>3. mid[d][q] = route[d][q]
          BY <2>2, <4>1
        <4> QED
          BY <4>2, <4>3
      <3> QED
        BY <2>1, <3>1
    <2> QED
      BY <2>4
  <1> QED
    BY <1>3, <1>4 DEF NewRoutesAreMembers

LEMMA AcceptMeets ==
  ASSUME IInv, UNCHANGED family, NEW e \in wire, NEW d \in Device, Accept(e, d)
  PROVE  NewRoutesAreMembers
  <1>1. e.offer.of \in Device /\ view[d][e.offer.of] = "member" /\ UNCHANGED view
    BY DEF IInv, Shapes, Offers, Accept, AcceptOffer, IsActive, family
  <1>2. \/ UNCHANGED route
        \/ route' = [route EXCEPT ![d][e.offer.of] = e.offer.address]
    BY DEF Accept
  <1>3. \A x, q \in Device : ~(x = d /\ q = e.offer.of) => route'[x][q] = route[x][q]
    BY <1>1, <1>2 DEF IInv, Shapes
  <1> QED
    BY <1>1, <1>3 DEF NewRoutesAreMembers

\* "Removal is fail-safe, so the late offer loses": in any family, and in whatever order
\* offers and removals arrive, an address is attached only for a device that is a member
\* at that moment to the one that attaches it.
THEOREM LateOffersLose == Spec => LateOfferLoses
  <1>1. ASSUME IInv, [Next]_vars PROVE NewRoutesAreMembers
    <2>1. CASE UNCHANGED route
      BY <2>1 DEF NewRoutesAreMembers
    <2>2. ASSUME NEW d \in Device, NEW x \in Device, Join(d, x) PROVE NewRoutesAreMembers
      BY <1>1, <2>2, JoinMeets
    <2>3. ASSUME NEW d \in Device, NEW x \in Device, SendRetired(d, x)
          PROVE  NewRoutesAreMembers
      BY <1>1, <2>3 DEF SendRetired, NewRoutesAreMembers, IInv, Shapes
    <2>4. ASSUME NEW d \in Device, Deliver(d) PROVE NewRoutesAreMembers
      BY <1>1, <2>1, <2>4, AcceptMeets DEF Deliver, Relay, Refuse
    <2> QED
      BY <1>1, <2>1, <2>2, <2>3, <2>4
         DEF Next, vars, Admit, Leave, Rotate, MakeOffer, Inject, Lose
  <1>2. IInv /\ [Next]_vars =>
          [\A d, q \in Device :
             route'[d][q] \notin {route[d][q], None} => view'[d][q] = "member"]_vars
    BY <1>1 DEF NewRoutesAreMembers
  <1> QED
    BY <1>2, InitHolds, NextHolds, PTL DEF Spec, LateOfferLoses

-----------------------------------------------------------------------------
(* Couriers.  An envelope from the owner itself that is on its way to        *)
(* someone the offer is not for is on its way to a courier.                 *)
FromHonest(e) ==
  (e.from # e.offer.of /\ e.from \notin Dishonest) => <<e.from, e.offer>> \in handed
ToCourier(e) ==
  (e.from = e.offer.of /\ e.to # e.offer.for) => <<e.to, e.offer>> \in handed
CouriersHanded == \A e \in wire : FromHonest(e) /\ ToCourier(e)

LEMMA CouriersStep ==
  ASSUME CouriersHanded, handed \subseteq handed',
         \A e \in wire' \ wire : FromHonest(e)' /\ ToCourier(e)'
  PROVE  CouriersHanded'
  BY DEF CouriersHanded, FromHonest, ToCourier

\* An owner's own offer, sent to the device it is for or to a courier it is handed to.
LEMMA OwnEnvelope ==
  ASSUME NEW q, NEW d, NEW c, NEW o, o = Offer(q, d), c = d \/ <<c, o>> \in handed'
  PROVE  FromHonest(Carried(q, c, o))' /\ ToCourier(Carried(q, c, o))'
  <1>1. o.of = q /\ o.for = d
    BY DEF Offer
  <1>2. /\ Carried(q, c, o).from = q /\ Carried(q, c, o).to = c
        /\ Carried(q, c, o).offer = o
    BY DEF Carried
  <1> QED
    BY <1>1, <1>2 DEF FromHonest, ToCourier

LEMMA NextCouriersHanded ==
  ASSUME IInv, CouriersHanded, [Next]_vars
  PROVE  CouriersHanded'
  <1>1. handed \subseteq handed'
    BY DEF Next, vars, Join, Admit, Leave, Rotate, SendRetired, MakeOffer, Deliver, Inject, Lose
  <1>2. CASE wire' \subseteq wire
    BY <1>1, <1>2, CouriersStep
  <1>3. ASSUME NEW d \in Device, NEW x \in Device, NEW c \in Device, MakeOffer(d, x, c)
        PROVE  CouriersHanded'
    <2>1. PICK o : o = Offer(d, x)
      OBVIOUS
    <2>2. wire' = wire \cup {Carried(d, c, o)} /\ <<c, o>> \in handed'
      BY <1>3, <2>1 DEF MakeOffer
    <2>3. FromHonest(Carried(d, c, o))' /\ ToCourier(Carried(d, c, o))'
      BY <2>1, <2>2, OwnEnvelope
    <2> QED
      BY <1>1, <2>2, <2>3, CouriersStep
  <1>4. ASSUME NEW q \in Device, NEW d \in Device, Rotate(q, d)
        PROVE  CouriersHanded'
    <2>1. PICK o : o = Offer(q, d)
      OBVIOUS
    <2>2. wire' \subseteq wire \cup {Carried(q, d, o)}
      BY <1>4, <2>1 DEF Rotate
    <2>3. FromHonest(Carried(q, d, o))' /\ ToCourier(Carried(q, d, o))'
      BY <2>1, OwnEnvelope
    <2> QED
      BY <1>1, <2>2, <2>3, CouriersStep
  <1>5. ASSUME NEW e \in wire, NEW d \in Device, e.to = d, Relay(e, d), UNCHANGED handed
        PROVE  CouriersHanded'
    <2> DEFINE o == e.offer
               n == Carried(d, o.for, o)
    <2>1. o.for # d /\ o.of = e.from /\ wire' \subseteq wire \cup {n}
      BY <1>5 DEF Relay, RelayTarget
    <2>2. <<d, o>> \in handed
      BY <1>5, <2>1 DEF CouriersHanded, ToCourier
    <2>3. n.from = d /\ n.to = o.for /\ n.offer = o
      BY DEF Carried
    <2> HIDE DEF n, o
    <2>4. FromHonest(n)' /\ ToCourier(n)'
      BY <1>5, <2>2, <2>3 DEF FromHonest, ToCourier
    <2> QED
      BY <1>1, <2>1, <2>4, CouriersStep
  <1>6. ASSUME NEW e \in wire, NEW d \in Device, Accept(e, d)
        PROVE  CouriersHanded'
    <2>1. PICK o : o = Offer(d, e.offer.of)
      OBVIOUS
    <2>2. wire' \subseteq wire \cup {Carried(d, e.offer.of, o)}
      BY <1>6, <2>1 DEF Accept
    <2>3. FromHonest(Carried(d, e.offer.of, o))' /\ ToCourier(Carried(d, e.offer.of, o))'
      BY <2>1, OwnEnvelope
    <2> QED
      BY <1>1, <2>2, <2>3, CouriersStep
  <1>7. ASSUME NEW b \in Device, Inject(b) PROVE CouriersHanded'
    <2>0. PICK o : \E c \in Device :
            /\ b \in Dishonest \/ (c = o.for /\ <<b, o>> \in handed)
            /\ wire' = wire \cup {Carried(b, c, o)}
            /\ handed' = IF o.of = b THEN handed \cup {<<c, o>>} ELSE handed
      BY <1>7 DEF Inject
    <2>1. PICK c \in Device :
            /\ b \in Dishonest \/ (c = o.for /\ <<b, o>> \in handed)
            /\ wire' = wire \cup {Carried(b, c, o)}
            /\ handed' = IF o.of = b THEN handed \cup {<<c, o>>} ELSE handed
      BY <2>0
    <2>2. /\ Carried(b, c, o).from = b /\ Carried(b, c, o).to = c
          /\ Carried(b, c, o).offer = o
      BY DEF Carried
    <2>3. FromHonest(Carried(b, c, o))' /\ ToCourier(Carried(b, c, o))'
      BY <2>1, <2>2 DEF FromHonest, ToCourier
    <2> QED
      BY <1>1, <2>1, <2>3, CouriersStep
  <1> QED
    BY <1>2, <1>3, <1>4, <1>5, <1>6, <1>7
       DEF Next, vars, Join, Admit, Leave, SendRetired, Deliver, Refuse, Lose

\* "An address its owner personally handed it" (relay_target): whatever dishonest members
\* put on the way, an honest courier passes on only what the owner itself handed to it.
THEOREM CouriersCarryOwn == Spec => []CourierCarriesOwn
  <1>1. Init => CouriersHanded
    BY DEF Init, CouriersHanded
  <1>2. CouriersHanded => CourierCarriesOwn
    BY DEF CouriersHanded, FromHonest, CourierCarriesOwn
  <1> QED
    BY <1>1, <1>2, InitHolds, NextHolds, NextCouriersHanded, PTL DEF Spec

=============================================================================
