---------------------------- MODULE AccountProofs ----------------------------
(***************************************************************************)
(* The safety of Account for any number of phones, registrations and       *)
(* troubles.                                                               *)
(*                                                                         *)
(* What is said of a client in memory has to be said of the snapshots it   *)
(* may come back from, those that were copied from another phone or        *)
(* outlived its seeds included, and of what meetings spread: so the        *)
(* invariant is a predicate of a client as a value (Sound), which stays    *)
(* true as the server's list and what it was given only grow.              *)
(***************************************************************************)
EXTENDS Account, SequenceTheorems, TLAPS

Sound(c) ==
  /\ c \in Clients
  /\ c.device \in 1..Len(devices) /\ devices[c.device].key = c.identity
  /\ Known(c.device, c.identity) \in c.family
  /\ \A k \in c.family :
       k.device \in 1..Len(devices) /\ Bundle(k.device, k.identity) \in published
  /\ \A b \in c.learned : b.keys = b.device

Registration == [key : Identities, revoked : BOOLEAN]

ServerHolds ==
  /\ invitations \in Seq({"shown", "unseen", "spent", "revoked"})
  /\ devices \in Seq(Registration)
  /\ Len(devices) <= MaxDevices
  /\ bundles \in Seq(published \cup {None})
  /\ Len(bundles) = Len(devices)
  /\ published \subseteq Bundles
  /\ \A b \in published : b.keys = b.device

SeedsHold ==
  /\ troubles \in 0..MaxTroubles
  /\ seeds \in [Phone -> Nat]
  /\ \A p \in Phone : seeds[p] <= troubles

Shapes ==
  /\ enrolling \in [Phone -> Device \cup {None}]
  /\ client \in [Phone -> Clients \cup {None}]
  /\ blob \in [Phone -> Clients \cup {None}]

PhoneHolds(p) ==
  /\ enrolling[p] \in (1..Len(devices)) \cup {None}
  /\ client[p] # None => Sound(client[p]) /\ client[p].identity = Identity(p)
  /\ blob[p] # None => Sound(blob[p])

IInv == ServerHolds /\ SeedsHold /\ Shapes /\ \A p \in Phone : PhoneHolds(p)

-----------------------------------------------------------------------------
LEMMA InitHolds == Init => IInv
  <1> SUFFICES ASSUME Init PROVE IInv
    OBVIOUS
  <1>1. ServerHolds
    BY AccountAssumption DEF Init, ServerHolds
  <1>2. SeedsHold
    BY AccountAssumption DEF Init, SeedsHold
  <1>3. Shapes /\ \A p \in Phone : PhoneHolds(p)
    BY DEF Init, Shapes, PhoneHolds
  <1> QED
    BY <1>1, <1>2, <1>3 DEF IInv

\* The list of devices only grows, and so does what the server was given.
Grows ==
  /\ devices' \in Seq(Registration)
  /\ Len(devices) <= Len(devices')
  /\ \A d \in 1..Len(devices) : devices'[d].key = devices[d].key
  /\ published \subseteq published'

LEMMA Same == ASSUME ServerHolds, UNCHANGED <<devices, published>> PROVE Grows
  BY DEF ServerHolds, Grows

LEMMA StaysSound ==
  ASSUME ServerHolds, Grows, NEW c, Sound(c)
  PROVE  /\ c \in Clients
         /\ c.device \in 1..Len(devices') /\ devices'[c.device].key = c.identity
         /\ Known(c.device, c.identity) \in c.family
         /\ \A k \in c.family :
              k.device \in 1..Len(devices') /\ Bundle(k.device, k.identity) \in published'
         /\ \A b \in c.learned : b.keys = b.device
  <1>1. Len(devices) \in Nat /\ Len(devices') \in Nat
    BY DEF ServerHolds, Grows
  <1>2. c.device \in 1..Len(devices') /\ devices'[c.device].key = c.identity
        /\ \A k \in c.family : k.device \in 1..Len(devices')
    BY <1>1 DEF Sound, Grows
  <1> QED
    BY <1>2 DEF Sound, Grows

\* Phones on which nothing changes.
LEMMA PhonesStay ==
  ASSUME ServerHolds, Grows, UNCHANGED <<seeds, enrolling, client, blob>>,
         \A p \in Phone : PhoneHolds(p)
  PROVE  \A p \in Phone : PhoneHolds(p)'
  <1> SUFFICES ASSUME NEW p \in Phone PROVE PhoneHolds(p)'
    OBVIOUS
  <1>1. enrolling'[p] \in (1..Len(devices')) \cup {None}
    <2>1. Len(devices) \in Nat /\ Len(devices') \in Nat
      BY DEF ServerHolds, Grows
    <2> QED
      BY <2>1 DEF PhoneHolds, Grows
  <1>2. client'[p] # None => Sound(client[p])' /\ client'[p].identity = Identity(p)'
    BY StaysSound DEF PhoneHolds, Sound, Identity
  <1>3. blob'[p] # None => Sound(blob[p])'
    BY StaysSound DEF PhoneHolds, Sound
  <1> QED
    BY <1>1, <1>2, <1>3 DEF PhoneHolds

LEMMA TroubleCounts == ASSUME SeedsHold, Trouble \/ UNCHANGED troubles, UNCHANGED seeds PROVE SeedsHold'
  BY AccountAssumption DEF SeedsHold, Trouble

-----------------------------------------------------------------------------
(* The server's side.                                                      *)
LEMMA Inviting ==
  ASSUME IInv, HostInvites \/ \E p \in Phone : CreateInvitation(p) \/ \E t \in DOMAIN invitations : RevokeInvitation(p, t)
  PROVE  IInv'
  <1>1. UNCHANGED <<devices, bundles, published, seeds, enrolling, client, blob>>
        /\ (Trouble \/ UNCHANGED troubles)
    BY DEF HostInvites, CreateInvitation, RevokeInvitation, memory
  <1>2. invitations' \in Seq({"shown", "unseen", "spent", "revoked"})
    <2> DEFINE State == {"shown", "unseen", "spent", "revoked"}
    <2>1. \/ \E s \in State : invitations' = Append(invitations, s)
          \/ \E t \in DOMAIN invitations : invitations' = [invitations EXCEPT ![t] = "revoked"]
      BY DEF HostInvites, CreateInvitation, RevokeInvitation, Made
    <2>2. invitations \in Seq(State) /\ DOMAIN invitations = 1..Len(invitations) /\ "revoked" \in State
      BY DEF IInv, ServerHolds
    <2> HIDE DEF State
    <2>3. invitations' \in Seq(State)
      BY <2>1, <2>2, ExceptSeq
    <2> QED
      BY <2>3 DEF State
  <1>3. ServerHolds'
    BY <1>1, <1>2 DEF IInv, ServerHolds
  <1> QED
    BY <1>1, <1>3, Same, PhonesStay, TroubleCounts DEF IInv, Shapes

LEMMA Revoking ==
  ASSUME IInv, NEW p \in Phone, NEW d \in DOMAIN devices, RevokeDevice(p, d)
  PROVE  IInv'
  <1> DEFINE r == [devices[d] EXCEPT !.revoked = TRUE]
  <1>1. UNCHANGED <<invitations, bundles, published, seeds, enrolling, client, blob>>
        /\ Trouble /\ devices' = [devices EXCEPT ![d] = r]
    BY DEF RevokeDevice, memory
  <1>2. devices \in Seq(Registration) /\ d \in 1..Len(devices)
    BY DEF IInv, ServerHolds
  <1>3. r \in Registration /\ r.key = devices[d].key
    <2>1. devices[d] \in Registration
      BY <1>2, ElementOfSeq
    <2> QED
      BY <2>1 DEF Registration
  <1> HIDE DEF r
  <1>4. devices' \in Seq(Registration) /\ Len(devices') = Len(devices)
        /\ \A e \in 1..Len(devices) : devices'[e] = IF e = d THEN r ELSE devices[e]
    BY <1>1, <1>2, <1>3, ExceptSeq
  <1>5. Grows
    BY <1>1, <1>3, <1>4 DEF Grows
  <1>6. ServerHolds'
    BY <1>1, <1>4 DEF IInv, ServerHolds
  <1> QED
    BY <1>1, <1>5, <1>6, PhonesStay, TroubleCounts DEF IInv, Shapes

LEMMA Misfiling == ASSUME IInv, NEW d \in DOMAIN devices, Misfiled(d) PROVE IInv'
  <1>1. UNCHANGED <<invitations, devices, published, seeds, enrolling, client, blob>> /\ Trouble
    BY DEF Misfiled, memory
  <1>2. bundles' \in Seq(published \cup {None}) /\ Len(bundles') = Len(bundles)
    BY DEF Misfiled, IInv, ServerHolds
  <1>3. ServerHolds'
    BY <1>1, <1>2 DEF IInv, ServerHolds
  <1> QED
    BY <1>1, <1>3, Same, PhonesStay, TroubleCounts DEF IInv, Shapes

-----------------------------------------------------------------------------
(* What is there already is kept, dropped or put back.                     *)
LEMMA Keeping ==
  ASSUME IInv, NEW p \in Phone, Snapshot(p) \/ Killed(p) \/ Open(p) \/ PublishRefused(p)
  PROVE  IInv'
  <1>1. UNCHANGED <<invitations, devices, bundles, published, seeds>> /\ (Trouble \/ UNCHANGED troubles)
    BY DEF Snapshot, Killed, Open, PublishRefused, server, memory
  <1>2. ServerHolds' /\ SeedsHold'
    BY <1>1, TroubleCounts DEF IInv, ServerHolds
  <1>3. Shapes
    BY DEF IInv
  <1>4. /\ client' \in [Phone -> Clients \cup {None}]
        /\ blob' \in [Phone -> Clients \cup {None}]
        /\ enrolling' \in [Phone -> Device \cup {None}]
        /\ \A q \in Phone :
             /\ enrolling'[q] \in {enrolling[q], None}
             /\ blob'[q] \in {blob[q]} \cup (IF client[q] # None THEN {client[q]} ELSE {})
             /\ client'[q] \in {client[q], None} \cup (IF Restorable(q) THEN {blob[q]} ELSE {})
    <2>1. CASE Snapshot(p)
      BY <1>3, <2>1 DEF Snapshot, Shapes, memory
    <2>2. CASE Killed(p)
      BY <1>3, <2>2 DEF Killed, Forgets, Shapes
    <2>3. CASE Open(p)
      BY <1>3, <2>3 DEF Open, Shapes
    <2>4. CASE PublishRefused(p)
      BY <1>3, <2>4 DEF PublishRefused, Abandoned, Shapes
    <2> QED
      BY <2>1, <2>2, <2>3, <2>4
  <1>5. ASSUME NEW q \in Phone PROVE PhoneHolds(q)'
    <2>1. PhoneHolds(q)
      BY DEF IInv
    <2>2. enrolling'[q] \in (1..Len(devices')) \cup {None}
      BY <1>1, <1>4, <2>1 DEF PhoneHolds
    <2>3. client'[q] # None => Sound(client'[q]) /\ client'[q].identity = Identity(q)
      BY <1>4, <2>1 DEF PhoneHolds, Restorable
    <2>4. blob'[q] # None => Sound(blob'[q])
      BY <1>4, <2>1 DEF PhoneHolds
    <2> QED
      BY <1>1, <2>2, <2>3, <2>4 DEF PhoneHolds, Sound, Identity
  <1> QED
    BY <1>2, <1>4, <1>5 DEF IInv, Shapes

LEMMA Copying == ASSUME IInv, NEW p \in Phone, NEW q \in Phone, CopyBlob(p, q) PROVE IInv'
  <1>1. UNCHANGED <<invitations, devices, bundles, published, seeds, enrolling, client>> /\ Trouble
        /\ blob' = [blob EXCEPT ![q] = blob[p]]
    BY DEF CopyBlob, server, memory
  <1>2. ServerHolds' /\ SeedsHold'
    BY <1>1, TroubleCounts DEF IInv, ServerHolds
  <1>3. Shapes' /\ \A x \in Phone : blob'[x] \in {blob[x], blob[p]}
    BY <1>1 DEF IInv, Shapes
  <1>4. ASSUME NEW x \in Phone PROVE PhoneHolds(x)'
    <2>1. PhoneHolds(x) /\ PhoneHolds(p)
      BY DEF IInv
    <2>2. blob'[x] # None => Sound(blob'[x])
      BY <1>3, <2>1 DEF PhoneHolds
    <2> QED
      BY <1>1, <2>1, <2>2 DEF PhoneHolds, Sound, Identity
  <1> QED
    BY <1>2, <1>3, <1>4 DEF IInv

\* New seeds make a new identity, and there is no client of the old one.
LEMMA Generating == ASSUME IInv, NEW p \in Phone, Generate(p) PROVE IInv'
  <1>1. UNCHANGED <<invitations, devices, bundles, published, blob>> /\ Trouble
        /\ seeds' = [seeds EXCEPT ![p] = @ + 1] /\ Forgets(p)
    BY DEF Generate, server
  <1>2. ServerHolds'
    BY <1>1 DEF IInv, ServerHolds
  <1>3. SeedsHold'
    BY <1>1, AccountAssumption DEF IInv, SeedsHold, Trouble
  <1>4. Shapes' /\ client'[p] = None /\ enrolling'[p] = None
        /\ \A x \in Phone \ {p} : UNCHANGED <<client[x], enrolling[x], seeds[x]>>
    BY <1>1 DEF IInv, Shapes, Forgets, SeedsHold
  <1>5. ASSUME NEW x \in Phone PROVE PhoneHolds(x)'
    <2>1. PhoneHolds(x)
      BY DEF IInv
    <2>2. CASE x = p
      BY <1>1, <1>4, <2>1, <2>2 DEF PhoneHolds, Sound
    <2>3. CASE x # p
      BY <1>1, <1>4, <2>1, <2>3 DEF PhoneHolds, Sound, Identity
    <2> QED
      BY <2>2, <2>3
  <1> QED
    BY <1>2, <1>3, <1>4, <1>5 DEF IInv

-----------------------------------------------------------------------------
(* Enrolment.                                                              *)
LEMMA IdentityTyped == ASSUME SeedsHold, NEW p \in Phone PROVE Identity(p) \in Identities
  BY AccountAssumption DEF SeedsHold, Identity, Identities

LEMMA Registering == ASSUME IInv, NEW p \in Phone, NEW t \in DOMAIN invitations, Register(p, t) PROVE IInv'
  <1> DEFINE r == [key |-> Identity(p), revoked |-> FALSE]
             State == {"shown", "unseen", "spent", "revoked"}
  <1>1. UNCHANGED <<published, seeds, client, blob>> /\ (Trouble \/ UNCHANGED troubles)
        /\ Len(devices) < MaxDevices
    BY DEF Register
  <1>2. r \in Registration
    BY IdentityTyped DEF IInv, Registration
  <1>3. devices' = Append(devices, r) /\ bundles' = Append(bundles, None)
    BY DEF Register, Registered
  <1>4. Len(devices) \in Nat /\ devices \in Seq(Registration) /\ bundles \in Seq(published \cup {None})
    BY DEF IInv, ServerHolds
  <1>5. invitations' \in Seq(State)
    <2>1. invitations \in Seq(State) /\ t \in 1..Len(invitations)
          /\ invitations' = [invitations EXCEPT ![t] = "spent"]
      BY DEF IInv, ServerHolds, Register, Registered
    <2>2. "spent" \in State
      OBVIOUS
    <2> HIDE DEF State
    <2> QED
      BY <2>1, <2>2, ExceptSeq
  <1> HIDE DEF r
  <1>6. devices' \in Seq(Registration) /\ Len(devices') = Len(devices) + 1
        /\ \A d \in 1..Len(devices) : devices'[d] = devices[d]
    BY <1>2, <1>3, <1>4
  <1>7. Grows
    BY <1>1, <1>4, <1>6 DEF Grows
  <1>8. ServerHolds'
    BY <1>1, <1>3, <1>4, <1>5, <1>6, AccountAssumption DEF IInv, ServerHolds
  <1>9. \/ enrolling' = [enrolling EXCEPT ![p] = Len(devices')]
        \/ UNCHANGED enrolling
    BY DEF Register
  <1>10. Shapes'
    <2>1. Len(devices') \in Device
      BY <1>1, <1>4, <1>6, AccountAssumption DEF Device
    <2> QED
      BY <1>1, <1>9, <2>1 DEF IInv, Shapes
  <1>11. ASSUME NEW x \in Phone PROVE PhoneHolds(x)'
    <2>1. PhoneHolds(x)
      BY DEF IInv
    <2>2. enrolling'[x] \in {enrolling[x], Len(devices')}
      BY <1>9 DEF IInv, Shapes
    <2>3. enrolling'[x] \in (1..Len(devices')) \cup {None}
      BY <1>4, <1>6, <2>1, <2>2 DEF PhoneHolds
    <2>4. client'[x] # None => Sound(client[x])' /\ client'[x].identity = Identity(x)'
      BY <1>1, <1>7, <2>1, StaysSound DEF IInv, PhoneHolds, Sound, Identity
    <2>5. blob'[x] # None => Sound(blob[x])'
      BY <1>1, <1>7, <2>1, StaysSound DEF IInv, PhoneHolds, Sound
    <2> QED
      BY <2>3, <2>4, <2>5 DEF PhoneHolds
  <1> QED
    BY <1>1, <1>8, <1>10, <1>11, TroubleCounts DEF IInv

LEMMA Publishing == ASSUME IInv, NEW p \in Phone, Publish(p) PROVE IInv'
  <1> DEFINE d == enrolling[p]
             b == Bundle(d, Identity(p))
             c == Founded(d, Identity(p))
             e == [enrolling EXCEPT ![p] = None]
  <1>1. UNCHANGED <<invitations, devices, seeds, blob>> /\ (Trouble \/ UNCHANGED troubles)
        /\ d # None /\ Signs(p, d)
    BY DEF Publish
  <1>2. d \in 1..Len(devices) /\ Len(devices) \in Nat /\ d \in Device
    <2>1. d \in 1..Len(devices) /\ Len(devices) \in Nat /\ Len(devices) <= MaxDevices
      BY <1>1 DEF IInv, PhoneHolds, ServerHolds
    <2> QED
      BY <2>1, AccountAssumption DEF Device
  <1>3. Identity(p) \in Identities /\ devices[d].key = Identity(p)
    BY <1>1, IdentityTyped DEF IInv, Signs
  <1>4. b \in Bundles /\ b.keys = b.device
    BY <1>2, <1>3 DEF Bundle, Bundles
  <1>5. \/ published' = published \cup {b} /\ bundles' = [bundles EXCEPT ![d] = b]
        \/ UNCHANGED <<bundles, published>>
    BY DEF Publish, Completed, Stored
  <1>6. Grows
    BY <1>1, <1>5 DEF Grows, IInv, ServerHolds
  <1>7. ServerHolds'
    <2>1. ASSUME published' = published \cup {b}, bundles' = [bundles EXCEPT ![d] = b]
          PROVE  bundles' \in Seq(published' \cup {None}) /\ Len(bundles') = Len(bundles)
      <3>1. bundles \in Seq(published' \cup {None}) /\ d \in 1..Len(bundles)
        BY <1>2, <2>1 DEF IInv, ServerHolds
      <3> HIDE DEF b
      <3> QED
        BY <2>1, <3>1, ExceptSeq
    <2>2. bundles' \in Seq(published' \cup {None}) /\ Len(bundles') = Len(bundles)
      BY <1>5, <2>1 DEF IInv, ServerHolds
    <2>3. published' \subseteq Bundles /\ \A x \in published' : x.keys = x.device
      <3> HIDE DEF b
      <3> QED
        BY <1>4, <1>5 DEF IInv, ServerHolds
    <2> QED
      BY <1>1, <2>2, <2>3 DEF IInv, ServerHolds
  <1>8. /\ enrolling' = e
        /\ \/ client' = [client EXCEPT ![p] = c] /\ published' = published \cup {b}
           \/ UNCHANGED client
    BY DEF Publish, Completed, Stored, Abandoned
  <1>9. /\ c \in Clients /\ c.device = d /\ c.identity = Identity(p) /\ c.learned = {}
        /\ c.family = {Known(d, Identity(p))}
    BY <1>2, <1>3 DEF Founded, Clients, Known
  <1>10. Shapes'
    <2> HIDE DEF c
    <2> QED
      BY <1>1, <1>8, <1>9 DEF IInv, Shapes
  <1>11. ASSUME NEW x \in Phone PROVE PhoneHolds(x)'
    <2>1. PhoneHolds(x)
      BY DEF IInv
    <2>2. enrolling'[x] \in (1..Len(devices')) \cup {None}
      BY <1>1, <1>8, <2>1 DEF IInv, Shapes, PhoneHolds
    <2>3. blob'[x] # None => Sound(blob[x])'
      BY <1>1, <1>6, <2>1, StaysSound DEF IInv, PhoneHolds, Sound
    <2>4. ASSUME client'[x] = client[x]
          PROVE  client'[x] # None => Sound(client[x])' /\ client'[x].identity = Identity(x)'
      BY <1>1, <1>6, <2>1, <2>4, StaysSound DEF IInv, PhoneHolds, Sound, Identity
    <2>5. ASSUME x = p, client'[p] = c, published' = published \cup {b}
          PROVE  Sound(client[p])' /\ client'[p].identity = Identity(p)'
      <3>1. \A k \in c.family :
              k.device \in 1..Len(devices) /\ Bundle(k.device, k.identity) \in published'
        BY <1>2, <1>9, <2>5 DEF Known
      <3> HIDE DEF c
      <3> QED
        BY <1>1, <1>2, <1>3, <1>9, <2>5, <3>1 DEF Sound, Identity
    <2>6. client'[x] = client[x] \/ (x = p /\ client'[p] = c /\ published' = published \cup {b})
      <3> HIDE DEF c, b
      <3> QED
        BY <1>8 DEF IInv, Shapes
    <2> QED
      BY <2>2, <2>3, <2>4, <2>5, <2>6 DEF PhoneHolds
  <1> QED
    BY <1>1, <1>7, <1>10, <1>11, TroubleCounts DEF IInv

-----------------------------------------------------------------------------
(* The family and its keys.                                                *)

\* A step after which every client of a phone is sound and its own, and nothing else has
\* changed, keeps the invariant.
LEMMA ClientsMove ==
  ASSUME IInv, UNCHANGED <<server, seeds, enrolling, blob, troubles>>,
         client' \in [Phone -> Clients \cup {None}],
         \A p \in Phone : client'[p] # None => Sound(client'[p]) /\ client'[p].identity = Identity(p)
  PROVE  IInv'
  <1>1. UNCHANGED <<invitations, devices, bundles, published>>
    BY DEF server
  <1>2. ServerHolds' /\ SeedsHold' /\ Shapes'
    BY <1>1 DEF IInv, ServerHolds, SeedsHold, Shapes
  <1>3. \A p \in Phone : PhoneHolds(p)'
    BY <1>1 DEF IInv, PhoneHolds, Sound, Identity
  <1> QED
    BY <1>2, <1>3 DEF IInv

\* Somebody a client meets is known by what the other client says of itself.
LEMMA Introduced ==
  ASSUME IInv, NEW p \in Phone, NEW q \in Phone, client[p] # None, client[q] # None,
         NEW c, c = [client[p] EXCEPT !.family = @ \cup {Known(client[q].device, client[q].identity)}]
  PROVE  Sound(c) /\ c.identity = Identity(p)
  <1> DEFINE k == Known(client[q].device, client[q].identity)
             F == [device : Device, identity : Identities]
  <1>1. Sound(client[p]) /\ Sound(client[q]) /\ client[p].identity = Identity(p)
    BY DEF IInv, PhoneHolds
  <1>2. k \in client[q].family /\ client[q].family \subseteq F
    BY <1>1 DEF Sound, Clients
  <1>3. k \in F /\ k.device \in 1..Len(devices) /\ Bundle(k.device, k.identity) \in published
    BY <1>1, <1>2 DEF Sound
  <1> HIDE DEF k, F
  <1>4. c = [client[p] EXCEPT !.family = @ \cup {k}]
    BY DEF k
  <1>5. /\ c \in Clients /\ c.device = client[p].device /\ c.identity = client[p].identity
        /\ c.learned = client[p].learned /\ c.family = client[p].family \cup {k}
    <2>1. client[p] \in Clients
      BY <1>1 DEF Sound
    <2> QED
      BY <1>3, <1>4, <2>1 DEF Clients, F
  <1> QED
    BY <1>1, <1>3, <1>5 DEF Sound

LEMMA Meeting == ASSUME IInv, NEW p \in Phone, NEW q \in Phone, Meet(p, q) PROVE IInv'
  <1> DEFINE of(x) == Known(client[x].device, client[x].identity)
             c == [client[p] EXCEPT !.family = @ \cup {of(q)}]
             d == [client[q] EXCEPT !.family = @ \cup {of(p)}]
             m == [client EXCEPT ![p] = c]
  <1>1. p # q /\ client[p] # None /\ client[q] # None
        /\ UNCHANGED <<server, seeds, enrolling, blob, troubles>>
    BY DEF Meet
  <1>2. client' = [client EXCEPT ![p].family = @ \cup {of(q)}, ![q].family = @ \cup {of(p)}]
    BY Zenon DEF Meet
  <1>3. Sound(c) /\ c.identity = Identity(p) /\ Sound(d) /\ d.identity = Identity(q)
    <2>1. Sound(c) /\ c.identity = Identity(p)
      BY <1>1, Introduced
    <2>2. Sound(d) /\ d.identity = Identity(q)
      BY <1>1, Introduced
    <2> QED
      BY <2>1, <2>2
  <1>4. m[q] = client[q] /\ m \in [Phone -> Clients \cup {None}]
        /\ \A x \in Phone : m[x] = IF x = p THEN c ELSE client[x]
    <2>1. c \in Clients /\ client \in [Phone -> Clients \cup {None}]
      BY <1>3 DEF Sound, IInv, Shapes
    <2> HIDE DEF c
    <2> QED
      BY <1>1, <2>1
  <1>5. client' = [m EXCEPT ![q] = d]
    <2>1. client' = [m EXCEPT ![q].family = @ \cup {of(p)}]
      BY <1>2, Zenon
    <2> HIDE DEF m
    <2> QED
      BY <1>4, <2>1
  <1>6. d \in Clients
    BY <1>3 DEF Sound
  <1> HIDE DEF c, d, m
  <1>7. /\ client' \in [Phone -> Clients \cup {None}]
        /\ \A x \in Phone : client'[x] = IF x = q THEN d ELSE IF x = p THEN c ELSE client[x]
    BY <1>4, <1>5, <1>6
  <1>8. \A x \in Phone : client'[x] # None => Sound(client'[x]) /\ client'[x].identity = Identity(x)
    BY <1>3, <1>7 DEF IInv, PhoneHolds
  <1> QED
    BY <1>1, <1>7, <1>8, ClientsMove

\* What is learned of a device is what was published for it.
LEMMA Fetching ==
  ASSUME IInv, NEW p \in Phone, client[p] # None, NEW k \in client[p].family, FetchBundle(p, k)
  PROVE  IInv'
  <1> DEFINE b == bundles[k.device]
             c == Learned(client[p], k, b)
  <1>1. UNCHANGED <<server, seeds, enrolling, blob, troubles>> /\ client' = [client EXCEPT ![p] = c]
        /\ b # None /\ Verifies(k, b)
    BY DEF FetchBundle
  <1>2. Sound(client[p]) /\ client[p].identity = Identity(p)
    BY DEF IInv, PhoneHolds
  <1>3. b \in published
    <2>1. k.device \in 1..Len(bundles) /\ bundles \in Seq(published \cup {None})
      BY <1>2 DEF IInv, ServerHolds, Sound
    <2> QED
      BY <1>1, <2>1, ElementOfSeq
  <1>4. b \in Bundles /\ b.keys = b.device /\ b.device = k.device
    BY <1>1, <1>3 DEF IInv, ServerHolds, Verifies
  <1> DEFINE new == [device |-> k.device, keys |-> b.keys]
             L == {x \in client[p].learned : x.device # k.device} \cup {new}
  <1>5. c = [client[p] EXCEPT !.learned = L]
    BY DEF Learned
  <1>6. L \subseteq [device : Device, keys : Device] /\ \A x \in L : x.keys = x.device
    <2>1. client[p].learned \subseteq [device : Device, keys : Device]
          /\ \A x \in client[p].learned : x.keys = x.device
      BY <1>2 DEF Sound, Clients
    <2>2. new \in [device : Device, keys : Device] /\ new.keys = new.device
      BY <1>4 DEF Bundles
    <2> HIDE DEF new
    <2> QED
      BY <2>1, <2>2
  <1> HIDE DEF L, b, c
  <1>7. /\ c \in Clients /\ c.device = client[p].device /\ c.identity = client[p].identity
        /\ c.learned = L /\ c.family = client[p].family
    <2>1. client[p] \in Clients
      BY <1>2 DEF Sound
    <2> QED
      BY <1>5, <1>6, <2>1 DEF Clients
  <1>8. Sound(c) /\ c.identity = Identity(p)
    BY <1>2, <1>6, <1>7 DEF Sound
  <1>9. /\ client' \in [Phone -> Clients \cup {None}]
        /\ \A x \in Phone : client'[x] = IF x = p THEN c ELSE client[x]
    BY <1>1, <1>7 DEF IInv, Shapes
  <1>10. \A x \in Phone : client'[x] # None => Sound(client'[x]) /\ client'[x].identity = Identity(x)
    BY <1>8, <1>9 DEF IInv, PhoneHolds
  <1> QED
    BY <1>1, <1>9, <1>10, ClientsMove

-----------------------------------------------------------------------------
LEMMA NextHolds == IInv /\ [Next]_vars => IInv'
  <1> SUFFICES ASSUME IInv, [Next]_vars PROVE IInv'
    OBVIOUS
  <1>1. CASE Next
    BY <1>1, Inviting, Revoking, Misfiling, Keeping, Copying, Generating, Registering,
       Publishing, Meeting, Fetching DEF Next
  <1>2. CASE UNCHANGED vars
    <2>1. UNCHANGED <<server, seeds, enrolling, client, blob, troubles>>
      BY <1>2 DEF vars, memory
    <2>2. \A p \in Phone : client'[p] # None => Sound(client'[p]) /\ client'[p].identity = Identity(p)
      BY <2>1 DEF IInv, PhoneHolds
    <2>3. client' \in [Phone -> Clients \cup {None}]
      BY <2>1 DEF IInv, Shapes
    <2> QED
      BY <2>1, <2>2, <2>3, ClientsMove
  <1> QED
    BY <1>1, <1>2

LEMMA Invariant == Spec => []IInv
  BY InitHolds, NextHolds, PTL DEF Spec

\* The server's lists agree with each other, and phones hold only what is of listed
\* devices, whatever requests and answers were lost (client.rs, enroll_with and open_with).
THEOREM TypeCorrect == Spec => []TypeOK
  <1>1. IInv => TypeOK
    <2> SUFFICES ASSUME IInv PROVE TypeOK
      OBVIOUS
    <2>1. seeds \in [Phone -> 0..MaxTroubles] /\ troubles \in 0..MaxTroubles
      BY AccountAssumption DEF IInv, SeedsHold
    <2>2. \A d \in DOMAIN bundles : bundles[d] \in published \cup {None}
      BY ElementOfSeq DEF IInv, ServerHolds
    <2>3. \A p \in Phone :
            /\ enrolling[p] \in DOMAIN devices \cup {None}
            /\ client[p] # None =>
                 /\ client[p] \in Clients
                 /\ Known(client[p].device, client[p].identity) \in client[p].family
            /\ blob[p] # None => blob[p] \in Clients
      BY DEF IInv, PhoneHolds, Sound, ServerHolds
    <2> QED
      BY <2>1, <2>2, <2>3 DEF TypeOK, IInv, ServerHolds, Registration
  <1> QED
    BY <1>1, Invariant, PTL

\* A client somebody holds, and every device its family knows, has had its own bundle
\* taken by the server (client.rs, "publish before the client is handed back").
THEOREM PublishedBeforeHandedBack == Spec => []HandedBackIsPublished
  <1>1. IInv => HandedBackIsPublished
    BY DEF IInv, PhoneHolds, Sound, HandedBackIsPublished
  <1> QED
    BY <1>1, Invariant, PTL

\* A client is of a device that its own phone enrolled with the seeds it has, whatever
\* blobs are copied and whatever keystores are lost (client.rs, open_with).
THEOREM NobodyElsesClient == Spec => []ClientIsOwn
  <1>1. IInv => ClientIsOwn
    BY DEF IInv, PhoneHolds, Sound, ClientIsOwn
  <1> QED
    BY <1>1, Invariant, PTL

\* The keys learned for a device are the ones made when it was enrolled, although the
\* server may answer with any bundle it was ever given (bundle.rs, verify).
THEOREM LearnedKeysFit == Spec => []LearnedKeysAreTheDevices
  <1>1. IInv => LearnedKeysAreTheDevices
    BY DEF IInv, PhoneHolds, Sound, LearnedKeysAreTheDevices
  <1> QED
    BY <1>1, Invariant, PTL
=============================================================================
