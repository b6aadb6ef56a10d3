------------------------------ MODULE Account ------------------------------
(***************************************************************************)
(* How a phone comes to hold a client, and keeps it (beacon-client:        *)
(* client.rs, state.rs, seeds.rs), against the server's account: its       *)
(* invitations, its list of devices and the key bundles it stores          *)
(* (sund-client: the management plane of client.rs, bundle.rs).            *)
(*                                                                         *)
(* Enrolment is two requests with work in between, and whatever it has     *)
(* built is dropped when one of them fails.  A request may be carried out  *)
(* and its answer lost.  Registrations therefore pile up that no phone     *)
(* remembers, made with the seeds of a phone that tries again.             *)
(*                                                                         *)
(* Each registration that is answered makes key material of its own, named *)
(* here by the device it was made for.  A signature is the identity that   *)
(* made it.  What a client learns of the family in person (the roster's    *)
(* vouches) is taken as given.                                             *)
(*                                                                         *)
(* A definition named Op_Variant, just before Op, is Op with a plausible   *)
(* mistake in it; no action uses it.                                       *)
(***************************************************************************)
EXTENDS Naturals, Sequences, FiniteSets

CONSTANTS
  Phone,
  None,         \* stands for nothing
  MaxDevices,   \* bound of the model: registrations the server takes
  MaxTroubles   \* bound of the model: answers lost, processes killed, blobs
                \* copied, seeds lost, bundles mixed up, devices revoked

ASSUME AccountAssumption == {MaxDevices, MaxTroubles} \subseteq Nat

VARIABLES
  invitations,  \* the invitations of the account, in the order they were made
  devices,      \* the server's list: devices[d] is the key it registered and
                \* whether it was revoked
  bundles,      \* what the server stores under each device, None if nothing
  published,    \* every bundle it ever took
  seeds,        \* the seeds in each phone's keystore, by their generation
  enrolling,    \* the registration a phone has an answer to and has not published
                \* a bundle for, None if there is none
  client,       \* the client in memory, None if there is none
  blob,         \* the snapshot a phone last wrote, None if there is none
  troubles

server == <<invitations, devices, bundles, published>>
memory == <<enrolling, client>>
vars == <<server, seeds, memory, blob, troubles>>

Device == 1..MaxDevices

Identity(p) == [phone |-> p, seeds |-> seeds[p]]
Trouble == troubles < MaxTroubles /\ troubles' = troubles + 1

\* A bundle names the device and the keys it is for, under the identity's signature.
Bundle(d, i) == [device |-> d, identity |-> i, keys |-> d]

\* What a client knows of another device: its vouched identity and its keys.
Known(d, i) == [device |-> d, identity |-> i]
Founded(d, i) == [device |-> d, identity |-> i, family |-> {Known(d, i)}, learned |-> {}]

\* A signed request is taken from a device that is listed, by its key, and not revoked.
Signs(p, d) == devices[d] = [key |-> Identity(p), revoked |-> FALSE]

-----------------------------------------------------------------------------
(* Invitations.  A token nobody has seen enrols nobody.                    *)
Made(state) == invitations' = Append(invitations, state)

\* The first ones come from whoever runs the server.
HostInvites ==
  /\ \A t \in DOMAIN invitations : invitations[t] # "shown"
  /\ Len(invitations) < 2 * MaxDevices
  /\ Made("shown")
  /\ UNCHANGED <<devices, bundles, published, seeds, memory, blob, troubles>>

\* A device mints one; if the answer is lost it is outstanding and its token unseen.
CreateInvitation(p) ==
  /\ client[p] # None
  /\ Signs(p, client[p].device)
  /\ Trouble
  /\ Len(invitations) < 2 * MaxDevices
  /\ \E state \in {"shown", "unseen"} : Made(state)
  /\ UNCHANGED <<devices, bundles, published, seeds, memory, blob>>

\* It is withdrawn by its id, which the list of outstanding ones gives.
RevokeInvitation(p, t) ==
  /\ client[p] # None
  /\ Signs(p, client[p].device)
  /\ invitations[t] \in {"shown", "unseen"}
  /\ Trouble
  /\ invitations' = [invitations EXCEPT ![t] = "revoked"]
  /\ UNCHANGED <<devices, bundles, published, seeds, memory, blob>>

-----------------------------------------------------------------------------
(* Enrolment.                                                              *)

\* The token is spent by the first call that is carried out.
Registered(p, t) ==
  /\ invitations' = [invitations EXCEPT ![t] = "spent"]
  /\ devices' = Append(devices, [key |-> Identity(p), revoked |-> FALSE])
  /\ bundles' = Append(bundles, None)

Idle(p) == client[p] = None /\ enrolling[p] = None

\* A snapshot is opened if it was written under the identity of these seeds and has
\* the device's own record.
Restorable_Any(p) == blob[p] # None
Restorable(p) ==
  /\ blob[p] # None
  /\ blob[p].identity = Identity(p)
  /\ \E k \in blob[p].family : k.device = blob[p].device

Register(p, t) ==
  /\ Idle(p) /\ ~Restorable(p)
  /\ invitations[t] = "shown"
  /\ Len(devices) < MaxDevices
  /\ Registered(p, t)
  /\ \/ /\ enrolling' = [enrolling EXCEPT ![p] = Len(devices')]
        /\ UNCHANGED troubles
     \/ Trouble /\ UNCHANGED enrolling
  /\ UNCHANGED <<published, seeds, client, blob>>

Abandoned_KeepTrying(p) == UNCHANGED enrolling
Abandoned(p) == enrolling' = [enrolling EXCEPT ![p] = None]

\* The bundle is published, and only its answer makes the client.
Stored(d, b) ==
  /\ bundles' = [bundles EXCEPT ![d] = b]
  /\ published' = published \cup {b}

Completed_Unpublished(p, d) ==
  client' = [client EXCEPT ![p] = Founded(d, Identity(p))] /\ UNCHANGED <<bundles, published>>
Completed(p, d) ==
  /\ client' = [client EXCEPT ![p] = Founded(d, Identity(p))]
  /\ Stored(d, Bundle(d, Identity(p)))

Publish(p) ==
  LET d == enrolling[p] IN
  /\ d # None
  /\ Signs(p, d)
  /\ \/ Completed(p, d) /\ enrolling' = [enrolling EXCEPT ![p] = None] /\ UNCHANGED troubles
     \/ /\ Trouble
        /\ Stored(d, Bundle(d, Identity(p))) \/ UNCHANGED <<bundles, published>>
        /\ Abandoned(p)
        /\ UNCHANGED client
  /\ UNCHANGED <<invitations, devices, seeds, blob>>

PublishRefused(p) ==
  /\ enrolling[p] # None
  /\ ~Signs(p, enrolling[p])
  /\ Abandoned(p)
  /\ UNCHANGED <<server, seeds, client, blob, troubles>>

-----------------------------------------------------------------------------
(* Snapshots and restarts.                                                 *)
Snapshot(p) ==
  /\ client[p] # None
  /\ blob' = [blob EXCEPT ![p] = client[p]]
  /\ UNCHANGED <<server, seeds, memory, troubles>>

Forgets(p) ==
  /\ client' = [client EXCEPT ![p] = None]
  /\ enrolling' = [enrolling EXCEPT ![p] = None]

Killed(p) ==
  /\ ~Idle(p)
  /\ Trouble
  /\ Forgets(p)
  /\ UNCHANGED <<server, seeds, blob>>

Open(p) ==
  /\ Idle(p)
  /\ Restorable(p)
  /\ client' = [client EXCEPT ![p] = blob[p]]
  /\ UNCHANGED <<server, seeds, enrolling, blob, troubles>>

\* A backup of one phone is put on another.
CopyBlob(p, q) ==
  /\ blob[p] # blob[q]
  /\ Trouble
  /\ blob' = [blob EXCEPT ![q] = blob[p]]
  /\ UNCHANGED <<server, seeds, memory>>

\* The app is installed anew and its keystore is empty; a backed-up blob may be there.
Generate(p) ==
  /\ Trouble
  /\ seeds' = [seeds EXCEPT ![p] = @ + 1]
  /\ Forgets(p)
  /\ UNCHANGED <<server, blob>>

-----------------------------------------------------------------------------
(* The family, and the keys of its devices.                                *)

\* Two people meet, and each takes the other's device and identity into its roster.
Meet(p, q) ==
  /\ p # q /\ client[p] # None /\ client[q] # None
  /\ LET of(x) == Known(client[x].device, client[x].identity) IN
     client' = [client EXCEPT ![p].family = @ \cup {of(q)}, ![q].family = @ \cup {of(p)}]
  /\ UNCHANGED <<server, seeds, enrolling, blob, troubles>>

\* A served bundle is believed for the device that was asked for, by its vouched key.
Verifies_AnyDevice(k, b) == b.identity = k.identity
Verifies(k, b) == b.identity = k.identity /\ b.device = k.device

\* There is one entry for a device.
Learned(c, k, b) == [c EXCEPT !.learned = {x \in @ : x.device # k.device} \cup
                                          {[device |-> k.device, keys |-> b.keys]}]

FetchBundle(p, k) ==
  /\ Signs(p, client[p].device)
  /\ k.device # client[p].device
  /\ ~devices[k.device].revoked
  /\ bundles[k.device] # None
  /\ Verifies(k, bundles[k.device])
  /\ client' = [client EXCEPT ![p] = Learned(@, k, bundles[k.device])]
  /\ UNCHANGED <<server, seeds, enrolling, blob, troubles>>

RevokeDevice(p, d) ==
  /\ client[p] # None
  /\ Signs(p, client[p].device)
  /\ ~devices[d].revoked
  /\ Trouble
  /\ devices' = [devices EXCEPT ![d].revoked = TRUE]
  /\ UNCHANGED <<invitations, bundles, published, seeds, memory, blob>>

\* The server answers for one device with what another one published.
Misfiled(d) ==
  /\ Trouble
  /\ \E b \in published : b # bundles[d] /\ bundles' = [bundles EXCEPT ![d] = b]
  /\ UNCHANGED <<invitations, devices, published, seeds, memory, blob>>

-----------------------------------------------------------------------------
Init ==
  /\ invitations = <<>> /\ devices = <<>> /\ bundles = <<>>
  /\ published = {}
  /\ seeds = [p \in Phone |-> 0]
  /\ enrolling = [p \in Phone |-> None]
  /\ client = [p \in Phone |-> None]
  /\ blob = [p \in Phone |-> None]
  /\ troubles = 0

Next ==
  \/ HostInvites
  \/ \E p \in Phone :
       \/ CreateInvitation(p) \/ Publish(p) \/ PublishRefused(p)
       \/ Snapshot(p) \/ Killed(p) \/ Open(p) \/ Generate(p)
       \/ \E t \in DOMAIN invitations : Register(p, t) \/ RevokeInvitation(p, t)
       \/ \E d \in DOMAIN devices : RevokeDevice(p, d)
       \/ \E q \in Phone : CopyBlob(p, q) \/ Meet(p, q)
       \/ client[p] # None /\ \E k \in client[p].family : FetchBundle(p, k)
  \/ \E d \in DOMAIN devices : Misfiled(d)

\* Whoever runs the server hands out an invitation when there is none, and a person
\* who wants to take part opens the app, and enrols it as long as it cannot open.
Spec ==
  /\ Init /\ [][Next]_vars
  /\ WF_vars(HostInvites)
  /\ \A p \in Phone :
       /\ WF_vars(Open(p))
       /\ WF_vars(\E t \in DOMAIN invitations : Register(p, t))
       /\ WF_vars(Publish(p) \/ PublishRefused(p))

-----------------------------------------------------------------------------
Identities == [phone : Phone, seeds : 0..MaxTroubles]
Bundles == [device : Device, identity : Identities, keys : Device]
Clients == [device : Device, identity : Identities,
            family : SUBSET [device : Device, identity : Identities],
            learned : SUBSET [device : Device, keys : Device]]

\* The server's lists agree with each other, what phones hold is of devices that are
\* listed, and a client carries its own device's record, which it expects to be there.
TypeOK ==
  /\ invitations \in Seq({"shown", "unseen", "spent", "revoked"})
  /\ devices \in Seq([key : Identities, revoked : BOOLEAN])
  /\ Len(devices) <= MaxDevices
  /\ Len(bundles) = Len(devices)
  /\ \A d \in DOMAIN bundles : bundles[d] \in published \cup {None}
  /\ published \subseteq Bundles
  /\ seeds \in [Phone -> 0..MaxTroubles]
  /\ \A p \in Phone :
       /\ enrolling[p] \in DOMAIN devices \cup {None}
       /\ client[p] # None =>
            /\ client[p] \in Clients
            /\ Known(client[p].device, client[p].identity) \in client[p].family
       /\ blob[p] # None => blob[p] \in Clients
  /\ troubles \in 0..MaxTroubles

\* "Publish before the client is handed back, so a peer that is vouched for tomorrow
\* has key material to fetch today" (client.rs): whatever became of the requests, a
\* client somebody holds, and every device its family knows, has had its own bundle
\* taken by the server; a registration that came to nothing is in nobody's family.
HandedBackIsPublished ==
  \A p \in Phone : client[p] # None =>
    \A k \in client[p].family : Bundle(k.device, k.identity) \in published

\* "[import] is what catches a blob restored onto the wrong device and a blob opened
\* with the wrong seeds" (client.rs): a client is of a device its own phone enrolled
\* with the seeds it has now, and no two phones act as one device.
ClientIsOwn ==
  \A p \in Phone : client[p] # None => devices[client[p].device].key = Identity(p)

\* "A bundle cannot be lifted from one device's slot and served as another's"
\* (bundle.rs): the keys a client has learned for a device are the ones made when that
\* device was enrolled, which somebody can open, and not those of a registration of
\* the same phone that came to nothing.
LearnedKeysAreTheDevices ==
  \A p \in Phone : client[p] # None =>
    \A b \in client[p].learned : b.keys = b.device

\* Enrolment can be repeated: a phone that goes on trying, whatever was lost on the
\* way and whatever its blob, comes to hold a client.
EveryPhoneEnrols == \A p \in Phone : <>[](client[p] # None)
=============================================================================
