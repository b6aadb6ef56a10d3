------------------------------- MODULE Roster -------------------------------
(***************************************************************************)
(* The membership state machine of beacon-roster: one roster per device,   *)
(* and the roster_introduce, roster_remove and roster_sync messages that   *)
(* carry it from one to another.  A message once broadcast stays in msgs:  *)
(* it may reach any device late, in any order, several times or never, as  *)
(* the outbox below (at-least-once, no order) allows.  A sync in flight    *)
(* may be delivered late and repeatedly until it is lost.                  *)
(*                                                                         *)
(* Saving and restoring a roster (export, import) loses nothing, so a      *)
(* restart is a stuttering step here.  Labels are advisory and left out.   *)
(* A ledger entry is not state of the roster and is left out.              *)
(*                                                                         *)
(* A definition named Op_Variant, just before Op, is Op with a plausible   *)
(* mistake in it: no action uses it, and putting it in the place of Op     *)
(* must make TLC refute the property it is listed with.                    *)
(***************************************************************************)
EXTENDS Naturals, FiniteSets

CONSTANTS
  Device,      \* device ids; an id is never reused for another device
  Founder,     \* the device that founds the family
  Keys,        \* identity keys a joining phone may present for one id
  NoKey,       \* the key of a record that does not exist
  MaxActive,   \* MAX_ACTIVE_DEVICES
  Budget,      \* MAX_MEMBERSHIP_EVENTS_PER_DEVICE_PER_DAY
  Revocable,   \* the devices the server's list may ever show as revoked
  Busy,        \* the devices whose signed events may fall inside the window
  MaxEpoch,    \* bound of the model: no device signs a removal past it
  MaxSyncs     \* bound of the model: syncs in flight at any one time

ASSUME RosterAssumption ==
  /\ IsFiniteSet(Device)
  /\ Founder \in Device
  /\ NoKey \notin Keys
  /\ Keys # {}
  /\ MaxActive \in Nat \ {0}
  /\ Budget \in Nat
  /\ Revocable \subseteq Device
  /\ Busy \subseteq Device
  /\ MaxEpoch \in Nat
  /\ MaxSyncs \in Nat

VARIABLES
  devices,     \* devices[d][x]: the record d holds for x
  tombstones,  \* tombstones[d]: the ids d holds a tombstone for
  epoch,       \* epoch[d]
  churn,       \* churn[d][s]: events of s inside d's window, capped at Budget
  held,        \* held[d]: the vouches d's user has yet to decide on
  removedMe,   \* removedMe[d]: the peers that told d they removed it
  msgs,        \* every roster_introduce and roster_remove ever broadcast
  syncs        \* the roster_sync messages in flight

vars == <<devices, tombstones, epoch, churn, held, removedMe, msgs, syncs>>

-----------------------------------------------------------------------------
(* Records and messages.                                                    *)

Unknown == [state |-> "unknown", pk |-> NoKey]
Record == {Unknown} \cup [state : {"active", "removed"}, pk : Keys]
ActiveRecord(k) == [state |-> "active", pk |-> k]

HeldAdmission == [subject : Device, introducer : Device, pk : Keys]

\* sig is the identity key that signed: a signature verifies exactly against
\* that key.  A channel goes to one peer and is not part of the message.
RosterIntroduce ==
  [type : {"introduce"}, from : Device, sig : Keys, subject : Device, pk : Keys]
RosterRemove ==
  [type : {"remove"}, from : Device, sig : Keys, subject : Device,
   epoch : 1..MaxEpoch]

\* The list a sync carries.  Only known devices are listed, which the state
\* "unknown" stands for.
RosterSync == [from : Device, epoch : 0..MaxEpoch, devices : [Device -> Record]]

-----------------------------------------------------------------------------
(* Queries.                                                                 *)

Known(d, x) == devices[d][x].state # "unknown"
IsActive(d, x) == devices[d][x].state = "active"
ActiveIn(d) == {x \in Device : IsActive(d, x)}
ActiveCount(d) == Cardinality(ActiveIn(d))

\* d has a roster: it founded the family or adopted one.
Joined(d) == Known(d, d)
MyKey(d) == devices[d][d].pk

\* Peers that d removed and that told d they removed it: mutual evictions.
Splits(d) == removedMe[d] \cap tombstones[d]

MaxOf_KeepsLocal(a, b) == a
MaxOf(a, b) == IF a >= b THEN a ELSE b

-----------------------------------------------------------------------------
(* The churn budget.                                                        *)

Charge(n) == IF n < Budget THEN n + 1 ELSE Budget
WouldExceed(d, s) == churn[d][s] >= Budget

\* The signed timestamp of an event of s may fall inside the window or not.
Fresh(s) == IF s \in Busy THEN BOOLEAN ELSE {FALSE}

\* d witnesses an event signed by s about x, which counts if it is inside the
\* window.  s leaving by itself is free.
ChurnAfter(d, s, x, fresh) ==
  IF fresh /\ s # x THEN [churn[d] EXCEPT ![s] = Charge(@)] ELSE churn[d]

-----------------------------------------------------------------------------
(* Admission.                                                               *)

(* vouch_for: what the introducer itself refuses to sign.                   *)
MayVouch(i, x) ==
  /\ x \notin tombstones[i]
  /\ IsActive(i, x) \/ ActiveCount(i) < MaxActive

IntroduceMsg(i, x, k) ==
  [type |-> "introduce", from |-> i, sig |-> MyKey(i), subject |-> x, pk |-> k]

Unauthorised_ByRemoved(d, m) ==
  \/ ~Known(d, m.from)
  \/ m.subject = m.from
  \/ devices[d][m.from].pk # m.sig
\* The checks of receive_introduce, in its order; the signature comes last.
Unauthorised(d, m) ==
  \/ ~IsActive(d, m.from)
  \/ m.subject = m.from
  \/ devices[d][m.from].pk # m.sig

Barred_Never(d, m) == FALSE
Barred(d, m) == m.subject \in tombstones[d]

Rekeyed_WhileActive(d, m) ==
  IsActive(d, m.subject) /\ devices[d][m.subject].pk # m.pk
Rekeyed(d, m) ==
  Known(d, m.subject) /\ devices[d][m.subject].pk # m.pk

OverCap_OffByOne(d, m) == ~IsActive(d, m.subject) /\ ActiveCount(d) > MaxActive
OverCap(d, m) == ~IsActive(d, m.subject) /\ ActiveCount(d) >= MaxActive

Refused(d, m) ==
  Unauthorised(d, m) \/ Barred(d, m) \/ Rekeyed(d, m) \/ OverCap(d, m)

Verdict(d, m) ==
  IF Refused(d, m) THEN "refused"
  ELSE IF IsActive(d, m.subject) THEN "known"
  ELSE IF WouldExceed(d, m.from) THEN "held" ELSE "admitted"

\* admit: the record is written whole, over any record there was.
Admit(d, x, k) == [devices[d] EXCEPT ![x] = ActiveRecord(k)]

DevicesAfter(d, m) ==
  IF Verdict(d, m) = "admitted" THEN Admit(d, m.subject, m.pk) ELSE devices[d]

HeldAfter(d, m) ==
  IF Verdict(d, m) = "held"
  THEN {h \in held[d] : h.subject # m.subject}
         \cup {[subject |-> m.subject, introducer |-> m.from, pk |-> m.pk]}
  ELSE held[d]

ChurnAfterIntroduce(d, m, fresh) ==
  IF Verdict(d, m) = "admitted"
  THEN ChurnAfter(d, m.from, m.subject, fresh) ELSE churn[d]

(* receive_introduce, for a message the session authenticated.              *)
ReceiveIntroduce(d, m) ==
  /\ m.type = "introduce"
  /\ m.from # d
  /\ Joined(d)
  /\ devices' = [devices EXCEPT ![d] = DevicesAfter(d, m)]
  /\ held' = [held EXCEPT ![d] = HeldAfter(d, m)]
  /\ \E fresh \in Fresh(m.from) :
       churn' = [churn EXCEPT ![d] = ChurnAfterIntroduce(d, m, fresh)]
  /\ UNCHANGED <<tombstones, epoch, removedMe, msgs, syncs>>

\* i vouches for x, whose phone shows key k: it takes its own vouch first and
\* then broadcasts it.  Vouching for a device already in is a re-broadcast.
VouchedBy(i, x, k) ==
  LET m == IntroduceMsg(i, x, k) IN
  /\ i # x
  /\ Joined(i)
  /\ Joined(x) => k = MyKey(x)
  /\ MayVouch(i, x)
  /\ Verdict(i, m) # "refused"
  /\ msgs' = msgs \cup {m}
  /\ held' = [held EXCEPT ![i] = HeldAfter(i, m)]
  /\ \E fresh \in Fresh(i) :
       churn' = [churn EXCEPT ![i] = ChurnAfterIntroduce(i, m, fresh)]

(* The introducer's half of the ceremony alone: a re-broadcast, or a join   *)
(* that breaks off before the other phone has adopted anything.             *)
Vouch(i, x, k) ==
  /\ VouchedBy(i, x, k)
  /\ devices' = [devices EXCEPT ![i] = DevicesAfter(i, IntroduceMsg(i, x, k))]
  /\ UNCHANGED <<tombstones, epoch, removedMe, syncs>>

\* What x adopts from i: i's records (all of them, or the active ones only),
\* i's own, and its own as the vouch describes it.
Adopted(i, x, k, all) ==
  [y \in Device |->
     IF y = x THEN ActiveRecord(k)
     ELSE IF y = i \/ all \/ IsActive(i, y) THEN devices[i][y]
     ELSE Unknown]

(* The whole ceremony, both phones in hand: vouch_for and receive_introduce *)
(* on i, adopt on x.                                                        *)
Join(i, x, k, all) ==
  /\ ~Joined(x)
  /\ VouchedBy(i, x, k)
  /\ Verdict(i, IntroduceMsg(i, x, k)) \in {"admitted", "known"}
  /\ devices' = [devices EXCEPT ![i] = DevicesAfter(i, IntroduceMsg(i, x, k)),
                                ![x] = Adopted(i, x, k, all)]
  /\ tombstones' = [tombstones EXCEPT ![x] = tombstones[i]]
  /\ epoch' = [epoch EXCEPT ![x] = epoch[i]]
  /\ UNCHANGED <<removedMe, syncs>>

(* approve_held: the introducer and the tombstones are looked at again.     *)
MayApprove_TrustsHeldCopy(d, h) == h.subject \notin tombstones[d]
MayApprove(d, h) ==
  /\ IsActive(d, h.introducer)
  /\ h.subject \notin tombstones[d]

ApproveHeld(d, h) ==
  /\ h \in held[d]
  /\ held' = [held EXCEPT ![d] = @ \ {h}]
  /\ devices' = IF MayApprove(d, h)
                THEN [devices EXCEPT ![d] = Admit(d, h.subject, h.pk)]
                ELSE devices
  /\ UNCHANGED <<tombstones, epoch, churn, removedMe, msgs, syncs>>

(* deny_held.                                                               *)
DenyHeld(d, h) ==
  /\ h \in held[d]
  /\ held' = [held EXCEPT ![d] = @ \ {h}]
  /\ UNCHANGED <<devices, tombstones, epoch, churn, removedMe, msgs, syncs>>

-----------------------------------------------------------------------------
(* Removal.                                                                 *)

\* apply_tombstone for every x in S, on each map it touches.  An unknown id
\* gets its tombstone and no record.
Deactivated(d, S) ==
  [x \in Device |-> IF x \in S /\ Known(d, x)
                    THEN [devices[d][x] EXCEPT !.state = "removed"]
                    ELSE devices[d][x]]
Unheld(d, S) == {h \in held[d] : h.subject \notin S}
Forgotten(counts, S) == [s \in Device |-> IF s \in S THEN 0 ELSE counts[s]]

ApplyTombstones(d, S, e) ==
  /\ tombstones' = [tombstones EXCEPT ![d] = @ \cup S]
  /\ devices' = [devices EXCEPT ![d] = Deactivated(d, S)]
  /\ held' = [held EXCEPT ![d] = Unheld(d, S)]
  /\ epoch' = [epoch EXCEPT ![d] = MaxOf(@, e)]

(* remove: applied at once, then broadcast to the family and the subject.   *)
RemoveMsg(d, x) ==
  [type |-> "remove", from |-> d, sig |-> MyKey(d), subject |-> x,
   epoch |-> epoch[d] + 1]

Remove(d, x) ==
  /\ IsActive(d, d)
  /\ epoch[d] < MaxEpoch
  /\ ApplyTombstones(d, {x}, epoch[d] + 1)
  /\ \E fresh \in Fresh(d) :
       churn' = [churn EXCEPT ![d] = Forgotten(ChurnAfter(d, d, x, fresh), {x})]
  /\ msgs' = msgs \cup {RemoveMsg(d, x)}
  /\ UNCHANGED <<removedMe, syncs>>

(* receive_remove about another device: counted first, never refused for    *)
(* the budget, and applied unless the tombstone is already there.           *)
AcceptsRemoval(d, m) == IsActive(d, m.from) /\ devices[d][m.from].pk = m.sig

ReceiveRemove(d, m) ==
  /\ m.type = "remove"
  /\ m.from # d
  /\ Joined(d)
  /\ m.subject # d
  /\ AcceptsRemoval(d, m)
  /\ \E fresh \in Fresh(m.from) :
     LET counted == ChurnAfter(d, m.from, m.subject, fresh) IN
     IF m.subject \in tombstones[d]
     THEN /\ churn' = [churn EXCEPT ![d] = counted]
          /\ UNCHANGED <<tombstones, devices, held, epoch>>
     ELSE /\ churn' = [churn EXCEPT ![d] = Forgotten(counted, {m.subject})]
          /\ ApplyTombstones(d, {m.subject}, m.epoch)
  /\ UNCHANGED <<removedMe, msgs, syncs>>

(* receive_removal_of_self: taken from any device with a record, removed or *)
(* not, and d keeps its own record.                                         *)
AcceptsOwnRemoval_FromActive(d, m) ==
  IsActive(d, m.from) /\ devices[d][m.from].pk = m.sig
AcceptsOwnRemoval(d, m) == Known(d, m.from) /\ devices[d][m.from].pk = m.sig

ReceiveRemovalOfSelf(d, m) ==
  /\ m.type = "remove"
  /\ m.from # d
  /\ Joined(d)
  /\ m.subject = d
  /\ AcceptsOwnRemoval(d, m)
  /\ removedMe' = [removedMe EXCEPT ![d] = @ \cup {m.from}]
  /\ epoch' = [epoch EXCEPT ![d] = MaxOf(@, m.epoch)]
  /\ UNCHANGED <<devices, tombstones, churn, held, msgs, syncs>>

-----------------------------------------------------------------------------
(* Synchronisation.                                                         *)

(* sync.                                                                    *)
SyncMsg(d) == [from |-> d, epoch |-> epoch[d], devices |-> devices[d]]

SendSync(d) ==
  /\ Joined(d)
  /\ Cardinality(syncs) < MaxSyncs
  /\ syncs' = syncs \cup {SyncMsg(d)}
  /\ UNCHANGED <<devices, tombstones, epoch, churn, held, removedMe, msgs>>

LoseSync(m) ==
  /\ syncs' = syncs \ {m}
  /\ UNCHANGED <<devices, tombstones, epoch, churn, held, removedMe, msgs>>

InSync(d, m) == m.epoch = epoch[d] /\ m.devices = devices[d]

ReportsRemoved_IfNotActive(m, x) == m.devices[x].state # "active"
ReportsRemoved(m, x) == m.devices[x].state = "removed"

Learned_ByNewerEpoch(d, m) ==
  {x \in Device \ {d} : /\ Known(d, x)
                        /\ m.epoch > epoch[d]
                        /\ ReportsRemoved(m, x)
                        /\ x \notin tombstones[d]}
\* The removals d learns from m: of devices it knows, and never of itself.
Learned(d, m) ==
  {x \in Device \ {d} : /\ Known(d, x)
                        /\ ReportsRemoved(m, x)
                        /\ x \notin tombstones[d]}

(* receive_sync.  A device only the sender knows is an anomaly and not an   *)
(* admission.                                                               *)
MergesFrom_Anyone(d, m) == Known(d, m.from) /\ ~InSync(d, m)
MergesFrom(d, m) == IsActive(d, m.from) /\ ~InSync(d, m)

ReceiveSync(d, m) ==
  /\ d # m.from
  /\ Joined(d)
  /\ MergesFrom(d, m)
  /\ ApplyTombstones(d, Learned(d, m), m.epoch)
  /\ churn' = [churn EXCEPT ![d] = Forgotten(@, Learned(d, m))]
  /\ removedMe' = IF ReportsRemoved(m, d)
                  THEN [removedMe EXCEPT ![d] = @ \cup {m.from}] ELSE removedMe
  /\ UNCHANGED <<msgs, syncs>>

(* reconcile_server_list: R is the set the server lists as revoked.  The    *)
(* record is deactivated and no tombstone is written.                       *)
Reconcile(d, R) ==
  /\ Joined(d)
  /\ devices' = [devices EXCEPT ![d] = [x \in Device |->
                   IF x \in R /\ IsActive(d, x)
                   THEN [@[x] EXCEPT !.state = "removed"] ELSE @[x]]]
  /\ UNCHANGED <<tombstones, epoch, churn, held, removedMe, msgs, syncs>>

(* Time passes, and events of s leave d's window.                           *)
WindowRolls(d, s, n) ==
  /\ n < churn[d][s]
  /\ churn' = [churn EXCEPT ![d][s] = n]
  /\ UNCHANGED <<devices, tombstones, epoch, held, removedMe, msgs, syncs>>

-----------------------------------------------------------------------------
(* found: the founder self-vouches at epoch 0.                              *)
Init ==
  /\ \E k \in Keys :
       devices = [d \in Device |-> [x \in Device |->
                    IF d = Founder /\ x = Founder THEN ActiveRecord(k) ELSE Unknown]]
  /\ tombstones = [d \in Device |-> {}]
  /\ epoch = [d \in Device |-> 0]
  /\ churn = [d \in Device |-> [s \in Device |-> 0]]
  /\ held = [d \in Device |-> {}]
  /\ removedMe = [d \in Device |-> {}]
  /\ msgs = {}
  /\ syncs = {}

Next ==
  \/ \E i, x \in Device, k \in Keys :
       \/ Vouch(i, x, k)
       \/ \E all \in BOOLEAN : Join(i, x, k, all)
  \/ \E d \in Device, m \in msgs :
       ReceiveIntroduce(d, m) \/ ReceiveRemove(d, m) \/ ReceiveRemovalOfSelf(d, m)
  \/ \E d \in Device : \E h \in held[d] : ApproveHeld(d, h) \/ DenyHeld(d, h)
  \/ \E d, x \in Device : Remove(d, x)
  \/ \E d \in Device : SendSync(d)
  \/ \E m \in syncs : LoseSync(m) \/ \E d \in Device : ReceiveSync(d, m)
  \/ \E d \in Device, R \in SUBSET Revocable : Reconcile(d, R)
  \/ \E d, s \in Device, n \in 0..Budget : WindowRolls(d, s, n)

Spec == Init /\ [][Next]_vars

-----------------------------------------------------------------------------
(* The type invariant.                                                      *)
TypeOK ==
  /\ devices \in [Device -> [Device -> Record]]
  /\ tombstones \in [Device -> SUBSET Device]
  /\ epoch \in [Device -> 0..MaxEpoch]
  /\ churn \in [Device -> [Device -> 0..Budget]]
  /\ held \in [Device -> SUBSET HeldAdmission]
  /\ removedMe \in [Device -> SUBSET Device]
  /\ msgs \subseteq RosterIntroduce \cup RosterRemove
  /\ syncs \subseteq RosterSync

-----------------------------------------------------------------------------
(* Safety.                                                                  *)

(* "Tombstones win over device records, always and regardless of epoch":    *)
(* in no order of vouches, removals, syncs, adoptions and approvals is a    *)
(* device active, or waiting to be approved, where it has a tombstone.      *)
TombstoneWins ==
  \A d \in Device : \A x \in tombstones[d] :
    /\ ~IsActive(d, x)
    /\ \A h \in held[d] : h.subject # x

(* A device that is told it was removed really was: whoever it names as its *)
(* remover holds a tombstone for it.  So a split that one side reports is a *)
(* mutual eviction in fact.                                                 *)
NoFalseEviction ==
  \A d \in Device : \A r \in removedMe[d] : d \in tombstones[r]

(* Every tombstone goes back to a removal that some device signed, and the  *)
(* epoch of its holder covers that removal: the permanence of a removal is  *)
(* conferred by the family's own signatures, never by a server's list, and  *)
(* the epoch a topic is derived from is never behind a removal it reflects. *)
TombstonesAreSigned ==
  \A d \in Device : \A x \in tombstones[d] :
    \E m \in msgs : m.type = "remove" /\ m.subject = x /\ m.epoch <= epoch[d]

(* "A peer that presents another identity key has to join again": no        *)
(* message, of whichever member and in whatever order, replaces the key a   *)
(* device holds for an id or takes its family past the cap.  What the code  *)
(* leaves open is the user's approval of a held vouch, which looks at       *)
(* neither again, and adopt, which takes a family over as it is.            *)
Approves(d) == \E h \in held[d] : h \notin held'[d]
IdentityPinned ==
  [][\A d \in Device :
       Joined(d) /\ ~Approves(d) =>
         /\ \A x \in Device : Known(d, x) => devices'[d][x].pk = devices[d][x].pk
         /\ ActiveCount(d)' <= MaxOf(ActiveCount(d), MaxActive)]_vars

-----------------------------------------------------------------------------
(* Every step of the message-passing rosters is a step of the abstract      *)
(* membership: who is a member of whose family changes only on a vouch or a *)
(* removal of someone who is a member of it at that moment.                 *)
view == [d \in Device |-> [x \in Device |->
          IF x \in tombstones[d] THEN "gone"
          ELSE CASE devices[d][x].state = "unknown" -> "stranger"
                 [] devices[d][x].state = "active"  -> "member"
                 [] devices[d][x].state = "removed" -> "suspended"]]
vouches == {<<m.from, m.subject>> : m \in {n \in msgs : n.type = "introduce"}}

Family == INSTANCE Membership WITH Device <- Device, Founder <- Founder,
                                  view <- view, vouches <- vouches
ImplementsMembership == Family!Spec

-----------------------------------------------------------------------------
(* Liveness.                                                                *)

(* Syncs are sent on reconnect, on wake and periodically: one that is lost  *)
(* is followed by another, none stays under way for ever, and a peer that   *)
(* syncs for ever gets through at last.                                     *)
SyncsReach(s, d) ==
  /\ WF_vars(\E m \in syncs : LoseSync(m))
  /\ SF_vars(SendSync(s))
  /\ SF_vars(\E m \in syncs : m.from = s /\ ReceiveSync(d, m))

(* A roster_remove is durable in the outbox, which retries until it lands.  *)
RemovalReaches(s, d) ==
  SF_vars(\E m \in msgs : m.from = s /\ ReceiveRemovalOfSelf(d, m))

(* A removal that p holds reaches every q that still listens to p and still *)
(* counts x a member, whatever was lost on the way and whatever its epoch.  *)
RemovalSpreads(p, q, x) ==
  (x # q /\ x \in tombstones[p] /\ IsActive(q, p) /\ IsActive(q, x))
    ~> (~IsActive(q, p) \/ ~IsActive(q, x))

(* When p and q have removed each other, q comes to see the split, although *)
(* it has withdrawn p's authority.                                          *)
HasRemoved(p, q) == \E m \in msgs : m.type = "remove" /\ m.from = p /\ m.subject = q

EvictionSurfaces(p, q) ==
  (HasRemoved(p, q) /\ p \in tombstones[q] /\ Known(q, p)) ~> p \in Splits(q)

=============================================================================
