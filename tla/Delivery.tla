------------------------------ MODULE Delivery -----------------------------
(***************************************************************************)
(* From one person's decision to another one's screen: the consent gate    *)
(* (consent.rs), the outbox as Outbox promises it, a channel that keeps    *)
(* order, and the receive pipeline (lib.rs, envelope.rs) with what it      *)
(* enters in the ledger (ledger.rs).                                       *)
(*                                                                         *)
(* A device asks the gate when a message is made and not when it goes out. *)
(* A send that fails makes its entry wait, and those behind it go first; a *)
(* send whose answer is lost happens twice.  Builds differ, so a message   *)
(* may be of a type its receiver does not know; and some devices put on    *)
(* their own channels whatever they like.                                  *)
(*                                                                         *)
(* A definition named Op_Variant, just before Op, is Op with a plausible   *)
(* mistake in it; no action uses it.                                       *)
(***************************************************************************)
EXTENDS Naturals, Sequences, SequencesExt

CONSTANTS
  Device,
  Liars,       \* devices that put on their channels whatever they like
  Newer,       \* devices whose build knows a type that the others do not
  Traffic,     \* what people come to send: <<device, type, peer>>
  Wishes,      \* what people come to grant: <<device, feature, peer>>
  MaxQueued,   \* bound of the code: messages queued for one channel
  MaxUnder,    \* bound of the model: messages under way on one channel
  MaxTroubles  \* bound of the model: sends that fail, happen twice or are made up

ASSUME DeliveryAssumption ==
  /\ Liars \subseteq Device /\ Newer \subseteq Device
  /\ Traffic \subseteq Device \X {"location", "attention", "sos", "newer"} \X Device
  /\ Wishes \subseteq Device \X {"location", "attention"} \X Device
  /\ {MaxQueued, MaxUnder} \subseteq Nat \ {0}
  /\ MaxTroubles \in Nat

VARIABLES
  issued,      \* issued[d]: <<feature, peer>> for each grant d has given
  advertised,  \* advertised[d]: <<feature, peer>> for each that d was told of
  ledger,      \* ledger[d]: the changes of consent d's activity log tells of, each
               \* with its last entry
  queue,       \* queue[d][p]: what d has queued for p, the oldest first
  wire,        \* wire[d][p]: what is under way from d to p
  screen,      \* screen[d]: the last message d accepted, and from whom
  ever,        \* history: the grants people have ever given, and the channels on
  overtaken,   \* which an entry has gone out before an older one
  troubles

consent == <<issued, advertised, ledger>>
history == <<ever, overtaken>>
vars == <<consent, queue, wire, screen, history, troubles>>

Honest == Device \ Liars
Nothing == [type |-> "nothing", from |-> CHOOSE d \in Device : TRUE]
Trouble == troubles < MaxTroubles /\ troubles' = troubles + 1

Plain == {"location", "attention", "sos", "newer"}
Messages == [type : Plain] \cup
            [type : {"consent_update"}, feature : {"location", "attention"}, granted : BOOLEAN]
Understands(d, m) == m.type # "newer" \/ d \in Newer
IsDurable_AlarmsOnly(m) == m.type = "sos"
IsDurable(m) == m.type \in {"sos", "consent_update"}

Told(d, change, feature, p, granted) ==
  ledger' = [ledger EXCEPT ![d] =
    {e \in @ : <<e.change, e.feature, e.peer>> # <<change, feature, p>>} \cup
    {[change |-> change, feature |-> feature, peer |-> p, granted |-> granted]}]

-----------------------------------------------------------------------------
(* The gate.                                                               *)

\* Two sets: a position needs a grant of one's own, and a nudge needs an allow that
\* its receiver has advertised.
MaySend_InboundOnly(d, m, p) == m.type # "attention" \/ <<m.type, p>> \in advertised[d]
MaySend(d, m, p) ==
  CASE m.type = "location"  -> <<"location", p>> \in issued[d]
    [] m.type = "attention" -> <<"attention", p>> \in advertised[d]
    [] OTHER -> Understands(d, m)

\* Room is made by the oldest message that may go stale; there is none if all are durable.
Room(d, p) ==
  LET q == queue[d][p]
      stale == {i \in DOMAIN q : ~IsDurable(q[i].message)} IN
  IF Len(q) < MaxQueued \/ stale = {} THEN q
  ELSE RemoveAt(q, CHOOSE i \in stale : \A j \in stale : i <= j)

Enqueue(d, p, m) ==
  /\ Len(Room(d, p)) < MaxQueued
  /\ queue' = [queue EXCEPT ![d][p] = Append(Room(d, p), [message |-> m, waits |-> FALSE])]

\* Somebody has d send something to p.
Emit(d, m, p) ==
  /\ MaySend(d, m, p)
  /\ Enqueue(d, p, m)
  /\ UNCHANGED <<consent, wire, screen, history, troubles>>

\* A person grants or revokes, which takes effect at once, and p is told of it.
Issued(d, feature, p, granted) ==
  issued' = [issued EXCEPT ![d] = IF granted THEN @ \cup {<<feature, p>>} ELSE @ \ {<<feature, p>>}]

Change(d, feature, p, granted) ==
  /\ granted # (<<feature, p>> \in issued[d])
  /\ Issued(d, feature, p, granted)
  /\ Told(d, "issued", feature, p, granted)
  /\ Enqueue(d, p, [type |-> "consent_update", feature |-> feature, granted |-> granted])
  /\ ever' = ever \cup (IF granted THEN {<<d, feature, p>>} ELSE {})
  /\ UNCHANGED <<advertised, wire, screen, overtaken, troubles>>

-----------------------------------------------------------------------------
(* The outbox and the channel.                                             *)
Envelope(claimed, m) == [sender |-> claimed, message |-> m, sound |-> TRUE]
Posted(d, p, e) == wire' = [wire EXCEPT ![d][p] = Append(@, e)]

\* An entry is offered when all that is ahead of it waits.
Offered(d, p, i) ==
  /\ i \in DOMAIN queue[d][p]
  /\ \A j \in 1..(i - 1) : queue[d][p][j].waits
  /\ Len(wire[d][p]) < MaxUnder

Send(d, p, i) ==
  /\ Offered(d, p, i)
  /\ Posted(d, p, Envelope(d, queue[d][p][i].message))
  /\ \/ queue' = [queue EXCEPT ![d][p] = RemoveAt(@, i)] /\ UNCHANGED troubles
     \/ queue' = [queue EXCEPT ![d][p][i].waits = TRUE] /\ Trouble
  /\ overtaken' = overtaken \cup (IF i = 1 THEN {} ELSE {<<d, p>>})
  /\ UNCHANGED <<consent, screen, ever>>

SendFails(d, p, i) ==
  /\ Offered(d, p, i)
  /\ Trouble
  /\ queue' = [queue EXCEPT ![d][p][i].waits = TRUE]
  /\ UNCHANGED <<consent, wire, screen, history>>

Expire(d, p, i) ==
  /\ i \in DOMAIN queue[d][p]
  /\ ~IsDurable(queue[d][p][i].message)
  /\ queue' = [queue EXCEPT ![d][p] = RemoveAt(@, i)]
  /\ UNCHANGED <<consent, wire, screen, history, troubles>>

\* It claims to be of somebody else, is of an unknown type, or is no envelope at all.
MadeUp == {Envelope(d, m) : d \in Honest, m \in Messages} \cup
          {Envelope(d, [type |-> "newer"]) : d \in Liars} \cup
          {[Envelope(d, [type |-> "location"]) EXCEPT !.sound = FALSE] : d \in Liars}
MakeUp(d, p, e) ==
  /\ d # p
  /\ Len(wire[d][p]) < MaxUnder
  /\ Trouble
  /\ Posted(d, p, e)
  /\ UNCHANGED <<consent, queue, screen, history>>

-----------------------------------------------------------------------------
(* What arrives.  It is read under the name of the device whose session     *)
(* opened it.                                                              *)
CheckSender_Never(e, p) == TRUE
CheckSender(e, p) == e.sender = p

Accepted(d, p, e) == e.sound /\ CheckSender(e, p) /\ Understands(d, e.message)

Advertise_OnlyGrants(d, p, m) ==
  /\ advertised' = [advertised EXCEPT ![d] = IF m.granted THEN @ \cup {<<m.feature, p>>} ELSE @]
  /\ Told(d, "advertised", m.feature, p, m.granted)
Advertise(d, p, m) ==
  /\ advertised' = [advertised EXCEPT ![d] =
       IF m.granted THEN @ \cup {<<m.feature, p>>} ELSE @ \ {<<m.feature, p>>}]
  /\ Told(d, "advertised", m.feature, p, m.granted)

Receive(p, d) ==
  /\ wire[p][d] # <<>>
  /\ wire' = [wire EXCEPT ![p][d] = Tail(@)]
  /\ LET e == Head(wire[p][d]) IN
     IF Accepted(d, p, e)
     THEN /\ screen' = [screen EXCEPT ![d] = [type |-> e.message.type, from |-> e.sender]]
          /\ IF e.message.type = "consent_update" THEN Advertise(d, e.sender, e.message)
             ELSE UNCHANGED <<advertised, ledger>>
     ELSE UNCHANGED <<screen, advertised, ledger>>
  /\ UNCHANGED <<issued, queue, history, troubles>>

-----------------------------------------------------------------------------
Init ==
  /\ issued = [d \in Device |-> {}]
  /\ advertised = [d \in Device |-> {}]
  /\ ledger = [d \in Device |-> {}]
  /\ queue = [d \in Device |-> [p \in Device |-> <<>>]]
  /\ wire = [d \in Device |-> [p \in Device |-> <<>>]]
  /\ screen = [d \in Device |-> Nothing]
  /\ ever = {} /\ overtaken = {}
  /\ troubles = 0

Next ==
  \/ \E t \in Traffic : Emit(t[1], [type |-> t[2]], t[3])
  \/ \E d, p \in Honest, i \in 1..MaxQueued :
       Send(d, p, i) \/ SendFails(d, p, i) \/ Expire(d, p, i)
  \/ \E d \in Honest, p \in Device : Receive(p, d)
  \/ \E w \in Wishes, granted \in BOOLEAN : Change(w[1], w[2], w[3], granted)
  \/ \E d \in Liars, p \in Honest, e \in MadeUp : MakeUp(d, p, e)

\* The scheduler has what waits sent in the end, and what has arrived is read.
Spec ==
  /\ Init /\ [][Next]_vars
  /\ \A d, p \in Honest : SF_vars(Send(d, p, 1))
  /\ \A d \in Honest, p \in Device : WF_vars(Receive(p, d))

-----------------------------------------------------------------------------
Features == {"location", "attention"}
Entries == [change : {"issued", "advertised"}, feature : Features, peer : Device,
            granted : BOOLEAN]

\* A channel never has more queued than it may.
TypeOK ==
  /\ issued \in [Device -> SUBSET (Features \X Device)]
  /\ advertised \in [Device -> SUBSET (Features \X Device)]
  /\ \A d, p \in Device :
       /\ ledger[d] \subseteq Entries
       /\ Len(queue[d][p]) <= MaxQueued
       /\ Len(wire[d][p]) <= MaxUnder
       /\ \A i \in DOMAIN queue[d][p] :
            queue[d][p][i] \in [message : Messages, waits : BOOLEAN]
  /\ ever \subseteq Wishes /\ overtaken \subseteq Device \X Device
  /\ troubles \in 0..MaxTroubles

\* "Data for a feature without a grant never leaves the device" (consent.rs), end to
\* end: what anybody accepts as the position or the nudge of an honest device is one
\* for which there was a grant, of its sender or of the receiver itself, however the
\* messages about it were delayed, repeated, overtaken or made up.
OnlyWhatWasGranted ==
  \A d \in Honest :
    LET s == screen[d] IN
    /\ (s.type = "location" /\ s.from \in Honest) => <<s.from, "location", d>> \in ever
    /\ (s.type = "attention" /\ s.from \in Honest) => <<d, "attention", s.from>> \in ever

\* "Every message produces an entry" (ledger.rs): a person who reads the last entries
\* knows what is granted and what peers have allowed, to the letter.
LedgerTellsConsent ==
  \A d \in Honest :
    /\ issued[d] = {<<e.feature, e.peer>> : e \in {x \in ledger[d] : x.change = "issued" /\ x.granted}}
    /\ advertised[d] =
         {<<e.feature, e.peer>> : e \in {x \in ledger[d] : x.change = "advertised" /\ x.granted}}

\* "Revocation can never be blocked, delayed or made invisible by the observer"
\* (consent.rs): once a device has revoked its position for good, none is queued or
\* under way for good, although more went into the outbox before.
Carries(d, p, type) ==
  \/ \E i \in DOMAIN queue[d][p] : queue[d][p][i].message.type = type
  \/ \E i \in DOMAIN wire[d][p] : wire[d][p][i].message.type = type
RevocationTakesHold ==
  \A d, p \in Honest :
    <>[](<<"location", p>> \notin issued[d]) => <>[]~Carries(d, p, "location")

\* "A revocation that does not arrive leaves a peer believing it may still emit"
\* (Protocol.md): if no send to p is ever overtaken, p comes to believe what d has
\* settled on, although answers are lost and updates arrive twice.
PeersBelieveWhatIsSo ==
  \A w \in Wishes :
    LET d == w[1]
        f == w[2]
        p == w[3] IN
    [](<<d, p>> \notin overtaken) =>
      /\ <>[](<<f, p>> \in issued[d]) => <>[](<<f, d>> \in advertised[p])
      /\ <>[](<<f, p>> \notin issued[d]) => <>[](<<f, d>> \notin advertised[p])
=============================================================================
