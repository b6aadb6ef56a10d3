---------------------------- MODULE SundTransport ----------------------------
(***************************************************************************)
(* One channel of the transport over Sund (sund_transport.rs): a queue of  *)
(* ours that the peer sends to and we drain, and a queue of the peer's     *)
(* that we send to, each rotated by its owner.                             *)
(*                                                                         *)
(* Clones of the transport share the channel's record under a lock that is *)
(* let go around every request, so a call is several steps: one for each   *)
(* time it holds the lock and one for each request.  call[c] is the call   *)
(* caller c is in: its next step and what it has read so far.              *)
(*                                                                         *)
(* The relay is modelled from how the client uses it: a queue answers to   *)
(* its recipient key until it is retired; it is created open, the first    *)
(* send that offers a sender key binds that key, and no other key is       *)
(* accepted from then on.  A request may fail without effect, and its      *)
(* answer may be lost after it took effect.  What the queues carry is left *)
(* out: nothing here looks at a message.                                   *)
(*                                                                         *)
(* A definition named Op_Variant, just before Op, is Op with a plausible   *)
(* mistake in it; no action uses it.                                       *)
(***************************************************************************)
EXTENDS Naturals, Sequences, FiniteSets

CONSTANTS
  Caller,        \* those who hold a clone of the transport
  Managers,      \* the callers that open, rotate and retire
  Users,         \* the callers that send and drain
  Seed,          \* the recipient seeds the app hands out
  MaxRotations,  \* bound of the model: rotations begun while all is well
  MaxPeerQueues, \* bound of the model: queues the peer makes
  MaxTroubles    \* bound of the model: requests that fail or lose their answer,
                 \* and restarts from the snapshot

ASSUME TransportAssumption ==
  /\ Managers \subseteq Caller
  /\ Users \subseteq Caller
  /\ Seed # {}
  /\ MaxRotations \in Nat
  /\ MaxPeerQueues \in Nat \ {0}
  /\ MaxTroubles \in Nat

VARIABLES
  rec,        \* the channel's record
  attached,   \* the peer's queues the app knows it has attached
  call,       \* call[c]: the call c is in
  own,        \* the queues created for us, in order
  told,       \* those whose address was given out to reach the peer
  theirs,     \* the peer's queues, in order; it drains the last
  disk,       \* the snapshot last written: the record and attached
  forgotten,  \* the peer's queues whose attachment a restart lost
  minted,     \* the sender seeds used so far
  rotations, faults, crashes

local == <<rec, attached>>
relay == <<own, theirs>>
bounds == <<rotations, faults, crashes>>
vars == <<local, call, relay, told, disk, forgotten, minted, bounds>>

None == 0      \* no queue yet; queues are numbered from 1
Open == 0      \* no sender key bound yet; sender seeds are numbered from 1

NoOutbound == [queue |-> None, seed |-> Open, bound |-> FALSE]
Undeclared == [declared |-> FALSE, retired |-> FALSE, inbound |-> None,
               seed |-> CHOOSE s \in Seed : TRUE, out |-> NoOutbound]

Idle == [op |-> "none", at |-> "idle"]

Up(q) == own[q].up
Live == rec.declared /\ ~rec.retired
Stranded == Live /\ rec.inbound # None /\ ~Up(rec.inbound)

-----------------------------------------------------------------------------
(* What a request comes to: it takes effect and is answered, it takes      *)
(* effect and the answer is lost, or it fails.                             *)
Answered == UNCHANGED faults
Fault == faults + crashes < MaxTroubles /\ faults' = faults + 1

Begin(c, k) ==
  /\ Live
  /\ call[c] = Idle
  /\ call' = [call EXCEPT ![c] = k]
Go(c, k) == call' = [call EXCEPT ![c] = k]
Return(c) == call' = [call EXCEPT ![c] = Idle]

-----------------------------------------------------------------------------
(* Calls of one step, under the lock.                                      *)
Declare(s) ==
  /\ ~rec.declared
  /\ rec' = [Undeclared EXCEPT !.declared = TRUE, !.seed = s]
  /\ UNCHANGED <<attached, call, relay, told, disk, forgotten, minted, bounds>>

Attachable_Again(q) == q <= Len(theirs)
Attachable(q) == q <= Len(theirs) /\ q \notin attached

\* Once for each queue of the peer's, as its address arrives, in any order.
AttachOutbound(q) ==
  /\ Live
  /\ Attachable(q)
  /\ minted' = minted + 1
  /\ rec' = [rec EXCEPT !.out = [queue |-> q, seed |-> minted + 1, bound |-> FALSE]]
  /\ attached' = attached \cup {q}
  /\ UNCHANGED <<call, relay, told, disk, forgotten, bounds>>

\* Of no more use once the restarts are used up.
Export ==
  /\ disk' = IF faults + crashes < MaxTroubles THEN [rec |-> rec, attached |-> attached] ELSE disk
  /\ UNCHANGED <<local, call, relay, told, forgotten, minted, bounds>>

\* The process is killed and starts again from the snapshot.
Import ==
  /\ faults + crashes < MaxTroubles
  /\ crashes' = crashes + 1
  /\ rec' = disk.rec
  /\ attached' = disk.attached
  /\ forgotten' = forgotten \cup (attached \ disk.attached)
  /\ call' = [c \in Caller |-> Idle]
  /\ UNCHANGED <<relay, told, disk, minted, rotations, faults>>

-----------------------------------------------------------------------------
(* Steps that several calls share.  A queue of ours is made for a seed.     *)
CreateQueue(c) ==
  /\ call[c].at = "create"
  /\ \/ /\ own' = Append(own, [key |-> call[c].seed, up |-> TRUE])
        /\ \/ Answered /\ Go(c, [call[c] EXCEPT !.at = "finish", !.queue = Len(own) + 1])
           \/ Fault /\ Return(c)
     \/ Fault /\ Return(c) /\ UNCHANGED own
  /\ UNCHANGED <<local, theirs, told, disk, forgotten, minted, rotations, crashes>>

\* The key is read under the lock again, of a retired channel too.
RecipientKey(c) ==
  /\ call[c].at = "key"
  /\ Go(c, [call[c] EXCEPT !.at = "request", !.key = rec.seed])
  /\ UNCHANGED <<local, relay, told, disk, forgotten, minted, bounds>>

Accepts(q, key) == Up(q) /\ own[q].key = key

\* A queue that is gone already is as good as retired.
GoesOn_IfRetired(q) == FALSE
GoesOn(q) == ~Up(q)

\* The queue the channel had is retired, for another or for good.
RetireQueue(c) ==
  LET q == call[c].queue
      Continue == Go(c, [call[c] EXCEPT !.at = IF call[c].op = "rotate" THEN "create"
                                               ELSE "finish"]) IN
  /\ call[c].at = "request"
  /\ call[c].op \in {"rotate", "retire"}
  /\ \/ /\ Accepts(q, call[c].key)
        /\ own' = [own EXCEPT ![q].up = FALSE]
        /\ (Answered /\ Continue) \/ (Fault /\ Return(c))
     \/ /\ ~Accepts(q, call[c].key)
        /\ Answered
        /\ IF GoesOn(q) THEN Continue ELSE Return(c)
        /\ UNCHANGED own
     \/ Fault /\ Return(c) /\ UNCHANGED own
  /\ UNCHANGED <<local, theirs, told, disk, forgotten, minted, rotations, crashes>>

-----------------------------------------------------------------------------
(* open: of several callers that open at once the first result stays.  The  *)
(* app then reads our address (inbound) and gives it to the peer.          *)
OpenBegin(c) ==
  /\ rec.inbound = None
  /\ Begin(c, [op |-> "open", at |-> "create", queue |-> None, key |-> rec.seed,
               seed |-> rec.seed])
  /\ UNCHANGED <<local, relay, told, disk, forgotten, minted, bounds>>

Keeps == rec.inbound = None

OpenFinish(c) ==
  /\ call[c].op = "open" /\ call[c].at = "finish"
  /\ rec' = IF Live /\ Keeps THEN [rec EXCEPT !.inbound = call[c].queue] ELSE rec
  /\ told' = told \cup ({rec'.inbound} \ {None})
  /\ Return(c)
  /\ UNCHANGED <<attached, relay, disk, forgotten, minted, bounds>>

-----------------------------------------------------------------------------
(* rotate_inbound and retire.  Both look at the queue there is, retire it,  *)
(* and come back to the record.                                            *)
FirstStep_LeaveTheOld(then) == then
FirstStep(then) == IF rec.inbound = None THEN then ELSE "key"

\* A rotation is begun because the app wants one, or tries again because the
\* last left the channel without a queue.
RotateBegin(c, s) ==
  /\ s # rec.seed
  /\ Begin(c, [op |-> "rotate", at |-> FirstStep("create"), queue |-> rec.inbound,
               key |-> rec.seed, seed |-> s])
  /\ IF Stranded
     THEN UNCHANGED rotations
     ELSE rotations < MaxRotations /\ rotations' = rotations + 1
  /\ UNCHANGED <<local, relay, told, disk, forgotten, minted, faults, crashes>>

Renewed_OldSeed(k) == [rec EXCEPT !.inbound = k.queue]
Renewed(k) == [rec EXCEPT !.inbound = k.queue, !.seed = k.seed]

\* The app has the new address and gives it to the peer.
RotateFinish(c) ==
  /\ call[c].op = "rotate" /\ call[c].at = "finish"
  /\ IF Live THEN /\ rec' = Renewed(call[c])
                  /\ told' = told \cup {call[c].queue}
             ELSE UNCHANGED <<rec, told>>
  /\ Return(c)
  /\ UNCHANGED <<attached, relay, disk, forgotten, minted, bounds>>

RetireBegin(c) ==
  /\ Begin(c, [op |-> "retire", at |-> FirstStep("finish"), queue |-> rec.inbound,
               key |-> rec.seed, seed |-> rec.seed])
  /\ UNCHANGED <<local, relay, told, disk, forgotten, minted, bounds>>

RetireFinish(c) ==
  /\ call[c].op = "retire" /\ call[c].at = "finish"
  /\ rec' = [rec EXCEPT !.retired = TRUE]
  /\ Return(c)
  /\ UNCHANGED <<attached, relay, told, disk, forgotten, minted, bounds>>

-----------------------------------------------------------------------------
(* subscribe and acknowledge_all: one request to our queue, in the name of  *)
(* an address and of a key that were read one after the other.             *)
SubscribeBegin(c) ==
  /\ rec.inbound # None
  /\ Begin(c, [op |-> "drain", at |-> "key", queue |-> rec.inbound,
               key |-> rec.seed, seed |-> rec.seed])
  /\ UNCHANGED <<local, relay, told, disk, forgotten, minted, bounds>>

ReceiveFromQueue(c) ==
  /\ call[c].op = "drain" /\ call[c].at = "request"
  /\ Answered \/ Fault
  /\ Return(c)
  /\ UNCHANGED <<local, relay, told, disk, forgotten, minted, rotations, crashes>>

-----------------------------------------------------------------------------
(* send: the address and the key as they are now, a request, and a note     *)
(* that the key is bound, unless the channel sends elsewhere by then.       *)
SendBegin(c) ==
  /\ rec.out.queue # None
  /\ Begin(c, [op |-> "send", at |-> "request", out |-> rec.out])
  /\ UNCHANGED <<local, relay, told, disk, forgotten, minted, bounds>>

\* The queue takes a message from the key bound to it, and binds one that is
\* offered while it is open.
Takes(out) ==
  /\ theirs[out.queue].up
  /\ theirs[out.queue].bound \in {out.seed} \cup (IF out.bound THEN {} ELSE {Open})

SendToQueue(c) ==
  LET out == call[c].out IN
  /\ call[c].op = "send" /\ call[c].at = "request"
  /\ \/ /\ Takes(out)
        /\ theirs' = [theirs EXCEPT ![out.queue].bound = out.seed]
        /\ \/ /\ Answered
              /\ IF out.bound THEN Return(c) ELSE Go(c, [call[c] EXCEPT !.at = "mark"])
           \/ Fault /\ Return(c)
     \/ ~Takes(out) /\ Answered /\ Return(c) /\ UNCHANGED theirs
     \/ Fault /\ Return(c) /\ UNCHANGED theirs
  /\ UNCHANGED <<local, own, told, disk, forgotten, minted, rotations, crashes>>

SameQueue(out) == rec.out.queue = out.queue

SendMark(c) ==
  /\ call[c].op = "send" /\ call[c].at = "mark"
  /\ rec' = IF SameQueue(call[c].out) THEN [rec EXCEPT !.out.bound = TRUE] ELSE rec
  /\ Return(c)
  /\ UNCHANGED <<attached, relay, told, disk, forgotten, minted, bounds>>

\* The peer retires the queue it drains and makes another.
PeerRotates ==
  /\ Len(theirs) < MaxPeerQueues
  /\ theirs' = [i \in 1..Len(theirs) + 1 |->
                  IF i > Len(theirs) THEN [up |-> TRUE, bound |-> Open]
                  ELSE [theirs[i] EXCEPT !.up = FALSE]]
  /\ UNCHANGED <<local, call, own, told, disk, forgotten, minted, bounds>>

-----------------------------------------------------------------------------
Init ==
  /\ rec = Undeclared
  /\ attached = {}
  /\ call = [c \in Caller |-> Idle]
  /\ own = <<>>
  /\ told = {}
  /\ theirs = <<[up |-> TRUE, bound |-> Open]>>
  /\ disk = [rec |-> Undeclared, attached |-> {}]
  /\ forgotten = {}
  /\ minted = 0
  /\ rotations = 0 /\ faults = 0 /\ crashes = 0

Manage(c) ==
  \/ OpenBegin(c)
  \/ \E s \in Seed : RotateBegin(c, s)
  \/ RetireBegin(c)

Continue(c) ==
  \/ CreateQueue(c) \/ RecipientKey(c) \/ RetireQueue(c)
  \/ OpenFinish(c) \/ RotateFinish(c) \/ RetireFinish(c)
  \/ ReceiveFromQueue(c) \/ SendToQueue(c) \/ SendMark(c)

Next ==
  \/ \E s \in Seed : Declare(s)
  \/ \E q \in 1..MaxPeerQueues : AttachOutbound(q)
  \/ Export \/ Import \/ PeerRotates
  \/ \E c \in Managers : Manage(c)
  \/ \E c \in Users : SubscribeBegin(c) \/ SendBegin(c)
  \/ \E c \in Caller : Continue(c)

\* Calls run to their end, and the app tries a rotation again as long as the
\* channel is without a queue.
Retry(c) == Stranded /\ \E s \in Seed : RotateBegin(c, s)

Spec ==
  /\ Init /\ [][Next]_vars
  /\ \A c \in Caller : WF_vars(Continue(c))
  /\ \A c \in Managers : SF_vars(Retry(c))

-----------------------------------------------------------------------------
Queue == 0..Len(own)
Outbound == [queue : 0..MaxPeerQueues, seed : 0..minted, bound : BOOLEAN]
Record == [declared : BOOLEAN, retired : BOOLEAN, inbound : Queue, seed : Seed, out : Outbound]
Calls ==
  {Idle}
  \cup [op : {"open", "rotate", "retire", "drain"},
        at : {"create", "key", "request", "finish"},
        queue : Queue, key : Seed, seed : Seed]
  \cup [op : {"send"}, at : {"request", "mark"}, out : Outbound]

\* The record, the calls under way and the snapshot name only queues and sender
\* seeds that were made, and what is counted stays in its bounds.
TypeOK ==
  /\ rec \in Record
  /\ attached \subseteq 1..Len(theirs)
  /\ call \in [Caller -> Calls]
  /\ own \in Seq([key : Seed, up : BOOLEAN])
  /\ told \subseteq 1..Len(own)
  /\ theirs \in Seq([up : BOOLEAN, bound : 0..minted])
  /\ disk \in [rec : Record, attached : SUBSET (1..Len(theirs))]
  /\ forgotten \subseteq 1..Len(theirs)
  /\ minted \in 0..(MaxPeerQueues * (MaxTroubles + 1))
  /\ rotations \in 0..MaxRotations
  /\ faults \in 0..MaxTroubles
  /\ crashes \in 0..MaxTroubles

\* The seed in the record is the key of the queue in the record, whatever opens,
\* rotations and restarts overlap: no queue is kept that the device cannot
\* drain (sund_transport.rs, open and rotate_inbound).
KeyFits == rec.inbound # None => own[rec.inbound].key = rec.seed

\* The transport leaves the sender key out only where that very key is bound, so
\* an answer that comes back after the channel was pointed elsewhere must not
\* mark the new address (sund_transport.rs, send).
BoundIsTrue == rec.out.bound => theirs[rec.out.queue].bound = rec.out.seed

\* A peer's queue that is still there takes what the channel sends: lost answers,
\* rotations and restarts lock the device out of it only where a restart lost
\* the sender seed the queue was bound with (sund_transport.rs, attach_outbound).
NeverLockedOut ==
  LET out == rec.out IN
  (out.queue # None /\ theirs[out.queue].up /\ out.queue \notin forgotten) => Takes(out)

\* An address the peer was given and that still takes messages is the one this
\* device drains, and a retired channel leaves none, as long as one caller
\* manages the channel and no restart went back to an older record.
AddressIsDrained ==
  crashes = 0 =>
    \A q \in told : Up(q) => (q = rec.inbound /\ ~rec.retired)

\* A rotation that retired the old queue and failed to make the new one is mended
\* by trying again: a live channel does not stay without a queue.
RotationRecovers == Stranded ~> ~Stranded

=============================================================================
