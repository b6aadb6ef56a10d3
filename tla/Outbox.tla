------------------------------- MODULE Outbox -------------------------------
(***************************************************************************)
(* The offline outbox of one device (sund-client's outbox.rs): messages    *)
(* wait in it in the clear, and a drain seals and sends those that are due.*)
(*                                                                         *)
(* A drain calls the session layer and the transport once for each entry,  *)
(* and each call is a step: the backend may fail or a channel be retired   *)
(* between two of them, and the process may be killed after any.  Nothing  *)
(* else touches the outbox meanwhile (it is borrowed mutably).             *)
(*                                                                         *)
(* Time is relative.  An entry carries the time it has left before it      *)
(* expires and the time it still has to wait before it is due, and Tick    *)
(* lets one unit pass.  The clock does not run backwards here, so "oldest  *)
(* first" by time and then id is by id alone.  A drain reads the clock when  *)
(* it begins; a wait counts from the failure here, which is the same unless *)
(* ClockRuns.                                                              *)
(*                                                                         *)
(* A definition named Op_Variant, just before Op, is Op with a plausible   *)
(* mistake in it; no action uses it.                                       *)
(***************************************************************************)
EXTENDS Naturals, FiniteSets

CONSTANTS
  Channel,      \* the channels of this device, each to one peer
  Keyless,      \* the channels whose peer's keys this device never learns
  Key,          \* coalescing keys
  NoKey,        \* no coalescing key
  Lives,        \* the times to expiry a caller asks for
  Forever,      \* no expiry: the entry is durable
  MaxQueued,    \* MAX_QUEUED_PER_CHANNEL
  Budgets,      \* the budgets a caller passes to drain
  Base,         \* BACKOFF_BASE
  Ceiling,      \* BACKOFF_CEILING
  MaxAttempts,  \* the attempts at which the backoff stops doubling
  ClockRuns,    \* whether time passes while a drain is under way
  MaxBodies,    \* bound of the model: messages handed to the outbox
  MaxCrashes    \* bound of the model: times the process is killed

ASSUME OutboxAssumption ==
  /\ Keyless \subseteq Channel
  /\ IsFiniteSet(Channel)
  /\ NoKey \notin Key
  /\ Lives \subseteq Nat \ {0}
  /\ Forever \notin Nat
  /\ MaxQueued \in Nat \ {0}
  /\ Budgets \subseteq Nat
  /\ Base \in Nat \ {0}
  /\ Ceiling \in Nat \ {0}
  /\ MaxAttempts \in Nat
  /\ ClockRuns \in BOOLEAN
  /\ MaxBodies \in Nat
  /\ MaxCrashes \in Nat

VARIABLES
  queue,     \* the entries; their ids give their order
  nextId,    \* the next entry id
  draining,  \* a drain is under way
  todo,      \* the ids the drain has yet to look at
  failed,    \* what each channel answered when it failed this pass
  sent,      \* the lines of its report about what went out
  dropped,   \* the lines of its report about what left unsent
  conn,      \* what the transport makes of each channel
  disk,      \* the snapshot last written
  posted,    \* the messages handed over so far; a message is its number
  reported,  \* the messages the caller has been told were sent or dropped
  kept,      \* the messages that have been in a snapshot
  crashes    \* the times the process was killed

pass == <<draining, todo, failed, sent, dropped>>
ghosts == <<posted, reported, kept, crashes>>
vars == <<queue, nextId, pass, conn, disk, ghosts>>

-----------------------------------------------------------------------------
Entry ==
  [id : Nat, body : 1..MaxBodies, ch : Channel, hi : BOOLEAN,
   life : Nat \cup {Forever}, key : Key \cup {NoKey},
   attempts : 0..MaxAttempts, wait : Nat]

\* A line of a report: an id of the outbox, and the message it stood for.
Line == [id : Nat, body : 1..MaxBodies]
Lines(E) == {[id |-> e.id, body |-> e.body] : e \in E}

IsDurable(e) == e.life = Forever
Expired_UnlessUrgent(e) == e.life = 0 /\ ~e.hi
Expired(e) == e.life = 0

On(c) == {e \in queue : e.ch = c}
Oldest(E) == CHOOSE e \in E : \A f \in E : e.id <= f.id
Ids(E) == {e.id : e \in E}
Bodies(E) == {e.body : e \in E}

MinOf(a, b) == IF a <= b THEN a ELSE b
\* Doubling from the base and capped, by the number of attempts so far.
Backoff(n) == MinOf(Base * 2^n, Ceiling)

-----------------------------------------------------------------------------
(* enqueue.  What it displaces: the entry with the same key, or else, on a  *)
(* full channel, the oldest entry that may go stale.                        *)
Superseded_SameUrgency(c, hi, key) ==
  {e \in On(c) : key # NoKey /\ e.key = key /\ e.hi = hi}
Superseded(c, hi, key) == {e \in On(c) : key # NoKey /\ e.key = key}

Crowded_OffByOne(c) == Cardinality(On(c)) > MaxQueued
Crowded(c) == Cardinality(On(c)) >= MaxQueued
Stale(c) == {e \in On(c) : ~IsDurable(e)}

NewEntry(c, hi, life, key) ==
  [id |-> nextId, body |-> posted + 1, ch |-> c, hi |-> hi, life |-> life,
   key |-> key, attempts |-> 0, wait |-> 0]

\* The oldest entry in E makes room.
Replace(E, e) ==
  LET old == {Oldest(E)} IN
  /\ queue' = (queue \ old) \cup {e}
  /\ reported' = reported \cup Bodies(old)

Enqueue(c, hi, life, key) ==
  LET new == NewEntry(c, hi, life, key) IN
  /\ ~draining
  /\ posted < MaxBodies
  /\ \/ /\ Superseded(c, hi, key) # {}
        /\ Replace(Superseded(c, hi, key), new)
     \/ /\ Superseded(c, hi, key) = {}
        /\ Crowded(c)
        /\ Stale(c) # {}                        \* else the channel is full
        /\ Replace(Stale(c), new)
     \/ /\ Superseded(c, hi, key) = {}
        /\ ~Crowded(c)
        /\ queue' = queue \cup {new}
        /\ UNCHANGED reported
  /\ nextId' = nextId + 1
  /\ posted' = posted + 1
  /\ UNCHANGED <<pass, conn, disk, kept, crashes>>

-----------------------------------------------------------------------------
(* drain, first part: what has expired leaves, and of what is due the first *)
(* budget entries are taken up, urgent first and then oldest first.         *)
Before_OldestFirst(e, f) == e.id < f.id
Before(e, f) == (e.hi /\ ~f.hi) \/ (e.hi = f.hi /\ e.id < f.id)

Due_FirstAttempt(E) == {e \in E : e.wait = 0 /\ e.attempts = 0}
Due(E) == {e \in E : e.wait = 0}
FirstOf(E, budget) ==
  {e \in E : Cardinality({f \in E : Before(f, e)}) < budget}

BeginDrain(budget) ==
  LET gone == {e \in queue : Expired(e)} IN
  /\ ~draining
  /\ draining' = TRUE
  /\ queue' = queue \ gone
  /\ todo' = Ids(FirstOf(Due(queue \ gone), budget))
  /\ dropped' = Lines(gone)
  /\ UNCHANGED <<nextId, failed, sent, conn, disk, ghosts>>

\* The entry the drain looks at now.
Current(e) ==
  /\ draining
  /\ e.id \in todo
  /\ \A f \in queue : f.id \in todo => ~Before(f, e)

Defer(e) ==
  LET n == MinOf(e.attempts + 1, MaxAttempts) IN
  queue' = (queue \ {e}) \cup {[e EXCEPT !.attempts = n, !.wait = Backoff(n)]}

(* The channel failed earlier in the pass: the entry stays as it is.        *)
Skip(e) ==
  /\ Current(e)
  /\ failed[e.ch] # "no"
  /\ todo' = todo \ {e.id}
  /\ UNCHANGED <<queue, nextId, draining, failed, sent, dropped, conn, disk,
                 ghosts>>

(* It cannot be sealed: the peer is unknown, or the session is lost.  The   *)
(* channel is not counted as failed.                                        *)
SealFails(e) ==
  /\ Current(e)
  /\ failed[e.ch] = "no"
  /\ Defer(e)
  /\ todo' = todo \ {e.id}
  /\ UNCHANGED <<nextId, draining, failed, sent, dropped, conn, disk, ghosts>>

Sealed(e) ==
  /\ Current(e)
  /\ failed[e.ch] = "no"
  /\ e.ch \notin Keyless
  /\ todo' = todo \ {e.id}

(* send returns a message id.                                               *)
SendOk(e) ==
  /\ Sealed(e)
  /\ conn[e.ch] = "open"
  /\ sent' = sent \cup Lines({e})
  /\ UNCHANGED <<queue, nextId, draining, failed, dropped, conn, disk, ghosts>>

(* send answers Retired or UnknownChannel: terminal for the channel.        *)
SendDead(e) ==
  /\ Sealed(e)
  /\ conn[e.ch] # "open"
  /\ failed' = [failed EXCEPT ![e.ch] = conn[e.ch]]
  /\ dropped' = dropped \cup Lines({e})
  /\ UNCHANGED <<queue, nextId, draining, sent, conn, disk, ghosts>>

(* send answers Backend: refused, unreachable, or the answer was lost.      *)
SendUnreachable(e) ==
  /\ Sealed(e)
  /\ failed' = [failed EXCEPT ![e.ch] = "unreachable"]
  /\ Defer(e)
  /\ UNCHANGED <<nextId, draining, sent, dropped, conn, disk, ghosts>>

DeadChannels == {c \in Channel : failed[c] \in {"retired", "unknown"}}

\* The entries that go with their dead channel, whether they were looked at in
\* this pass or not, and those that went out before it died included.
Stranded_IfDue ==
  {e \in queue : /\ e.ch \in DeadChannels /\ e.id \notin Ids(dropped)
                 /\ e.wait = 0}
Stranded ==
  {e \in queue : e.ch \in DeadChannels /\ e.id \notin Ids(dropped)}

Leaving_WithFailed ==
  {e \in queue : e.id \in Ids(sent \cup dropped) \/ failed[e.ch] # "no"}
Leaving == {e \in queue : e.id \in Ids(sent \cup dropped)}

\* What the report lists as dropped when the drain returns.
DroppedInAll == dropped \cup Lines(Stranded)

(* drain, last part: the caller gets the report.                            *)
EndDrain ==
  /\ draining
  /\ todo = {}
  /\ queue' = queue \ (Stranded \cup Leaving)
  /\ reported' = reported \cup Bodies(sent \cup DroppedInAll)
  /\ draining' = FALSE
  /\ failed' = [c \in Channel |-> "no"]
  /\ sent' = {}
  /\ dropped' = {}
  /\ UNCHANGED <<nextId, todo, conn, disk, posted, kept, crashes>>

-----------------------------------------------------------------------------
(* forget_peer, for the peer at the other end of c.                         *)
ForgetPeer(c) ==
  /\ ~draining
  /\ queue' = queue \ On(c)
  /\ reported' = reported \cup Bodies(On(c))
  /\ UNCHANGED <<nextId, pass, conn, disk, posted, kept, crashes>>

(* The app writes the snapshot after a call that changed something, and is  *)
(* killed, at any moment, back to the one it wrote last.                    *)
Save ==
  /\ ~draining
  /\ crashes < MaxCrashes   \* a snapshot nothing will be restored from is left out
  /\ disk' = [queue |-> queue, nextId |-> nextId]
  /\ kept' = kept \cup Bodies(queue)
  /\ UNCHANGED <<queue, nextId, pass, conn, posted, reported, crashes>>

Crash ==
  /\ crashes < MaxCrashes
  /\ crashes' = crashes + 1
  /\ queue' = disk.queue
  /\ nextId' = disk.nextId
  /\ draining' = FALSE
  /\ todo' = {}
  /\ failed' = [c \in Channel |-> "no"]
  /\ sent' = {}
  /\ dropped' = {}
  /\ UNCHANGED <<conn, disk, posted, reported, kept>>

(* One unit of time passes.                                                 *)
Older(e) ==
  [e EXCEPT !.wait = IF @ = 0 THEN 0 ELSE @ - 1,
            !.life = IF @ \in {0, Forever} THEN @ ELSE @ - 1]

Tick ==
  /\ draining => ClockRuns
  /\ queue' = {Older(e) : e \in queue}
  /\ disk' = [disk EXCEPT !.queue = {Older(e) : e \in @}]
  /\ UNCHANGED <<nextId, pass, conn, ghosts>>

(* The pair is established, and the channel is retired, at either end, once *)
(* and for all.                                                             *)
ChannelOpens(c) ==
  /\ conn[c] = "unknown"
  /\ conn' = [conn EXCEPT ![c] = "open"]
  /\ UNCHANGED <<queue, nextId, pass, disk, ghosts>>

ChannelRetires(c) ==
  /\ conn[c] = "open"
  /\ conn' = [conn EXCEPT ![c] = "retired"]
  /\ UNCHANGED <<queue, nextId, pass, disk, ghosts>>

-----------------------------------------------------------------------------
Init ==
  /\ queue = {}
  /\ nextId = 0
  /\ draining = FALSE
  /\ todo = {}
  /\ failed = [c \in Channel |-> "no"]
  /\ sent = {}
  /\ dropped = {}
  /\ conn \in [Channel -> {"open", "unknown"}]
  /\ disk = [queue |-> {}, nextId |-> 0]
  /\ posted = 0
  /\ reported = {}
  /\ kept = {}
  /\ crashes = 0

Next ==
  \/ \E c \in Channel, hi \in BOOLEAN, life \in Lives \cup {Forever},
        key \in Key \cup {NoKey} : Enqueue(c, hi, life, key)
  \/ \E budget \in Budgets : BeginDrain(budget)
  \/ \E e \in queue :
       \/ Skip(e) \/ SealFails(e)
       \/ SendOk(e) \/ SendDead(e) \/ SendUnreachable(e)
  \/ EndDrain
  \/ \E c \in Channel : ForgetPeer(c) \/ ChannelOpens(c) \/ ChannelRetires(c)
  \/ Save \/ Crash \/ Tick

Spec == Init /\ [][Next]_vars

-----------------------------------------------------------------------------
TypeOK ==
  /\ queue \subseteq Entry
  /\ nextId \in 0..MaxBodies
  /\ draining \in BOOLEAN
  /\ todo \subseteq Ids(queue)
  /\ failed \in [Channel -> {"no", "unreachable", "retired", "unknown"}]
  /\ sent \subseteq Line
  /\ dropped \subseteq Line
  /\ conn \in [Channel -> {"open", "retired", "unknown"}]
  /\ disk \in [queue : SUBSET Entry, nextId : 0..MaxBodies]
  /\ posted \in 0..MaxBodies
  /\ reported \subseteq 1..MaxBodies
  /\ kept \subseteq 1..MaxBodies
  /\ crashes \in 0..MaxCrashes

(* "A newer location for the same peer replaces the one queued behind it":  *)
(* no channel ever holds two states under one coalescing key, across        *)
(* retries, evictions and restarts.                                         *)
OneStatePerKey ==
  \A e, f \in queue : e.ch = f.ch /\ e.key = f.key /\ e.key # NoKey => e = f

(* A channel never holds more than MAX_QUEUED_PER_CHANNEL entries.          *)
QueueBounded == \A c \in Channel : Cardinality(On(c)) <= MaxQueued

(* No message that a snapshot has ever held leaves in silence: it is still  *)
(* queued, or the caller has been or is about to be told what became of it, *)
(* whatever failed and whenever the process was killed.                     *)
NothingVanishes ==
  \A b \in kept : \/ b \in Bodies(queue) \cup Bodies(dropped)
                  \/ b \in reported

Sends(e) == e.id \in todo /\ e.id \in Ids(sent')

(* "An expired message is never sent late", by the clock as the drain read  *)
(* it; with ClockRuns the message may expire while the drain is under way.  *)
NoStaleSend == [][\A e \in queue : Sends(e) => e.life # 0]_vars

(* An urgent message that is due is never overtaken on its channel by one   *)
(* that is not urgent, whatever the budget.                                 *)
DueUrgentFirst ==
  [][\A e, f \in queue :
       /\ Sends(e) /\ ~e.hi
       /\ f.ch = e.ch /\ f.hi /\ f.wait = 0
       => f.id \in Ids(sent)]_vars

(* A channel that turns out dead takes its whole backlog with it: nothing   *)
(* waits in the queue for a channel that a drain has found dead.            *)
DeadBacklogLeaves ==
  [][EndDrain => \A e \in queue' : e.ch \notin DeadChannels]_vars

-----------------------------------------------------------------------------
(* The scheduler drains again and again and time passes between drains; a   *)
(* drain that has begun goes on; and a message that is offered again and    *)
(* again to a channel whose peer is known gets an answer that is final.     *)
Answered(b) == \E e \in queue : e.body = b /\ (SendOk(e) \/ SendDead(e))
PassStep ==
  \/ EndDrain
  \/ \E e \in queue : Skip(e) \/ SealFails(e) \/ SendUnreachable(e)

Fairness ==
  /\ WF_vars(\E budget \in Budgets : BeginDrain(budget))
  /\ WF_vars(PassStep)
  /\ SF_vars(Tick)
  /\ \A b \in 1..MaxBodies : SF_vars(Answered(b))

FairSpec == Spec /\ Fairness

(* "Entries without an expiry are durable and are retried until they land": *)
(* one for a peer whose keys are known is sent or dropped for a reason.     *)
WaitsForEver(b) == \E e \in queue : e.body = b /\ IsDurable(e) /\ e.ch \notin Keyless
DurableLands == \A b \in 1..MaxBodies : WaitsForEver(b) ~> b \in reported

=============================================================================
