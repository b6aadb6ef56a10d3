---------------------------- MODULE OutboxProofs ----------------------------
(***************************************************************************)
(* Proofs about Outbox, for any channels, budgets, backoff and bounds.     *)
(***************************************************************************)
EXTENDS Outbox, FiniteSetTheorems, WellFoundedInduction, TLAPS

-----------------------------------------------------------------------------
(* Entries.                                                                 *)

(* A power of two is a number: the size of a power set.                     *)
LEMMA PowerIsNat == \A n \in Nat : 2^n \in Nat
<1> SUFFICES ASSUME NEW n \in Nat PROVE 2^n \in Nat
  OBVIOUS
<1>1. IsFiniteSet(1..n) /\ Cardinality(1..n) = n
  BY FS_Interval
<1>2. IsFiniteSet(SUBSET (1..n)) /\ Cardinality(SUBSET (1..n)) = 2^n
  BY <1>1, FS_SUBSET
<1>. QED
  BY <1>2, FS_CardinalityType

LEMMA BackoffType == \A n \in Nat : Backoff(n) \in Nat
<1> SUFFICES ASSUME NEW n \in Nat PROVE Backoff(n) \in Nat
  OBVIOUS
<1>1. Base \in Nat /\ Ceiling \in Nat /\ 2^n \in Nat
  BY OutboxAssumption, PowerIsNat
<1>2. ASSUME NEW p \in Nat PROVE MinOf(Base * p, Ceiling) \in Nat
  BY <1>1 DEF MinOf
<1>. QED
  BY <1>1, <1>2 DEF Backoff

\* The entry that Defer puts in the place of e.
Retried(e) ==
  [e EXCEPT !.attempts = MinOf(e.attempts + 1, MaxAttempts),
            !.wait = Backoff(MinOf(e.attempts + 1, MaxAttempts))]

(* A deferred entry is the same message under the same id.                  *)
LEMMA RetriedEntry ==
  ASSUME NEW e \in Entry
  PROVE  /\ Retried(e) \in Entry
         /\ Retried(e).id = e.id
         /\ Retried(e).body = e.body
         /\ Retried(e).ch = e.ch
         /\ Retried(e).key = e.key
<1>. DEFINE n == MinOf(e.attempts + 1, MaxAttempts)
<1>1. n \in 0..MaxAttempts
  BY OutboxAssumption DEF MinOf, Entry
<1>2. Backoff(n) \in Nat
  BY <1>1, BackoffType, OutboxAssumption
<1>3. Retried(e) = [e EXCEPT !.attempts = n, !.wait = Backoff(n)]
  BY DEF Retried
<1>. HIDE DEF n
<1>. QED
  BY <1>1, <1>2, <1>3 DEF Entry

(* Time changes neither.                                                    *)
LEMMA OlderEntry ==
  ASSUME NEW e \in Entry
  PROVE  /\ Older(e) \in Entry
         /\ Older(e).id = e.id
         /\ Older(e).body = e.body
         /\ Older(e).ch = e.ch
         /\ Older(e).key = e.key
<1>1. (IF e.wait = 0 THEN 0 ELSE e.wait - 1) \in Nat
  BY DEF Entry
<1>2. (IF e.life \in {0, Forever} THEN e.life ELSE e.life - 1)
        \in Nat \cup {Forever}
  BY DEF Entry
<1>. DEFINE w == IF e.wait = 0 THEN 0 ELSE e.wait - 1
            l == IF e.life \in {0, Forever} THEN e.life ELSE e.life - 1
<1>3. Older(e) = [e EXCEPT !.wait = w, !.life = l]
  BY DEF Older
<1>4. w \in Nat /\ l \in Nat \cup {Forever}
  BY <1>1, <1>2
<1>. HIDE DEF w, l
<1>. QED
  BY <1>3, <1>4 DEF Entry

LEMMA NewEntryType ==
  ASSUME nextId \in Nat, posted \in 0..MaxBodies, posted < MaxBodies,
         NEW c \in Channel, NEW hi \in BOOLEAN, NEW life \in Lives \cup {Forever},
         NEW key \in Key \cup {NoKey}
  PROVE  NewEntry(c, hi, life, key) \in Entry
  BY OutboxAssumption DEF NewEntry, Entry

(* The lines of a report stand for entries.                                 *)
LEMMA LinesType ==
  ASSUME NEW E \in SUBSET Entry
  PROVE  Lines(E) \subseteq Line
  BY DEF Lines, Line, Entry

(* A set of entries that is not empty has an oldest one.                    *)
LEMMA OldestIsThere ==
  ASSUME NEW E \in SUBSET Entry, E # {}
  PROVE  Oldest(E) \in E
<1>1. Ids(E) \subseteq Nat /\ Ids(E) # {}
  BY DEF Ids, Entry
<1>2. \E x \in Ids(E) : \A y \in Ids(E) : ~(<<y, x>> \in OpToRel(<, Nat))
  BY <1>1, WFMin, NatLessThanWellFounded, Zenon
<1>3. \E x \in Ids(E) : \A y \in Ids(E) : ~(y \in Nat /\ x \in Nat /\ y < x)
  BY <1>2, Zenon DEF OpToRel
<1>4. \E x \in Ids(E) : \A y \in Ids(E) : x <= y
  BY <1>1, <1>3
<1>5. \E e \in E : \A f \in E : e.id <= f.id
  BY <1>4 DEF Ids
<1>. QED
  BY <1>5 DEF Oldest

-----------------------------------------------------------------------------
(* Type correctness.  An id is given once to a message handed over, so the  *)
(* ids never outrun the messages, in memory and in the snapshot; and between *)
(* drains nothing is left over from the last one.                           *)
IdsBehind == nextId <= posted /\ disk.nextId <= posted
Idle == ~draining => todo = {} /\ sent = {} /\ dropped = {}
TypeInv == TypeOK /\ IdsBehind /\ Idle

LEMMA InitTypeInv == Init => TypeInv
<1> SUFFICES ASSUME Init PROVE TypeInv
  OBVIOUS
<1>1. disk \in [queue : SUBSET Entry, nextId : 0..MaxBodies]
  BY OutboxAssumption DEF Init
<1>2. /\ failed \in [Channel -> {"no", "unreachable", "retired", "unknown"}]
      /\ conn \in [Channel -> {"open", "retired", "unknown"}]
  BY DEF Init
<1>3. nextId \in 0..MaxBodies /\ posted \in 0..MaxBodies /\ crashes \in 0..MaxCrashes
  BY OutboxAssumption DEF Init
<1>4. IdsBehind /\ Idle
  BY DEF Init, IdsBehind, Idle
<1>. QED
  BY <1>1, <1>2, <1>3, <1>4 DEF Init, TypeInv, TypeOK

(* Defer keeps the ids, and the queue well formed.                          *)
LEMMA DeferKeeps ==
  ASSUME queue \subseteq Entry, NEW e \in queue, Defer(e)
  PROVE  /\ queue' = (queue \ {e}) \cup {Retried(e)}
         /\ queue' \subseteq Entry
         /\ Ids(queue') = Ids(queue)
<1>1. queue' = (queue \ {e}) \cup {Retried(e)}
  BY DEF Defer, Retried
<1>2. Retried(e) \in Entry /\ Retried(e).id = e.id
  BY RetriedEntry
<1>. HIDE DEF Retried
<1>. QED
  BY <1>1, <1>2 DEF Ids

(* Room is made by an entry that is there.                                  *)
LEMMA ReplaceType ==
  ASSUME TypeOK, NEW E \in SUBSET queue, E # {}, NEW e \in Entry, Replace(E, e)
  PROVE  queue' \subseteq Entry /\ reported' \subseteq 1..MaxBodies
<1>1. Oldest(E) \in E
  BY OldestIsThere DEF TypeOK
<1>2. Bodies({Oldest(E)}) \subseteq 1..MaxBodies
  BY <1>1 DEF Bodies, TypeOK, Entry
<1>. QED
  BY <1>2 DEF Replace, TypeOK

LEMMA NextTypeInv == TypeInv /\ [Next]_vars => TypeInv'
<1> SUFFICES ASSUME TypeInv, [Next]_vars PROVE TypeInv'
  OBVIOUS
<1>. USE DEF TypeInv
<1>1. ASSUME NEW c \in Channel, NEW hi \in BOOLEAN,
             NEW life \in Lives \cup {Forever}, NEW key \in Key \cup {NoKey},
             Enqueue(c, hi, life, key)
      PROVE  TypeInv'
  <2>1. NewEntry(c, hi, life, key) \in Entry
    BY <1>1, NewEntryType DEF Enqueue, TypeOK
  <2>2. queue' \subseteq Entry /\ reported' \subseteq 1..MaxBodies
    <3>1. Superseded(c, hi, key) \subseteq queue /\ Stale(c) \subseteq queue
      BY DEF Superseded, Stale, On
    <3>. QED
      BY <1>1, <2>1, <3>1, ReplaceType DEF Enqueue, TypeOK
  <2>3. /\ nextId' = nextId + 1 /\ posted' = posted + 1 /\ posted < MaxBodies
        /\ disk' = disk
    BY <1>1 DEF Enqueue
  <2>4. /\ nextId' \in 0..MaxBodies /\ posted' \in 0..MaxBodies
        /\ IdsBehind'
    BY <2>3, OutboxAssumption DEF TypeOK, IdsBehind
  <2>5. draining' = FALSE /\ todo' = {} /\ sent' = {} /\ dropped' = {}
    BY <1>1 DEF Enqueue, pass, TypeOK, Idle
  <2>. QED
    BY <1>1, <2>2, <2>4, <2>5 DEF Enqueue, TypeOK, Idle, pass
<1>2. ASSUME NEW budget \in Budgets, BeginDrain(budget)
      PROVE  TypeInv'
  <2>. DEFINE gone == {e \in queue : Expired(e)}
  <2>1. Lines(gone) \subseteq Line
    BY LinesType DEF TypeOK
  <2>2. FirstOf(Due(queue \ gone), budget) \subseteq queue \ gone
    BY DEF FirstOf, Due
  <2>3. todo' \subseteq Ids(queue')
    BY <1>2, <2>2 DEF BeginDrain, Ids
  <2>. QED
    BY <1>2, <2>1, <2>3 DEF BeginDrain, TypeOK, IdsBehind, Idle, ghosts
<1>3. ASSUME NEW e \in queue,
             Skip(e) \/ SealFails(e) \/ SendOk(e) \/ SendDead(e) \/ SendUnreachable(e)
      PROVE  TypeInv'
  <2>1. draining /\ draining' /\ todo' \subseteq todo
    BY <1>3 DEF Skip, SealFails, SendOk, SendDead, SendUnreachable, Sealed, Current
  <2>2. queue' \subseteq Entry /\ Ids(queue') = Ids(queue)
    BY <1>3, DeferKeeps
       DEF Skip, SealFails, SendOk, SendDead, SendUnreachable, TypeOK
  <2>3. sent' \subseteq Line /\ dropped' \subseteq Line
    <3>1. Lines({e}) \subseteq Line
      BY LinesType DEF TypeOK
    <3>. QED
      BY <1>3, <3>1
         DEF Skip, SealFails, SendOk, SendDead, SendUnreachable, TypeOK
  <2>4. failed' \in [Channel -> {"no", "unreachable", "retired", "unknown"}]
    <3>1. conn[e.ch] \in {"open", "retired", "unknown"}
      BY DEF TypeOK, Entry
    <3>. QED
      BY <1>3, <3>1
         DEF Skip, SealFails, SendOk, SendDead, SendUnreachable, TypeOK
  <2>5. UNCHANGED <<nextId, conn, disk, ghosts>>
    BY <1>3 DEF Skip, SealFails, SendOk, SendDead, SendUnreachable
  <2>. QED
    BY <2>1, <2>2, <2>3, <2>4, <2>5 DEF TypeOK, IdsBehind, Idle, ghosts
<1>4. CASE EndDrain
  <2>1. Stranded \in SUBSET Entry
    BY DEF Stranded, TypeOK
  <2>2. Bodies(sent \cup DroppedInAll) \subseteq 1..MaxBodies
    BY <2>1, LinesType DEF Bodies, DroppedInAll, Line, TypeOK
  <2>. QED
    BY <1>4, <2>2 DEF EndDrain, TypeOK, IdsBehind, Idle
<1>5. ASSUME NEW c \in Channel, ForgetPeer(c)
      PROVE  TypeInv'
  <2>1. Bodies(On(c)) \subseteq 1..MaxBodies
    BY DEF Bodies, On, TypeOK, Entry
  <2>. QED
    BY <1>5, <2>1 DEF ForgetPeer, TypeOK, IdsBehind, Idle, pass
<1>6. CASE Save
  <2>1. Bodies(queue) \subseteq 1..MaxBodies
    BY DEF Bodies, TypeOK, Entry
  <2>. QED
    BY <1>6, <2>1 DEF Save, TypeOK, IdsBehind, Idle, pass
<1>7. CASE Crash
  <2>1. disk.queue \subseteq Entry /\ disk.nextId \in 0..MaxBodies
    BY DEF TypeOK
  <2>2. crashes' \in 0..MaxCrashes
    BY <1>7, OutboxAssumption DEF Crash, TypeOK
  <2>. QED
    BY <1>7, <2>1, <2>2 DEF Crash, TypeOK, IdsBehind, Idle
<1>8. CASE Tick
  <2>1. \A e \in Entry : Older(e) \in Entry /\ Older(e).id = e.id
    BY OlderEntry
  <2>2. queue' \subseteq Entry /\ Ids(queue') = Ids(queue)
    BY <1>8, <2>1 DEF Tick, Ids, TypeOK
  <2>3. /\ disk' \in [queue : SUBSET Entry, nextId : 0..MaxBodies]
        /\ disk'.nextId = disk.nextId
    BY <1>8, <2>1 DEF Tick, TypeOK
  <2>. QED
    BY <1>8, <2>2, <2>3 DEF Tick, TypeOK, IdsBehind, Idle, pass, ghosts
<1>9. ASSUME NEW c \in Channel, ChannelOpens(c) \/ ChannelRetires(c)
      PROVE  TypeInv'
  BY <1>9 DEF ChannelOpens, ChannelRetires, TypeOK, IdsBehind, Idle, pass, ghosts
<1>10. CASE UNCHANGED vars
  BY <1>10 DEF vars, pass, ghosts, TypeOK, IdsBehind, Idle
<1>. QED
  BY <1>1, <1>2, <1>3, <1>4, <1>5, <1>6, <1>7, <1>8, <1>9, <1>10 DEF Next

(* The queue, the reports and the snapshot stay well formed, and no id is   *)
(* used up that was not given to a message.                                 *)
THEOREM OutboxTypeCorrect == Spec => []TypeOK
<1>1. TypeInv => TypeOK
  BY DEF TypeInv
<1>. QED
  BY InitTypeInv, NextTypeInv, <1>1, PTL DEF Spec

-----------------------------------------------------------------------------
(* What a step makes of the entries: each of them is new, or an entry that  *)
(* was there with, at most, other times and another number of attempts; and *)
(* the snapshot is what it was, or a copy of the queue.                     *)
SameMessage(e, f) == e.id = f.id /\ e.body = f.body /\ e.ch = f.ch /\ e.key = f.key
ComesFrom(E, F) ==
  \E old \in [E -> F] :
    /\ \A e \in E : SameMessage(e, old[e])
    /\ \A e, f \in E : old[e] = old[f] => e = f

(* An entry that comes from a smaller set comes from a larger one.          *)
LEMMA SubsetComesFrom ==
  ASSUME NEW F, NEW E \in SUBSET F
  PROVE  ComesFrom(E, F)
<1>. DEFINE old == [e \in E |-> e]
<1>1. old \in [E -> F] /\ \A e \in E : old[e] = e
  OBVIOUS
<1>. QED
  BY <1>1 DEF ComesFrom, SameMessage

LEMMA DeferComesFrom ==
  ASSUME queue \subseteq Entry, NEW e \in queue, Defer(e)
  PROVE  ComesFrom(queue', queue)
<1>. DEFINE old == [f \in queue' |-> IF f \in queue \ {e} THEN f ELSE e]
<1>1. /\ queue' = (queue \ {e}) \cup {Retried(e)}
      /\ SameMessage(Retried(e), e)
  BY DeferKeeps, RetriedEntry DEF SameMessage
<1>. HIDE DEF Retried
<1>2. old \in [queue' -> queue]
  OBVIOUS
<1>3. \A f \in queue' : SameMessage(f, old[f])
  BY <1>1 DEF SameMessage
<1>4. \A f, g \in queue' : old[f] = old[g] => f = g
  BY <1>1
<1>. QED
  BY <1>2, <1>3, <1>4 DEF ComesFrom

LEMMA OlderComesFrom ==
  ASSUME NEW F \in SUBSET Entry
  PROVE  ComesFrom({Older(e) : e \in F}, F)
<1>. DEFINE E == {Older(e) : e \in F}
            old == [f \in E |-> CHOOSE e \in F : f = Older(e)]
<1>1. \A f \in E : old[f] \in F /\ f = Older(old[f])
  OBVIOUS
<1>2. \A f \in E : SameMessage(f, old[f])
  BY <1>1, OlderEntry DEF SameMessage
<1>3. \A f, g \in E : old[f] = old[g] => f = g
  BY <1>1
<1>4. old \in [E -> F]
  BY <1>1
<1>. HIDE DEF E, old
<1>5. ComesFrom(E, F)
  BY <1>2, <1>3, <1>4 DEF ComesFrom
<1>. QED
  BY <1>5 DEF E

-----------------------------------------------------------------------------
(* Identity.  In the queue and in the snapshot alike, an id and a message   *)
(* stand for each other, a channel has one state for a coalescing key, and  *)
(* the next id is free.  The snapshot needs it because a restart makes it   *)
(* the queue.                                                               *)
Distinct(E) == \A e, f \in E : e.id = f.id => e = f
OneEach(E) ==
  \A e, f \in E : e.ch = f.ch /\ e.key = f.key /\ e.key # NoKey => e = f
Below(E, n) == \A e \in E : e.id < n
Sound(E, n) == Distinct(E) /\ OneEach(E) /\ Below(E, n)

IdInv ==
  /\ TypeInv
  /\ Sound(queue, nextId)
  /\ Sound(disk.queue, disk.nextId)

LEMMA ComesFromSound ==
  ASSUME NEW E, NEW F, ComesFrom(E, F), NEW n, Sound(F, n)
  PROVE  Sound(E, n)
  BY DEF ComesFrom, SameMessage, Sound, Distinct, OneEach, Below

(* A new message takes the free id, and the place of the one state there is *)
(* for its key.                                                             *)
LEMMA EnqueueSound ==
  ASSUME IdInv, NEW c \in Channel, NEW hi \in BOOLEAN,
         NEW life \in Lives \cup {Forever}, NEW key \in Key \cup {NoKey},
         Enqueue(c, hi, life, key)
  PROVE  Sound(queue', nextId')
<1>. DEFINE new == NewEntry(c, hi, life, key)
<1>1. new.id = nextId /\ new.ch = c /\ new.key = key
  BY DEF NewEntry
<1>2. nextId \in Nat /\ nextId' = nextId + 1 /\ \A e \in queue : e.id \in Nat
  BY DEF Enqueue, IdInv, TypeInv, TypeOK, Entry
<1>. HIDE DEF new
<1>3. PICK R \in SUBSET queue :
        /\ queue' = R \cup {new}
        /\ \A e \in R : e.ch = c /\ e.key = key => key = NoKey
  <2>1. CASE Superseded(c, hi, key) # {} /\ Replace(Superseded(c, hi, key), new)
    <3>1. Oldest(Superseded(c, hi, key)) \in Superseded(c, hi, key)
      BY <2>1, OldestIsThere DEF Superseded, On, IdInv, TypeInv, TypeOK
    <3>2. \A e \in queue : e.ch = c /\ e.key = key /\ key # NoKey
                             => e = Oldest(Superseded(c, hi, key))
      BY <3>1 DEF Superseded, On, IdInv, Sound, OneEach
    <3>. WITNESS queue \ {Oldest(Superseded(c, hi, key))} \in SUBSET queue
    <3>. QED
      BY <2>1, <3>2 DEF Replace
  <2>2. CASE Superseded(c, hi, key) = {} /\ Replace(Stale(c), new)
    <3>. WITNESS queue \ {Oldest(Stale(c))} \in SUBSET queue
    <3>. QED
      BY <2>2 DEF Replace, Superseded, On
  <2>3. CASE Superseded(c, hi, key) = {} /\ queue' = queue \cup {new}
    BY <2>3 DEF Superseded, On
  <2>. QED
    BY <2>1, <2>2, <2>3 DEF Enqueue, new
<1>4. Distinct(queue')
  BY <1>1, <1>2, <1>3 DEF IdInv, Sound, Distinct, Below
<1>5. OneEach(queue')
  BY <1>1, <1>3 DEF IdInv, Sound, OneEach
<1>6. Below(queue', nextId')
  BY <1>1, <1>2, <1>3 DEF IdInv, Sound, Below
<1>. QED
  BY <1>4, <1>5, <1>6 DEF Sound

LEMMA NextIdInv == IdInv /\ [Next]_vars => IdInv'
<1> SUFFICES ASSUME IdInv, [Next]_vars PROVE IdInv'
  OBVIOUS
<1>1. TypeInv' /\ queue \subseteq Entry /\ disk.queue \subseteq Entry
  BY NextTypeInv DEF IdInv, TypeInv, TypeOK
<1>2. ASSUME NEW c \in Channel, NEW hi \in BOOLEAN,
             NEW life \in Lives \cup {Forever}, NEW key \in Key \cup {NoKey},
             Enqueue(c, hi, life, key)
      PROVE  IdInv'
  BY <1>1, <1>2, EnqueueSound DEF Enqueue, IdInv
<1>3. ASSUME NEW e \in queue, SealFails(e) \/ SendUnreachable(e)
      PROVE  IdInv'
  <2>1. ComesFrom(queue', queue)
    BY <1>1, <1>3, DeferComesFrom DEF SealFails, SendUnreachable
  <2>. QED
    BY <1>1, <1>3, <2>1, ComesFromSound DEF IdInv, SealFails, SendUnreachable
<1>4. ASSUME queue' \subseteq queue, UNCHANGED <<nextId, disk>>
      PROVE  IdInv'
  <2>1. ComesFrom(queue', queue)
    BY <1>4, SubsetComesFrom
  <2>. QED
    BY <1>1, <1>4, <2>1, ComesFromSound DEF IdInv
<1>5. CASE Save
  BY <1>1, <1>5 DEF Save, IdInv
<1>6. CASE Crash
  BY <1>1, <1>6 DEF Crash, IdInv
<1>7. CASE Tick
  <2>1. ComesFrom(queue', queue)
    BY <1>1, <1>7, OlderComesFrom DEF Tick
  <2>2. ComesFrom(disk'.queue, disk.queue) /\ disk'.nextId = disk.nextId
    <3>1. /\ disk'.queue = {Older(e) : e \in disk.queue}
          /\ disk'.nextId = disk.nextId
      BY <1>7 DEF Tick, IdInv, TypeInv, TypeOK
    <3>. QED
      BY <1>1, <3>1, OlderComesFrom
  <2>. QED
    BY <1>1, <1>7, <2>1, <2>2, ComesFromSound DEF Tick, IdInv
<1>. QED
  BY <1>2, <1>3, <1>4, <1>5, <1>6, <1>7
     DEF Next, BeginDrain, Skip, SendOk, SendDead, EndDrain, ForgetPeer,
         ChannelOpens, ChannelRetires, vars

LEMMA InitIdInv == Init => IdInv
  BY InitTypeInv DEF Init, IdInv, Sound, Distinct, OneEach, Below

(* A newer state replaces the one queued behind it: no channel ever holds   *)
(* two under one coalescing key, in memory or after a restart.              *)
THEOREM NewerStateReplaces == Spec => []OneStatePerKey
<1>1. IdInv => OneStatePerKey
  BY DEF IdInv, Sound, OneEach, OneStatePerKey
<1>. QED
  BY InitIdInv, NextIdInv, <1>1, PTL DEF Spec

-----------------------------------------------------------------------------
(* Nothing vanishes.  A drain takes an entry out by its id, so the report   *)
(* must name the message the entry holds; and a restart goes back to the    *)
(* snapshot, so what the snapshot no longer holds must have been reported.  *)
LinesMatch ==
  \A e \in queue, l \in sent \cup dropped : e.id = l.id => e.body = l.body
DiskCovers == kept \subseteq Bodies(disk.queue) \cup reported
KeepInv == IdInv /\ LinesMatch /\ NothingVanishes /\ DiskCovers

LEMMA InitKeepInv == Init => KeepInv
  BY InitIdInv DEF Init, KeepInv, LinesMatch, NothingVanishes, DiskCovers

(* A step that loses no message and takes no line back.                     *)
LEMMA NoLoss ==
  ASSUME NothingVanishes, DiskCovers, kept' = kept, reported \subseteq reported',
         Bodies(queue) \cup Bodies(dropped)
           \subseteq Bodies(queue') \cup Bodies(dropped') \cup reported',
         Bodies(disk'.queue) = Bodies(disk.queue)
  PROVE  NothingVanishes' /\ DiskCovers'
<1>1. DiskCovers'
  <2>. DEFINE B == Bodies(disk.queue)
  <2>1. kept \subseteq B \cup reported /\ Bodies(disk'.queue) = B
    BY DEF DiskCovers
  <2>. HIDE DEF B
  <2>2. kept' \subseteq Bodies(disk'.queue) \cup reported'
    BY <2>1
  <2>. QED
    BY <2>2 DEF DiskCovers
<1>. QED
  BY <1>1 DEF NothingVanishes

(* Older and deferred entries hold the same messages.                       *)
LEMMA SameBodies ==
  /\ \A E \in SUBSET Entry : Bodies({Older(e) : e \in E}) = Bodies(E)
  /\ \A e \in queue : queue \subseteq Entry /\ Defer(e) => Bodies(queue') = Bodies(queue)
<1>1. ASSUME NEW E \in SUBSET Entry
      PROVE  Bodies({Older(e) : e \in E}) = Bodies(E)
  BY OlderEntry DEF Bodies
<1>2. ASSUME NEW e \in queue, queue \subseteq Entry, Defer(e)
      PROVE  Bodies(queue') = Bodies(queue)
  BY <1>2, DeferKeeps, RetriedEntry DEF Bodies
<1>. QED
  BY <1>1, <1>2

(* A line names the message of its entry.                                   *)
LEMMA LinesBodies == \A E : Bodies(Lines(E)) = Bodies(E)
<1> SUFFICES ASSUME NEW E PROVE Bodies(Lines(E)) = Bodies(E)
  OBVIOUS
<1>. DEFINE L(e) == [id |-> e.id, body |-> e.body]
<1>1. \A e \in E : L(e).body = e.body
  OBVIOUS
<1>2. Lines(E) = {L(e) : e \in E}
  BY DEF Lines
<1>. HIDE DEF L
<1>. QED
  BY <1>1, <1>2 DEF Bodies

LEMMA NextKeepInv == KeepInv /\ [Next]_vars => KeepInv'
<1> SUFFICES ASSUME KeepInv, [Next]_vars PROVE KeepInv'
  OBVIOUS
<1>1. /\ IdInv' /\ TypeOK /\ Idle /\ Distinct(queue)
      /\ queue \subseteq Entry /\ disk.queue \subseteq Entry
  BY NextIdInv DEF KeepInv, IdInv, Sound, TypeInv, TypeOK
<1>2. NothingVanishes /\ DiskCovers /\ LinesMatch
  BY DEF KeepInv
<1>3. ASSUME NEW c \in Channel, NEW hi \in BOOLEAN,
             NEW life \in Lives \cup {Forever}, NEW key \in Key \cup {NoKey},
             Enqueue(c, hi, life, key)
      PROVE  KeepInv'
  <2>1. /\ sent' = {} /\ dropped' = {} /\ dropped = {}
        /\ kept' = kept /\ disk' = disk
    BY <1>1, <1>3 DEF Enqueue, pass, Idle
  <2>2. /\ reported \subseteq reported'
        /\ Bodies(queue) \subseteq Bodies(queue') \cup reported'
    BY <1>3 DEF Enqueue, Replace, Bodies
  <2>3. NothingVanishes' /\ DiskCovers'
    BY <1>2, <2>1, <2>2, NoLoss
  <2>. QED
    BY <1>1, <2>1, <2>3 DEF KeepInv, LinesMatch
<1>4. ASSUME NEW budget \in Budgets, BeginDrain(budget)
      PROVE  KeepInv'
  <2>. DEFINE gone == {e \in queue : Expired(e)}
  <2>1. /\ queue' = queue \ gone /\ dropped' = Lines(gone) /\ sent' = {}
        /\ dropped = {} /\ UNCHANGED <<kept, reported, disk>>
    BY <1>1, <1>4 DEF BeginDrain, Idle, ghosts
  <2>. HIDE DEF gone
  <2>2. Bodies(queue) \cup Bodies(dropped)
          \subseteq Bodies(queue') \cup Bodies(dropped') \cup reported'
    <3>1. Bodies(dropped') = Bodies(gone) /\ Bodies(dropped) = {}
      BY <2>1, LinesBodies DEF Bodies
    <3>2. Bodies(queue) \subseteq Bodies(queue \ gone) \cup Bodies(gone)
      BY DEF Bodies
    <3>. QED
      BY <2>1, <3>1, <3>2
  <2>3. NothingVanishes' /\ DiskCovers'
    BY <1>2, <2>1, <2>2, NoLoss
  <2>4. LinesMatch'
    <3>1. gone \subseteq queue
      BY DEF gone
    <3>. QED
      BY <1>1, <2>1, <3>1 DEF LinesMatch, Lines, Distinct
  <2>. QED
    BY <1>1, <2>3, <2>4 DEF KeepInv
<1>5. ASSUME NEW e \in queue, SealFails(e) \/ SendUnreachable(e)
      PROVE  KeepInv'
  <2>1. Defer(e) /\ UNCHANGED <<sent, dropped, disk, ghosts>>
    BY <1>5 DEF SealFails, SendUnreachable
  <2>2. Bodies(queue') = Bodies(queue)
    BY <1>1, <2>1, SameBodies
  <2>3. NothingVanishes' /\ DiskCovers'
    BY <1>2, <2>1, <2>2, NoLoss DEF ghosts
  <2>4. LinesMatch'
    <3>1. /\ queue' = (queue \ {e}) \cup {Retried(e)}
          /\ Retried(e).id = e.id /\ Retried(e).body = e.body
      BY <1>1, <2>1, DeferKeeps, RetriedEntry
    <3>. HIDE DEF Retried
    <3>. QED
      BY <1>2, <2>1, <3>1 DEF LinesMatch
  <2>. QED
    BY <1>1, <2>3, <2>4 DEF KeepInv
<1>6. ASSUME NEW e \in queue, Skip(e) \/ SendOk(e) \/ SendDead(e)
      PROVE  KeepInv'
  <2>1. /\ queue' = queue /\ UNCHANGED <<disk, ghosts>>
        /\ sent' \cup dropped' \subseteq sent \cup dropped \cup Lines({e})
        /\ dropped \subseteq dropped'
    BY <1>6 DEF Skip, SendOk, SendDead
  <2>2. NothingVanishes' /\ DiskCovers'
    BY <1>2, <2>1, NoLoss DEF Bodies, ghosts
  <2>3. LinesMatch'
    BY <1>1, <1>2, <2>1 DEF LinesMatch, Lines, Distinct
  <2>. QED
    BY <1>1, <2>2, <2>3 DEF KeepInv
<1>7. CASE EndDrain
  <2>1. /\ queue' = queue \ (Stranded \cup Leaving)
        /\ reported' = reported \cup Bodies(sent \cup DroppedInAll)
        /\ sent' = {} /\ dropped' = {} /\ UNCHANGED <<disk, kept>>
    BY <1>7 DEF EndDrain
  <2>2. Bodies(queue) \subseteq Bodies(queue') \cup reported'
    <3> SUFFICES ASSUME NEW e \in queue, e \notin queue'
                 PROVE  e.body \in reported'
      BY DEF Bodies
    <3>1. CASE e \in Stranded
      <4>1. Bodies(Stranded) = Bodies(Lines(Stranded))
        BY LinesBodies
      <4>2. Bodies(Lines(Stranded)) \subseteq reported'
        BY <2>1 DEF Bodies, DroppedInAll
      <4>. QED
        BY <3>1, <4>1, <4>2 DEF Bodies
    <3>2. CASE e \in Leaving
      BY <1>2, <2>1, <3>2 DEF Leaving, Ids, Bodies, DroppedInAll, LinesMatch
    <3>. QED
      BY <2>1, <3>1, <3>2
  <2>3. Bodies(dropped) \subseteq reported'
    BY <2>1 DEF Bodies, DroppedInAll
  <2>4. NothingVanishes' /\ DiskCovers'
    BY <1>2, <2>1, <2>2, <2>3, NoLoss
  <2>. QED
    BY <1>1, <2>1, <2>4 DEF KeepInv, LinesMatch
<1>8. ASSUME NEW c \in Channel, ForgetPeer(c)
      PROVE  KeepInv'
  <2>1. /\ queue' = queue \ On(c) /\ reported' = reported \cup Bodies(On(c))
        /\ sent' = {} /\ dropped' = {} /\ dropped = {}
        /\ UNCHANGED <<disk, kept>>
    BY <1>1, <1>8 DEF ForgetPeer, pass, Idle
  <2>2. Bodies(queue) \subseteq Bodies(queue') \cup reported'
    BY <2>1 DEF Bodies
  <2>3. NothingVanishes' /\ DiskCovers'
    BY <1>2, <2>1, <2>2, NoLoss
  <2>. QED
    BY <1>1, <2>1, <2>3 DEF KeepInv, LinesMatch
<1>9. CASE Save
  <2>1. /\ sent = {} /\ dropped = {} /\ UNCHANGED <<queue, pass, reported>>
        /\ disk'.queue = queue /\ kept' = kept \cup Bodies(queue)
    BY <1>1, <1>9 DEF Save, Idle
  <2>2. kept \subseteq Bodies(queue) \cup reported
    BY <1>2, <2>1 DEF NothingVanishes, Bodies
  <2>3. NothingVanishes' /\ DiskCovers'
    BY <2>1, <2>2 DEF NothingVanishes, DiskCovers, Bodies
  <2>. QED
    BY <1>1, <2>1, <2>3 DEF KeepInv, LinesMatch, pass
<1>10. CASE Crash
  <2>1. /\ queue' = disk.queue /\ sent' = {} /\ dropped' = {}
        /\ UNCHANGED <<disk, reported, kept>>
    BY <1>10 DEF Crash
  <2>2. NothingVanishes' /\ DiskCovers'
    BY <1>2, <2>1 DEF NothingVanishes, DiskCovers, Bodies
  <2>. QED
    BY <1>1, <2>1, <2>2 DEF KeepInv, LinesMatch
<1>11. CASE Tick
  <2>1. /\ queue' = {Older(e) : e \in queue}
        /\ UNCHANGED <<sent, dropped, kept, reported>>
    BY <1>11 DEF Tick, pass, ghosts
  <2>2. disk'.queue = {Older(e) : e \in disk.queue}
    BY <1>1, <1>11 DEF Tick, TypeOK
  <2>3. /\ Bodies(queue') = Bodies(queue)
        /\ Bodies(disk'.queue) = Bodies(disk.queue)
    BY <1>1, <2>1, <2>2, SameBodies
  <2>4. NothingVanishes' /\ DiskCovers'
    BY <1>2, <2>1, <2>3, NoLoss
  <2>5. LinesMatch'
    BY <1>1, <1>2, <2>1, OlderEntry DEF LinesMatch
  <2>. QED
    BY <1>1, <2>4, <2>5 DEF KeepInv
<1>12. CASE UNCHANGED <<queue, sent, dropped, disk, ghosts>>
  BY <1>1, <1>2, <1>12
     DEF KeepInv, LinesMatch, NothingVanishes, DiskCovers, Bodies, ghosts
<1>. QED
  BY <1>3, <1>4, <1>5, <1>6, <1>7, <1>8, <1>9, <1>10, <1>11, <1>12
     DEF Next, ChannelOpens, ChannelRetires, vars, pass

(* A message that a snapshot has held stays queued until the caller is told *)
(* what became of it, whatever fails and whenever the process is killed.    *)
THEOREM NoMessageVanishes == Spec => []NothingVanishes
<1>1. KeepInv => NothingVanishes
  BY DEF KeepInv
<1>. QED
  BY InitKeepInv, NextKeepInv, <1>1, PTL DEF Spec

-----------------------------------------------------------------------------
(* Expiry.  A drain starts by taking out what has expired, and while the    *)
(* clock stands still nothing else expires before the drain is over.        *)
NoneStale == draining => \A e \in queue : e.life # 0
FreshInv == TypeInv /\ NoneStale

LEMMA NextFreshInv == ~ClockRuns /\ FreshInv /\ [Next]_vars => FreshInv'
<1> SUFFICES ASSUME ~ClockRuns, FreshInv, [Next]_vars PROVE FreshInv'
  OBVIOUS
<1>1. TypeInv' /\ queue \subseteq Entry /\ draining \in BOOLEAN
  BY NextTypeInv DEF FreshInv, TypeInv, TypeOK
<1>2. ASSUME NEW budget \in Budgets, BeginDrain(budget)
      PROVE  NoneStale'
  BY <1>2 DEF BeginDrain, Expired, NoneStale
<1>3. ASSUME NEW e \in queue, SealFails(e) \/ SendUnreachable(e)
      PROVE  NoneStale'
  <2>1. draining /\ draining' = draining /\ Defer(e)
    BY <1>3 DEF SealFails, SendUnreachable, Sealed, Current
  <2>2. queue' = (queue \ {e}) \cup {Retried(e)} /\ Retried(e).life = e.life
    BY <1>1, <2>1, DeferKeeps DEF Retried, Entry
  <2>. QED
    BY <2>1, <2>2 DEF FreshInv, NoneStale
<1>4. ASSUME ~draining' \/ (queue' = queue /\ draining' = draining)
      PROVE  NoneStale'
  BY <1>4 DEF FreshInv, NoneStale
<1>5. ASSUME Tick
      PROVE  NoneStale'
  <2>1. draining = FALSE
    BY <1>1, <1>5, Zenon DEF Tick
  <2>2. draining' = draining
    BY <1>5 DEF Tick, pass
  <2>. QED
    BY <2>1, <2>2 DEF NoneStale
<1>6. ASSUME NEW e \in queue, Skip(e) \/ SendOk(e) \/ SendDead(e)
      PROVE  NoneStale'
  BY <1>4, <1>6 DEF Skip, SendOk, SendDead
<1>7. ASSUME UNCHANGED vars
      PROVE  NoneStale'
  <2>1. queue' = queue /\ draining' = draining
    BY <1>7 DEF vars, pass
  <2>. QED
    BY <1>4, <2>1
<1>8. ASSUME \/ \E c \in Channel, hi \in BOOLEAN, life \in Lives \cup {Forever},
                key \in Key \cup {NoKey} : Enqueue(c, hi, life, key)
             \/ \E c \in Channel : ForgetPeer(c)
             \/ EndDrain \/ Save \/ Crash
      PROVE  NoneStale'
  <2>1. (~draining /\ UNCHANGED pass) \/ draining' = FALSE
    BY <1>8, Zenon DEF Enqueue, ForgetPeer, EndDrain, Save, Crash
  <2>2. (draining = FALSE /\ UNCHANGED pass) \/ draining' = FALSE
    BY <1>1, <2>1, Zenon
  <2>. QED
    BY <2>2 DEF NoneStale, pass
<1>9. ASSUME NEW c \in Channel, ChannelOpens(c) \/ ChannelRetires(c)
      PROVE  NoneStale'
  <2>1. queue' = queue /\ draining' = draining
    BY <1>9 DEF ChannelOpens, ChannelRetires, pass
  <2>. QED
    BY <1>4, <2>1
<1>. QED
  BY <1>1, <1>2, <1>3, <1>5, <1>6, <1>7, <1>8, <1>9 DEF FreshInv, Next

LEMMA FreshSends == FreshInv => \A e \in queue : Sends(e) => e.life # 0
<1> SUFFICES ASSUME FreshInv, NEW e \in queue, Sends(e) PROVE e.life # 0
  OBVIOUS
<1>1. draining
  BY DEF Sends, FreshInv, TypeInv, Idle
<1>. QED
  BY <1>1 DEF FreshInv, NoneStale

(* "An expired message is never sent late", however long the drain, if the  *)
(* clock does not move while it is under way.                               *)
THEOREM NothingStaleIsSent ==
  ASSUME ~ClockRuns
  PROVE  Spec => NoStaleSend
<1>1. Init => FreshInv
  BY InitTypeInv DEF FreshInv, NoneStale, Init
<1>2. FreshInv /\ [Next]_vars => FreshInv'
  BY NextFreshInv
<1>3. FreshInv => [\A e \in queue : Sends(e) => e.life # 0]_vars
  BY FreshSends
<1>. QED
  BY <1>1, <1>2, <1>3, PTL DEF Spec, NoStaleSend

(* What was found dead this pass is gone from the queue when the pass ends, *)
(* whether it was due or not.                                               *)
THEOREM DeadChannelIsCleared == Spec => DeadBacklogLeaves
<1>1. EndDrain => \A e \in queue' : e.ch \notin DeadChannels
  BY DEF EndDrain, Stranded, Leaving, Ids
<1>. QED
  BY <1>1, PTL DEF Spec, DeadBacklogLeaves

-----------------------------------------------------------------------------
(* The bound.  Deferred and aged entries stay where they are, one for one,  *)
(* so only enqueue can fill a channel, and it makes room on a full one.     *)
OnIn(E, c) == {e \in E : e.ch = c}
Bounded(E) ==
  \A c \in Channel : IsFiniteSet(OnIn(E, c)) /\ Cardinality(OnIn(E, c)) <= MaxQueued
BoundInv == TypeInv /\ Bounded(queue) /\ Bounded(disk.queue)

LEMMA ComesFromBounded ==
  ASSUME NEW E, NEW F, ComesFrom(E, F), Bounded(F)
  PROVE  Bounded(E)
<1> SUFFICES ASSUME NEW c \in Channel
             PROVE  IsFiniteSet(OnIn(E, c)) /\ Cardinality(OnIn(E, c)) <= MaxQueued
  BY DEF Bounded
<1>1. PICK old \in [E -> F] :
        /\ \A e \in E : SameMessage(e, old[e])
        /\ \A e, f \in E : old[e] = old[f] => e = f
  BY DEF ComesFrom
<1>. DEFINE g == [e \in OnIn(E, c) |-> old[e]]
<1>2. g \in [OnIn(E, c) -> OnIn(F, c)]
  BY <1>1 DEF OnIn, SameMessage
<1>3. \A e, f \in OnIn(E, c) : g[e] = g[f] => e = f
  BY <1>1 DEF OnIn
<1>4. g \in Injection(OnIn(E, c), OnIn(F, c))
  BY <1>2, <1>3 DEF Injection, IsInjective
<1>5. IsFiniteSet(OnIn(F, c)) /\ Cardinality(OnIn(F, c)) <= MaxQueued
  BY DEF Bounded
<1>6. /\ IsFiniteSet(OnIn(E, c))
      /\ Cardinality(OnIn(E, c)) <= Cardinality(OnIn(F, c))
  BY <1>4, <1>5, FS_Injection
<1>. QED
  BY <1>5, <1>6, FS_CardinalityType, OutboxAssumption

\* One entry takes the place of another on its channel.
LEMMA SwapBounded ==
  ASSUME NEW E, Bounded(E), NEW old \in E, NEW new, new.ch = old.ch, new.ch \in Channel
  PROVE  Bounded((E \ {old}) \cup {new})
<1> SUFFICES ASSUME NEW c \in Channel
             PROVE  /\ IsFiniteSet(OnIn((E \ {old}) \cup {new}, c))
                    /\ Cardinality(OnIn((E \ {old}) \cup {new}, c)) <= MaxQueued
  BY DEF Bounded
<1>1. IsFiniteSet(OnIn(E, c)) /\ Cardinality(OnIn(E, c)) <= MaxQueued
  BY DEF Bounded
<1>2. CASE c # new.ch
  <2>1. OnIn((E \ {old}) \cup {new}, c) = OnIn(E, c)
    BY <1>2 DEF OnIn
  <2>. QED
    BY <1>1, <2>1
<1>3. CASE c = new.ch
  <2>1. OnIn((E \ {old}) \cup {new}, c) = (OnIn(E, c) \ {old}) \cup {new}
    BY <1>3 DEF OnIn
  <2>2. old \in OnIn(E, c)
    BY <1>3 DEF OnIn
  <2>. DEFINE R == OnIn(E, c) \ {old}
  <2>3. IsFiniteSet(R) /\ Cardinality(R) = Cardinality(OnIn(E, c)) - 1
    BY <1>1, <2>2, FS_RemoveElement
  <2>. HIDE DEF R
  <2>4. /\ IsFiniteSet(R \cup {new})
        /\ Cardinality(R \cup {new}) = IF new \in R THEN Cardinality(R) ELSE Cardinality(R) + 1
    BY <2>3, FS_AddElement
  <2>5. Cardinality(R) \in Nat /\ Cardinality(OnIn(E, c)) \in Nat
    BY <1>1, <2>3, FS_CardinalityType
  <2>6. Cardinality(R \cup {new}) <= MaxQueued
    BY <1>1, <2>3, <2>4, <2>5, OutboxAssumption
  <2>7. OnIn((E \ {old}) \cup {new}, c) = R \cup {new}
    BY <2>1 DEF R
  <2>. QED
    BY <2>4, <2>6, <2>7
<1>. QED
  BY <1>2, <1>3

LEMMA EnqueueBounded ==
  ASSUME BoundInv, NEW c \in Channel, NEW hi \in BOOLEAN,
         NEW life \in Lives \cup {Forever}, NEW key \in Key \cup {NoKey},
         Enqueue(c, hi, life, key)
  PROVE  Bounded(queue')
<1>. DEFINE new == NewEntry(c, hi, life, key)
<1>1. new.ch = c
  BY DEF NewEntry
<1>. HIDE DEF new
<1>2. ASSUME NEW E \in SUBSET On(c), E # {}, Replace(E, new) PROVE Bounded(queue')
  <2>1. E \in SUBSET Entry
    BY DEF On, BoundInv, TypeInv, TypeOK
  <2>2. Oldest(E) \in E
    BY <1>2, <2>1, OldestIsThere
  <2>3. Oldest(E) \in queue /\ Oldest(E).ch = c
    BY <2>2 DEF On
  <2>4. queue' = (queue \ {Oldest(E)}) \cup {new}
    BY <1>2 DEF Replace
  <2>. QED
    BY <1>1, <2>3, <2>4, SwapBounded DEF BoundInv
<1>3. ASSUME ~Crowded(c), queue' = queue \cup {new} PROVE Bounded(queue')
  <2> SUFFICES ASSUME NEW d \in Channel
               PROVE  IsFiniteSet(OnIn(queue', d)) /\ Cardinality(OnIn(queue', d)) <= MaxQueued
    BY DEF Bounded
  <2>1. IsFiniteSet(OnIn(queue, d)) /\ Cardinality(OnIn(queue, d)) <= MaxQueued
    BY DEF BoundInv, Bounded
  <2>2. CASE d # c
    <3>1. OnIn(queue', d) = OnIn(queue, d)
      BY <1>1, <1>3, <2>2 DEF OnIn
    <3>. QED
      BY <2>1, <3>1
  <2>3. CASE d = c
    <3>1. OnIn(queue', d) = OnIn(queue, d) \cup {new}
      BY <1>1, <1>3, <2>3 DEF OnIn
    <3>2. /\ IsFiniteSet(OnIn(queue, d) \cup {new})
          /\ Cardinality(OnIn(queue, d) \cup {new}) =
               IF new \in OnIn(queue, d) THEN Cardinality(OnIn(queue, d))
               ELSE Cardinality(OnIn(queue, d)) + 1
      BY <2>1, FS_AddElement
    <3>3. ~(Cardinality(OnIn(queue, d)) >= MaxQueued)
      BY <1>3, <2>3 DEF Crowded, On, OnIn
    <3>4. Cardinality(OnIn(queue, d)) \in Nat
      BY <2>1, FS_CardinalityType
    <3>. QED
      BY <3>1, <3>2, <3>3, <3>4, OutboxAssumption
  <2>. QED
    BY <2>2, <2>3
<1>4. Superseded(c, hi, key) \in SUBSET On(c) /\ Stale(c) \in SUBSET On(c)
  BY DEF Superseded, Stale
<1>. QED
  BY <1>2, <1>3, <1>4 DEF Enqueue, new

LEMMA NextBoundInv == BoundInv /\ [Next]_vars => BoundInv'
<1> SUFFICES ASSUME BoundInv, [Next]_vars PROVE BoundInv'
  OBVIOUS
<1>1. TypeInv' /\ queue \subseteq Entry /\ disk.queue \subseteq Entry
  BY NextTypeInv DEF BoundInv, TypeInv, TypeOK
<1>2. ASSUME NEW c \in Channel, NEW hi \in BOOLEAN,
             NEW life \in Lives \cup {Forever}, NEW key \in Key \cup {NoKey},
             Enqueue(c, hi, life, key)
      PROVE  BoundInv'
  BY <1>1, <1>2, EnqueueBounded DEF Enqueue, BoundInv
<1>3. ASSUME NEW e \in queue, SealFails(e) \/ SendUnreachable(e)
      PROVE  BoundInv'
  <2>1. ComesFrom(queue', queue)
    BY <1>1, <1>3, DeferComesFrom DEF SealFails, SendUnreachable
  <2>. QED
    BY <1>1, <1>3, <2>1, ComesFromBounded DEF BoundInv, SealFails, SendUnreachable
<1>4. ASSUME queue' \subseteq queue, UNCHANGED disk
      PROVE  BoundInv'
  <2>1. ComesFrom(queue', queue)
    BY <1>4, SubsetComesFrom
  <2>. QED
    BY <1>1, <1>4, <2>1, ComesFromBounded DEF BoundInv
<1>5. CASE Save
  BY <1>1, <1>5 DEF Save, BoundInv
<1>6. CASE Crash
  BY <1>1, <1>6 DEF Crash, BoundInv
<1>7. CASE Tick
  <2>1. ComesFrom(queue', queue)
    BY <1>1, <1>7, OlderComesFrom DEF Tick
  <2>2. ComesFrom(disk'.queue, disk.queue)
    <3>1. disk'.queue = {Older(e) : e \in disk.queue}
      BY <1>7 DEF Tick, BoundInv, TypeInv, TypeOK
    <3>. QED
      BY <1>1, <3>1, OlderComesFrom
  <2>. QED
    BY <1>1, <2>1, <2>2, ComesFromBounded DEF BoundInv
<1>. QED
  BY <1>2, <1>3, <1>4, <1>5, <1>6, <1>7
     DEF Next, BeginDrain, Skip, SendOk, SendDead, EndDrain, ForgetPeer,
         ChannelOpens, ChannelRetires, vars

(* A channel never holds more than MAX_QUEUED_PER_CHANNEL entries, durable  *)
(* or not, across retries, evictions and restarts.                          *)
THEOREM ChannelsAreBounded == Spec => []QueueBounded
<1>1. Init => BoundInv
  <2> SUFFICES ASSUME Init PROVE BoundInv
    OBVIOUS
  <2>1. \A c \in Channel : OnIn({}, c) = {}
    BY DEF OnIn
  <2>2. Bounded({})
    BY <2>1, FS_EmptySet, OutboxAssumption DEF Bounded
  <2>. QED
    BY <2>2, InitTypeInv DEF Init, BoundInv
<1>2. BoundInv => QueueBounded
  BY DEF BoundInv, Bounded, QueueBounded, On, OnIn
<1>. QED
  BY <1>1, <1>2, NextBoundInv, PTL DEF Spec

-----------------------------------------------------------------------------
(* Urgency.  A drain that takes up an entry that is not urgent has taken up *)
(* every urgent one that was due, and it looks at those first; one that is  *)
(* put off has to wait, and if its channel failed the others are not sent.  *)
TodoUnsent == todo \cap Ids(sent) = {}
UrgentTaken ==
  \A e, f \in queue :
    /\ e.id \in todo /\ ~e.hi
    /\ f.ch = e.ch /\ f.hi /\ f.wait = 0
    => f.id \in todo \cup Ids(sent) \/ failed[e.ch] # "no"
UrgentInv ==
  /\ IdInv
  /\ IsFiniteSet(queue) /\ IsFiniteSet(disk.queue)
  /\ TodoUnsent
  /\ UrgentTaken

LEMMA BackoffWaits == \A n \in Nat : Backoff(n) # 0
<1> SUFFICES ASSUME NEW n \in Nat PROVE Backoff(n) # 0
  OBVIOUS
<1>1. IsFiniteSet(1..n) /\ Cardinality(1..n) = n
  BY FS_Interval
<1>2. IsFiniteSet(SUBSET (1..n)) /\ Cardinality(SUBSET (1..n)) = 2^n
  BY <1>1, FS_SUBSET
<1>3. 2^n # 0
  BY <1>2, FS_EmptySet
<1>4. \A p \in Nat : p # 0 => Base * p # 0
  BY OutboxAssumption
<1>5. Base * 2^n # 0 /\ Ceiling # 0
  BY <1>3, <1>4, PowerIsNat, OutboxAssumption
<1>. QED
  BY <1>5 DEF Backoff, MinOf

LEMMA RetriedWaits ==
  ASSUME NEW e \in Entry
  PROVE  Retried(e).wait # 0
<1>. DEFINE n == MinOf(e.attempts + 1, MaxAttempts)
<1>1. n \in Nat
  BY OutboxAssumption DEF MinOf, Entry
<1>2. Retried(e) = [e EXCEPT !.attempts = n, !.wait = Backoff(n)]
  BY DEF Retried
<1>. HIDE DEF n
<1>3. Backoff(n) # 0
  BY <1>1, BackoffWaits
<1>. QED
  BY <1>2, <1>3 DEF Entry

(* Whoever comes before an entry that is taken up is taken up.              *)
LEMMA FirstOfIsInitial ==
  ASSUME NEW E \in SUBSET Entry, IsFiniteSet(E), NEW budget \in Nat,
         NEW e \in FirstOf(E, budget), NEW f \in E, Before(f, e)
  PROVE  f \in FirstOf(E, budget)
<1>. DEFINE A == {g \in E : Before(g, f)}
            B == {g \in E : Before(g, e)}
<1>1. \A g \in E : Before(g, f) => Before(g, e)
  BY DEF Before, FirstOf, Entry
<1>2. A \in SUBSET B /\ B \in SUBSET E
  BY <1>1
<1>3. Cardinality(B) < budget
  BY DEF FirstOf
<1>. HIDE DEF A, B
<1>4. IsFiniteSet(B) /\ IsFiniteSet(A) /\ Cardinality(A) <= Cardinality(B)
  BY <1>2, FS_Subset
<1>5. Cardinality(A) \in Nat /\ Cardinality(B) \in Nat
  BY <1>4, FS_CardinalityType
<1>6. Cardinality(A) < budget
  BY <1>3, <1>4, <1>5
<1>. QED
  BY <1>6 DEF A, FirstOf

LEMMA BeginUrgent ==
  ASSUME UrgentInv, NEW budget \in Budgets, BeginDrain(budget)
  PROVE  UrgentTaken' /\ TodoUnsent' /\ IsFiniteSet(queue')
<1>. DEFINE E == Due(queue')
<1>1. /\ queue' \subseteq queue /\ sent' = {} /\ todo' = Ids(FirstOf(E, budget))
      /\ queue \subseteq Entry /\ Distinct(queue) /\ budget \in Nat
  <2>1. sent' = {}
    BY DEF BeginDrain, UrgentInv, IdInv, TypeInv, Idle
  <2>. QED
    BY <2>1, OutboxAssumption DEF BeginDrain, UrgentInv, IdInv, TypeInv, TypeOK, Sound
<1>2. E \in SUBSET queue' /\ E \in SUBSET queue /\ E \in SUBSET Entry
  BY <1>1 DEF Due
<1>3. IsFiniteSet(E) /\ IsFiniteSet(queue')
  BY <1>1, <1>2, FS_Subset DEF UrgentInv
<1>4. \A f \in queue' : f.wait = 0 => f \in E
  BY DEF Due
<1>. HIDE DEF E
<1>5. ASSUME NEW e \in queue', NEW f \in queue', e.id \in todo', ~e.hi, f.hi, f.wait = 0
      PROVE  f.id \in todo'
  <2>1. PICK g \in FirstOf(E, budget) : g.id = e.id
    BY <1>1, <1>5 DEF Ids
  <2>2. g \in queue
    BY <1>2 DEF FirstOf
  <2>3. g = e
    BY <1>1, <1>5, <2>1, <2>2 DEF Distinct
  <2>4. f \in E /\ Before(f, e)
    BY <1>4, <1>5 DEF Before
  <2>5. f \in FirstOf(E, budget)
    BY <1>1, <1>2, <1>3, <2>1, <2>3, <2>4, FirstOfIsInitial
  <2>. QED
    BY <1>1, <2>5 DEF Ids
<1>6. UrgentTaken'
  BY <1>5 DEF UrgentTaken
<1>7. TodoUnsent'
  BY <1>1 DEF TodoUnsent, Ids
<1>. QED
  BY <1>3, <1>6, <1>7

LEMMA LineOf ==
  ASSUME NEW x
  PROVE  Lines({x}) = {[id |-> x.id, body |-> x.body]} /\ [id |-> x.id, body |-> x.body].id = x.id
  BY DEF Lines

\* What the drain does to one entry.
LEMMA PassUrgent ==
  ASSUME UrgentInv, NEW x \in queue,
         Skip(x) \/ SealFails(x) \/ SendOk(x) \/ SendDead(x) \/ SendUnreachable(x)
  PROVE  UrgentTaken' /\ TodoUnsent' /\ IsFiniteSet(queue')
<1>1. /\ queue \subseteq Entry /\ Distinct(queue) /\ TodoUnsent /\ UrgentTaken
      /\ IsFiniteSet(queue) /\ todo' = todo \ {x.id}
      /\ failed \in [Channel -> {"no", "unreachable", "retired", "unknown"}]
      /\ conn \in [Channel -> {"open", "retired", "unknown"}]
      /\ x.ch \in Channel
  BY DEF UrgentInv, IdInv, TypeInv, TypeOK, Sound, Skip, SealFails, SendOk, SendDead,
         SendUnreachable, Sealed, Entry
<1>2. Ids(sent') \subseteq Ids(sent) \cup {x.id} /\ Ids(sent) \subseteq Ids(sent')
  <2>1. Ids(sent \cup Lines({x})) = Ids(sent) \cup {x.id}
    BY LineOf DEF Ids
  <2>. QED
    BY <2>1 DEF Skip, SealFails, SendOk, SendDead, SendUnreachable, Ids
<1>3. TodoUnsent'
  BY <1>1, <1>2 DEF TodoUnsent
<1>4. /\ \A c \in Channel : failed[c] # "no" => failed'[c] # "no"
  BY <1>1 DEF Skip, SealFails, SendOk, SendDead, SendUnreachable, Sealed
<1>5. \/ queue' = queue
      \/ queue' = (queue \ {x}) \cup {Retried(x)}
  BY <1>1, DeferKeeps DEF Skip, SealFails, SendOk, SendDead, SendUnreachable
<1>6. Retried(x).id = x.id /\ Retried(x).wait # 0
  BY <1>1, RetriedEntry, RetriedWaits
<1>7. \/ failed'[x.ch] # "no"
      \/ x.id \in Ids(sent')
      \/ queue' = (queue \ {x}) \cup {Retried(x)}
  <2>1. ASSUME SendOk(x) PROVE x.id \in Ids(sent')
    BY <2>1, LineOf DEF SendOk, Ids
  <2>2. ASSUME Skip(x) PROVE failed'[x.ch] # "no"
    BY <2>2 DEF Skip
  <2>3. ASSUME SendDead(x) PROVE failed'[x.ch] # "no"
    BY <1>1, <2>3 DEF SendDead
  <2>4. ASSUME SealFails(x) \/ SendUnreachable(x)
        PROVE  queue' = (queue \ {x}) \cup {Retried(x)}
    BY <1>1, <2>4, DeferKeeps DEF SealFails, SendUnreachable
  <2>. QED
    BY <2>1, <2>2, <2>3, <2>4
<1>. HIDE DEF Retried
<1>8. IsFiniteSet(queue')
  <2>1. IsFiniteSet(queue \ {x})
    BY <1>1, FS_RemoveElement
  <2>2. IsFiniteSet((queue \ {x}) \cup {Retried(x)})
    BY <2>1, FS_AddElement
  <2>. QED
    BY <1>1, <1>5, <2>2
<1>9. UrgentTaken'
  <2> SUFFICES ASSUME NEW e \in queue', NEW f \in queue', e.id \in todo', ~e.hi,
                      f.ch = e.ch, f.hi, f.wait = 0
               PROVE  f.id \in todo' \cup Ids(sent') \/ failed'[e.ch] # "no"
    BY DEF UrgentTaken
  <2>1. e \in queue /\ f \in queue /\ e.ch \in Channel
    BY <1>1, <1>5, <1>6 DEF Entry
  <2>2. f.id \in todo \cup Ids(sent) \/ failed[e.ch] # "no"
    BY <1>1, <2>1 DEF UrgentTaken
  <2>3. CASE f.id # x.id
    BY <1>1, <1>2, <1>4, <2>1, <2>2, <2>3
  <2>4. CASE f.id = x.id
    <3>1. f = x
      BY <1>1, <2>1, <2>4 DEF Distinct
    <3>2. queue' # (queue \ {x}) \cup {Retried(x)}
      BY <1>6, <3>1
    <3>. QED
      BY <1>7, <3>1, <3>2
  <2>. QED
    BY <2>3, <2>4
<1>. QED
  BY <1>3, <1>8, <1>9

LEMMA NextUrgentInv ==
  ASSUME ~ClockRuns, UrgentInv, [Next]_vars
  PROVE  UrgentInv'
<1>1. IdInv' /\ TypeInv /\ draining \in BOOLEAN
  BY NextIdInv DEF UrgentInv, IdInv, TypeInv, TypeOK
<1>2. ASSUME todo' = {}, IsFiniteSet(queue'), IsFiniteSet(disk'.queue)
      PROVE  UrgentInv'
  BY <1>1, <1>2 DEF UrgentInv, TodoUnsent, UrgentTaken
<1>3. ASSUME UNCHANGED <<queue, todo, sent, failed, disk>> PROVE UrgentInv'
  BY <1>1, <1>3 DEF UrgentInv, TodoUnsent, UrgentTaken
<1>4. ASSUME NEW c \in Channel, NEW hi \in BOOLEAN,
             NEW life \in Lives \cup {Forever}, NEW key \in Key \cup {NoKey},
             Enqueue(c, hi, life, key)
      PROVE  UrgentInv'
  <2>1. ~draining /\ UNCHANGED <<pass, disk>>
    BY <1>4 DEF Enqueue
  <2>2. todo' = {}
    BY <1>1, <2>1 DEF TypeInv, Idle, pass
  <2>3. queue' \subseteq queue \cup {NewEntry(c, hi, life, key)}
    BY <1>4 DEF Enqueue, Replace
  <2>4. IsFiniteSet(queue \cup {NewEntry(c, hi, life, key)})
    BY FS_AddElement DEF UrgentInv
  <2>5. IsFiniteSet(queue')
    BY <2>3, <2>4, FS_Subset
  <2>. QED
    BY <1>2, <2>1, <2>2, <2>5 DEF UrgentInv
<1>5. ASSUME NEW budget \in Budgets, BeginDrain(budget) PROVE UrgentInv'
  BY <1>1, <1>5, BeginUrgent DEF UrgentInv, BeginDrain
<1>6. ASSUME NEW e \in queue,
             Skip(e) \/ SealFails(e) \/ SendOk(e) \/ SendDead(e) \/ SendUnreachable(e)
      PROVE  UrgentInv'
  <2>1. UNCHANGED disk
    BY <1>6 DEF Skip, SealFails, SendOk, SendDead, SendUnreachable
  <2>. QED
    BY <1>1, <1>6, <2>1, PassUrgent DEF UrgentInv
<1>7. CASE EndDrain
  <2>1. todo' = {} /\ queue' \subseteq queue /\ UNCHANGED disk
    BY <1>7 DEF EndDrain
  <2>2. IsFiniteSet(queue')
    BY <2>1, FS_Subset DEF UrgentInv
  <2>. QED
    BY <1>2, <2>1, <2>2 DEF UrgentInv
<1>8. ASSUME NEW c \in Channel, ForgetPeer(c) PROVE UrgentInv'
  <2>1. ~draining /\ UNCHANGED <<pass, disk>> /\ queue' \subseteq queue
    BY <1>8 DEF ForgetPeer
  <2>2. todo' = {}
    BY <1>1, <2>1 DEF TypeInv, Idle, pass
  <2>3. IsFiniteSet(queue')
    BY <2>1, FS_Subset DEF UrgentInv
  <2>. QED
    BY <1>2, <2>1, <2>2, <2>3 DEF UrgentInv
<1>9. CASE Save
  <2>1. ~draining /\ UNCHANGED <<queue, pass>> /\ disk'.queue = queue
    BY <1>9 DEF Save
  <2>2. todo' = {}
    BY <1>1, <2>1 DEF TypeInv, Idle, pass
  <2>. QED
    BY <1>2, <2>1, <2>2 DEF UrgentInv
<1>10. CASE Crash
  <2>1. todo' = {} /\ queue' = disk.queue /\ UNCHANGED disk
    BY <1>10 DEF Crash
  <2>. QED
    BY <1>2, <2>1 DEF UrgentInv
<1>11. CASE Tick
  <2>1. draining = FALSE
    BY <1>1, <1>11, Zenon DEF Tick
  <2>2. todo' = {}
    BY <1>1, <1>11, <2>1 DEF TypeInv, Idle, Tick, pass
  <2>3. IsFiniteSet({Older(e) : e \in queue}) /\ IsFiniteSet({Older(e) : e \in disk.queue})
    <3>1. ASSUME NEW F, IsFiniteSet(F) PROVE IsFiniteSet({Older(e) : e \in F})
      <4>. DEFINE G == {Older(e) : e \in F}
                  g == [e \in F |-> Older(e)]
      <4>1. g \in Surjection(F, G)
        BY DEF Surjection
      <4>. HIDE DEF G, g
      <4>2. IsFiniteSet(G)
        BY <3>1, <4>1, FS_Surjection
      <4>. QED
        BY <4>2 DEF G
    <3>. QED
      BY <3>1 DEF UrgentInv
  <2>4. disk'.queue = {Older(e) : e \in disk.queue}
    BY <1>1, <1>11 DEF Tick, TypeInv, TypeOK
  <2>. QED
    BY <1>2, <1>11, <2>2, <2>3, <2>4 DEF Tick
<1>12. ASSUME NEW c \in Channel, ChannelOpens(c) \/ ChannelRetires(c) PROVE UrgentInv'
  BY <1>3, <1>12 DEF ChannelOpens, ChannelRetires, pass
<1>13. CASE UNCHANGED vars
  BY <1>3, <1>13 DEF vars, pass
<1>. QED
  BY <1>4, <1>5, <1>6, <1>7, <1>8, <1>9, <1>10, <1>11, <1>12, <1>13 DEF Next

(* The step that sends an entry is SendOk of that very entry.               *)
LEMMA OnlySendOkSends ==
  ASSUME UrgentInv, [Next]_vars, NEW e \in queue, Sends(e)
  PROVE  SendOk(e)
<1>1. /\ e.id \in todo /\ e.id \in Ids(sent') /\ e.id \notin Ids(sent) /\ Distinct(queue)
  BY DEF Sends, UrgentInv, TodoUnsent, IdInv, Sound
<1>2. ASSUME NEW x \in queue, SendOk(x) PROVE x = e
  BY <1>1, <1>2 DEF SendOk, Ids, Lines, Distinct
<1>3. sent' # sent /\ sent' # {}
  BY <1>1 DEF Ids
<1>. QED
  BY <1>2, <1>3
     DEF Next, vars, pass, Enqueue, BeginDrain, Skip, SealFails, SendDead, SendUnreachable,
         EndDrain, ForgetPeer, Save, Crash, Tick, ChannelOpens, ChannelRetires

(* An urgent message that is due goes before any that is not on its channel, *)
(* however small the budget and whatever failed before, if the clock does    *)
(* not move while the drain is under way.                                    *)
THEOREM UrgentGoesFirst ==
  ASSUME ~ClockRuns
  PROVE  Spec => DueUrgentFirst
<1>1. Init => UrgentInv
  BY InitIdInv, FS_EmptySet DEF Init, UrgentInv, TodoUnsent, UrgentTaken
<1>2. ASSUME UrgentInv, [Next]_vars, NEW e \in queue, NEW f \in queue,
             Sends(e), ~e.hi, f.ch = e.ch, f.hi, f.wait = 0
      PROVE  f.id \in Ids(sent)
  <2>1. SendOk(e)
    BY <1>2, OnlySendOkSends
  <2>2. failed[e.ch] = "no" /\ e.id \in todo
        /\ \A g \in queue : g.id \in todo => ~Before(g, e)
    BY <2>1 DEF SendOk, Sealed, Current
  <2>3. f.id \in todo \cup Ids(sent)
    BY <1>2, <2>2 DEF UrgentInv, UrgentTaken
  <2>. QED
    BY <1>2, <2>2, <2>3 DEF Before
<1>3. UrgentInv /\ [Next]_vars =>
        [\A e, f \in queue :
           /\ Sends(e) /\ ~e.hi
           /\ f.ch = e.ch /\ f.hi /\ f.wait = 0
           => f.id \in Ids(sent)]_vars
  BY <1>2
<1>. QED
  BY <1>1, <1>3, NextUrgentInv, PTL DEF Spec, DueUrgentFirst

=============================================================================
