--------------------------- MODULE DeliveryProofs --------------------------
(***************************************************************************)
(* Proofs about Delivery, for any number of devices, of liars among them   *)
(* and of messages on the way: nothing shows on an honest device's screen  *)
(* that was not granted, and the ledger tells consent to the letter.       *)
(*                                                                         *)
(* A sequence is typed by what may be in it: queue[d][p] is a sequence of  *)
(* entries whose message was Granted, so that what leaves a queue, in      *)
(* whatever order and however often, was granted because it was in it.     *)
(***************************************************************************)
EXTENDS Delivery, SequenceTheorems, WellFoundedInduction, TLAPS

-----------------------------------------------------------------------------
(* Sequences.                                                              *)

\* What is left of a sequence after an element has been removed was in it.
LEMMA RemoveKeeps ==
  ASSUME NEW S, NEW s \in Seq(S), NEW i \in DOMAIN s
  PROVE  /\ RemoveAt(s, i) \in Seq(S)
         /\ Len(RemoveAt(s, i)) = Len(s) - 1
<1>1. /\ i \in 1..Len(s) /\ Len(s) \in Nat
      /\ \A j \in 1..Len(s) : s[j] \in S
  BY LenProperties, ElementOfSeq
<1>2. /\ SubSeq(s, 1, i - 1) \in Seq(S)
      /\ Len(SubSeq(s, 1, i - 1)) = i - 1
  BY <1>1, SubSeqProperties
<1>3. /\ SubSeq(s, i + 1, Len(s)) \in Seq(S)
      /\ Len(SubSeq(s, i + 1, Len(s))) = Len(s) - i
  BY <1>1, SubSeqProperties
<1> DEFINE before == SubSeq(s, 1, i - 1)
           after == SubSeq(s, i + 1, Len(s))
<1>4. before \in Seq(S) /\ after \in Seq(S)
  BY <1>2, <1>3
<1>5. /\ before \o after \in Seq(S)
      /\ Len(before \o after) = Len(before) + Len(after)
  <2> HIDE DEF before, after
  <2> QED BY <1>4, ConcatProperties
<1>6. RemoveAt(s, i) = before \o after
  BY DEF RemoveAt
<1>7. Len(before \o after) = Len(s) - 1
  BY <1>1, <1>2, <1>3, <1>5
<1> QED
  BY <1>5, <1>6, <1>7

\* What a channel holds after it was given s, and what the others hold.
LEMMA OneChannel ==
  ASSUME NEW X, NEW f \in [Device -> [Device -> X]], NEW d \in Device, NEW p \in Device,
         NEW s \in X, NEW g, g = [f EXCEPT ![d][p] = s]
  PROVE  /\ g \in [Device -> [Device -> X]]
         /\ g[d][p] = s
         /\ \A x, y \in Device : <<x, y>> # <<d, p>> => g[x][y] = f[x][y]
<1> DEFINE row == [f[d] EXCEPT ![p] = s]
<1>1. /\ row \in [Device -> X] /\ row[p] = s
      /\ \A y \in Device : y # p => row[y] = f[d][y]
  OBVIOUS
<1>2. g = [f EXCEPT ![d] = row]
  OBVIOUS
<1> HIDE DEF row
<1>3. /\ g \in [Device -> [Device -> X]]
      /\ g[d] = row
      /\ \A x \in Device : x # d => g[x] = f[x]
  BY <1>1, <1>2
<1>4. \A x, y \in Device : <<x, y>> # <<d, p>> => g[x][y] = f[x][y]
  BY <1>1, <1>3
<1> QED
  BY <1>1, <1>3, <1>4

-----------------------------------------------------------------------------
(* What the state consists of.                                             *)
Items == [message : Messages, waits : BOOLEAN]
Letters == [sender : Device, message : Messages, sound : BOOLEAN]
Views == [type : Plain \cup {"consent_update", "nothing"}, from : Device]

Shapes ==
  /\ issued \in [Device -> SUBSET (Features \X Device)]
  /\ advertised \in [Device -> SUBSET (Features \X Device)]
  /\ ledger \in [Device -> SUBSET Entries]
  /\ queue \in [Device -> [Device -> Seq(Items)]]
  /\ wire \in [Device -> [Device -> Seq(Letters)]]
  /\ screen \in [Device -> Views]
  /\ ever \subseteq Wishes
  /\ overtaken \subseteq Device \X Device
  /\ troubles \in 0..MaxTroubles

\* No channel has more on it than it may.
Fits ==
  \A d, p \in Device : Len(queue[d][p]) <= MaxQueued /\ Len(wire[d][p]) <= MaxUnder

\* If something in a queue may go stale, there is a first such.
LEMMA FirstStale ==
  ASSUME NEW T \in SUBSET Nat, T # {}
  PROVE  LET i == CHOOSE x \in T : \A y \in T : x <= y
         IN i \in T
<1>1. PICK i \in T : \A y \in T : ~(<<y, i>> \in OpToRel(<, Nat))
  BY WFMin, NatLessThanWellFounded, Zenon
<1>2. \A y \in T : ~(y \in Nat /\ i \in Nat /\ y < i)
  BY <1>1, Zenon DEF OpToRel
<1>3. \A y \in T : i <= y
  BY <1>2
<1> QED
  BY <1>3

\* Making room takes nothing out of a queue but what was in it, and makes it no longer.
LEMMA RoomKeeps ==
  ASSUME NEW d, NEW p, NEW S, queue[d][p] \in Seq(S)
  PROVE  /\ Room(d, p) \in Seq(S)
         /\ Len(Room(d, p)) <= Len(queue[d][p])
<1> DEFINE q == queue[d][p]
           stale == {i \in DOMAIN q : ~IsDurable(q[i].message)}
           first == CHOOSE i \in stale : \A j \in stale : i <= j
<1>1. /\ Len(q) \in Nat /\ DOMAIN q = 1..Len(q)
  BY LenProperties
<1>2. CASE Len(q) < MaxQueued \/ stale = {}
  BY <1>1, <1>2 DEF Room
<1>3. CASE ~(Len(q) < MaxQueued \/ stale = {})
  <2>1. stale \in SUBSET Nat /\ stale # {}
    BY <1>1, <1>3
  <2>2. first \in stale
    <3> HIDE DEF stale
    <3> QED BY <2>1, FirstStale
  <2>3. first \in DOMAIN q
    BY <2>2
  <2>4. Room(d, p) = RemoveAt(q, first)
    BY <1>3 DEF Room
  <2> HIDE DEF first, q
  <2>5. q \in Seq(S)
    BY DEF q
  <2>6. RemoveAt(q, first) \in Seq(S) /\ Len(RemoveAt(q, first)) = Len(q) - 1
    BY <2>3, <2>5, RemoveKeeps
  <2> QED
    BY <1>1, <2>4, <2>6 DEF q
<1> QED
  BY <1>2, <1>3

-----------------------------------------------------------------------------
(* What the steps on one channel do.                                       *)

\* A message added to a queue: nothing else is new in it.
LEMMA EnqueueStep ==
  ASSUME Shapes, Fits, NEW d \in Device, NEW p \in Device, NEW m \in Messages,
         Enqueue(d, p, m)
  PROVE  /\ queue' \in [Device -> [Device -> Seq(Items)]]
         /\ \A x, y \in Device : Len(queue'[x][y]) <= MaxQueued
         /\ \A x, y \in Device : <<x, y>> # <<d, p>> => queue'[x][y] = queue[x][y]
         /\ \A S : (queue[d][p] \in Seq(S) /\ [message |-> m, waits |-> FALSE] \in S)
                     => queue'[d][p] \in Seq(S)
<1> DEFINE item == [message |-> m, waits |-> FALSE]
           room == Room(d, p)
           longer == Append(room, item)
<1>1. /\ queue \in [Device -> [Device -> Seq(Items)]] /\ queue[d][p] \in Seq(Items)
      /\ \A x, y \in Device : Len(queue[x][y]) <= MaxQueued
  BY DEF Shapes, Fits
<1>2. item \in Items
  BY DEF Items
<1>3. /\ queue' = [queue EXCEPT ![d][p] = longer]
      /\ Len(room) < MaxQueued
  BY DEF Enqueue
<1>4. \A S : queue[d][p] \in Seq(S) => room \in Seq(S)
  BY RoomKeeps
<1> HIDE DEF room, item
<1>5. \A S : (queue[d][p] \in Seq(S) /\ item \in S) => longer \in Seq(S)
  BY <1>4, AppendProperties
<1>6. Len(longer) <= MaxQueued
  <2>1. room \in Seq(Items)
    BY <1>1, <1>4
  <2>2. Len(longer) = Len(room) + 1 /\ Len(room) \in Nat
    BY <1>2, <2>1, AppendProperties, LenProperties
  <2> QED BY <1>3, <2>2, DeliveryAssumption
<1>7. longer \in Seq(Items)
  BY <1>1, <1>2, <1>5
<1> HIDE DEF longer
<1>8. /\ queue' \in [Device -> [Device -> Seq(Items)]]
      /\ queue'[d][p] = longer
      /\ \A x, y \in Device : <<x, y>> # <<d, p>> => queue'[x][y] = queue[x][y]
  BY <1>1, <1>3, <1>7, OneChannel
<1>9. \A x, y \in Device : Len(queue'[x][y]) <= MaxQueued
  BY <1>1, <1>6, <1>8
<1>10. \A S : (queue[d][p] \in Seq(S) /\ [message |-> m, waits |-> FALSE] \in S)
                     => queue'[d][p] \in Seq(S)
  BY <1>5, <1>8 DEF item
<1> QED
  BY <1>8, <1>9, <1>10

LEMMA Marked ==
  \A x \in Items, w \in BOOLEAN :
    [x EXCEPT !.waits = w] = [message |-> x.message, waits |-> w]
BY DEF Items

\* What an entry that waits, or leaves, makes of a queue.
LEMMA QueueStep ==
  ASSUME Shapes, Fits, NEW d \in Device, NEW p \in Device, NEW i \in DOMAIN queue[d][p],
         \/ queue' = [queue EXCEPT ![d][p] = RemoveAt(@, i)]
         \/ queue' = [queue EXCEPT ![d][p][i].waits = TRUE]
  PROVE  /\ queue' \in [Device -> [Device -> Seq(Items)]]
         /\ \A x, y \in Device : Len(queue'[x][y]) <= MaxQueued
         /\ \A x, y \in Device : <<x, y>> # <<d, p>> => queue'[x][y] = queue[x][y]
         /\ \A S : (queue[d][p] \in Seq(S) /\ [message |-> queue[d][p][i].message, waits |-> TRUE] \in S)
                     => queue'[d][p] \in Seq(S)
<1> DEFINE q == queue[d][p]
           item == [message |-> q[i].message, waits |-> TRUE]
           fewer == RemoveAt(q, i)
           marked == [q EXCEPT ![i] = item]
<1>1. /\ queue \in [Device -> [Device -> Seq(Items)]] /\ q \in Seq(Items)
      /\ \A x, y \in Device : Len(queue[x][y]) <= MaxQueued
  BY DEF Shapes, Fits
<1>2. /\ Len(q) \in Nat /\ DOMAIN q = 1..Len(q) /\ i \in 1..Len(q)
      /\ Len(q) <= MaxQueued
  BY <1>1, LenProperties
<1>3. q[i] \in Items
  BY <1>1, <1>2, ElementOfSeq
<1>4. item \in Items
  BY <1>3 DEF Items
<1>5. queue' = [queue EXCEPT ![d][p] = fewer] \/ queue' = [queue EXCEPT ![d][p] = marked]
  <2>1. [q[i] EXCEPT !.waits = TRUE] = item
    <3> HIDE DEF q
    <3>1. [q[i] EXCEPT !.waits = TRUE] = [message |-> q[i].message, waits |-> TRUE]
      BY <1>3, Marked, Zenon
    <3> QED
      BY <3>1
  <2>4. [queue EXCEPT ![d][p][i].waits = TRUE]
          = [queue EXCEPT ![d][p] = [q EXCEPT ![i] = [q[i] EXCEPT !.waits = TRUE]]]
    OBVIOUS
  <2> QED
    BY <2>1, <2>4
<1>6. PICK new : /\ new \in {fewer, marked}
                 /\ queue' = [queue EXCEPT ![d][p] = new]
  BY <1>5
<1> HIDE DEF item, q
<1>7. \A S : (q \in Seq(S) /\ item \in S) => (fewer \in Seq(S) /\ Len(fewer) = Len(q) - 1)
  BY <1>2, RemoveKeeps
<1>8. \A S : (q \in Seq(S) /\ item \in S) => (marked \in Seq(S) /\ Len(marked) = Len(q))
  BY <1>2, ExceptSeq
<1>9. \A S : (q \in Seq(S) /\ item \in S) => (new \in Seq(S) /\ Len(new) <= MaxQueued)
  <2> HIDE DEF fewer, marked
  <2>1. MaxQueued \in Nat
    BY DeliveryAssumption
  <2>2. QED
    <3> SUFFICES ASSUME NEW S, q \in Seq(S), item \in S
                 PROVE  new \in Seq(S) /\ Len(new) <= MaxQueued
      OBVIOUS
    <3>1. new = fewer \/ new = marked
      BY <1>6
    <3>2. /\ fewer \in Seq(S) /\ Len(fewer) = Len(q) - 1
          /\ marked \in Seq(S) /\ Len(marked) = Len(q)
      BY <1>7, <1>8
    <3> HIDE DEF q
    <3>3. /\ Len(fewer) <= MaxQueued /\ Len(marked) <= MaxQueued
      BY <1>2, <2>1, <3>2
    <3> QED
      BY <3>1, <3>2, <3>3
<1>10. new \in Seq(Items) /\ Len(new) <= MaxQueued
  BY <1>1, <1>4, <1>9
<1>11. /\ queue' \in [Device -> [Device -> Seq(Items)]]
       /\ queue'[d][p] = new
       /\ \A x, y \in Device : <<x, y>> # <<d, p>> => queue'[x][y] = queue[x][y]
  BY <1>1, <1>6, <1>10, OneChannel
<1>12. \A x, y \in Device : Len(queue'[x][y]) <= MaxQueued
  BY <1>1, <1>10, <1>11
<1>13. \A S : (queue[d][p] \in Seq(S) /\ [message |-> queue[d][p][i].message, waits |-> TRUE] \in S)
                     => queue'[d][p] \in Seq(S)
  BY <1>9, <1>11 DEF item, q
<1> QED
  BY <1>11, <1>12, <1>13

\* A letter posted: nothing else is new on the channel.
LEMMA PostedStep ==
  ASSUME Shapes, Fits, NEW d \in Device, NEW p \in Device, NEW e \in Letters,
         Len(wire[d][p]) < MaxUnder, Posted(d, p, e)
  PROVE  /\ wire' \in [Device -> [Device -> Seq(Letters)]]
         /\ \A x, y \in Device : Len(wire'[x][y]) <= MaxUnder
         /\ \A x, y \in Device : <<x, y>> # <<d, p>> => wire'[x][y] = wire[x][y]
         /\ \A S : (wire[d][p] \in Seq(S) /\ e \in S) => wire'[d][p] \in Seq(S)
<1> DEFINE w == wire[d][p]
           longer == Append(w, e)
<1>1. /\ wire \in [Device -> [Device -> Seq(Letters)]] /\ w \in Seq(Letters)
      /\ \A x, y \in Device : Len(wire[x][y]) <= MaxUnder
  BY DEF Shapes, Fits
<1>2. wire' = [wire EXCEPT ![d][p] = longer]
  BY DEF Posted
<1> HIDE DEF w
<1>3. \A S : (w \in Seq(S) /\ e \in S) => (longer \in Seq(S) /\ Len(longer) = Len(w) + 1)
  BY AppendProperties
<1>4. /\ longer \in Seq(Letters)
      /\ Len(longer) <= MaxUnder
  <2>1. Len(w) < MaxUnder
    BY DEF w
  <2>2. Len(w) \in Nat
    BY <1>1, LenProperties
  <2> QED
    BY <1>1, <1>3, <2>1, <2>2, DeliveryAssumption
<1> HIDE DEF longer
<1>5. /\ wire' \in [Device -> [Device -> Seq(Letters)]]
      /\ wire'[d][p] = longer
      /\ \A x, y \in Device : <<x, y>> # <<d, p>> => wire'[x][y] = wire[x][y]
  BY <1>1, <1>2, <1>4, OneChannel
<1>6. \A x, y \in Device : Len(wire'[x][y]) <= MaxUnder
  BY <1>1, <1>4, <1>5
<1>7. \A S : (wire[d][p] \in Seq(S) /\ e \in S) => wire'[d][p] \in Seq(S)
  BY <1>3, <1>5 DEF w
<1> QED
  BY <1>5, <1>6, <1>7

\* The first letter taken off a channel was on it, and the others stay.
LEMMA ReadStep ==
  ASSUME Shapes, Fits, NEW d \in Device, NEW p \in Device, wire[p][d] # <<>>,
         wire' = [wire EXCEPT ![p][d] = Tail(@)]
  PROVE  /\ wire' \in [Device -> [Device -> Seq(Letters)]]
         /\ \A x, y \in Device : Len(wire'[x][y]) <= MaxUnder
         /\ \A x, y \in Device : <<x, y>> # <<p, d>> => wire'[x][y] = wire[x][y]
         /\ \A S : wire[p][d] \in Seq(S) => (wire'[p][d] \in Seq(S) /\ Head(wire[p][d]) \in S)
<1> DEFINE w == wire[p][d]
           rest == Tail(w)
<1>1. /\ wire \in [Device -> [Device -> Seq(Letters)]] /\ w \in Seq(Letters)
      /\ \A x, y \in Device : Len(wire[x][y]) <= MaxUnder
      /\ Len(w) <= MaxUnder
  BY DEF Shapes, Fits
<1>2. wire' = [wire EXCEPT ![p][d] = rest]
  OBVIOUS
<1>3. w # <<>>
  OBVIOUS
<1> HIDE DEF w
<1>4. \A S : w \in Seq(S) => (rest \in Seq(S) /\ Len(rest) = Len(w) - 1 /\ Head(w) \in S)
  BY <1>3, HeadTailProperties
<1>5. /\ rest \in Seq(Letters)
      /\ Len(rest) <= MaxUnder
  <2>1. Len(w) \in Nat /\ MaxUnder \in Nat
    BY <1>1, LenProperties, DeliveryAssumption
  <2> QED
    BY <1>1, <1>4, <2>1
<1> HIDE DEF rest
<1>6. /\ wire' \in [Device -> [Device -> Seq(Letters)]]
      /\ wire'[p][d] = rest
      /\ \A x, y \in Device : <<x, y>> # <<p, d>> => wire'[x][y] = wire[x][y]
  BY <1>1, <1>2, <1>5, OneChannel
<1>7. \A x, y \in Device : Len(wire'[x][y]) <= MaxUnder
  BY <1>1, <1>5, <1>6
<1>8. \A S : wire[p][d] \in Seq(S) => (wire'[p][d] \in Seq(S) /\ Head(wire[p][d]) \in S)
  BY <1>4, <1>6 DEF w
<1> QED
  BY <1>6, <1>7, <1>8

-----------------------------------------------------------------------------
(* Every step keeps the state in shape.  The parts of it that have types of *)
(* their own are told apart: consent, the channels, and the screen.        *)
ConsentShapes ==
  /\ issued \in [Device -> SUBSET (Features \X Device)]
  /\ advertised \in [Device -> SUBSET (Features \X Device)]
  /\ ledger \in [Device -> SUBSET Entries]
  /\ ever \subseteq Wishes

\* What the log is told of a change is an entry of it.
LEMMA ToldShape ==
  ASSUME ledger \in [Device -> SUBSET Entries], NEW d \in Device, NEW p \in Device,
         NEW change \in {"issued", "advertised"}, NEW feature \in Features,
         NEW granted \in BOOLEAN, Told(d, change, feature, p, granted)
  PROVE  ledger' \in [Device -> SUBSET Entries]
<1> DEFINE entry == [change |-> change, feature |-> feature, peer |-> p, granted |-> granted]
           kept == {e \in ledger[d] : <<e.change, e.feature, e.peer>> # <<change, feature, p>>}
<1>1. entry \in Entries
  BY DEF Entries
<1>2. kept \cup {entry} \in SUBSET Entries
  BY <1>1
<1>3. ledger' = [ledger EXCEPT ![d] = kept \cup {entry}]
  BY DEF Told
<1> HIDE DEF kept, entry
<1> QED
  BY <1>2, <1>3

-----------------------------------------------------------------------------
(* The invariant.                                                          *)

\* Whoever sends m to p was allowed to.
Granted(d, p, m) ==
  /\ m.type = "location" => <<d, "location", p>> \in ever
  /\ (m.type = "attention" /\ p \in Honest) => <<p, "attention", d>> \in ever
  /\ (m.type = "consent_update" /\ m.granted) => <<d, m.feature, p>> \in ever

GrantedItems(d, p) == {x \in Items : Granted(d, p, x.message)}
GrantedLetters(d, p) == {e \in Letters : e.sender = d /\ Granted(d, p, e.message)}

\* A device has issued what its person granted, and what it was told of was granted.
ConsentTrue ==
  \A d, p \in Device, f \in Features :
    /\ <<f, p>> \in issued[d] => <<d, f, p>> \in ever
    /\ (p \in Honest /\ <<f, p>> \in advertised[d]) => <<p, f, d>> \in ever

ChannelsTrue ==
  \A d \in Honest, p \in Device : /\ queue[d][p] \in Seq(GrantedItems(d, p))
                                  /\ wire[d][p] \in Seq(GrantedLetters(d, p))

\* The log's last entry about a grant says that it holds.
Tells(d, change, f, p) ==
  \E e \in ledger[d] : <<e.change, e.feature, e.peer>> = <<change, f, p>> /\ e.granted

LedgerTrue ==
  \A d, p \in Device, f \in Features :
    /\ <<f, p>> \in issued[d] <=> Tells(d, "issued", f, p)
    /\ <<f, p>> \in advertised[d] <=> Tells(d, "advertised", f, p)

IInv == Shapes /\ Fits /\ ConsentTrue /\ ChannelsTrue /\ OnlyWhatWasGranted /\ LedgerTrue

\* What was granted stays so, and with it the channels that do not change.
LEMMA StillGranted ==
  ASSUME ever \subseteq ever', NEW d, NEW p
  PROVE  /\ GrantedItems(d, p) \subseteq GrantedItems(d, p)'
         /\ GrantedLetters(d, p) \subseteq GrantedLetters(d, p)'
<1>1. \A m : Granted(d, p, m) => Granted(d, p, m)'
  BY DEF Granted
<1> QED
  BY <1>1 DEF GrantedItems, GrantedLetters

LEMMA ChannelsStill ==
  ASSUME ChannelsTrue, ever \subseteq ever'
  PROVE  \A d \in Honest, p \in Device :
           /\ queue'[d][p] = queue[d][p] => queue'[d][p] \in Seq(GrantedItems(d, p)')
           /\ wire'[d][p] = wire[d][p] => wire'[d][p] \in Seq(GrantedLetters(d, p)')
<1> SUFFICES ASSUME NEW d \in Honest, NEW p \in Device
             PROVE  /\ queue'[d][p] = queue[d][p] => queue'[d][p] \in Seq(GrantedItems(d, p)')
                    /\ wire'[d][p] = wire[d][p] => wire'[d][p] \in Seq(GrantedLetters(d, p)')
  OBVIOUS
<1>1. queue[d][p] \in Seq(GrantedItems(d, p)) /\ wire[d][p] \in Seq(GrantedLetters(d, p))
  BY DEF ChannelsTrue
<1>2. queue[d][p] \in Seq(GrantedItems(d, p)')
  BY <1>1, StillGranted, SeqMonotonic
<1>3. wire[d][p] \in Seq(GrantedLetters(d, p)')
  BY <1>1, StillGranted, SeqMonotonic
<1> QED
  BY <1>2, <1>3

\* An entry in the log is about its own change and no other.
LEMMA ToldStep ==
  ASSUME ledger \in [Device -> SUBSET Entries], NEW d \in Device, NEW p \in Device,
         NEW change, NEW feature, NEW granted \in BOOLEAN,
         Told(d, change, feature, p, granted)
  PROVE  \A x, q, c, f : x \in Device =>
           (Tells(x, c, f, q)' <=> IF <<x, c, f, q>> = <<d, change, feature, p>> THEN granted
                                   ELSE Tells(x, c, f, q))
<1> DEFINE entry == [change |-> change, feature |-> feature, peer |-> p, granted |-> granted]
           kept == {e \in ledger[d] : <<e.change, e.feature, e.peer>> # <<change, feature, p>>}
<1>1. ledger' = [ledger EXCEPT ![d] = kept \cup {entry}]
  BY DEF Told
<1>2. /\ ledger'[d] = kept \cup {entry}
      /\ \A x \in Device : x # d => ledger'[x] = ledger[x]
  <2> HIDE DEF kept, entry
  <2> QED BY <1>1
<1>3. /\ entry.change = change /\ entry.feature = feature /\ entry.peer = p
      /\ entry.granted <=> granted
  OBVIOUS
<1> SUFFICES ASSUME NEW x \in Device, NEW q, NEW c, NEW f
             PROVE  Tells(x, c, f, q)' <=> IF <<x, c, f, q>> = <<d, change, feature, p>>
                                           THEN granted ELSE Tells(x, c, f, q)
  OBVIOUS
<1> HIDE DEF entry
<1>4. CASE x # d
  BY <1>2, <1>4 DEF Tells
<1>5. CASE x = d /\ <<c, f, q>> = <<change, feature, p>>
  <2>1. Tells(x, c, f, q)' <=> entry.granted
    BY <1>2, <1>3, <1>5 DEF Tells
  <2> QED BY <1>3, <1>5, <2>1
<1>6. CASE x = d /\ <<c, f, q>> # <<change, feature, p>>
  <2>1. Tells(x, c, f, q)' <=> Tells(x, c, f, q)
    BY <1>2, <1>3, <1>6 DEF Tells
  <2> QED BY <1>6, <2>1
<1> QED
  BY <1>4, <1>5, <1>6

-----------------------------------------------------------------------------
(* The steps.                                                              *)
LEMMA InitHolds == Init => IInv
<1> SUFFICES ASSUME Init PROVE IInv
  OBVIOUS
<1>1. \A S : <<>> \in Seq(S)
  OBVIOUS
<1>2. queue = [d \in Device |-> [p \in Device |-> <<>>]] /\ wire = queue
  BY DEF Init
<1>3. \A d, p \in Device : queue[d][p] = <<>> /\ wire[d][p] = <<>>
  BY <1>2
<1>4. Shapes
  <2>1. screen \in [Device -> Views]
    BY DEF Init, Views, Nothing
  <2>2. queue \in [Device -> [Device -> Seq(Items)]] /\ wire \in [Device -> [Device -> Seq(Letters)]]
    BY <1>1, <1>2
  <2> QED
    BY <2>1, <2>2, DeliveryAssumption DEF Init, Shapes
<1>5. Fits
  BY <1>3, DeliveryAssumption DEF Fits
<1>6. ConsentTrue /\ LedgerTrue
  BY DEF Init, ConsentTrue, LedgerTrue, Tells
<1>7. ChannelsTrue
  BY <1>1, <1>3 DEF ChannelsTrue, Honest
<1>8. OnlyWhatWasGranted
  BY DEF Init, OnlyWhatWasGranted, Nothing, Honest
<1> QED
  BY <1>4, <1>5, <1>6, <1>7, <1>8 DEF IInv

\* A message made is one that may be sent when it is made.
LEMMA EmitKeeps ==
  ASSUME IInv, NEW t \in Traffic, Emit(t[1], [type |-> t[2]], t[3])
  PROVE  IInv'
<1> DEFINE d == t[1]
           p == t[3]
           m == [type |-> t[2]]
<1>1. /\ d \in Device /\ p \in Device /\ t[2] \in Plain
      /\ m \in Messages
  BY DeliveryAssumption DEF Plain, Messages
<1>2. Shapes /\ Fits /\ ConsentTrue /\ ChannelsTrue /\ OnlyWhatWasGranted /\ LedgerTrue
  BY DEF IInv
<1>3. /\ MaySend(d, m, p)
      /\ Enqueue(d, p, m)
      /\ UNCHANGED <<issued, advertised, ledger, wire, screen, ever, overtaken, troubles>>
  BY DEF Emit, consent, history
<1>4. d \in Honest => Granted(d, p, m)
  BY <1>1, <1>2, <1>3 DEF MaySend, Granted, ConsentTrue, Plain, Features, Honest
<1>5. [message |-> m, waits |-> FALSE] \in Items
  BY <1>1 DEF Items
<1> HIDE DEF d, p, m
<1>6. /\ queue' \in [Device -> [Device -> Seq(Items)]]
      /\ \A x, y \in Device : Len(queue'[x][y]) <= MaxQueued
      /\ \A x, y \in Device : <<x, y>> # <<d, p>> => queue'[x][y] = queue[x][y]
      /\ \A S : (queue[d][p] \in Seq(S) /\ [message |-> m, waits |-> FALSE] \in S)
                  => queue'[d][p] \in Seq(S)
  BY <1>1, <1>2, <1>3, EnqueueStep
<1>7. Shapes' /\ Fits'
  BY <1>2, <1>3, <1>6 DEF Shapes, Fits
<1>8. ConsentTrue' /\ OnlyWhatWasGranted' /\ LedgerTrue'
  BY <1>2, <1>3 DEF ConsentTrue, OnlyWhatWasGranted, LedgerTrue, Tells
<1>9. ChannelsTrue'
  <2>1. d \in Honest => [message |-> m, waits |-> FALSE] \in GrantedItems(d, p)
    BY <1>4, <1>5 DEF GrantedItems
  <2>2. d \in Honest => queue'[d][p] \in Seq(GrantedItems(d, p))
    BY <1>1, <1>2, <1>6, <2>1 DEF ChannelsTrue
  <2>3. /\ \A x, y : GrantedItems(x, y)' = GrantedItems(x, y)
        /\ \A x, y : GrantedLetters(x, y)' = GrantedLetters(x, y)
    BY <1>3 DEF GrantedItems, GrantedLetters, Granted
  <2>4. Honest \subseteq Device
    BY DEF Honest
  <2>5. ASSUME NEW x \in Honest, NEW y \in Device
        PROVE  queue'[x][y] \in Seq(GrantedItems(x, y)')
    <3>1. CASE <<x, y>> = <<d, p>>
      BY <2>2, <2>3, <3>1
    <3>2. CASE <<x, y>> # <<d, p>>
      BY <1>2, <1>6, <2>3, <2>4, <3>2 DEF ChannelsTrue
    <3> QED BY <3>1, <3>2
  <2> QED
    BY <1>2, <1>3, <2>3, <2>5 DEF ChannelsTrue
<1> QED
  BY <1>7, <1>8, <1>9 DEF IInv

\* A person grants or revokes: the update says what the person has just said.
LEMMA ChangeKeeps ==
  ASSUME IInv, NEW w \in Wishes, NEW granted \in BOOLEAN,
         Change(w[1], w[2], w[3], granted)
  PROVE  IInv'
<1> DEFINE d == w[1]
           f == w[2]
           p == w[3]
           m == [type |-> "consent_update", feature |-> f, granted |-> granted]
           now == IF granted THEN issued[d] \cup {<<f, p>>} ELSE issued[d] \ {<<f, p>>}
<1>1. /\ d \in Device /\ p \in Device /\ f \in Features
      /\ <<d, f, p>> \in Wishes
  BY DeliveryAssumption DEF Features
<1>2. m \in Messages
  BY <1>1 DEF Messages, Features
<1>3. Shapes /\ Fits /\ ConsentTrue /\ ChannelsTrue /\ OnlyWhatWasGranted /\ LedgerTrue
  BY DEF IInv
<1>4. /\ issued' = [issued EXCEPT ![d] = now]
      /\ Told(d, "issued", f, p, granted)
      /\ Enqueue(d, p, m)
      /\ ever' = ever \cup (IF granted THEN {<<d, f, p>>} ELSE {})
      /\ UNCHANGED <<advertised, wire, screen, overtaken, troubles>>
  BY DEF Change, Issued
<1>5. ever \subseteq ever' /\ (granted => <<d, f, p>> \in ever')
  BY <1>4
<1>6. Granted(d, p, m)'
  BY <1>5 DEF Granted
<1>7. [message |-> m, waits |-> FALSE] \in Items
  BY <1>2 DEF Items
<1>8. /\ issued'[d] = now
      /\ \A x \in Device : x # d => issued'[x] = issued[x]
      /\ issued' \in [Device -> SUBSET (Features \X Device)]
  <2>1. now \in SUBSET (Features \X Device)
    BY <1>1, <1>3 DEF Shapes
  <2> HIDE DEF now
  <2> QED
    BY <1>1, <1>3, <1>4, <2>1 DEF Shapes
<1>9. [message |-> m, waits |-> FALSE] \in GrantedItems(d, p)'
  BY <1>6, <1>7 DEF GrantedItems
<1> HIDE DEF d, f, p, m
<1>10. /\ queue' \in [Device -> [Device -> Seq(Items)]]
       /\ \A x, y \in Device : Len(queue'[x][y]) <= MaxQueued
       /\ \A x, y \in Device : <<x, y>> # <<d, p>> => queue'[x][y] = queue[x][y]
       /\ \A S : (queue[d][p] \in Seq(S) /\ [message |-> m, waits |-> FALSE] \in S)
                   => queue'[d][p] \in Seq(S)
  BY <1>1, <1>2, <1>3, <1>4, EnqueueStep
<1>11. Shapes' /\ Fits'
  <2>1. ledger' \in [Device -> SUBSET Entries]
    BY <1>1, <1>3, <1>4, ToldShape DEF Shapes
  <2>2. ever' \subseteq Wishes
    <3>1. ever \subseteq Wishes
      BY <1>3 DEF Shapes
    <3> QED BY <1>1, <1>4, <3>1
  <2> HIDE DEF now
  <2>3. Shapes'
    BY <1>3, <1>4, <1>8, <1>10, <2>1, <2>2 DEF Shapes
  <2>4. Fits'
    BY <1>3, <1>4, <1>10 DEF Fits
  <2> QED
    BY <2>3, <2>4
<1>12. ConsentTrue'
  <2> SUFFICES ASSUME NEW x \in Device, NEW q \in Device, NEW g \in Features
               PROVE  /\ <<g, q>> \in issued'[x] => <<x, g, q>> \in ever'
                      /\ (q \in Honest /\ <<g, q>> \in advertised'[x]) => <<q, g, x>> \in ever'
    BY DEF ConsentTrue, Honest
  <2>1. /\ <<g, q>> \in issued[x] => <<x, g, q>> \in ever
        /\ (q \in Honest /\ <<g, q>> \in advertised[x]) => <<q, g, x>> \in ever
    BY <1>3 DEF ConsentTrue
  <2>2. <<g, q>> \in issued'[x] => <<g, q>> \in issued[x] \/ (x = d /\ granted /\ <<g, q>> = <<f, p>>)
    BY <1>8
  <2> QED
    BY <1>4, <1>5, <2>1, <2>2
<1>13. LedgerTrue'
  <2> SUFFICES ASSUME NEW x \in Device, NEW q \in Device, NEW g \in Features
               PROVE  /\ <<g, q>> \in issued'[x] <=> Tells(x, "issued", g, q)'
                      /\ <<g, q>> \in advertised'[x] <=> Tells(x, "advertised", g, q)'
    BY DEF LedgerTrue
  <2>1. /\ <<g, q>> \in issued[x] <=> Tells(x, "issued", g, q)
        /\ <<g, q>> \in advertised[x] <=> Tells(x, "advertised", g, q)
    BY <1>3 DEF LedgerTrue
  <2>2. \A c : Tells(x, c, g, q)' <=> IF <<x, c, g, q>> = <<d, "issued", f, p>> THEN granted
                                      ELSE Tells(x, c, g, q)
    <3>1. ledger \in [Device -> SUBSET Entries]
      BY <1>3 DEF Shapes
    <3>2. Told(d, "issued", f, p, granted)
      BY <1>4
    <3> HIDE DEF now
    <3>3. \A y, r, c, h : y \in Device =>
           (Tells(y, c, h, r)' <=> IF <<y, c, h, r>> = <<d, "issued", f, p>> THEN granted
                                   ELSE Tells(y, c, h, r))
      BY <1>1, <3>1, <3>2, ToldStep
    <3> QED
      BY <3>3, Zenon
  <2>3. <<g, q>> \in advertised'[x] <=> Tells(x, "advertised", g, q)'
    BY <1>4, <2>1, <2>2
  <2>4. <<g, q>> \in issued'[x] <=> IF <<x, g, q>> = <<d, f, p>> THEN granted
                                    ELSE <<g, q>> \in issued[x]
    BY <1>8
  <2>5. <<g, q>> \in issued'[x] <=> Tells(x, "issued", g, q)'
    BY <2>1, <2>2, <2>4
  <2> QED
    BY <2>3, <2>5
<1>14. ChannelsTrue'
  <2>1. d \in Honest => queue'[d][p] \in Seq(GrantedItems(d, p)')
    <3> SUFFICES ASSUME d \in Honest PROVE queue'[d][p] \in Seq(GrantedItems(d, p)')
      OBVIOUS
    <3>1. queue[d][p] \in Seq(GrantedItems(d, p))
      BY <1>1, <1>3 DEF ChannelsTrue
    <3>2. queue[d][p] \in Seq(GrantedItems(d, p)')
      BY <1>5, <3>1, StillGranted, SeqMonotonic
    <3> QED
      BY <1>9, <1>10, <3>2
  <2>2. /\ \A x \in Honest, y \in Device :
             /\ queue'[x][y] = queue[x][y] => queue'[x][y] \in Seq(GrantedItems(x, y)')
             /\ wire'[x][y] = wire[x][y] => wire'[x][y] \in Seq(GrantedLetters(x, y)')
    BY <1>3, <1>5, ChannelsStill
  <2>3. Honest \subseteq Device
    BY DEF Honest
  <2>4. ASSUME NEW x \in Honest, NEW y \in Device
        PROVE  queue'[x][y] \in Seq(GrantedItems(x, y)')
    <3>1. CASE <<x, y>> = <<d, p>>
      BY <2>1, <3>1
    <3>2. CASE <<x, y>> # <<d, p>>
      BY <1>10, <2>2, <2>3, <3>2
    <3> QED BY <3>1, <3>2
  <2> QED
    BY <1>4, <2>2, <2>4 DEF ChannelsTrue
<1>15. OnlyWhatWasGranted'
  BY <1>3, <1>4, <1>5 DEF OnlyWhatWasGranted, Honest
<1> QED
  BY <1>11, <1>12, <1>13, <1>14, <1>15 DEF IInv

\* What is done with an entry of an honest device's queue leaves the queue in shape and
\* with nothing in it but what was granted.
LEMMA EntryStep ==
  ASSUME IInv, NEW d \in Honest, NEW p \in Device, NEW i \in DOMAIN queue[d][p],
         \/ queue' = [queue EXCEPT ![d][p] = RemoveAt(@, i)]
         \/ queue' = [queue EXCEPT ![d][p][i].waits = TRUE],
         ever' = ever
  PROVE  /\ queue' \in [Device -> [Device -> Seq(Items)]]
         /\ \A x, y \in Device : Len(queue'[x][y]) <= MaxQueued
         /\ \A x \in Honest, y \in Device : queue'[x][y] \in Seq(GrantedItems(x, y)')
         /\ queue[d][p][i].message \in Messages
         /\ Granted(d, p, queue[d][p][i].message)
<1> DEFINE item == [message |-> queue[d][p][i].message, waits |-> TRUE]
<1>1. Shapes /\ Fits /\ ChannelsTrue /\ d \in Device /\ Honest \subseteq Device
  BY DEF IInv, Honest
<1>2. queue[d][p] \in Seq(GrantedItems(d, p))
  BY <1>1 DEF ChannelsTrue
<1>3. queue[d][p][i] \in GrantedItems(d, p)
  BY <1>2, ElementOfSeq, LenProperties
<1>4. /\ queue[d][p][i] \in Items
      /\ queue[d][p][i].message \in Messages
      /\ Granted(d, p, queue[d][p][i].message)
  BY <1>3 DEF GrantedItems, Items
<1>5. item \in Items
  BY <1>4 DEF Items
<1>6. item \in GrantedItems(d, p)
  BY <1>4, <1>5 DEF GrantedItems
<1>7. \A x, y : GrantedItems(x, y)' = GrantedItems(x, y)
  BY DEF GrantedItems, Granted
<1>8. /\ queue' \in [Device -> [Device -> Seq(Items)]]
      /\ \A x, y \in Device : Len(queue'[x][y]) <= MaxQueued
      /\ \A x, y \in Device : <<x, y>> # <<d, p>> => queue'[x][y] = queue[x][y]
      /\ \A S : (queue[d][p] \in Seq(S) /\ [message |-> queue[d][p][i].message, waits |-> TRUE] \in S)
                     => queue'[d][p] \in Seq(S)
  BY <1>1, QueueStep
<1>9. queue'[d][p] \in Seq(GrantedItems(d, p))
  BY <1>2, <1>6, <1>8
<1>10. ASSUME NEW x \in Honest, NEW y \in Device
       PROVE  queue'[x][y] \in Seq(GrantedItems(x, y)')
  <2>1. CASE <<x, y>> = <<d, p>>
    BY <1>7, <1>9, <2>1
  <2>2. CASE <<x, y>> # <<d, p>>
    BY <1>1, <1>7, <1>8, <2>2 DEF ChannelsTrue
  <2> QED BY <2>1, <2>2
<1> QED
  BY <1>4, <1>8, <1>10

\* A send that fails, and an entry that expires.
LEMMA WaitKeeps ==
  ASSUME IInv, NEW d \in Honest, NEW p \in Honest, NEW i \in 1..MaxQueued,
         SendFails(d, p, i) \/ Expire(d, p, i)
  PROVE  IInv'
<1>1. /\ i \in DOMAIN queue[d][p]
      /\ \/ queue' = [queue EXCEPT ![d][p] = RemoveAt(@, i)]
         \/ queue' = [queue EXCEPT ![d][p][i].waits = TRUE]
      /\ troubles' = troubles \/ (troubles < MaxTroubles /\ troubles' = troubles + 1)
      /\ UNCHANGED <<issued, advertised, ledger, wire, screen, ever, overtaken>>
  BY DEF SendFails, Expire, Offered, Trouble, consent, history
<1>2. Shapes /\ Fits /\ ConsentTrue /\ ChannelsTrue /\ OnlyWhatWasGranted /\ LedgerTrue
  BY DEF IInv
<1>3. /\ queue' \in [Device -> [Device -> Seq(Items)]]
      /\ \A x, y \in Device : Len(queue'[x][y]) <= MaxQueued
      /\ \A x \in Honest, y \in Device : queue'[x][y] \in Seq(GrantedItems(x, y)')
  BY <1>1, EntryStep DEF Honest
<1>4. Shapes' /\ Fits'
  <2>1. troubles' \in 0..MaxTroubles
    BY <1>1, <1>2, DeliveryAssumption DEF Shapes
  <2>2. UNCHANGED <<issued, advertised, ledger, wire, screen, ever, overtaken>>
    BY <1>1
  <2> QED
    BY <1>2, <1>3, <2>1, <2>2 DEF Shapes, Fits
<1>5. ConsentTrue' /\ OnlyWhatWasGranted' /\ LedgerTrue'
  BY <1>1, <1>2 DEF ConsentTrue, OnlyWhatWasGranted, LedgerTrue, Tells
<1>6. ChannelsTrue'
  <2>1. \A x, y : GrantedLetters(x, y)' = GrantedLetters(x, y)
    BY <1>1 DEF GrantedLetters, Granted
  <2> QED
    BY <1>1, <1>2, <1>3, <2>1 DEF ChannelsTrue
<1> QED
  BY <1>4, <1>5, <1>6 DEF IInv

\* A send, whose answer may be lost: what is posted was in the queue.
LEMMA SendKeeps ==
  ASSUME IInv, NEW d \in Honest, NEW p \in Honest, NEW i \in 1..MaxQueued,
         Send(d, p, i)
  PROVE  IInv'
<1> DEFINE e == Envelope(d, queue[d][p][i].message)
<1>1. /\ i \in DOMAIN queue[d][p]
      /\ Len(wire[d][p]) < MaxUnder
      /\ Posted(d, p, e)
      /\ \/ queue' = [queue EXCEPT ![d][p] = RemoveAt(@, i)]
         \/ queue' = [queue EXCEPT ![d][p][i].waits = TRUE]
      /\ troubles' = troubles \/ (troubles < MaxTroubles /\ troubles' = troubles + 1)
      /\ overtaken' = overtaken \cup (IF i = 1 THEN {} ELSE {<<d, p>>})
      /\ UNCHANGED <<issued, advertised, ledger, screen, ever>>
  BY DEF Send, Offered, Trouble, consent
<1>2. Shapes /\ Fits /\ ConsentTrue /\ ChannelsTrue /\ OnlyWhatWasGranted /\ LedgerTrue
  BY DEF IInv
<1>3. d \in Device /\ p \in Device /\ Honest \subseteq Device
  BY DEF Honest
<1>4. /\ queue' \in [Device -> [Device -> Seq(Items)]]
      /\ \A x, y \in Device : Len(queue'[x][y]) <= MaxQueued
      /\ \A x \in Honest, y \in Device : queue'[x][y] \in Seq(GrantedItems(x, y)')
      /\ queue[d][p][i].message \in Messages
      /\ Granted(d, p, queue[d][p][i].message)
  BY <1>1, <1>3, EntryStep
<1>5. e \in GrantedLetters(d, p) /\ e \in Letters
  BY <1>3, <1>4 DEF GrantedLetters, Letters, Envelope
<1> HIDE DEF e
<1>6. /\ wire' \in [Device -> [Device -> Seq(Letters)]]
      /\ \A x, y \in Device : Len(wire'[x][y]) <= MaxUnder
      /\ \A x, y \in Device : <<x, y>> # <<d, p>> => wire'[x][y] = wire[x][y]
      /\ \A S : (wire[d][p] \in Seq(S) /\ e \in S) => wire'[d][p] \in Seq(S)
  BY <1>1, <1>2, <1>3, <1>5, PostedStep
<1>7. Shapes' /\ Fits'
  <2>1. troubles' \in 0..MaxTroubles
    BY <1>1, <1>2, DeliveryAssumption DEF Shapes
  <2>2. overtaken' \subseteq Device \X Device
    BY <1>1, <1>2, <1>3 DEF Shapes
  <2>3. UNCHANGED <<issued, advertised, ledger, screen, ever>>
    BY <1>1
  <2> QED
    BY <1>2, <1>4, <1>6, <2>1, <2>2, <2>3 DEF Shapes, Fits
<1>8. ConsentTrue' /\ OnlyWhatWasGranted' /\ LedgerTrue'
  BY <1>1, <1>2 DEF ConsentTrue, OnlyWhatWasGranted, LedgerTrue, Tells
<1>9. ChannelsTrue'
  <2>1. \A x, y : GrantedLetters(x, y)' = GrantedLetters(x, y)
    BY <1>1 DEF GrantedLetters, Granted
  <2>2. wire'[d][p] \in Seq(GrantedLetters(d, p))
    BY <1>2, <1>3, <1>5, <1>6 DEF ChannelsTrue
  <2>3. ASSUME NEW x \in Honest, NEW y \in Device
        PROVE  wire'[x][y] \in Seq(GrantedLetters(x, y)')
    <3>1. CASE <<x, y>> = <<d, p>>
      BY <2>1, <2>2, <3>1
    <3>2. CASE <<x, y>> # <<d, p>>
      BY <1>2, <1>3, <1>6, <2>1, <3>2 DEF ChannelsTrue
    <3> QED BY <3>1, <3>2
  <2> QED
    BY <1>4, <2>3 DEF ChannelsTrue
<1> QED
  BY <1>7, <1>8, <1>9 DEF IInv

LEMMA MadeUpShape == MadeUp \subseteq Letters
<1> SUFFICES ASSUME NEW e \in MadeUp PROVE e \in Letters
  OBVIOUS
<1>1. Honest \subseteq Device /\ Liars \subseteq Device
  BY DeliveryAssumption DEF Honest
<1>2. [type |-> "newer"] \in Messages /\ [type |-> "location"] \in Messages
  BY DEF Messages, Plain
<1>3. \A d \in Device, m \in Messages : Envelope(d, m) \in Letters
  BY DEF Envelope, Letters
<1>4. \A x \in Letters : [x EXCEPT !.sound = FALSE] \in Letters
  BY DEF Letters
<1>5. \/ \E d \in Honest, m \in Messages : e = Envelope(d, m)
      \/ \E d \in Liars : e = Envelope(d, [type |-> "newer"])
      \/ \E d \in Liars : e = [Envelope(d, [type |-> "location"]) EXCEPT !.sound = FALSE]
  BY DEF MadeUp
<1> QED
  BY <1>1, <1>2, <1>3, <1>4, <1>5

\* What a liar makes up is on its own channel.
LEMMA MakeUpKeeps ==
  ASSUME IInv, NEW d \in Liars, NEW p \in Honest, NEW e \in MadeUp, MakeUp(d, p, e)
  PROVE  IInv'
<1>1. /\ Len(wire[d][p]) < MaxUnder
      /\ Posted(d, p, e)
      /\ troubles < MaxTroubles /\ troubles' = troubles + 1
      /\ UNCHANGED <<issued, advertised, ledger, queue, screen, ever, overtaken>>
  BY DEF MakeUp, Trouble, consent, history
<1>2. Shapes /\ Fits /\ ConsentTrue /\ ChannelsTrue /\ OnlyWhatWasGranted /\ LedgerTrue
  BY DEF IInv
<1>3. /\ d \in Device /\ p \in Device /\ d \notin Honest
      /\ Honest \subseteq Device /\ e \in Letters
  BY MadeUpShape, DeliveryAssumption DEF Honest
<1>4. /\ wire' \in [Device -> [Device -> Seq(Letters)]]
      /\ \A x, y \in Device : Len(wire'[x][y]) <= MaxUnder
      /\ \A x, y \in Device : <<x, y>> # <<d, p>> => wire'[x][y] = wire[x][y]
  BY <1>1, <1>2, <1>3, PostedStep
<1>5. troubles' \in 0..MaxTroubles
  BY <1>1, <1>2, DeliveryAssumption DEF Shapes
<1>6. Shapes' /\ Fits'
  BY <1>1, <1>2, <1>4, <1>5 DEF Shapes, Fits
<1>7. ConsentTrue' /\ OnlyWhatWasGranted' /\ LedgerTrue'
  BY <1>1, <1>2 DEF ConsentTrue, OnlyWhatWasGranted, LedgerTrue, Tells
<1>8. ChannelsTrue'
  <2>1. \A x \in Honest, y \in Device : wire'[x][y] = wire[x][y]
    BY <1>3, <1>4
  <2> QED
    BY <1>1, <1>2, <2>1, ChannelsStill DEF ChannelsTrue
<1> QED
  BY <1>6, <1>7, <1>8 DEF IInv

\* A letter read: what it does to the receiver is what its sender was allowed to.
LEMMA ReceiveKeeps ==
  ASSUME IInv, NEW d \in Honest, NEW p \in Device, Receive(p, d)
  PROVE  IInv'
<1> DEFINE e == Head(wire[p][d])
           m == e.message
           taken == Accepted(d, p, e)
           told == taken /\ m.type = "consent_update"
           now == IF m.granted THEN advertised[d] \cup {<<m.feature, p>>}
                  ELSE advertised[d] \ {<<m.feature, p>>}
<1>1. Shapes /\ Fits /\ ConsentTrue /\ ChannelsTrue /\ OnlyWhatWasGranted /\ LedgerTrue
  BY DEF IInv
<1>2. d \in Device /\ Honest \subseteq Device
  BY DEF Honest
<1>3. /\ wire[p][d] # <<>>
      /\ wire' = [wire EXCEPT ![p][d] = Tail(@)]
      /\ UNCHANGED <<issued, queue, ever, overtaken, troubles>>
  BY DEF Receive, history
<1>4. /\ wire' \in [Device -> [Device -> Seq(Letters)]]
      /\ \A x, y \in Device : Len(wire'[x][y]) <= MaxUnder
      /\ \A x, y \in Device : <<x, y>> # <<p, d>> => wire'[x][y] = wire[x][y]
      /\ \A S : wire[p][d] \in Seq(S) => (wire'[p][d] \in Seq(S) /\ Head(wire[p][d]) \in S)
  BY <1>1, <1>2, <1>3, ReadStep
<1>5. /\ e \in Letters
      /\ p \in Honest => e \in GrantedLetters(p, d)
  <2>1. wire[p][d] \in Seq(Letters)
    BY <1>1, <1>2 DEF Shapes
  <2>2. p \in Honest => wire[p][d] \in Seq(GrantedLetters(p, d))
    BY <1>1, <1>2 DEF ChannelsTrue
  <2> QED
    BY <1>4, <2>1, <2>2
<1>6. m \in Messages /\ e.sender \in Device
  BY <1>5 DEF Letters
<1>7. p \in Honest => Granted(p, d, m)
  BY <1>5 DEF GrantedLetters
<1>8. m.type = "consent_update" => m.feature \in Features /\ m.granted \in BOOLEAN
  BY <1>6 DEF Messages, Plain, Features
<1>9. m.type \in Plain \cup {"consent_update", "nothing"}
  BY <1>6 DEF Messages
<1>10. screen' = IF taken THEN [screen EXCEPT ![d] = [type |-> m.type, from |-> p]] ELSE screen
  BY DEF Receive, Accepted, CheckSender
<1>11. /\ told => /\ advertised' = [advertised EXCEPT ![d] = now]
                  /\ Told(d, "advertised", m.feature, p, m.granted)
       /\ ~told => UNCHANGED <<advertised, ledger>>
  BY DEF Receive, Accepted, CheckSender, Advertise
<1>12. told => m.type = "consent_update"
  OBVIOUS
<1> HIDE DEF e, m, taken, told
<1>13. Shapes' /\ Fits'
  <2>1. screen' \in [Device -> Views]
    <3>1. [type |-> m.type, from |-> p] \in Views
      BY <1>9 DEF Views
    <3> QED
      BY <1>1, <1>10, <3>1 DEF Shapes
  <2>2. advertised' \in [Device -> SUBSET (Features \X Device)]
    <3>1. told => now \in SUBSET (Features \X Device)
      BY <1>1, <1>2, <1>8, <1>12 DEF Shapes
    <3> HIDE DEF now
    <3> QED
      BY <1>1, <1>11, <3>1 DEF Shapes
  <2>3. ledger' \in [Device -> SUBSET Entries]
    <3>1. ledger \in [Device -> SUBSET Entries]
      BY <1>1 DEF Shapes
    <3>2. CASE told
      BY <1>2, <1>8, <1>11, <1>12, <3>1, <3>2, ToldShape
    <3>3. CASE ~told
      BY <1>11, <3>1, <3>3
    <3> QED BY <3>2, <3>3
  <2> QED
    BY <1>1, <1>3, <1>4, <2>1, <2>2, <2>3 DEF Shapes, Fits
<1>14. \A x, q \in Device, g \in Features :
         <<g, q>> \in advertised'[x] <=> IF told /\ <<x, g, q>> = <<d, m.feature, p>> THEN m.granted
                                         ELSE <<g, q>> \in advertised[x]
  <2>1. advertised \in [Device -> SUBSET (Features \X Device)]
    BY <1>1 DEF Shapes
  <2>2. CASE told
    <3>1. /\ advertised'[d] = now
          /\ \A x \in Device : x # d => advertised'[x] = advertised[x]
      <4> HIDE DEF now
      <4> QED BY <1>2, <1>11, <2>1, <2>2
    <3>2. m.granted \in BOOLEAN
      BY <1>8, <1>12, <2>2
    <3> QED
      BY <2>2, <3>1, <3>2
  <2>3. CASE ~told
    BY <1>11, <2>3
  <2> QED BY <2>2, <2>3
<1>15. ConsentTrue'
  <2> SUFFICES ASSUME NEW x \in Device, NEW q \in Device, NEW g \in Features
               PROVE  /\ <<g, q>> \in issued'[x] => <<x, g, q>> \in ever'
                      /\ (q \in Honest /\ <<g, q>> \in advertised'[x]) => <<q, g, x>> \in ever'
    BY DEF ConsentTrue, Honest
  <2>1. /\ <<g, q>> \in issued[x] => <<x, g, q>> \in ever
        /\ (q \in Honest /\ <<g, q>> \in advertised[x]) => <<q, g, x>> \in ever
    BY <1>1 DEF ConsentTrue
  <2>2. (told /\ m.granted /\ p \in Honest) => <<p, m.feature, d>> \in ever
    BY <1>7, <1>12 DEF Granted
  <2> QED
    BY <1>3, <1>14, <2>1, <2>2
<1>16. LedgerTrue'
  <2> SUFFICES ASSUME NEW x \in Device, NEW q \in Device, NEW g \in Features
               PROVE  /\ <<g, q>> \in issued'[x] <=> Tells(x, "issued", g, q)'
                      /\ <<g, q>> \in advertised'[x] <=> Tells(x, "advertised", g, q)'
    BY DEF LedgerTrue
  <2>1. /\ <<g, q>> \in issued[x] <=> Tells(x, "issued", g, q)
        /\ <<g, q>> \in advertised[x] <=> Tells(x, "advertised", g, q)
    BY <1>1 DEF LedgerTrue
  <2>2. CASE told
    <3>1. ledger \in [Device -> SUBSET Entries]
      BY <1>1 DEF Shapes
    <3>2. Told(d, "advertised", m.feature, p, m.granted) /\ m.granted \in BOOLEAN
      BY <1>8, <1>11, <1>12, <2>2
    <3> HIDE DEF now
    <3>3. \A y, r, c, h : y \in Device =>
           (Tells(y, c, h, r)' <=> IF <<y, c, h, r>> = <<d, "advertised", m.feature, p>>
                                   THEN m.granted ELSE Tells(y, c, h, r))
      BY <1>2, <3>1, <3>2, ToldStep
    <3>4. /\ Tells(x, "issued", g, q)' <=> Tells(x, "issued", g, q)
          /\ Tells(x, "advertised", g, q)' <=>
               IF <<x, g, q>> = <<d, m.feature, p>> THEN m.granted ELSE Tells(x, "advertised", g, q)
      BY <3>3
    <3> QED
      BY <1>3, <1>14, <2>1, <2>2, <3>4
  <2>3. CASE ~told
    <3>1. Tells(x, "issued", g, q)' <=> Tells(x, "issued", g, q)
      BY <1>11, <2>3 DEF Tells
    <3>2. Tells(x, "advertised", g, q)' <=> Tells(x, "advertised", g, q)
      BY <1>11, <2>3 DEF Tells
    <3> QED
      BY <1>3, <1>14, <2>1, <2>3, <3>1, <3>2
  <2> QED BY <2>2, <2>3
<1>17. ChannelsTrue'
  <2>1. \A x, y : GrantedLetters(x, y)' = GrantedLetters(x, y)
    BY <1>3 DEF GrantedLetters, Granted
  <2>2. \A x, y : GrantedItems(x, y)' = GrantedItems(x, y)
    BY <1>3 DEF GrantedItems, Granted
  <2>3. ASSUME NEW x \in Honest, NEW y \in Device
        PROVE  wire'[x][y] \in Seq(GrantedLetters(x, y)')
    <3>1. wire[x][y] \in Seq(GrantedLetters(x, y))
      BY <1>1 DEF ChannelsTrue
    <3>2. CASE <<x, y>> = <<p, d>>
      <4>1. x = p /\ y = d
        BY <3>2
      <4> QED BY <1>4, <2>1, <3>1, <4>1
    <3>3. CASE <<x, y>> # <<p, d>>
      BY <1>2, <1>4, <2>1, <3>1, <3>3
    <3> QED BY <3>2, <3>3
  <2> QED
    BY <1>1, <1>3, <2>2, <2>3 DEF ChannelsTrue
<1>18. OnlyWhatWasGranted'
  <2> SUFFICES ASSUME NEW x \in Honest
               PROVE  LET s == screen'[x] IN
                      /\ (s.type = "location" /\ s.from \in Honest) => <<s.from, "location", x>> \in ever'
                      /\ (s.type = "attention" /\ s.from \in Honest) => <<x, "attention", s.from>> \in ever'
    BY DEF OnlyWhatWasGranted, Honest
  <2>1. CASE taken /\ x = d
    <3>1. screen'[x] = [type |-> m.type, from |-> p]
      BY <1>1, <1>2, <1>10, <2>1 DEF Shapes
    <3>2. screen'[x].type = m.type /\ screen'[x].from = p
      BY <3>1
    <3> QED
      BY <1>3, <1>7, <2>1, <3>2 DEF Granted
  <2>2. CASE ~(taken /\ x = d)
    <3>1. screen'[x] = screen[x]
      BY <1>1, <1>2, <1>10, <2>2 DEF Shapes
    <3> QED
      BY <1>1, <1>3, <3>1 DEF OnlyWhatWasGranted
  <2> QED BY <2>1, <2>2
<1> QED
  BY <1>13, <1>15, <1>16, <1>17, <1>18 DEF IInv

LEMMA NextKeeps ==
  ASSUME IInv, [Next]_vars
  PROVE  IInv'
<1>1. CASE \E t \in Traffic : Emit(t[1], [type |-> t[2]], t[3])
  BY <1>1, EmitKeeps
<1>2. CASE \E d, p \in Honest, i \in 1..MaxQueued :
             Send(d, p, i) \/ SendFails(d, p, i) \/ Expire(d, p, i)
  BY <1>2, SendKeeps, WaitKeeps
<1>3. CASE \E d \in Honest, p \in Device : Receive(p, d)
  BY <1>3, ReceiveKeeps
<1>4. CASE \E w \in Wishes, granted \in BOOLEAN : Change(w[1], w[2], w[3], granted)
  BY <1>4, ChangeKeeps
<1>5. CASE \E d \in Liars, p \in Honest, e \in MadeUp : MakeUp(d, p, e)
  BY <1>5, MakeUpKeeps
<1>6. CASE UNCHANGED vars
  <2>1. UNCHANGED <<issued, advertised, ledger, queue, wire, screen, ever, overtaken, troubles>>
    BY <1>6 DEF vars, consent, history
  <2>2. (Shapes /\ Fits)' <=> Shapes /\ Fits
    BY <2>1 DEF Shapes, Fits
  <2>3. (ConsentTrue /\ OnlyWhatWasGranted /\ LedgerTrue)'
          <=> ConsentTrue /\ OnlyWhatWasGranted /\ LedgerTrue
    BY <2>1 DEF ConsentTrue, OnlyWhatWasGranted, LedgerTrue, Tells
  <2>4. ChannelsTrue => ChannelsTrue'
    BY <2>1, ChannelsStill DEF ChannelsTrue
  <2> QED
    BY <2>2, <2>3, <2>4 DEF IInv
<1> QED
  BY <1>1, <1>2, <1>3, <1>4, <1>5, <1>6 DEF Next

-----------------------------------------------------------------------------
LEMMA InvariantAlways == Spec => []IInv
<1>1. IInv /\ [Next]_vars => IInv'
  BY NextKeeps
<1> QED
  BY InitHolds, <1>1, PTL DEF Spec

\* Every message, entry and view is of its kind, and no channel has more queued or under
\* way than it may: enqueue makes room before it appends (outbox.rs).
THEOREM TypesAlways == Spec => []TypeOK
<1>1. IInv => TypeOK
  <2> SUFFICES ASSUME IInv PROVE TypeOK
    OBVIOUS
  <2>1. Shapes /\ Fits
    BY DEF IInv
  <2>2. \A d, p \in Device : \A i \in DOMAIN queue[d][p] : queue[d][p][i] \in Items
    <3> SUFFICES ASSUME NEW d \in Device, NEW p \in Device, NEW i \in DOMAIN queue[d][p]
                 PROVE  queue[d][p][i] \in Items
      OBVIOUS
    <3>1. queue[d][p] \in Seq(Items)
      BY <2>1 DEF Shapes
    <3> QED BY <3>1, ElementOfSeq, LenProperties
  <2> QED
    BY <2>1, <2>2 DEF TypeOK, Shapes, Fits, Items
<1> QED
  BY InvariantAlways, <1>1, PTL

\* What an honest device accepts as the position or the nudge of another was granted, for
\* any family, any liars and any troubles on the way ("Data for a feature without a grant
\* never leaves the device", consent.rs).
THEOREM GrantedIsAllThatShows == Spec => []OnlyWhatWasGranted
<1>1. IInv => OnlyWhatWasGranted
  BY DEF IInv
<1> QED
  BY InvariantAlways, <1>1, PTL

\* The last entries of the log are the grants that hold, of both sets, to the letter
\* ("Every message produces an entry", ledger.rs).
THEOREM LedgerIsTrue == Spec => []LedgerTellsConsent
<1>1. IInv => LedgerTellsConsent
  <2> SUFFICES ASSUME IInv, NEW d \in Honest
               PROVE  /\ issued[d] = {<<e.feature, e.peer>> :
                                        e \in {x \in ledger[d] : x.change = "issued" /\ x.granted}}
                      /\ advertised[d] = {<<e.feature, e.peer>> :
                                            e \in {x \in ledger[d] : x.change = "advertised" /\ x.granted}}
    BY DEF LedgerTellsConsent
  <2>1. /\ issued[d] \in SUBSET (Features \X Device)
        /\ advertised[d] \in SUBSET (Features \X Device)
        /\ ledger[d] \in SUBSET Entries
    BY DEF IInv, Shapes, Honest
  <2>2. \A f \in Features, p \in Device :
          /\ <<f, p>> \in issued[d] <=> Tells(d, "issued", f, p)
          /\ <<f, p>> \in advertised[d] <=> Tells(d, "advertised", f, p)
    BY DEF IInv, LedgerTrue, Honest
  <2>3. \A e \in ledger[d] : e.feature \in Features /\ e.peer \in Device
    BY <2>1 DEF Entries
  <2>4. ASSUME NEW c, NEW G \in SUBSET (Features \X Device),
               \A f \in Features, p \in Device : <<f, p>> \in G <=> Tells(d, c, f, p)
        PROVE  G = {<<e.feature, e.peer>> : e \in {x \in ledger[d] : x.change = c /\ x.granted}}
    BY <2>3, <2>4 DEF Tells
  <2> QED
    BY <2>1, <2>2, <2>4
<1> QED
  BY InvariantAlways, <1>1, PTL

=============================================================================
