------------------------- MODULE SundTransportProofs -------------------------
(***************************************************************************)
(* KeyFits, BoundIsTrue and NeverLockedOut for any number of clones,      *)
(* managers, rotations, peer queues and troubles, and AddressIsDrained     *)
(* where one caller manages the channel.                                   *)
(*                                                                         *)
(* None of them is inductive by itself.  A queue is made for a seed in one *)
(* step and entered in the record in another, so the calls under way must  *)
(* carry queues that fit the seed they carry (IInv).  An address to send   *)
(* to is in the record, in the snapshot and in the sends under way at      *)
(* once, and all of them must agree on its seed (SendInv).  What a manager *)
(* knows of the queue in the record stays so until its call ends, since no *)
(* other call changes that queue (DrainInv).                               *)
(***************************************************************************)
EXTENDS SundTransport, SequenceTheorems, TLAPS

Out == [queue : Nat, seed : Nat, bound : BOOLEAN]
Channel == [declared : BOOLEAN, retired : BOOLEAN, inbound : Nat, seed : Seed, out : Out]
QueueCalls == [op : {"open", "rotate", "retire", "drain"},
               at : {"create", "key", "request", "finish"},
               queue : Nat, key : Seed, seed : Seed]
SendCalls == [op : {"send"}, at : {"request", "mark"}, out : Out]

Shapes ==
  /\ rec \in Channel
  /\ disk.rec \in Channel
  /\ call \in [Caller -> {Idle} \cup QueueCalls \cup SendCalls]
  /\ own \in Seq([key : Seed, up : BOOLEAN])
  /\ minted \in Nat

\* Queue q is one of ours, and was made for seed s.
MadeFor(q, s) == q \in 1..Len(own) /\ own[q].key = s

RecordFits(r) == r.inbound # None => MadeFor(r.inbound, r.seed)

CallFits(k) ==
  /\ k # Idle => rec.declared
  /\ k.op = "open" /\ rec.inbound = None => k.seed = rec.seed
  /\ k.op \in {"open", "rotate"} /\ k.at = "finish" => MadeFor(k.queue, k.seed)

CallsFit == \A c \in Caller : CallFits(call[c])

IInv == Shapes /\ RecordFits(rec) /\ RecordFits(disk.rec) /\ CallsFit

-----------------------------------------------------------------------------
\* What is in the sets a call and a record are taken from.
LEMMA Constants == Managers \subseteq Caller /\ Users \subseteq Caller /\ (CHOOSE s \in Seed : TRUE) \in Seed
  BY TransportAssumption

LEMMA UndeclaredFits == Undeclared \in Channel /\ Undeclared.inbound = None
  BY Constants DEF Undeclared, NoOutbound, Channel, Out, None, Open

LEMMA InitHolds == Init => IInv
  <1> SUFFICES ASSUME Init PROVE IInv
    OBVIOUS
  <1>1. Shapes
    BY UndeclaredFits DEF Init, Shapes
  <1> QED
    BY <1>1, UndeclaredFits DEF Init, IInv, RecordFits, CallsFit, CallFits, Idle

\* Queues are added and retired, never given another key.
OwnGrows ==
  /\ own' \in Seq([key : Seed, up : BOOLEAN])
  /\ Len(own) <= Len(own')
  /\ \A q \in 1..Len(own) : own'[q].key = own[q].key

LEMMA Unchanged == ASSUME Shapes, UNCHANGED own PROVE OwnGrows
  BY DEF Shapes, OwnGrows

LEMMA StillMadeFor ==
  ASSUME Shapes, OwnGrows, NEW q, NEW s, MadeFor(q, s)
  PROVE  q \in 1..Len(own') /\ own'[q].key = s
  <1>1. Len(own) \in Nat /\ Len(own') \in Nat
    BY DEF Shapes, OwnGrows
  <1> QED
    BY <1>1 DEF OwnGrows, MadeFor

\* A step that leaves the record and the snapshot alone, and in which one call gives
\* way to another that fits, keeps the invariant.
LEMMA CallMoves ==
  ASSUME IInv, OwnGrows, NEW c \in Caller, NEW k \in {Idle} \cup QueueCalls \cup SendCalls,
         k # Idle => rec.declared,
         k.op = "open" /\ rec.inbound = None => k.seed = rec.seed,
         k.op \in {"open", "rotate"} /\ k.at = "finish" =>
           k.queue \in 1..Len(own') /\ own'[k.queue].key = k.seed,
         UNCHANGED <<rec, disk>>, minted' \in Nat,
         call' = [call EXCEPT ![c] = k]
  PROVE  IInv'
  <1>1. Shapes'
    BY DEF IInv, Shapes, OwnGrows
  <1>2. RecordFits(rec)' /\ RecordFits(disk.rec)'
    BY StillMadeFor DEF IInv, RecordFits, MadeFor
  <1>3. CallsFit'
    <2> SUFFICES ASSUME NEW d \in Caller PROVE CallFits(call[d])'
      BY DEF CallsFit
    <2>1. call'[d] = IF d = c THEN k ELSE call[d]
      BY DEF IInv, Shapes
    <2>2. CASE d = c
      BY <2>1, <2>2 DEF CallFits, MadeFor
    <2>3. CASE d # c
      BY <2>1, <2>3, StillMadeFor DEF IInv, CallsFit, CallFits, MadeFor
    <2> QED
      BY <2>2, <2>3
  <1> QED
    BY <1>1, <1>2, <1>3 DEF IInv

\* The same of a call that is left, and of one that goes on to another step than its last.
LEMMA Returning ==
  ASSUME IInv, OwnGrows, NEW c \in Caller, Return(c), UNCHANGED <<rec, disk, minted>>
  PROVE  IInv'
  <1>1. Idle.op = "none"
    BY DEF Idle
  <1>2. minted' \in Nat
    BY DEF IInv, Shapes
  <1> QED
    BY <1>1, <1>2, CallMoves DEF Return

-----------------------------------------------------------------------------
(* Calls that begin.                                                       *)
LEMMA Beginning ==
  ASSUME IInv, NEW c \in Caller,
         OpenBegin(c) \/ (\E s \in Seed : RotateBegin(c, s)) \/ RetireBegin(c)
           \/ SubscribeBegin(c) \/ SendBegin(c)
  PROVE  IInv'
  <1> USE DEF IInv
  <1>1. OwnGrows /\ UNCHANGED <<rec, disk>> /\ minted' \in Nat /\ rec.declared
    BY Unchanged DEF OpenBegin, RotateBegin, RetireBegin, SubscribeBegin, SendBegin, Begin, Live,
                     local, relay, Shapes
  <1>2. rec.inbound \in Nat /\ rec.seed \in Seed /\ rec.out \in Out
    BY DEF Shapes, Channel
  <1>3. CASE OpenBegin(c)
    <2> DEFINE k == [op |-> "open", at |-> "create", queue |-> None, key |-> rec.seed,
                     seed |-> rec.seed]
    <2>1. k \in QueueCalls /\ call' = [call EXCEPT ![c] = k]
      BY <1>2, <1>3 DEF OpenBegin, Begin, QueueCalls, None
    <2> QED
      BY <1>1, <2>1, CallMoves
  <1>4. ASSUME NEW s \in Seed, RotateBegin(c, s) PROVE IInv'
    <2> DEFINE k == [op |-> "rotate", at |-> FirstStep("create"), queue |-> rec.inbound,
                     key |-> rec.seed, seed |-> s]
    <2>1. k \in QueueCalls /\ k.at # "finish" /\ call' = [call EXCEPT ![c] = k]
      BY <1>2, <1>4 DEF RotateBegin, Begin, QueueCalls, FirstStep
    <2> QED
      BY <1>1, <2>1, CallMoves
  <1>5. CASE RetireBegin(c)
    <2> DEFINE k == [op |-> "retire", at |-> FirstStep("finish"), queue |-> rec.inbound,
                     key |-> rec.seed, seed |-> rec.seed]
    <2>1. k \in QueueCalls /\ call' = [call EXCEPT ![c] = k]
      BY <1>2, <1>5 DEF RetireBegin, Begin, QueueCalls, FirstStep
    <2> QED
      BY <1>1, <2>1, CallMoves
  <1>6. CASE SubscribeBegin(c)
    <2> DEFINE k == [op |-> "drain", at |-> "key", queue |-> rec.inbound,
                     key |-> rec.seed, seed |-> rec.seed]
    <2>1. k \in QueueCalls /\ call' = [call EXCEPT ![c] = k]
      BY <1>2, <1>6 DEF SubscribeBegin, Begin, QueueCalls
    <2> QED
      BY <1>1, <2>1, CallMoves
  <1>7. CASE SendBegin(c)
    <2> DEFINE k == [op |-> "send", at |-> "request", out |-> rec.out]
    <2>1. k \in SendCalls /\ call' = [call EXCEPT ![c] = k]
      BY <1>2, <1>7 DEF SendBegin, Begin, SendCalls
    <2> QED
      BY <1>1, <2>1, CallMoves
  <1> QED
    BY <1>3, <1>4, <1>5, <1>6, <1>7

-----------------------------------------------------------------------------
(* Requests.                                                               *)

\* A call at one of the steps that only these calls have is one of them.
LEMMA AtQueueStep ==
  ASSUME Shapes, NEW c \in Caller,
         call[c].at \in {"create", "key", "finish"} \/ call[c].op \in {"open", "rotate", "retire", "drain"}
  PROVE  call[c] \in QueueCalls /\ call[c] # Idle
  BY DEF Shapes, QueueCalls, SendCalls, Idle

\* The call that goes on with the queue it made.
LEMMA CreatedCall ==
  ASSUME NEW j \in QueueCalls, NEW n \in Nat
  PROVE  LET k == [j EXCEPT !.at = "finish", !.queue = n] IN
         k \in QueueCalls /\ k.op = j.op /\ k.seed = j.seed /\ k.at = "finish" /\ k.queue = n
  <1> DEFINE i == [j EXCEPT !.at = "finish"]
             k == [i EXCEPT !.queue = n]
  <1>1. i \in QueueCalls /\ i.op = j.op /\ i.seed = j.seed /\ i.at = "finish"
    BY DEF QueueCalls
  <1> HIDE DEF i
  <1>2. k \in QueueCalls /\ k.op = i.op /\ k.seed = i.seed /\ k.at = i.at /\ k.queue = n
    BY <1>1 DEF QueueCalls
  <1>3. [j EXCEPT !.at = "finish", !.queue = n] = k
    BY DEF i
  <1> HIDE DEF k
  <1> QED
    BY <1>1, <1>2, <1>3

LEMMA Creating == ASSUME IInv, NEW c \in Caller, CreateQueue(c) PROVE IInv'
  <1> USE DEF IInv
  <1> DEFINE new == Append(own, [key |-> call[c].seed, up |-> TRUE])
             k == [call[c] EXCEPT !.at = "finish", !.queue = Len(own) + 1]
  <1>1. call[c] \in QueueCalls /\ call[c] # Idle /\ CallFits(call[c])
    BY AtQueueStep DEF CreateQueue, CallsFit
  <1>2. UNCHANGED <<rec, disk, minted>>
    BY DEF CreateQueue, local
  <1>3. ASSUME own' = new PROVE OwnGrows
    BY <1>1, <1>3 DEF OwnGrows, Shapes, QueueCalls
  <1>4. ASSUME own' = new, Go(c, k) PROVE IInv'
    <2>1. k \in QueueCalls /\ k.op = call[c].op /\ k.seed = call[c].seed
            /\ k.queue = Len(own) + 1
      <3>1. Len(own) + 1 \in Nat
        BY DEF Shapes
      <3> QED
        BY <1>1, <3>1, CreatedCall, Zenon
    <2>2. own'[k.queue].key = k.seed /\ k.queue \in 1..Len(own')
      BY <1>1, <1>4, <2>1 DEF Shapes, QueueCalls
    <2>3. rec.declared /\ (k.op = "open" /\ rec.inbound = None => k.seed = rec.seed)
      BY <1>1, <2>1 DEF CallFits
    <2>4. minted' \in Nat /\ call' = [call EXCEPT ![c] = k]
      BY <1>2, <1>4 DEF Shapes, Go
    <2> HIDE DEF k
    <2> QED
      BY <1>2, <1>3, <1>4, <2>1, <2>2, <2>3, <2>4, CallMoves
  <1>5. CASE own' = new /\ Return(c)
    BY <1>2, <1>3, <1>5, Returning
  <1>6. CASE UNCHANGED own /\ Return(c)
    BY <1>2, <1>6, Unchanged, Returning
  <1> QED
    BY <1>4, <1>5, <1>6 DEF CreateQueue

LEMMA Reading == ASSUME IInv, NEW c \in Caller, RecipientKey(c) PROVE IInv'
  <1> USE DEF IInv
  <1> DEFINE k == [call[c] EXCEPT !.at = "request", !.key = rec.seed]
  <1>1. call[c] \in QueueCalls /\ call[c] # Idle /\ CallFits(call[c])
    BY AtQueueStep DEF RecipientKey, CallsFit
  <1>2. k \in QueueCalls /\ k.op = call[c].op /\ k.seed = call[c].seed /\ k.at = "request"
    BY <1>1 DEF QueueCalls, Shapes, Channel
  <1>3. rec.declared /\ (k.op = "open" /\ rec.inbound = None => k.seed = rec.seed)
    BY <1>1, <1>2 DEF CallFits
  <1>4. UNCHANGED <<rec, disk>> /\ OwnGrows /\ minted' \in Nat /\ call' = [call EXCEPT ![c] = k]
    BY Unchanged DEF RecipientKey, Go, local, relay, Shapes
  <1> HIDE DEF k
  <1> QED
    BY <1>2, <1>3, <1>4, CallMoves

\* Queues of ours are retired for good.
OwnFalls == \A q \in 1..Len(own) : own'[q].up => own[q].up

LEMMA OwnStays == ASSUME Shapes, UNCHANGED own PROVE OwnGrows /\ OwnFalls
  BY Unchanged DEF OwnFalls

\* A retired queue falls, and no other does; what is not ours changes nothing.
LEMMA Falls ==
  ASSUME IInv, NEW q, own' = [own EXCEPT ![q].up = FALSE]
  PROVE  OwnGrows /\ OwnFalls /\ (q \in 1..Len(own) => ~own'[q].up)
  <1> DEFINE Q == [key : Seed, up : BOOLEAN]
             r == [own[q] EXCEPT !.up = FALSE]
  <1>1. own \in Seq(Q) /\ own' = [own EXCEPT ![q] = r]
    BY DEF IInv, Shapes
  <1>2. CASE q \in 1..Len(own)
    <2>1. r \in Q /\ r.key = own[q].key /\ ~r.up
      <3>1. own[q] \in Q
        BY <1>1, <1>2, ElementOfSeq
      <3> QED
        BY <3>1
    <2> HIDE DEF r, Q
    <2>2. own' \in Seq(Q) /\ Len(own') = Len(own)
          /\ \A i \in 1..Len(own) : own'[i] = IF i = q THEN r ELSE own[i]
      <3>1. own \in Seq(Q) /\ q \in 1..Len(own) /\ own' = [own EXCEPT ![q] = r]
        BY <1>1, <1>2
      <3>2. /\ [own EXCEPT ![q] = r] \in Seq(Q)
            /\ Len([own EXCEPT ![q] = r]) = Len(own)
            /\ \A i \in 1..Len(own) : [own EXCEPT ![q] = r][i] = IF i = q THEN r ELSE own[i]
        BY <2>1, <3>1, ExceptSeq
      <3> QED
        BY <3>1, <3>2, Zenon
    <2> QED
      BY <1>1, <1>2, <2>1, <2>2 DEF OwnGrows, OwnFalls, Q
  <1>3. CASE q \notin 1..Len(own)
    <2>1. own' = own
      <3> HIDE DEF r, Q
      <3>1. DOMAIN own = 1..Len(own) /\ own = [i \in DOMAIN own |-> own[i]]
        BY <1>1
      <3> QED
        BY <1>1, <1>3, <3>1
    <2> QED
      BY <1>3, <2>1, OwnStays DEF IInv
  <1> QED
    BY <1>2, <1>3

LEMMA Retiring == ASSUME IInv, NEW c \in Caller, RetireQueue(c) PROVE IInv'
  <1> USE DEF IInv
  <1> DEFINE q == call[c].queue
             at == IF call[c].op = "rotate" THEN "create" ELSE "finish"
             k == [call[c] EXCEPT !.at = at]
  <1>1. call[c] \in QueueCalls /\ call[c] # Idle /\ CallFits(call[c])
        /\ call[c].op \in {"rotate", "retire"}
    BY AtQueueStep DEF RetireQueue, CallsFit
  <1>2. UNCHANGED <<rec, disk, minted>>
    BY DEF RetireQueue, local
  <1>3. OwnGrows
    <2>1. CASE own' = [own EXCEPT ![q].up = FALSE]
      BY <2>1, Falls
    <2>2. CASE UNCHANGED own
      BY <2>2, Unchanged
    <2> QED
      BY <2>1, <2>2 DEF RetireQueue
  <1>4. ASSUME Go(c, k) PROVE IInv'
    <2>1. k \in QueueCalls /\ k.op = call[c].op /\ k.seed = call[c].seed /\ k.at = at
      BY <1>1 DEF QueueCalls
    <2>2. k.op # "open" /\ (k.op = "rotate" => k.at # "finish") /\ rec.declared
      BY <1>1, <2>1 DEF CallFits
    <2>3. minted' \in Nat /\ call' = [call EXCEPT ![c] = k]
      BY <1>2, <1>4 DEF Shapes, Go
    <2> HIDE DEF k, at
    <2> QED
      BY <1>2, <1>3, <2>1, <2>2, <2>3, CallMoves
  <1>5. CASE Return(c)
    BY <1>2, <1>3, <1>5, Returning
  <1> QED
    BY <1>4, <1>5 DEF RetireQueue

LEMMA Draining == ASSUME IInv, NEW c \in Caller, ReceiveFromQueue(c) PROVE IInv'
  BY Unchanged, Returning DEF IInv, ReceiveFromQueue, local, relay

LEMMA Sending == ASSUME IInv, NEW c \in Caller, SendToQueue(c) PROVE IInv'
  <1> USE DEF IInv
  <1> DEFINE k == [call[c] EXCEPT !.at = "mark"]
  <1>1. UNCHANGED <<rec, disk, minted>> /\ OwnGrows
    BY Unchanged DEF SendToQueue, local
  <1>2. ASSUME Go(c, k) PROVE IInv'
    <2>1. call[c] \in SendCalls /\ call[c] # Idle /\ CallFits(call[c])
      BY DEF SendToQueue, Shapes, QueueCalls, SendCalls, Idle, CallsFit
    <2>2. k \in SendCalls /\ k.op = "send" /\ rec.declared
      BY <2>1 DEF SendCalls, CallFits
    <2>3. minted' \in Nat /\ call' = [call EXCEPT ![c] = k]
      BY <1>1, <1>2 DEF Shapes, Go
    <2> HIDE DEF k
    <2> QED
      BY <1>1, <2>2, <2>3, CallMoves
  <1>3. CASE Return(c)
    BY <1>1, <1>3, Returning
  <1> QED
    BY <1>2, <1>3 DEF SendToQueue

-----------------------------------------------------------------------------
(* Changes of the record.                                                  *)

\* The record takes over a queue that fits, or keeps what it has of it, and no call is
\* other than it was, or than done.
LEMMA RecordMoves ==
  ASSUME IInv, UNCHANGED <<own, disk>>, minted' \in Nat,
         rec' \in Channel, RecordFits(rec'), rec.declared => rec'.declared,
         rec'.inbound = None => rec.inbound = None /\ rec'.seed = rec.seed,
         call' = call \/ \E c \in Caller : Return(c)
  PROVE  IInv'
  <1>1. \A d \in Caller : call'[d] \in {call[d], Idle}
    BY DEF Return, IInv, Shapes
  <1>2. Shapes'
    BY DEF IInv, Shapes, Return
  <1>3. CallsFit'
    <2> SUFFICES ASSUME NEW d \in Caller PROVE CallFits(call[d])'
      BY DEF CallsFit
    <2>1. CASE call'[d] = Idle
      BY <2>1 DEF CallFits, Idle
    <2>2. CASE call'[d] = call[d]
      BY <2>2 DEF IInv, CallsFit, CallFits, MadeFor
    <2> QED
      BY <1>1, <2>1, <2>2
  <1>4. RecordFits(rec)' /\ RecordFits(disk.rec)'
    BY DEF IInv, RecordFits, MadeFor
  <1> QED
    BY <1>2, <1>3, <1>4 DEF IInv

LEMMA Opened == ASSUME IInv, NEW c \in Caller, OpenFinish(c) PROVE IInv'
  <1> USE DEF IInv
  <1> DEFINE q == call[c].queue
             r == [rec EXCEPT !.inbound = q]
  <1>1. call[c] \in QueueCalls /\ MadeFor(q, call[c].seed)
        /\ (rec.inbound = None => call[c].seed = rec.seed)
    BY AtQueueStep DEF OpenFinish, CallsFit, CallFits
  <1>2. UNCHANGED <<own, disk>> /\ minted' \in Nat /\ Return(c)
    BY DEF OpenFinish, relay, Shapes
  <1>3. rec \in Channel /\ q \in 1..Len(own) /\ Len(own) \in Nat
    BY <1>1 DEF Shapes, MadeFor
  <1>4. CASE rec' = rec
    BY <1>2, <1>3, <1>4, RecordMoves
  <1>5. CASE rec' = r /\ rec.inbound = None
    <2>1. r \in Channel /\ r.inbound = q /\ r.seed = rec.seed /\ r.declared = rec.declared
      BY <1>3 DEF Channel
    <2>2. RecordFits(r) /\ r.inbound # None
      BY <1>1, <1>3, <1>5, <2>1 DEF RecordFits, None
    <2> HIDE DEF r
    <2> QED
      BY <1>2, <1>5, <2>1, <2>2, RecordMoves
  <1> QED
    BY <1>4, <1>5 DEF OpenFinish, Keeps

LEMMA Rotated == ASSUME IInv, NEW c \in Caller, RotateFinish(c) PROVE IInv'
  <1> USE DEF IInv
  <1> DEFINE q == call[c].queue
             s == call[c].seed
             r == [rec EXCEPT !.inbound = q, !.seed = s]
  <1>1. call[c] \in QueueCalls /\ MadeFor(q, s)
    BY AtQueueStep DEF RotateFinish, CallsFit, CallFits
  <1>2. UNCHANGED <<own, disk>> /\ minted' \in Nat /\ Return(c)
    BY DEF RotateFinish, relay, Shapes
  <1>3. rec \in Channel /\ q \in 1..Len(own) /\ Len(own) \in Nat /\ s \in Seed
    BY <1>1 DEF Shapes, MadeFor, QueueCalls
  <1>4. CASE rec' = rec
    BY <1>2, <1>3, <1>4, RecordMoves
  <1>5. CASE rec' = r
    <2>1. r \in Channel /\ r.inbound = q /\ r.seed = s /\ r.declared = rec.declared
      <3> DEFINE i == [rec EXCEPT !.inbound = q]
      <3>1. i \in Channel /\ i.inbound = q /\ i.declared = rec.declared
        BY <1>3 DEF Channel
      <3>2. r = [i EXCEPT !.seed = s]
        OBVIOUS
      <3> HIDE DEF i, r
      <3> QED
        BY <1>3, <3>1, <3>2 DEF Channel
    <2>2. RecordFits(r) /\ r.inbound # None
      BY <1>1, <1>3, <2>1 DEF RecordFits, None
    <2> HIDE DEF r
    <2> QED
      BY <1>2, <1>5, <2>1, <2>2, RecordMoves
  <1> QED
    BY <1>4, <1>5 DEF RotateFinish, Renewed

\* What does not touch the queue of the record.
LEMMA KeepsQueue ==
  ASSUME IInv, UNCHANGED <<own, disk>>, minted' \in Nat, rec' \in Channel,
         rec'.inbound = rec.inbound, rec'.seed = rec.seed, rec'.declared = rec.declared,
         call' = call \/ \E c \in Caller : Return(c)
  PROVE  IInv'
  <1>1. RecordFits(rec')
    BY DEF IInv, RecordFits
  <1> QED
    BY <1>1, RecordMoves

LEMMA Settling ==
  ASSUME IInv,
         (\E c \in Caller : RetireFinish(c) \/ SendMark(c)) \/ \E q \in 1..MaxPeerQueues : AttachOutbound(q)
  PROVE  IInv'
  <1>1. rec \in Channel /\ minted \in Nat /\ MaxPeerQueues \in Nat
    BY TransportAssumption DEF IInv, Shapes
  <1>2. ASSUME NEW c \in Caller, RetireFinish(c) PROVE IInv'
    <2>1. rec' = [rec EXCEPT !.retired = TRUE] /\ UNCHANGED <<own, disk, minted>> /\ Return(c)
      BY <1>2 DEF RetireFinish, relay
    <2> QED
      BY <1>1, <2>1, KeepsQueue DEF Channel
  <1>3. ASSUME NEW c \in Caller, SendMark(c) PROVE IInv'
    <2> DEFINE o == [rec.out EXCEPT !.bound = TRUE]
    <2>1. UNCHANGED <<own, disk, minted>> /\ Return(c)
          /\ (rec' = rec \/ rec' = [rec EXCEPT !.out = o])
      BY <1>3 DEF SendMark, relay
    <2>2. o \in Out
      BY <1>1 DEF Channel, Out
    <2> HIDE DEF o
    <2> QED
      BY <1>1, <2>1, <2>2, KeepsQueue DEF Channel
  <1>4. ASSUME NEW q \in 1..MaxPeerQueues, AttachOutbound(q) PROVE IInv'
    <2> DEFINE o == [queue |-> q, seed |-> minted + 1, bound |-> FALSE]
    <2>1. rec' = [rec EXCEPT !.out = o] /\ UNCHANGED <<own, disk, call>> /\ minted' = minted + 1
      BY <1>4 DEF AttachOutbound, relay
    <2>2. o \in Out
      BY <1>1 DEF Out
    <2> HIDE DEF o
    <2> QED
      BY <1>1, <2>1, <2>2, KeepsQueue DEF Channel
  <1> QED
    BY <1>2, <1>3, <1>4

\* No call is under way on a channel that is not declared.
LEMMA Declaring == ASSUME IInv, NEW s \in Seed, Declare(s) PROVE IInv'
  <1> DEFINE r == [Undeclared EXCEPT !.declared = TRUE, !.seed = s]
  <1>1. rec' = r /\ UNCHANGED <<own, disk, call, minted>> /\ ~rec.declared
    <2>1. rec' = r /\ ~rec.declared
          /\ UNCHANGED <<attached, call, relay, told, disk, forgotten, minted, bounds>>
      BY Zenon DEF Declare
    <2> HIDE DEF r
    <2> QED
      BY <2>1 DEF relay
  <1>2. r \in Channel /\ r.inbound = None
    <2> DEFINE u == [Undeclared EXCEPT !.declared = TRUE]
    <2>1. r = [u EXCEPT !.seed = s]
      BY Zenon
    <2> HIDE DEF r
    <2>2. u \in Channel /\ u.inbound = None
      BY UndeclaredFits DEF Channel
    <2> HIDE DEF u
    <2> QED
      BY <2>1, <2>2 DEF Channel
  <1>4. \A c \in Caller : call[c] = Idle
    BY <1>1 DEF IInv, CallsFit, CallFits
  <1>5. Shapes'
    BY <1>1, <1>2 DEF IInv, Shapes
  <1>6. CallsFit'
    BY <1>1, <1>4 DEF CallsFit, CallFits, Idle
  <1>7. RecordFits(rec)' /\ RecordFits(disk.rec)'
    BY <1>1, <1>2 DEF IInv, RecordFits, MadeFor
  <1> QED
    BY <1>5, <1>6, <1>7 DEF IInv

-----------------------------------------------------------------------------
(* Snapshots and restarts.                                                 *)
LEMMA Exporting == ASSUME IInv, Export PROVE IInv'
  <1>1. UNCHANGED <<rec, own, call, minted>> /\ disk'.rec \in {rec, disk.rec}
    BY DEF Export, local, relay
  <1> QED
    BY <1>1 DEF IInv, Shapes, RecordFits, CallsFit, CallFits, MadeFor

LEMMA Importing == ASSUME IInv, Import PROVE IInv'
  <1>1. UNCHANGED <<disk, own, minted>> /\ rec' = disk.rec /\ call' = [c \in Caller |-> Idle]
    BY DEF Import, relay
  <1>2. Shapes'
    BY <1>1 DEF IInv, Shapes
  <1>3. CallsFit'
    BY <1>1 DEF CallsFit, CallFits, Idle
  <1>4. RecordFits(rec)' /\ RecordFits(disk.rec)'
    BY <1>1 DEF IInv, RecordFits, MadeFor
  <1> QED
    BY <1>2, <1>3, <1>4 DEF IInv

-----------------------------------------------------------------------------
LEMMA Stutter == ASSUME IInv, UNCHANGED <<rec, own, disk, call, minted>> PROVE IInv'
  BY DEF IInv, Shapes, RecordFits, CallsFit, CallFits, MadeFor

LEMMA NextHolds == IInv /\ [Next]_vars => IInv'
  <1> SUFFICES ASSUME IInv, [Next]_vars PROVE IInv'
    OBVIOUS
  <1>1. ASSUME NEW c \in Caller, Continue(c) PROVE IInv'
    BY <1>1, Creating, Reading, Retiring, Opened, Rotated, Settling, Draining, Sending
       DEF Continue
  <1>2. ASSUME NEW c \in Managers, Manage(c) PROVE IInv'
    BY <1>2, Constants, Beginning DEF Manage
  <1>3. ASSUME NEW c \in Users, SubscribeBegin(c) \/ SendBegin(c) PROVE IInv'
    BY <1>3, Constants, Beginning
  <1>4. ASSUME PeerRotates \/ UNCHANGED vars PROVE IInv'
    <2>1. UNCHANGED <<rec, own, disk, call, minted>>
      BY <1>4 DEF PeerRotates, vars, local, relay
    <2> QED
      BY <2>1, Stutter
  <1> QED
    BY <1>1, <1>2, <1>3, <1>4, Declaring, Settling, Exporting, Importing DEF Next

\* The seed in the record is the key of the queue in the record, with any number of
\* clones that open, rotate, retire, send and drain at once, whatever fails
\* (sund_transport.rs, open and rotate_inbound).
THEOREM KeyFitsAlways == Spec => []KeyFits
  <1>1. IInv => KeyFits
    BY DEF IInv, RecordFits, MadeFor, KeyFits
  <1> QED
    BY <1>1, InitHolds, NextHolds, PTL DEF Spec

-----------------------------------------------------------------------------
(* The sender's side.  What the channel sends by is in several places at    *)
(* once: in the record, in the snapshot, and in the sends under way.        *)
Peer == [up : BOOLEAN, bound : Nat]

InUse(o) ==
  \/ o \in {NoOutbound, rec.out, disk.rec.out}
  \/ \E c \in Caller : call[c].op = "send" /\ o = call[c].out

\* An address in use is one that was attached; what it says of its sender key is so,
\* and no other key is bound unless a restart lost one.
LineFits(o) ==
  /\ o.queue = None => ~o.bound
  /\ o.queue # None => o.queue \in attached
  /\ o.bound => theirs[o.queue].bound = o.seed
  /\ o.queue # None /\ o.queue \notin forgotten => theirs[o.queue].bound \in {Open, o.seed}

LinesFit == \A o \in Out : InUse(o) => LineFits(o)

\* A queue of the peer's is sent to under one seed, wherever the address is kept.
OneSeed ==
  \A o, p \in Out :
    InUse(o) /\ InUse(p) /\ o.queue = p.queue /\ o.queue # None => o.seed = p.seed

Attachments ==
  /\ theirs \in Seq(Peer)
  /\ attached \subseteq 1..Len(theirs)
  /\ disk.attached \subseteq attached
  /\ disk.rec.out.queue # None => disk.rec.out.queue \in disk.attached
  /\ \A q \in 1..Len(theirs) : q \notin attached \cup forgotten => theirs[q].bound = Open

SendFits(k) ==
  k.op = "send" =>
    /\ k.out.queue # None
    /\ k.at = "mark" => theirs[k.out.queue].bound = k.out.seed

SendInv == Attachments /\ LinesFit /\ OneSeed /\ \A c \in Caller : SendFits(call[c])

LEMMA SendInitHolds == Init => SendInv
  <1> SUFFICES ASSUME Init PROVE SendInv
    OBVIOUS
  <1> DEFINE t == <<[up |-> TRUE, bound |-> Open]>>
  <1>1. Undeclared.out = NoOutbound /\ NoOutbound.queue = None /\ NoOutbound.bound = FALSE
    BY DEF Undeclared, NoOutbound
  <1>2. theirs = t /\ t \in Seq(Peer) /\ Len(t) = 1 /\ t[1].bound = Open
    BY DEF Init, Peer, Open
  <1>3. rec.out = NoOutbound /\ disk.rec.out = NoOutbound /\ disk.attached = {} /\ attached = {}
    BY <1>1 DEF Init
  <1>4. \A c \in Caller : call[c].op # "send"
    BY DEF Init, Idle
  <1>5. \A o \in Out : InUse(o) => o = NoOutbound
    BY <1>3, <1>4 DEF InUse
  <1> HIDE DEF t
  <1>6. Attachments
    BY <1>1, <1>2, <1>3 DEF Attachments
  <1> QED
    BY <1>1, <1>4, <1>5, <1>6 DEF SendInv, LinesFit, LineFits, OneSeed, SendFits

\* The addresses of the record, of the snapshot and of every send.
LEMMA AreLines ==
  ASSUME Shapes
  PROVE  /\ rec.out \in Out /\ disk.rec.out \in Out /\ NoOutbound \in Out
         /\ InUse(rec.out) /\ InUse(disk.rec.out) /\ InUse(NoOutbound)
         /\ \A c \in Caller : call[c].op = "send" => call[c] \in SendCalls /\ call[c].out \in Out
                                                     /\ InUse(call[c].out)
  <1>1. rec.out \in Out /\ disk.rec.out \in Out
    BY DEF Shapes, Channel
  <1>2. NoOutbound \in Out
    BY DEF NoOutbound, Out, None, Open
  <1>3. ASSUME NEW c \in Caller, call[c].op = "send" PROVE call[c] \in SendCalls
    BY <1>3 DEF Shapes, QueueCalls, SendCalls, Idle
  <1>4. \A k \in SendCalls : k.out \in Out
    BY DEF SendCalls
  <1> QED
    BY <1>1, <1>2, <1>3, <1>4 DEF InUse

\* A step after which nothing else is in use, and that leaves the peer's queues alone.
LEMMA LinesStay ==
  ASSUME Shapes, SendInv, UNCHANGED <<theirs, attached, disk, forgotten>>,
         rec'.out \in {NoOutbound, rec.out},
         \A d \in Caller : call'[d].op = "send" =>
           /\ call[d].op = "send" /\ call'[d] = call[d]
  PROVE  SendInv'
  <1>1. \A o \in Out : InUse(o)' => InUse(o)
    BY DEF InUse
  <1>2. Attachments'
    BY DEF SendInv, Attachments
  <1>3. LinesFit'
    BY <1>1 DEF SendInv, LinesFit, LineFits
  <1>4. OneSeed'
    BY <1>1 DEF SendInv, OneSeed
  <1>5. \A c \in Caller : SendFits(call[c])'
    BY DEF SendInv, SendFits
  <1> QED
    BY <1>2, <1>3, <1>4, <1>5 DEF SendInv

\* One call goes on as one that does not send.
LEMMA OtherCall ==
  ASSUME Shapes, SendInv, NEW c \in Caller, NEW k, k.op # "send",
         UNCHANGED <<theirs, attached, disk, forgotten>>,
         rec'.out = rec.out, call' = [call EXCEPT ![c] = k]
  PROVE  SendInv'
  <1>1. \A d \in Caller : call'[d] = IF d = c THEN k ELSE call[d]
    BY DEF Shapes
  <1> QED
    BY <1>1, LinesStay

LEMMA OtherReturn ==
  ASSUME Shapes, SendInv, NEW c \in Caller, Return(c), rec'.out = rec.out,
         UNCHANGED <<theirs, attached, disk, forgotten>>
  PROVE  SendInv'
  BY OtherCall DEF Return, Idle

LEMMA QueueCallsSendNothing ==
  ASSUME IInv, SendInv, NEW c \in Caller,
         \/ OpenBegin(c) \/ (\E s \in Seed : RotateBegin(c, s)) \/ RetireBegin(c)
         \/ SubscribeBegin(c) \/ CreateQueue(c) \/ RecipientKey(c) \/ RetireQueue(c)
         \/ OpenFinish(c) \/ RotateFinish(c) \/ RetireFinish(c) \/ ReceiveFromQueue(c)
  PROVE  SendInv'
  <1> USE DEF IInv, relay, local
  <1>1. rec \in Channel
    BY DEF Shapes
  <1>2. ASSUME OpenBegin(c) PROVE SendInv'
    <2>1. PICK k : k.op = "open" /\ call' = [call EXCEPT ![c] = k]
      BY <1>2 DEF OpenBegin, Begin
    <2> QED
      BY <1>2, <2>1, OtherCall DEF OpenBegin
  <1>3. ASSUME NEW s \in Seed, RotateBegin(c, s) PROVE SendInv'
    <2>1. PICK k : k.op = "rotate" /\ call' = [call EXCEPT ![c] = k]
      BY <1>3 DEF RotateBegin, Begin
    <2> QED
      BY <1>3, <2>1, OtherCall DEF RotateBegin
  <1>4. ASSUME RetireBegin(c) PROVE SendInv'
    <2>1. PICK k : k.op = "retire" /\ call' = [call EXCEPT ![c] = k]
      BY <1>4 DEF RetireBegin, Begin
    <2> QED
      BY <1>4, <2>1, OtherCall DEF RetireBegin
  <1>5. ASSUME SubscribeBegin(c) PROVE SendInv'
    <2>1. PICK k : k.op = "drain" /\ call' = [call EXCEPT ![c] = k]
      BY <1>5 DEF SubscribeBegin, Begin
    <2> QED
      BY <1>5, <2>1, OtherCall DEF SubscribeBegin
  <1>6. ASSUME CreateQueue(c) PROVE SendInv'
    <2> DEFINE k == [call[c] EXCEPT !.at = "finish", !.queue = Len(own) + 1]
    <2>1. call[c] \in QueueCalls
      BY <1>6, AtQueueStep DEF CreateQueue
    <2>2. k.op # "send"
      BY <2>1, CreatedCall DEF Shapes, QueueCalls
    <2> HIDE DEF k
    <2>3. Go(c, k) \/ Return(c)
      BY <1>6 DEF CreateQueue, k
    <2> QED
      BY <1>6, <2>2, <2>3, OtherCall, OtherReturn DEF CreateQueue, Go
  <1>7. ASSUME RecipientKey(c) PROVE SendInv'
    <2> DEFINE k == [call[c] EXCEPT !.at = "request", !.key = rec.seed]
    <2>1. k.op # "send" /\ Go(c, k)
      BY <1>7, AtQueueStep DEF RecipientKey, QueueCalls
    <2> HIDE DEF k
    <2> QED
      BY <1>7, <2>1, OtherCall DEF RecipientKey, Go
  <1>8. ASSUME RetireQueue(c) PROVE SendInv'
    <2> DEFINE k == [call[c] EXCEPT !.at = IF call[c].op = "rotate" THEN "create" ELSE "finish"]
    <2>1. k.op # "send"
      BY <1>8, AtQueueStep DEF RetireQueue, QueueCalls
    <2> HIDE DEF k
    <2>2. Go(c, k) \/ Return(c)
      BY <1>8 DEF RetireQueue, k
    <2> QED
      BY <1>8, <2>1, <2>2, OtherCall, OtherReturn DEF RetireQueue, Go
  <1>9. ASSUME OpenFinish(c) PROVE SendInv'
    <2>1. rec'.out = rec.out
      BY <1>1, <1>9 DEF OpenFinish, Channel
    <2> QED
      BY <1>9, <2>1, OtherReturn DEF OpenFinish
  <1>10. ASSUME RotateFinish(c) PROVE SendInv'
    <2> DEFINE i == [rec EXCEPT !.inbound = call[c].queue]
    <2>1. Renewed(call[c]) = [i EXCEPT !.seed = call[c].seed]
      BY DEF Renewed
    <2>2. i = [declared |-> i.declared, retired |-> i.retired, inbound |-> i.inbound, seed |-> i.seed, out |-> i.out]
          /\ i.out = rec.out
      BY <1>1 DEF Channel
    <2> HIDE DEF i
    <2>3. Renewed(call[c]).out = rec.out
      BY <2>1, <2>2
    <2> QED
      BY <1>10, <2>3, OtherReturn DEF RotateFinish
  <1>11. ASSUME RetireFinish(c) PROVE SendInv'
    <2>1. rec'.out = rec.out
      BY <1>1, <1>11 DEF RetireFinish, Channel
    <2> QED
      BY <1>11, <2>1, OtherReturn DEF RetireFinish
  <1>12. ASSUME ReceiveFromQueue(c) PROVE SendInv'
    BY <1>12, OtherReturn DEF ReceiveFromQueue
  <1> QED
    BY <1>2, <1>3, <1>4, <1>5, <1>6, <1>7, <1>8, <1>9, <1>10, <1>11, <1>12

\* A send begins with the address in the record.
LEMMA SendBegins ==
  ASSUME IInv, SendInv, NEW c \in Caller, SendBegin(c)
  PROVE  SendInv'
  <1> USE DEF IInv
  <1> DEFINE k == [op |-> "send", at |-> "request", out |-> rec.out]
  <1>1. \A d \in Caller : call'[d] = IF d = c THEN k ELSE call[d]
    BY DEF SendBegin, Begin, Shapes
  <1>2. UNCHANGED <<theirs, attached, disk, forgotten, rec>> /\ rec.out.queue # None
    BY DEF SendBegin, local, relay
  <1>3. \A o \in Out : InUse(o)' => InUse(o)
    BY <1>1, <1>2 DEF InUse
  <1>4. Attachments'
    BY <1>2 DEF SendInv, Attachments
  <1>5. LinesFit' /\ OneSeed'
    BY <1>2, <1>3 DEF SendInv, LinesFit, LineFits, OneSeed
  <1>6. \A d \in Caller : SendFits(call[d])'
    BY <1>1, <1>2 DEF SendInv, SendFits
  <1> QED
    BY <1>4, <1>5, <1>6 DEF SendInv

LEMMA DeclareSends ==
  ASSUME IInv, SendInv, NEW s \in Seed, Declare(s) PROVE SendInv'
  <1> DEFINE r == [Undeclared EXCEPT !.declared = TRUE, !.seed = s]
             u == [Undeclared EXCEPT !.declared = TRUE]
  <1>1. r = [u EXCEPT !.seed = s]
    BY Zenon
  <1>2. Undeclared \in Channel /\ Undeclared.out = NoOutbound
    BY UndeclaredFits DEF Undeclared
  <1>3. rec' = r /\ UNCHANGED <<attached, call, relay, told, disk, forgotten, minted, bounds>>
    BY Zenon DEF Declare
  <1> HIDE DEF r
  <1>4. u \in Channel /\ u.out = NoOutbound
    BY <1>2 DEF Channel
  <1> HIDE DEF u
  <1>5. rec'.out = NoOutbound
    BY <1>1, <1>3, <1>4 DEF Channel
  <1> QED
    BY <1>3, <1>5, LinesStay DEF IInv, relay

\* What the snapshot takes over, and what a restart goes back to, was in use before.
LEMMA SnapshotSends == ASSUME IInv, SendInv, Export PROVE SendInv'
  <1> USE DEF IInv
  <1>1. UNCHANGED <<theirs, attached, rec, forgotten, call>>
        /\ disk' \in {[rec |-> rec, attached |-> attached], disk}
    BY DEF Export, local, relay
  <1>2. CASE disk' = disk
    BY <1>1, <1>2, LinesStay
  <1>3. CASE disk' = [rec |-> rec, attached |-> attached]
    <2>1. disk'.rec = rec /\ disk'.attached = attached
      BY <1>3
    <2>2. \A o \in Out : InUse(o)' => InUse(o)
      BY <1>1, <2>1 DEF InUse
    <2>3. rec.out.queue # None => rec.out.queue \in attached
      BY AreLines DEF SendInv, LinesFit, LineFits
    <2>4. Attachments'
      BY <1>1, <2>1, <2>3 DEF SendInv, Attachments
    <2>5. LinesFit' /\ OneSeed'
      BY <1>1, <2>2 DEF SendInv, LinesFit, LineFits, OneSeed
    <2>6. \A d \in Caller : SendFits(call[d])'
      BY <1>1 DEF SendInv, SendFits
    <2> QED
      BY <2>4, <2>5, <2>6 DEF SendInv
  <1> QED
    BY <1>1, <1>2, <1>3

LEMMA RestartSends == ASSUME IInv, SendInv, Import PROVE SendInv'
  <1> USE DEF IInv
  <1>1. UNCHANGED <<theirs, disk>> /\ rec' = disk.rec /\ attached' = disk.attached
        /\ forgotten' = forgotten \cup (attached \ disk.attached)
        /\ call' = [c \in Caller |-> Idle]
    BY DEF Import, relay
  <1>2. \A c \in Caller : call'[c].op # "send"
    BY <1>1 DEF Idle
  <1>3. \A o \in Out : InUse(o)' => o \in {NoOutbound, disk.rec.out} /\ InUse(o)
    BY <1>1, <1>2 DEF InUse
  <1>4. Attachments'
    BY <1>1 DEF SendInv, Attachments
  <1>5. LinesFit'
    <2> SUFFICES ASSUME NEW o \in Out, InUse(o)' PROVE LineFits(o)'
      BY DEF LinesFit
    <2>1. LineFits(o) /\ o \in {NoOutbound, disk.rec.out}
      BY <1>3 DEF SendInv, LinesFit
    <2>2. o.queue # None => o.queue \in disk.attached
      BY <2>1 DEF SendInv, Attachments, NoOutbound
    <2>3. forgotten \subseteq forgotten'
      BY <1>1
    <2> QED
      BY <1>1, <2>1, <2>2, <2>3 DEF LineFits
  <1>6. OneSeed'
    BY <1>3 DEF SendInv, OneSeed
  <1> QED
    BY <1>2, <1>4, <1>5, <1>6 DEF SendInv, SendFits

\* A queue that is attached is in use nowhere yet, and nothing is bound to it unless
\* a restart forgot it.
LEMMA AttachSends ==
  ASSUME IInv, SendInv, NEW q \in 1..MaxPeerQueues, AttachOutbound(q) PROVE SendInv'
  <1> USE DEF IInv
  <1> DEFINE new == [queue |-> q, seed |-> minted + 1, bound |-> FALSE]
  <1>1. UNCHANGED <<theirs, disk, forgotten, call>> /\ rec' = [rec EXCEPT !.out = new]
        /\ attached' = attached \cup {q} /\ q <= Len(theirs) /\ q \notin attached
    BY DEF AttachOutbound, relay, Attachable
  <1>2. q \in 1..Len(theirs) /\ q # None
    BY <1>1, TransportAssumption DEF None
  <1>3. rec'.out = new
    BY <1>1 DEF Shapes, Channel
  <1>4. new.queue = q /\ new.bound = FALSE
    OBVIOUS
  <1> HIDE DEF new
  <1>5. \A o \in Out : InUse(o)' => o = new \/ InUse(o)
    BY <1>1, <1>3 DEF InUse
  <1>6. \A o \in Out : InUse(o) => o.queue # q
    BY <1>1, <1>2 DEF SendInv, LinesFit, LineFits
  <1>7. Attachments'
    BY <1>1, <1>2 DEF SendInv, Attachments
  <1>8. LinesFit'
    <2> SUFFICES ASSUME NEW o \in Out, InUse(o)' PROVE LineFits(o)'
      BY DEF LinesFit
    <2>1. CASE o = new
      BY <1>1, <1>2, <1>4, <2>1 DEF LineFits, SendInv, Attachments
    <2>2. CASE InUse(o)
      BY <1>1, <2>2 DEF LineFits, SendInv, LinesFit
    <2> QED
      BY <1>5, <2>1, <2>2
  <1>9. OneSeed'
    BY <1>4, <1>5, <1>6 DEF SendInv, OneSeed
  <1> QED
    BY <1>1, <1>7, <1>8, <1>9 DEF SendInv, SendFits

\* The peer's queues get no other key than they had.
LEMMA PeerQueues ==
  ASSUME SendInv, PeerRotates
  PROVE  /\ theirs' \in Seq(Peer) /\ Len(theirs') = Len(theirs) + 1
         /\ \A q \in 1..Len(theirs) : theirs'[q].bound = theirs[q].bound
         /\ theirs'[Len(theirs) + 1].bound = Open
  <1> DEFINE n == Len(theirs) + 1
             entry(i) == IF i > Len(theirs) THEN [up |-> TRUE, bound |-> Open]
                         ELSE [theirs[i] EXCEPT !.up = FALSE]
  <1>1. theirs \in Seq(Peer) /\ Len(theirs) \in Nat
    BY DEF SendInv, Attachments
  <1>2. theirs' = [i \in 1..n |-> entry(i)] /\ n \in Nat
    BY <1>1 DEF PeerRotates
  <1>3. \A i \in 1..Len(theirs) : entry(i) \in Peer /\ entry(i).bound = theirs[i].bound
    <2> SUFFICES ASSUME NEW i \in 1..Len(theirs)
                 PROVE  entry(i) \in Peer /\ entry(i).bound = theirs[i].bound
      OBVIOUS
    <2>1. theirs[i] \in Peer
      BY <1>1, ElementOfSeq
    <2>2. entry(i) = [theirs[i] EXCEPT !.up = FALSE]
      BY <1>1
    <2> HIDE DEF entry
    <2> QED
      BY <2>1, <2>2 DEF Peer
  <1>4. entry(n) \in Peer /\ entry(n).bound = Open
    BY <1>1 DEF Peer, Open
  <1> HIDE DEF entry
  <1>5. \A i \in 1..n : entry(i) \in Peer
    <2>1. \A i \in 1..n : i \in 1..Len(theirs) \/ i = n
      BY <1>1
    <2> QED
      BY <1>3, <1>4, <2>1
  <1>6. theirs' \in [1..n -> Peer]
    BY <1>2, <1>5
  <1>7. theirs' \in Seq(Peer) /\ Len(theirs') = n
    BY <1>2, <1>6
  <1> QED
    BY <1>1, <1>2, <1>3, <1>4, <1>7

LEMMA PeerRotationSends == ASSUME IInv, SendInv, PeerRotates PROVE SendInv'
  <1> USE DEF IInv
  <1>1. UNCHANGED <<rec, attached, call, disk, forgotten>>
    BY DEF PeerRotates, local
  <1>2. \A o \in Out : InUse(o)' <=> InUse(o)
    BY <1>1 DEF InUse
  <1>3. Len(theirs) \in Nat /\ attached \subseteq 1..Len(theirs)
    BY DEF SendInv, Attachments
  <1>4. Attachments'
    <2>1. \A q \in 1..Len(theirs') : q \in 1..Len(theirs) \/ q = Len(theirs) + 1
      BY <1>3, PeerQueues
    <2> QED
      BY <1>1, <1>3, <2>1, PeerQueues DEF SendInv, Attachments
  <1>5. LinesFit'
    <2> SUFFICES ASSUME NEW o \in Out, InUse(o)' PROVE LineFits(o)'
      BY DEF LinesFit
    <2>1. LineFits(o)
      BY <1>2 DEF SendInv, LinesFit
    <2>2. o.queue # None => theirs'[o.queue].bound = theirs[o.queue].bound
      BY <1>3, <2>1, PeerQueues DEF LineFits
    <2> QED
      BY <1>1, <2>1, <2>2 DEF LineFits
  <1>6. OneSeed'
    BY <1>2 DEF SendInv, OneSeed
  <1>7. ASSUME NEW c \in Caller PROVE SendFits(call[c])'
    <2>1. SendFits(call[c])
      BY DEF SendInv
    <2>2. call[c].op = "send" => call[c].out \in Out /\ InUse(call[c].out)
      BY AreLines
    <2>3. call[c].op = "send" => call[c].out.queue \in 1..Len(theirs)
      BY <1>3, <2>1, <2>2 DEF SendFits, SendInv, LinesFit, LineFits
    <2> QED
      BY <1>1, <2>1, <2>3, PeerQueues DEF SendFits
  <1> QED
    BY <1>4, <1>5, <1>6, <1>7 DEF SendInv

\* The one step that gives a peer's queue a key: the key of a send under way, which is
\* the key of every address in use that names the queue.
LEMMA SendToQueueSends == ASSUME IInv, SendInv, NEW c \in Caller, SendToQueue(c) PROVE SendInv'
  <1> USE DEF IInv
  <1> DEFINE out == call[c].out
             k == [call[c] EXCEPT !.at = "mark"]
  <1>1. UNCHANGED <<rec, attached, disk, forgotten>>
    BY DEF SendToQueue, local
  <1>2. call[c] \in SendCalls /\ out \in Out /\ InUse(out) /\ call[c].op = "send"
    BY AreLines DEF SendToQueue
  <1>3. out.queue \in attached /\ LineFits(out) /\ out.queue # None /\ attached \subseteq 1..Len(theirs)
    BY <1>2 DEF SendInv, LinesFit, LineFits, SendFits, Attachments
  <1>4. k \in SendCalls /\ k.out = out /\ k.op = "send"
    BY <1>2 DEF SendCalls
  <1>5. CASE UNCHANGED theirs /\ Return(c)
    BY <1>1, <1>5, OtherReturn
  <1>6. ASSUME Takes(out), theirs' = [theirs EXCEPT ![out.queue].bound = out.seed],
               Go(c, k) \/ Return(c)
        PROVE  SendInv'
    <2> DEFINE t == [theirs[out.queue] EXCEPT !.bound = out.seed]
    <2>1. t \in Peer /\ t.bound = out.seed
      <3>1. theirs[out.queue] \in Peer
        BY <1>3, ElementOfSeq DEF SendInv, Attachments
      <3> QED
        BY <1>2, <3>1 DEF Peer, Out
    <2>2. theirs' = [theirs EXCEPT ![out.queue] = t]
      BY <1>6
    <2> HIDE DEF t
    <2>3. theirs' \in Seq(Peer) /\ Len(theirs') = Len(theirs)
          /\ \A q \in 1..Len(theirs) : theirs'[q] = IF q = out.queue THEN t ELSE theirs[q]
      <3>1. theirs \in Seq(Peer) /\ out.queue \in 1..Len(theirs)
        BY <1>3 DEF SendInv, Attachments
      <3> HIDE DEF out
      <3> QED
        BY <2>1, <2>2, <3>1, ExceptSeq
    <2>4. call' \in {[call EXCEPT ![c] = k], [call EXCEPT ![c] = Idle]}
      BY <1>6 DEF Go, Return
    <2> HIDE DEF k
    <2>5. \A d \in Caller : call'[d] = call[d] \/ (d = c /\ call'[d] \in {k, Idle})
      BY <2>4 DEF Shapes
    <2>6. \A d \in Caller : call'[d].op = "send" => call[d].op = "send" /\ call'[d].out = call[d].out
      BY <1>2, <1>4, <2>5 DEF Idle
    <2>7. \A o \in Out : InUse(o)' => InUse(o)
      BY <1>1, <2>6 DEF InUse
    <2>8. ASSUME NEW o \in Out, InUse(o)
          PROVE  LineFits(o) /\ (o.queue = out.queue => o.seed = out.seed)
                 /\ (o.queue # None => o.queue \in 1..Len(theirs))
      BY <1>2, <1>3, <2>8 DEF SendInv, LinesFit, OneSeed, LineFits
    <2>9. Attachments'
      BY <1>1, <1>3, <2>3 DEF SendInv, Attachments
    <2>10. LinesFit'
      <3> SUFFICES ASSUME NEW o \in Out, InUse(o)' PROVE LineFits(o)'
        BY DEF LinesFit
      <3>1. LineFits(o) /\ (o.queue = out.queue => o.seed = out.seed)
            /\ (o.queue # None => o.queue \in 1..Len(theirs))
        BY <2>7, <2>8
      <3> QED
        BY <1>1, <1>3, <2>1, <2>3, <3>1 DEF LineFits
    <2>11. OneSeed'
      BY <2>7 DEF SendInv, OneSeed
    <2>12. ASSUME NEW d \in Caller PROVE SendFits(call[d])'
      <3>1. CASE call'[d] = call[d]
        <4> SUFFICES ASSUME call[d].op = "send" PROVE SendFits(call[d])'
          BY <3>1 DEF SendFits
        <4>1. call[d].out \in Out /\ InUse(call[d].out) /\ SendFits(call[d])
          BY AreLines DEF SendInv
        <4>2. (call[d].out.queue = out.queue => call[d].out.seed = out.seed)
              /\ call[d].out.queue \in 1..Len(theirs)
          BY <2>8, <4>1 DEF SendFits
        <4> QED
          BY <2>1, <2>3, <3>1, <4>1, <4>2 DEF SendFits
      <3>2. CASE call'[d] = Idle
        BY <3>2 DEF SendFits, Idle
      <3>3. CASE call'[d] = k
        BY <1>3, <1>4, <2>1, <2>3, <3>3 DEF SendFits
      <3> QED
        BY <2>5, <3>1, <3>2, <3>3
    <2> QED
      BY <2>9, <2>10, <2>11, <2>12 DEF SendInv
  <1> QED
    BY <1>5, <1>6 DEF SendToQueue

\* An answer marks the address it came from, or one of the same queue: the same seed.
LEMMA MarkSends == ASSUME IInv, SendInv, NEW c \in Caller, SendMark(c) PROVE SendInv'
  <1> USE DEF IInv
  <1> DEFINE out == call[c].out
             new == [rec.out EXCEPT !.bound = TRUE]
  <1>1. UNCHANGED <<theirs, attached, disk, forgotten>> /\ Return(c)
    BY DEF SendMark, relay
  <1>2. CASE rec' = rec
    BY <1>1, <1>2, OtherReturn
  <1>3. ASSUME rec.out.queue = out.queue, rec' = [rec EXCEPT !.out.bound = TRUE] PROVE SendInv'
    <2>1. out \in Out /\ InUse(out) /\ rec.out \in Out /\ InUse(rec.out) /\ call[c].op = "send"
          /\ call[c].at = "mark"
      BY AreLines DEF SendMark
    <2>2. out.queue # None /\ theirs[out.queue].bound = out.seed
      BY <2>1 DEF SendInv, SendFits
    <2>3. rec.out.seed = out.seed
      BY <1>3, <2>1, <2>2 DEF SendInv, OneSeed
    <2>4. rec'.out = new
      BY <1>3 DEF Shapes, Channel
    <2>5. new.queue = rec.out.queue /\ new.seed = rec.out.seed
      BY <2>1 DEF Out
    <2> HIDE DEF new
    <2>6. \A d \in Caller : call'[d] \in {call[d], Idle}
      BY <1>1 DEF Return, Shapes
    <2>7. \A o \in Out : InUse(o)' => o = new \/ InUse(o)
      BY <1>1, <2>4, <2>6 DEF InUse, Idle
    <2>8. LineFits(rec.out)
      BY <2>1 DEF SendInv, LinesFit
    <2>9. LinesFit'
      <3> SUFFICES ASSUME NEW o \in Out, InUse(o)' PROVE LineFits(o)'
        BY DEF LinesFit
      <3>1. CASE o = new
        BY <1>1, <1>3, <2>2, <2>3, <2>5, <2>8, <3>1 DEF LineFits
      <3>2. CASE InUse(o)
        BY <1>1, <3>2 DEF SendInv, LinesFit, LineFits
      <3> QED
        BY <2>7, <3>1, <3>2
    <2>10. OneSeed'
      BY <2>1, <2>5, <2>7 DEF SendInv, OneSeed
    <2>11. Attachments'
      BY <1>1 DEF SendInv, Attachments
    <2>12. \A d \in Caller : SendFits(call[d])'
      BY <1>1, <2>6 DEF SendInv, SendFits, Idle
    <2> QED
      BY <2>9, <2>10, <2>11, <2>12 DEF SendInv
  <1> QED
    BY <1>2, <1>3 DEF SendMark, SameQueue

LEMMA SendNextHolds == IInv /\ SendInv /\ [Next]_vars => SendInv'
  <1> SUFFICES ASSUME IInv, SendInv, [Next]_vars PROVE SendInv'
    OBVIOUS
  <1>1. ASSUME NEW c \in Caller, Continue(c) PROVE SendInv'
    BY <1>1, QueueCallsSendNothing, SendToQueueSends, MarkSends DEF Continue
  <1>2. ASSUME NEW c \in Managers, Manage(c) PROVE SendInv'
    BY <1>2, Constants, QueueCallsSendNothing DEF Manage
  <1>3. ASSUME NEW c \in Users, SubscribeBegin(c) \/ SendBegin(c) PROVE SendInv'
    BY <1>3, Constants, QueueCallsSendNothing, SendBegins
  <1>4. CASE UNCHANGED vars
    BY <1>4, LinesStay DEF IInv, vars, local, relay
  <1> QED
    BY <1>1, <1>2, <1>3, <1>4, DeclareSends, AttachSends, SnapshotSends, RestartSends,
       PeerRotationSends DEF Next

\* A queue of the peer's that still stands takes what the channel sends, however many
\* clones send, rotate and restart, unless a restart lost the seed the queue was bound
\* with (sund_transport.rs, attach_outbound and send).
THEOREM NeverLockedOutAlways == Spec => []NeverLockedOut
  <1>1. IInv /\ SendInv => NeverLockedOut
    <2> SUFFICES ASSUME IInv, SendInv, rec.out.queue # None, theirs[rec.out.queue].up,
                        rec.out.queue \notin forgotten
                 PROVE  Takes(rec.out)
      BY DEF NeverLockedOut
    <2>1. LineFits(rec.out)
      BY AreLines DEF IInv, SendInv, LinesFit
    <2> QED
      BY <2>1 DEF LineFits, Takes, Open
  <1> QED
    BY <1>1, InitHolds, NextHolds, SendInitHolds, SendNextHolds, PTL DEF Spec

\* The transport leaves the sender key out of a send only where that very key is
\* bound, also when the answer to a send comes back after the channel was pointed
\* elsewhere (sund_transport.rs, send).
THEOREM BoundIsTrueAlways == Spec => []BoundIsTrue
  <1>1. IInv /\ SendInv => BoundIsTrue
    BY AreLines DEF IInv, SendInv, LinesFit, LineFits, BoundIsTrue
  <1> QED
    BY <1>1, InitHolds, NextHolds, SendInitHolds, SendNextHolds, PTL DEF Spec

-----------------------------------------------------------------------------
(* The addresses we gave out.  While one caller manages the channel and no  *)
(* restart went back, the queue in the record changes under its call only,  *)
(* and by the time the call replaces or leaves that queue it is retired.    *)
Managing == {"open", "rotate", "retire"}
OneManager == \A c, d \in Managers : c = d

ManageFits(k) ==
  k.op \in Managing =>
    /\ Live
    /\ k.op = "open" => rec.inbound = None
    /\ k.op # "open" /\ k.at \in {"key", "request"} => k.queue = rec.inbound
    /\ k.op # "open" /\ k.at \in {"create", "finish"} => rec.inbound = None \/ ~Up(rec.inbound)

Unbroken ==
  /\ ~rec.declared => rec.inbound = None
  /\ \A q \in told : Up(q) => q = rec.inbound /\ ~rec.retired
  /\ \A c \in Caller : ManageFits(call[c])

DrainInv ==
  /\ crashes \in Nat
  /\ told \subseteq 1..Len(own)
  /\ \A c \in Caller : call[c].op \in Managing => c \in Managers
  /\ crashes = 0 => Unbroken

LEMMA DrainInitHolds == Init => DrainInv
  BY UndeclaredFits DEF Init, DrainInv, Unbroken, ManageFits, Managing, Idle

\* One call goes on, and the queue of the record stays what it is.
LEMMA DrainStays ==
  ASSUME IInv, DrainInv, OwnGrows, OwnFalls, UNCHANGED <<told, crashes>>,
         rec'.declared = rec.declared, rec'.retired = rec.retired, rec'.inbound = rec.inbound,
         NEW c \in Caller, NEW k, call' = [call EXCEPT ![c] = k],
         k.op \in Managing => c \in Managers,
         k.op \in Managing /\ crashes = 0 =>
           /\ Live
           /\ k.op = "open" => rec.inbound = None
           /\ k.op # "open" /\ k.at \in {"key", "request"} => k.queue = rec.inbound
           /\ k.op # "open" /\ k.at \in {"create", "finish"} =>
                rec.inbound = None \/ ~own'[rec.inbound].up
  PROVE  DrainInv'
  <1>1. \A d \in Caller : call'[d] = IF d = c THEN k ELSE call[d]
    BY DEF IInv, Shapes
  <1>2. Len(own) \in Nat /\ Len(own') \in Nat /\ Len(own) <= Len(own')
    BY DEF IInv, Shapes, OwnGrows
  <1>3. told' \subseteq 1..Len(own') /\ told \subseteq 1..Len(own)
    BY <1>2 DEF DrainInv
  <1>4. rec.inbound = None \/ rec.inbound \in 1..Len(own)
    BY DEF IInv, RecordFits, MadeFor
  <1>5. ASSUME crashes = 0 PROVE Unbroken'
    <2>1. \A q \in told' : Up(q)' => q = rec'.inbound /\ ~rec'.retired
      BY <1>3, <1>5 DEF DrainInv, Unbroken, Up, OwnFalls
    <2>2. ASSUME NEW d \in Caller PROVE ManageFits(call[d])'
      <3>1. CASE d = c
        BY <1>1, <1>5, <3>1 DEF ManageFits, Live, Up
      <3>2. CASE d # c
        <4>1. ManageFits(call[d]) /\ call'[d] = call[d]
          BY <1>1, <1>5, <3>2 DEF DrainInv, Unbroken
        <4> QED
          BY <1>4, <4>1 DEF ManageFits, Live, Up, OwnFalls
      <3> QED
        BY <3>1, <3>2
    <2> QED
      BY <1>5, <2>1, <2>2 DEF DrainInv, Unbroken
  <1>6. \A d \in Caller : call'[d].op \in Managing => d \in Managers
    BY <1>1 DEF DrainInv
  <1> QED
    BY <1>3, <1>5, <1>6 DEF DrainInv

LEMMA DrainReturns ==
  ASSUME IInv, DrainInv, OwnGrows, OwnFalls, UNCHANGED <<told, crashes>>,
         rec'.declared = rec.declared, rec'.retired = rec.retired, rec'.inbound = rec.inbound,
         NEW c \in Caller, Return(c)
  PROVE  DrainInv'
  <1>1. Idle.op \notin Managing
    BY DEF Idle, Managing
  <1> QED
    BY <1>1, DrainStays DEF Return

\* Calls that begin: a manager's looks at the queue there is.
LEMMA DrainBegins ==
  ASSUME IInv, DrainInv, NEW c \in Caller,
         \/ /\ c \in Managers
            /\ OpenBegin(c) \/ (\E s \in Seed : RotateBegin(c, s)) \/ RetireBegin(c)
         \/ SubscribeBegin(c) \/ SendBegin(c)
  PROVE  DrainInv'
  <1> USE DEF IInv
  <1>1. OwnGrows /\ OwnFalls /\ UNCHANGED <<rec, told, crashes>> /\ Live
    BY OwnStays DEF OpenBegin, RotateBegin, RetireBegin, SubscribeBegin, SendBegin, Begin,
                    local, relay, bounds
  <1>2. CASE c \in Managers /\ OpenBegin(c)
    <2>1. PICK k : /\ k = [op |-> "open", at |-> "create", queue |-> None, key |-> rec.seed,
                           seed |-> rec.seed]
                   /\ call' = [call EXCEPT ![c] = k]
      BY <1>2 DEF OpenBegin, Begin
    <2>2. rec.inbound = None /\ k.op = "open"
      BY <1>2, <2>1 DEF OpenBegin
    <2> QED
      BY <1>1, <1>2, <2>1, <2>2, DrainStays
  <1>3. ASSUME NEW s \in Seed, c \in Managers, RotateBegin(c, s) PROVE DrainInv'
    <2>1. PICK k : /\ k = [op |-> "rotate", at |-> FirstStep("create"), queue |-> rec.inbound,
                           key |-> rec.seed, seed |-> s]
                   /\ call' = [call EXCEPT ![c] = k]
      BY <1>3 DEF RotateBegin, Begin
    <2>2. k.op = "rotate" /\ k.queue = rec.inbound
          /\ k.at = IF rec.inbound = None THEN "create" ELSE "key"
      BY <2>1 DEF FirstStep
    <2> QED
      BY <1>1, <1>3, <2>1, <2>2, DrainStays
  <1>4. CASE c \in Managers /\ RetireBegin(c)
    <2>1. PICK k : /\ k = [op |-> "retire", at |-> FirstStep("finish"), queue |-> rec.inbound,
                           key |-> rec.seed, seed |-> rec.seed]
                   /\ call' = [call EXCEPT ![c] = k]
      BY <1>4 DEF RetireBegin, Begin
    <2>2. k.op = "retire" /\ k.queue = rec.inbound
          /\ k.at = IF rec.inbound = None THEN "finish" ELSE "key"
      BY <2>1 DEF FirstStep
    <2> QED
      BY <1>1, <1>4, <2>1, <2>2, DrainStays
  <1>5. CASE SubscribeBegin(c)
    <2>1. PICK k : k.op = "drain" /\ call' = [call EXCEPT ![c] = k]
      BY <1>5 DEF SubscribeBegin, Begin
    <2> QED
      BY <1>1, <2>1, DrainStays DEF Managing
  <1>6. CASE SendBegin(c)
    <2>1. PICK k : k.op = "send" /\ call' = [call EXCEPT ![c] = k]
      BY <1>6 DEF SendBegin, Begin
    <2> QED
      BY <1>1, <2>1, DrainStays DEF Managing
  <1> QED
    BY <1>2, <1>3, <1>4, <1>5, <1>6

\* The queue a call made is given out to nobody yet.
LEMMA DrainCreates == ASSUME IInv, DrainInv, NEW c \in Caller, CreateQueue(c) PROVE DrainInv'
  <1> USE DEF IInv
  <1> DEFINE new == Append(own, [key |-> call[c].seed, up |-> TRUE])
             k == [call[c] EXCEPT !.at = "finish", !.queue = Len(own) + 1]
  <1>1. call[c] \in QueueCalls /\ call[c].at = "create"
    BY AtQueueStep DEF CreateQueue
  <1>2. UNCHANGED <<rec, told, crashes>>
    BY DEF CreateQueue, local
  <1>3. own' \in {own, new}
    BY DEF CreateQueue
  <1>4. OwnGrows /\ OwnFalls
    <2>1. own \in Seq([key : Seed, up : BOOLEAN]) /\ call[c].seed \in Seed
      BY <1>1 DEF Shapes, QueueCalls
    <2>2. CASE own' = new
      BY <2>1, <2>2 DEF OwnGrows, OwnFalls
    <2> QED
      BY <1>3, <2>2, OwnStays
  <1>5. k.op = call[c].op /\ k.at = "finish"
    <2>1. Len(own) + 1 \in Nat
      BY DEF Shapes
    <2> QED
      BY <1>1, <2>1, CreatedCall, Zenon
  <1>6. rec.inbound = None \/ rec.inbound \in 1..Len(own)
    BY DEF RecordFits, MadeFor
  <1>7. CASE Go(c, k)
    <2> HIDE DEF k
    <2>1. k.op \in Managing => c \in Managers
      BY <1>5 DEF DrainInv
    <2>2. k.op \in Managing /\ crashes = 0 =>
            /\ Live
            /\ k.op = "open" => rec.inbound = None
            /\ k.op # "open" => rec.inbound = None \/ ~Up(rec.inbound)
      BY <1>1, <1>5 DEF DrainInv, Unbroken, ManageFits
    <2> QED
      BY <1>2, <1>4, <1>5, <1>6, <1>7, <2>1, <2>2, DrainStays DEF Go, OwnFalls, Up
  <1>8. CASE Return(c)
    BY <1>2, <1>4, <1>8, DrainReturns
  <1> QED
    BY <1>7, <1>8 DEF CreateQueue

LEMMA DrainReads == ASSUME IInv, DrainInv, NEW c \in Caller, RecipientKey(c) PROVE DrainInv'
  <1> USE DEF IInv
  <1> DEFINE k == [call[c] EXCEPT !.at = "request", !.key = rec.seed]
  <1>1. call[c] \in QueueCalls /\ call[c].at = "key"
    BY AtQueueStep DEF RecipientKey
  <1>2. UNCHANGED <<rec, told, crashes>> /\ OwnGrows /\ OwnFalls
    BY OwnStays DEF RecipientKey, local, relay, bounds
  <1>3. k.op = call[c].op /\ k.at = "request" /\ k.queue = call[c].queue /\ call' = [call EXCEPT ![c] = k]
    BY <1>1 DEF QueueCalls, RecipientKey, Go
  <1> HIDE DEF k
  <1>4. k.op \in Managing => c \in Managers
    BY <1>3 DEF DrainInv
  <1>5. k.op \in Managing /\ crashes = 0 =>
          /\ Live
          /\ k.op = "open" => rec.inbound = None
          /\ k.op # "open" => k.queue = rec.inbound
    BY <1>1, <1>3 DEF DrainInv, Unbroken, ManageFits
  <1> QED
    BY <1>2, <1>3, <1>4, <1>5, DrainStays

\* The request goes to the queue of the record, and the call goes on when that is gone.
LEMMA DrainRetires == ASSUME IInv, DrainInv, NEW c \in Caller, RetireQueue(c) PROVE DrainInv'
  <1> USE DEF IInv
  <1> DEFINE q == call[c].queue
             at == IF call[c].op = "rotate" THEN "create" ELSE "finish"
             k == [call[c] EXCEPT !.at = at]
  <1>1. call[c] \in QueueCalls /\ call[c].at = "request" /\ call[c].op \in {"rotate", "retire"}
    BY AtQueueStep DEF RetireQueue
  <1>2. UNCHANGED <<rec, told, crashes>>
    BY DEF RetireQueue, local
  <1>3. OwnGrows /\ OwnFalls
    <2>1. CASE own' = [own EXCEPT ![q].up = FALSE]
      BY <2>1, Falls
    <2>2. CASE UNCHANGED own
      BY <2>2, OwnStays
    <2> QED
      BY <2>1, <2>2 DEF RetireQueue
  <1>4. rec.inbound = None \/ rec.inbound \in 1..Len(own)
    BY DEF RecordFits, MadeFor
  <1>5. ASSUME Go(c, k), q \in 1..Len(own) => ~own'[q].up PROVE DrainInv'
    <2>1. k.op = call[c].op /\ k.at = at
      BY <1>1 DEF QueueCalls
    <2> HIDE DEF k, at, q
    <2>2. k.op \in Managing => c \in Managers
      BY <2>1 DEF DrainInv
    <2>3. k.op \in Managing /\ crashes = 0 =>
            /\ Live
            /\ rec.inbound = None \/ ~own'[rec.inbound].up
      BY <1>1, <1>4, <1>5, <2>1 DEF DrainInv, Unbroken, ManageFits, q
    <2>4. k.op # "open" /\ k.at \notin {"key", "request"}
      BY <1>1, <2>1 DEF at
    <2> QED
      BY <1>2, <1>3, <1>5, <2>2, <2>3, <2>4, DrainStays DEF Go
  <1>6. CASE Return(c)
    BY <1>2, <1>3, <1>6, DrainReturns
  <1>7. ASSUME own' = [own EXCEPT ![q].up = FALSE], Go(c, k) PROVE DrainInv'
    BY <1>5, <1>7, Falls
  <1>8. ASSUME UNCHANGED own, GoesOn(q), Go(c, k) PROVE DrainInv'
    BY <1>5, <1>8 DEF GoesOn, Up
  <1> QED
    BY <1>6, <1>7, <1>8 DEF RetireQueue

\* The one call that manages the channel ends: whatever the record comes to, no other
\* call has looked at it.
LEMMA DrainEnds ==
  ASSUME OneManager, IInv, IInv', DrainInv, NEW c \in Caller, call[c].op \in Managing,
         Return(c), UNCHANGED <<own, crashes>>,
         rec.declared = rec'.declared,
         told' \subseteq 1..Len(own),
         crashes = 0 => \A q \in told' : Up(q) => q = rec'.inbound /\ ~rec'.retired
  PROVE  DrainInv'
  <1>1. \A d \in Caller : call'[d] = IF d = c THEN Idle ELSE call[d]
    BY DEF IInv, Shapes, Return
  <1>2. \A d \in Caller : call'[d].op \notin Managing
    <2>1. Idle.op \notin Managing
      BY DEF Idle, Managing
    <2>2. \A d \in Caller : call[d].op \in Managing => d = c
      BY DEF DrainInv, OneManager
    <2> QED
      BY <1>1, <2>1, <2>2
  <1>3. call[c] # Idle => rec.declared
    BY DEF IInv, CallsFit, CallFits
  <1>4. rec.declared
    BY <1>3 DEF Idle, Managing
  <1>5. crashes = 0 => Unbroken'
    BY <1>2, <1>4 DEF Unbroken, ManageFits, Up
  <1> QED
    BY <1>2, <1>5 DEF DrainInv

LEMMA DrainOpened ==
  ASSUME OneManager, IInv, IInv', DrainInv, NEW c \in Caller, OpenFinish(c) PROVE DrainInv'
  <1>1. call[c].op = "open" /\ call[c].op \in Managing /\ Return(c) /\ UNCHANGED <<own, crashes>>
        /\ told' = told \cup ({rec'.inbound} \ {None})
    BY DEF OpenFinish, Managing, relay, bounds
  <1>2. told' \subseteq 1..Len(own)
    BY <1>1 DEF IInv, RecordFits, MadeFor, DrainInv
  <1>3. rec'.declared = rec.declared /\ (rec' = rec \/ rec'.retired = rec.retired)
    BY DEF OpenFinish, IInv, Shapes, Channel
  <1>4. ASSUME crashes = 0 PROVE \A q \in told' : Up(q) => q = rec'.inbound /\ ~rec'.retired
    <2>1. Unbroken /\ Live /\ rec.inbound = None
      BY <1>1, <1>4 DEF DrainInv, Unbroken, ManageFits
    <2>2. \A q \in told : ~Up(q)
      BY <2>1 DEF DrainInv, Unbroken, None
    <2> QED
      BY <1>1, <1>3, <2>1, <2>2 DEF Live
  <1> QED
    BY <1>1, <1>2, <1>3, <1>4, DrainEnds

LEMMA DrainRotated ==
  ASSUME OneManager, IInv, IInv', DrainInv, NEW c \in Caller, RotateFinish(c) PROVE DrainInv'
  <1>1. call[c].op = "rotate" /\ call[c].op \in Managing /\ Return(c) /\ UNCHANGED <<own, crashes>>
        /\ call[c].at = "finish"
    BY DEF RotateFinish, Managing, relay, bounds
  <1>2. call[c].queue \in 1..Len(own)
    BY <1>1 DEF IInv, CallsFit, CallFits, MadeFor
  <1>3. \/ rec' = rec /\ told' = told
        \/ /\ rec'.inbound = call[c].queue /\ rec'.retired = rec.retired
           /\ rec'.declared = rec.declared /\ told' = told \cup {call[c].queue} /\ Live
    <2>1. CASE Live
      <3> DEFINE i == [rec EXCEPT !.inbound = call[c].queue]
      <3>1. i.inbound = call[c].queue /\ i.retired = rec.retired /\ i.declared = rec.declared
            /\ i = [declared |-> i.declared, retired |-> i.retired, inbound |-> i.inbound,
                    seed |-> i.seed, out |-> i.out]
        BY DEF IInv, Shapes, Channel
      <3>2. rec' = [i EXCEPT !.seed = call[c].seed] /\ told' = told \cup {call[c].queue}
        BY <2>1 DEF RotateFinish, Renewed
      <3> HIDE DEF i
      <3> QED
        BY <2>1, <3>1, <3>2
    <2>2. CASE ~Live
      BY <2>2 DEF RotateFinish
    <2> QED
      BY <2>1, <2>2
  <1>4. told' \subseteq 1..Len(own)
    BY <1>2, <1>3 DEF DrainInv
  <1>5. ASSUME crashes = 0 PROVE \A q \in told' : Up(q) => q = rec'.inbound /\ ~rec'.retired
    <2>1. Unbroken /\ Live /\ (rec.inbound = None \/ ~Up(rec.inbound))
      BY <1>1, <1>5 DEF DrainInv, Unbroken, ManageFits
    <2>2. \A q \in told : ~Up(q)
      BY <2>1 DEF DrainInv, Unbroken, None
    <2> QED
      BY <1>3, <2>1, <2>2 DEF Live
  <1> QED
    BY <1>1, <1>3, <1>4, <1>5, DrainEnds

LEMMA DrainRetired ==
  ASSUME OneManager, IInv, IInv', DrainInv, NEW c \in Caller, RetireFinish(c) PROVE DrainInv'
  <1>1. call[c].op = "retire" /\ call[c].op \in Managing /\ Return(c)
        /\ UNCHANGED <<own, crashes, told>> /\ call[c].at = "finish"
        /\ rec' = [rec EXCEPT !.retired = TRUE]
    BY DEF RetireFinish, Managing, relay, bounds
  <1>2. rec'.declared = rec.declared
    BY <1>1 DEF IInv, Shapes, Channel
  <1>3. ASSUME crashes = 0 PROVE \A q \in told' : ~Up(q)
    <2>1. Unbroken /\ (rec.inbound = None \/ ~Up(rec.inbound))
      BY <1>1, <1>3 DEF DrainInv, Unbroken, ManageFits
    <2> QED
      BY <1>1, <2>1 DEF DrainInv, Unbroken, None
  <1>4. told' \subseteq 1..Len(own)
    BY <1>1 DEF DrainInv
  <1> QED
    BY <1>1, <1>2, <1>3, <1>4, DrainEnds

\* What does not look at the queue of the record.
LEMMA DrainElsewhere ==
  ASSUME IInv, DrainInv, NEW c \in Caller,
         ReceiveFromQueue(c) \/ SendToQueue(c) \/ SendMark(c)
  PROVE  DrainInv'
  <1> USE DEF IInv
  <1>1. UNCHANGED <<own, told, crashes>> /\ OwnGrows /\ OwnFalls
    BY OwnStays DEF ReceiveFromQueue, SendToQueue, SendMark, local, relay, bounds
  <1>2. rec'.declared = rec.declared /\ rec'.retired = rec.retired /\ rec'.inbound = rec.inbound
    <2>1. CASE rec' = rec
      BY <2>1
    <2>2. CASE SendMark(c) /\ rec' # rec
      <3> DEFINE o == [rec.out EXCEPT !.bound = TRUE]
      <3>1. rec' = [rec EXCEPT !.out = o]
        BY <2>2 DEF SendMark
      <3> HIDE DEF o
      <3> QED
        BY <3>1 DEF Shapes, Channel
    <2> QED
      BY <2>1, <2>2 DEF ReceiveFromQueue, SendToQueue, local
  <1>3. CASE Return(c)
    BY <1>1, <1>2, <1>3, DrainReturns
  <1>4. ASSUME SendToQueue(c), Go(c, [call[c] EXCEPT !.at = "mark"]) PROVE DrainInv'
    <2> DEFINE k == [call[c] EXCEPT !.at = "mark"]
    <2>1. k.op = "send"
      BY <1>4, AreLines DEF SendToQueue, SendCalls
    <2> HIDE DEF k
    <2>2. call' = [call EXCEPT ![c] = k]
      BY <1>4 DEF Go, k
    <2> QED
      BY <1>1, <1>2, <2>1, <2>2, DrainStays DEF Managing
  <1> QED
    BY <1>3, <1>4 DEF ReceiveFromQueue, SendToQueue, SendMark

LEMMA DrainApart ==
  ASSUME IInv, DrainInv,
         \/ \E q \in 1..MaxPeerQueues : AttachOutbound(q)
         \/ Export \/ Import \/ PeerRotates \/ UNCHANGED vars
         \/ \E s \in Seed : Declare(s)
  PROVE  DrainInv'
  <1> USE DEF IInv
  <1>1. ASSUME UNCHANGED <<call, own, told, crashes>>, rec'.declared = rec.declared,
               rec'.retired = rec.retired, rec'.inbound = rec.inbound
        PROVE  DrainInv'
    BY <1>1 DEF DrainInv, Unbroken, ManageFits, Live, Up
  <1>2. ASSUME NEW q \in 1..MaxPeerQueues, AttachOutbound(q) PROVE DrainInv'
    <2> DEFINE o == [queue |-> q, seed |-> minted + 1, bound |-> FALSE]
    <2>1. UNCHANGED <<call, own, told, crashes>> /\ rec' = [rec EXCEPT !.out = o]
      BY <1>2 DEF AttachOutbound, relay, bounds
    <2> HIDE DEF o
    <2> QED
      BY <1>1, <2>1 DEF Shapes, Channel
  <1>3. CASE Export \/ PeerRotates \/ UNCHANGED vars
    BY <1>1, <1>3 DEF Export, PeerRotates, vars, local, relay, bounds
  <1>4. CASE Import
    <2>1. UNCHANGED <<own, told>> /\ crashes' = crashes + 1 /\ call' = [c \in Caller |-> Idle]
      BY <1>4 DEF Import, relay
    <2>2. crashes' \in Nat /\ crashes' # 0
      BY <2>1 DEF DrainInv
    <2> QED
      BY <2>1, <2>2 DEF DrainInv, Managing, Idle
  <1>5. ASSUME NEW s \in Seed, Declare(s) PROVE DrainInv'
    <2> DEFINE u == [Undeclared EXCEPT !.declared = TRUE]
               r == [u EXCEPT !.seed = s]
    <2>1. rec' = r /\ ~rec.declared
          /\ UNCHANGED <<attached, call, relay, told, disk, forgotten, minted, bounds>>
      BY <1>5, Zenon DEF Declare
    <2>2. u \in Channel /\ u.declared /\ u.inbound = None
      BY UndeclaredFits DEF Channel
    <2> HIDE DEF u
    <2>3. r.declared /\ r.inbound = None
      BY <2>2 DEF Channel
    <2> HIDE DEF r
    <2>4. \A c \in Caller : call[c] = Idle
      BY <2>1 DEF CallsFit, CallFits
    <2>5. crashes = 0 => \A q \in told : ~Up(q)
      BY <2>1 DEF DrainInv, Unbroken, None
    <2>6. UNCHANGED <<own, told, call, crashes>> /\ rec'.declared
      BY <2>1, <2>3 DEF relay, bounds
    <2> QED
      BY <2>4, <2>5, <2>6 DEF DrainInv, Unbroken, ManageFits, Managing, Idle, Up
  <1> QED
    BY <1>2, <1>3, <1>4, <1>5

LEMMA DrainNextHolds == ASSUME OneManager PROVE IInv /\ IInv' /\ DrainInv /\ [Next]_vars => DrainInv'
  <1> SUFFICES ASSUME IInv, IInv', DrainInv, [Next]_vars PROVE DrainInv'
    OBVIOUS
  <1>1. ASSUME NEW c \in Caller, Continue(c) PROVE DrainInv'
    BY <1>1, DrainCreates, DrainReads, DrainRetires, DrainOpened, DrainRotated, DrainRetired,
       DrainElsewhere DEF Continue
  <1>2. ASSUME NEW c \in Managers, Manage(c) PROVE DrainInv'
    BY <1>2, Constants, DrainBegins DEF Manage
  <1>3. ASSUME NEW c \in Users, SubscribeBegin(c) \/ SendBegin(c) PROVE DrainInv'
    BY <1>3, Constants, DrainBegins
  <1> QED
    BY <1>1, <1>2, <1>3, DrainApart DEF Next

\* With one caller that manages the channel, and until a restart goes back to an older
\* record, an address the peer was given that still takes messages is the one this
\* device drains, and a retired channel leaves none, whichever requests fail or lose
\* their answer (sund_transport.rs, open, rotate_inbound and retire).
THEOREM AddressIsDrainedAlways ==
  ASSUME \A c, d \in Managers : c = d
  PROVE  Spec => []AddressIsDrained
  <1>1. OneManager
    BY DEF OneManager
  <1>2. DrainInv => AddressIsDrained
    BY DEF DrainInv, Unbroken, AddressIsDrained
  <1>3. IInv /\ DrainInv /\ [Next]_vars => DrainInv'
    BY <1>1, NextHolds, DrainNextHolds
  <1> QED
    BY <1>2, <1>3, InitHolds, NextHolds, DrainInitHolds, PTL DEF Spec

=============================================================================
