---------------------------- MODULE SessionProofs ----------------------------
(***************************************************************************)
(* Proofs about Session, for any number of frames and of troubles.         *)
(*                                                                         *)
(* A restart brings back what was written down at some earlier time, so    *)
(* each invariant says of the snapshot what it says of the memory.  The     *)
(* second half, from TwoEnds on, is about two ends of which one starts.     *)
(***************************************************************************)
EXTENDS Session, SequenceTheorems, TLAPS

-----------------------------------------------------------------------------
(* What is told apart: a session, the keys of a peer, and nothing.         *)
LEMMA OtherIsOther ==
  ASSUME NEW e \in End
  PROVE  Other(e) \in End /\ Other(e) # e
BY SessionAssumption DEF Other

LEMMA NoChain == None.id = <<>> /\ \A c \in Chain : c # None.id
BY DEF None, Chain

Live == [id : Chain, chain : Chain \cup {None.id}, next : Nat, got : SUBSET (Chain \X Nat),
         last : Chain \cup {None.id}, to : Key, fallback : Nat]

\* A session with one thing changed.
LEMMA OneField ==
  ASSUME NEW s \in Live
  PROVE  /\ \A c \in Chain \cup {None.id} :
              LET t == [s EXCEPT !.chain = c] IN
              t \in Live /\ t.chain = c /\ t.id = s.id /\ t.got = s.got /\ t.to = s.to
                /\ t.next = s.next /\ t.last = s.last
         /\ \A n \in Nat :
              LET t == [s EXCEPT !.next = n] IN
              t \in Live /\ t.chain = s.chain /\ t.id = s.id /\ t.got = s.got /\ t.to = s.to
                /\ t.last = s.last
         /\ \A g \in SUBSET (Chain \X Nat) :
              LET t == [s EXCEPT !.got = g] IN
              t \in Live /\ t.chain = s.chain /\ t.id = s.id /\ t.got = g /\ t.to = s.to
                /\ t.last = s.last
         /\ \A c \in Chain :
              LET t == [s EXCEPT !.last = c] IN
              t \in Live /\ t.chain = s.chain /\ t.id = s.id /\ t.got = s.got /\ t.to = s.to
                /\ t.last = c
BY DEF Live

LEMMA LiveIsSome == \A s \in Live : s # None
BY NoChain DEF Live

LEMMA KeysAreSome == \A k \in Keys : k \notin {None, Forgotten}
<1> SUFFICES ASSUME NEW k \in Keys PROVE k # None /\ k # Forgotten
  OBVIOUS
<1>1. k # Forgotten
  BY DEF Keys, Key, Forgotten, NoKey
<1>2. k # None
  <2>1. DOMAIN k = {"curve", "fallback"} /\ DOMAIN None = {"id"}
    BY DEF Keys, None
  <2> QED BY <2>1
<1> QED BY <1>1, <1>2

-----------------------------------------------------------------------------
(* What each operator makes of what it is given.                           *)
Memories ==
  /\ account \in [End -> Account]
  /\ peer \in [End -> Keys \cup {None, Forgotten}]
  /\ session \in [End -> Sessions]
  /\ opened \in [End -> SUBSET Opened]

Rest ==
  /\ disk \in [End -> Snapshot]
  /\ dirty \subseteq End
  /\ served \in [End -> Keys]
  /\ failed \in [End -> Nat]
  /\ queue \in [End -> Seq(Frames)]
  /\ inbox \in [End -> Seq(Frames)]
  /\ minted \in [End -> Key]
  /\ sealed \in [End -> 0..MaxSealed]
  /\ troubles \in 0..MaxTroubles
  /\ \A e \in End : failed[e] <= troubles
  /\ astray \subseteq {"rollback", "restart"}

Shapes == Memories /\ Rest

\* The end that established a session is the one that has not heard in it yet.
Starts(e, s) == s # None /\ s.got = {} => s.id[1] = e
StartersTrue == \A e \in End : Starts(e, session[e]) /\ Starts(e, disk[e].session)

LEMMA KeyNumbers == Key = {n \in Nat : n # 0} /\ \A n \in Key : n \in Nat /\ n + 1 \in Key
BY DEF Key, NoKey

LEMMA EstablishedShape ==
  ASSUME Shapes, NEW e \in End, Known(e)
  PROVE  /\ Established(e) \in Live
         /\ Established(e).to = peer[e].curve
         /\ Established(e).id[1] = e
<1>1. peer[e] \in Keys /\ minted[e] + 1 \in Key
  BY KeyNumbers DEF Shapes, Memories, Rest, Known
<1>2. peer[e].curve \in Key /\ peer[e].fallback \in Nat
  BY <1>1 DEF Keys, Key
<1>3. <<e, minted[e] + 1>> \in Chain
  BY <1>1 DEF Chain
<1> QED
  BY <1>2, <1>3 DEF Established, Live

\* The session that a frame is sealed in is with the peer that the one before was with.
LEMMA SendingShape ==
  ASSUME Shapes, NEW e \in End, Known(e)
  PROVE  LET s == Sending(e) IN
         /\ s \in Live /\ s.chain \in Chain
         /\ session[e] = None => s.to = peer[e].curve /\ s.id[1] = e /\ s = Established(e)
         /\ session[e] # None => /\ s.to = session[e].to /\ s.id = session[e].id
                                /\ s.got = session[e].got /\ s.last = session[e].last
                                /\ s.chain \in {session[e].chain, <<e, minted[e] + 1>>}
<1> DEFINE s == session[e]
<1>1. s \in Live \cup {None} /\ <<e, minted[e] + 1>> \in Chain
  BY KeyNumbers DEF Shapes, Memories, Rest, Sessions, Live, Chain
<1>2. CASE s = None
  <2>1. Sending(e) = Established(e)
    BY <1>2 DEF Sending
  <2>2. Established(e).chain \in Chain
    BY <1>1 DEF Established
  <2> QED
    BY <1>2, <2>1, <2>2, EstablishedShape
<1>3. CASE s # None /\ s.chain # None.id
  BY <1>1, <1>3 DEF Sending, Live
<1>4. CASE s # None /\ s.chain = None.id
  <2>1. Sending(e) = [s EXCEPT !.chain = <<e, minted[e] + 1>>, !.next = 0]
    BY <1>4 DEF Sending
  <2>2. s \in Live
    BY <1>1, <1>4
  <2> HIDE DEF s
  <2>3. /\ Sending(e) \in Live /\ Sending(e).chain = <<e, minted[e] + 1>>
        /\ Sending(e).to = s.to /\ Sending(e).id = s.id /\ Sending(e).got = s.got
        /\ Sending(e).last = s.last
    <3> DEFINE t == [s EXCEPT !.chain = <<e, minted[e] + 1>>]
    <3>1. /\ t \in Live /\ t.chain = <<e, minted[e] + 1>> /\ t.id = s.id
          /\ t.got = s.got /\ t.to = s.to /\ t.last = s.last
      BY <1>1, <2>2, OneField
    <3>2. Sending(e) = [t EXCEPT !.next = 0]
      BY <2>1
    <3> HIDE DEF t
    <3> QED
      BY <3>1, <3>2, OneField
  <2> QED
    BY <1>1, <1>4, <2>3 DEF s
<1> QED
  BY <1>2, <1>3, <1>4

\* A frame shows the session it is sealed in.
LEMMA FrameShape ==
  ASSUME Shapes, NEW e \in End, NEW s \in Live, s.chain \in Chain
  PROVE  LET f == Frame(e, s) IN
         /\ f \in Frames
         /\ f.id = s.id /\ f.chain = s.chain /\ f.parent = s.last /\ f.from = account[e].curve
         /\ s.got # {} => ~f.prekey
<1>1. /\ account[e].curve \in Key /\ <<e, sealed[e] + 1>> \in Chain
      /\ {o.id : o \in opened[e]} \in SUBSET Chain
  <2>1. account[e] \in Account /\ sealed[e] \in Nat /\ opened[e] \in SUBSET Opened
    BY DEF Shapes, Memories, Rest
  <2> QED
    BY <2>1 DEF Account, Opened, Chain, Key, NoKey
<1>2. /\ s.id \in Chain /\ s.to \in Key /\ s.fallback \in Nat /\ s.next \in Nat
      /\ s.last \in Chain \cup {None.id}
  BY DEF Live
<1>3. PICK early \in BOOLEAN : early = ~Heard(s)
  OBVIOUS
<1>4. Frame(e, s) = [no |-> <<e, sealed[e] + 1>>, id |-> s.id, prekey |-> early,
                     from |-> account[e].curve, to |-> s.to, fallback |-> s.fallback,
                     chain |-> s.chain, parent |-> s.last, place |-> s.next,
                     knew |-> {o.id : o \in opened[e]}]
  BY <1>3, Zenon DEF Frame
<1>5. s.got # {} => early = FALSE
  BY <1>3, LiveIsSome DEF Heard
<1>6. Frame(e, s) \in Frames
  BY <1>1, <1>2, <1>4 DEF Frames
<1> QED
  BY <1>4, <1>5, <1>6

\* Opening a frame leaves a session what it is, but for what was heard and what follows.
LEMMA AdvancedShape ==
  ASSUME NEW s \in Live, NEW f \in Frames
  PROVE  /\ Advanced(s, f) \in Live
         /\ Advanced(s, f).to = s.to /\ Advanced(s, f).id = s.id
         /\ Advanced(s, f).got = s.got \cup {<<f.chain, f.place>>}
         /\ Follows(s, f) => Advanced(s, f).chain = s.chain /\ Advanced(s, f).last = s.last
         /\ ~Follows(s, f) => Advanced(s, f).chain = None.id /\ Advanced(s, f).last = f.chain
<1> DEFINE g == s.got \cup {<<f.chain, f.place>>}
           heard == [s EXCEPT !.got = g]
           ended == [heard EXCEPT !.chain = None.id]
           moved == [ended EXCEPT !.last = f.chain]
<1>1. g \in SUBSET (Chain \X Nat) /\ f.chain \in Chain
  BY DEF Live, Frames
<1>2. Advanced(s, f) = IF Follows(s, f) THEN heard ELSE moved
  BY DEF Advanced
<1>3. /\ heard \in Live /\ heard.to = s.to /\ heard.id = s.id /\ heard.got = g
      /\ heard.chain = s.chain /\ heard.last = s.last
  <2> HIDE DEF g
  <2> QED BY <1>1, OneField
<1> HIDE DEF heard
<1>4. /\ ended \in Live /\ ended.to = s.to /\ ended.id = s.id /\ ended.got = g /\ ended.chain = None.id
  BY <1>3, OneField
<1> HIDE DEF ended
<1>5. /\ moved \in Live /\ moved.to = s.to /\ moved.id = s.id /\ moved.got = g
      /\ moved.chain = None.id /\ moved.last = f.chain
  BY <1>1, <1>4, OneField
<1> QED
  BY <1>2, <1>3, <1>5

LEMMA InboundShape ==
  ASSUME NEW f \in Frames
  PROVE  /\ Inbound(f) \in Live
         /\ Inbound(f).to = f.from /\ Inbound(f).id = f.id
         /\ Inbound(f).got # {}
<1>1. f.id \in Chain /\ f.chain \in Chain /\ f.from \in Key /\ <<f.chain, f.place>> \in Chain \X Nat
  BY DEF Frames
<1>2. NoKey \in Nat
  BY DEF NoKey
<1> QED
  BY <1>1, <1>2 DEF Inbound, Live

\* What is left of a sequence after an element has been removed was in it.
LEMMA RemoveKeeps ==
  ASSUME NEW S, NEW s \in Seq(S), NEW i \in DOMAIN s
  PROVE  RemoveAt(s, i) \in Seq(S)
<1> DEFINE before == SubSeq(s, 1, i - 1)
           after == SubSeq(s, i + 1, Len(s))
<1>1. /\ i \in 1..Len(s) /\ Len(s) \in Nat
      /\ \A j \in 1..Len(s) : s[j] \in S
  BY LenProperties, ElementOfSeq
<1>2. before \in Seq(S) /\ after \in Seq(S)
  BY <1>1, SubSeqProperties
<1>3. before \o after \in Seq(S)
  <2> HIDE DEF before, after
  <2> QED BY <1>2, ConcatProperties
<1> QED
  BY <1>3 DEF RemoveAt

-----------------------------------------------------------------------------
(* Every step keeps the state in shape.                                    *)
LEMMA InitShapes == Init => Shapes
<1> SUFFICES ASSUME Init PROVE Shapes
  OBVIOUS
<1>1. 1 \in Key /\ NoKey \in Nat /\ 1 \in Nat
  BY DEF Key, NoKey
<1>2. Installed(1) \in Account /\ [curve |-> 1, fallback |-> 1] \in Keys
  BY <1>1 DEF Installed, Account, Keys
<1>3. Memories
  BY <1>2 DEF Init, Memories, Sessions
<1>4. \A e \in End : Kept(e) \in Snapshot
  BY <1>3 DEF Memories, Kept, Snapshot
<1>5. disk \in [End -> Snapshot]
  BY <1>4 DEF Init
<1>6. Rest
  BY <1>1, <1>2, <1>5, SessionAssumption DEF Init, Rest
<1> QED
  BY <1>3, <1>6 DEF Shapes

\* A counted trouble.
LEMMA TroubleCounts ==
  ASSUME troubles \in 0..MaxTroubles, Trouble
  PROVE  troubles' = troubles + 1 /\ troubles' \in 0..MaxTroubles /\ troubles \in Nat
BY SessionAssumption DEF Trouble

LEMMA PublishShapes ==
  ASSUME Shapes, NEW e \in End, PublishBundle(e)
  PROVE  Shapes'
<1> DEFINE new == Generated(e)
           bundle == [curve |-> account[e].curve, fallback |-> minted[e] + 1]
<1>1. account[e] \in Account /\ minted[e] \in Nat /\ minted[e] + 1 \in Key /\ failed[e] \in Nat
  BY KeyNumbers DEF Shapes, Memories, Rest
<1>2. new \in Account
  <2> DEFINE c == account[e].current
             a == [account[e] EXCEPT !.previous = c]
  <2>1. c \in Nat /\ \A x \in Account, n \in Nat : [x EXCEPT !.previous = n] \in Account
    BY <1>1 DEF Account, Key
  <2>2. \A x \in Account, n \in Key : [x EXCEPT !.current = n] \in Account
    BY DEF Account
  <2>3. new = [a EXCEPT !.current = minted[e] + 1]
    BY DEF Generated
  <2>4. a \in Account
    BY <1>1, <2>1
  <2> HIDE DEF a, new
  <2> QED BY <1>1, <2>2, <2>3, <2>4
<1>3. bundle \in Keys
  BY <1>1 DEF Account, Keys
<1>4. /\ account' = [account EXCEPT ![e] = new]
      /\ minted' = [minted EXCEPT ![e] = minted[e] + 1]
      /\ dirty' = dirty \cup {e}
      /\ \/ served' = [served EXCEPT ![e] = bundle] /\ failed' = [failed EXCEPT ![e] = 0]
         \/ failed' = [failed EXCEPT ![e] = failed[e] + 1] /\ served' = served
      /\ Trouble
      /\ UNCHANGED <<peer, session, opened, disk, queue, inbox, sealed, astray>>
  BY DEF PublishBundle
<1> HIDE DEF new, bundle
<1>5. Memories'
  BY <1>2, <1>4 DEF Shapes, Memories
<1>6. /\ served' \in [End -> Keys] /\ failed' \in [End -> Nat]
      /\ minted' \in [End -> Key] /\ dirty' \subseteq End
  <2>1. served \in [End -> Keys] /\ failed \in [End -> Nat] /\ minted \in [End -> Key] /\ dirty \subseteq End
    BY DEF Shapes, Rest
  <2>2. served' \in [End -> Keys]
    BY <1>3, <1>4, <2>1
  <2>3. failed' \in [End -> Nat]
    <3>1. 0 \in Nat /\ failed[e] + 1 \in Nat
      BY <1>1
    <3> QED BY <1>4, <2>1, <3>1
  <2>4. minted' \in [End -> Key]
    BY <1>1, <1>4, <2>1
  <2> QED
    BY <1>4, <2>1, <2>2, <2>3, <2>4
<1>7. troubles' = troubles + 1 /\ troubles' \in 0..MaxTroubles /\ troubles \in Nat
  BY <1>4, TroubleCounts DEF Shapes, Rest
<1>8. \A d \in End : failed'[d] <= troubles'
  <2> SUFFICES ASSUME NEW d \in End PROVE failed'[d] <= troubles'
    OBVIOUS
  <2>1. failed[d] <= troubles /\ failed[d] \in Nat /\ failed \in [End -> Nat]
    BY DEF Shapes, Rest
  <2>2. failed'[d] \in {0, failed[d], failed[d] + 1}
    BY <1>4, <2>1
  <2> QED
    BY <1>7, <2>1, <2>2
<1>9. Rest'
  BY <1>4, <1>6, <1>7, <1>8 DEF Shapes, Rest
<1> QED
  BY <1>5, <1>9 DEF Shapes

\* Keys learned and forgotten, of both kinds, are a matter of the memory.
LEMMA KeysShapes ==
  ASSUME Shapes, NEW e \in End,
         ForgetPreviousFallbackKey(e) \/ LearnPeer(e) \/ ForgetPeer(e)
  PROVE  Shapes'
<1>1. Rest'
  BY DEF ForgetPreviousFallbackKey, LearnPeer, ForgetPeer, bounds, Shapes, Rest
<1>2. CASE ForgetPreviousFallbackKey(e)
  <2>1. [account[e] EXCEPT !.previous = NoKey] \in Account
    BY DEF Shapes, Memories, Account, NoKey
  <2> DEFINE new == [account[e] EXCEPT !.previous = NoKey]
  <2>2. account' = [account EXCEPT ![e] = new] /\ UNCHANGED <<peer, session, opened>>
    BY <1>2 DEF ForgetPreviousFallbackKey
  <2> HIDE DEF new
  <2>3. Memories'
    <3>1. new \in Account
      BY <2>1 DEF new
    <3> QED BY <2>2, <3>1 DEF Shapes, Memories
  <2> QED
    BY <1>1, <2>3 DEF Shapes
<1>3. CASE LearnPeer(e)
  <2>1. served[Other(e)] \in Keys
    BY OtherIsOther DEF Shapes, Rest
  <2>2. LearnedSession(e, served[Other(e)]) \in Sessions
    BY DEF LearnedSession, Shapes, Memories, Sessions
  <2>3. Memories'
    BY <1>3, <2>1, <2>2 DEF LearnPeer, Shapes, Memories
  <2> QED
    BY <1>1, <2>3 DEF Shapes
<1>4. CASE ForgetPeer(e)
  <2>1. Memories'
    BY <1>4 DEF ForgetPeer, Shapes, Memories, Sessions
  <2> QED
    BY <1>1, <2>1 DEF Shapes
<1> QED
  BY <1>2, <1>3, <1>4

LEMMA EstablishShapes ==
  ASSUME Shapes, NEW e \in End, EstablishOutbound(e)
  PROVE  Shapes'
<1>1. Established(e) \in Sessions
  BY EstablishedShape DEF EstablishOutbound, Sessions, Live
<1>2. Memories'
  BY <1>1 DEF EstablishOutbound, Shapes, Memories
<1>3. minted' \in [End -> Key]
  BY KeyNumbers DEF EstablishOutbound, Shapes, Rest
<1>4. troubles' = troubles + 1 /\ troubles' \in 0..MaxTroubles /\ troubles \in Nat
  BY TroubleCounts DEF EstablishOutbound, Shapes, Rest
<1>5. \A d \in End : failed'[d] <= troubles'
  BY <1>4 DEF EstablishOutbound, Shapes, Rest
<1>6. Rest'
  BY <1>3, <1>4, <1>5 DEF EstablishOutbound, Shapes, Rest
<1> QED
  BY <1>2, <1>6 DEF Shapes

LEMMA EncryptShapes ==
  ASSUME Shapes, NEW e \in End, Encrypt(e)
  PROVE  Shapes'
<1> DEFINE s == Sending(e)
           next == s.next + 1
           after == [s EXCEPT !.next = next]
           f == Frame(e, s)
           longer == Append(queue[Other(e)], f)
           most == IF s.chain = <<e, minted[e] + 1>> THEN minted[e] + 1 ELSE minted[e]
<1>1. /\ Known(e) /\ sealed[e] < MaxSealed
      /\ sealed' = [sealed EXCEPT ![e] = sealed[e] + 1]
      /\ session' = [session EXCEPT ![e] = after]
      /\ minted' = [minted EXCEPT ![e] = most]
      /\ queue' = [queue EXCEPT ![Other(e)] = longer]
      /\ dirty' = dirty \cup {e}
      /\ UNCHANGED <<account, peer, opened, disk, served, failed, inbox, troubles, astray>>
  BY DEF Encrypt
<1>2. s \in Live /\ s.chain \in Chain
  BY <1>1, SendingShape
<1> HIDE DEF s
<1>3. next \in Nat
  BY <1>2 DEF Live
<1> HIDE DEF next
<1>4. after \in Live
  BY <1>2, <1>3, OneField
<1>5. f \in Frames
  BY <1>2, FrameShape
<1> HIDE DEF f, after
<1>6. longer \in Seq(Frames)
  <2>1. queue[Other(e)] \in Seq(Frames)
    BY OtherIsOther DEF Shapes, Rest
  <2> QED BY <1>5, <2>1, AppendProperties
<1>7. most \in Key
  BY KeyNumbers DEF Shapes, Rest
<1> HIDE DEF longer, most
<1>8. Memories'
  BY <1>1, <1>4 DEF Shapes, Memories, Sessions, Live
<1>9. sealed' \in [End -> 0..MaxSealed]
  <2>1. sealed \in [End -> 0..MaxSealed] /\ MaxSealed \in Nat
    BY SessionAssumption DEF Shapes, Rest
  <2>2. sealed[e] + 1 \in 0..MaxSealed
    BY <1>1, <2>1
  <2> QED BY <1>1, <2>1, <2>2
<1>10. Rest'
  BY <1>1, <1>6, <1>7, <1>9 DEF Shapes, Rest
<1> QED
  BY <1>8, <1>10 DEF Shapes

\* A frame looked at, whatever the answer.
LEMMA DecryptStep ==
  ASSUME Shapes, NEW e \in End, Decrypt(e)
  PROVE  LET f == Head(inbox[e]) IN
         /\ f \in Frames /\ Tail(inbox[e]) \in Seq(Frames)
         /\ \/ /\ Known(e) /\ session[e] # None /\ session[e] \in Live
               /\ session' = [session EXCEPT ![e] = Advanced(session[e], f)]
            \/ /\ Known(e) /\ f.from = peer[e].curve
               /\ session' = [session EXCEPT ![e] = Inbound(f)]
            \/ session' = session
         /\ \/ opened' = [opened EXCEPT ![e] = opened[e] \cup {[no |-> f.no, id |-> f.id]}]
            \/ opened' = opened
         /\ astray' \in {astray, astray \cup {"rollback"}}
         /\ inbox' = [inbox EXCEPT ![e] = Tail(inbox[e])]
         /\ UNCHANGED <<account, peer, disk, dirty, served, failed, queue, minted, sealed, troubles>>
<1> DEFINE f == Head(inbox[e])
           answer == Answer(e, f)
<1>1. inbox[e] # <<>> /\ inbox[e] \in Seq(Frames)
  BY DEF Decrypt, Shapes, Rest
<1>2. f \in Frames /\ Tail(inbox[e]) \in Seq(Frames)
  BY <1>1, HeadTailProperties
<1>3. /\ session' = [session EXCEPT ![e] = CASE answer = "opened" -> Advanced(session[e], f)
                                             [] answer = "new session" -> Replacing(e, f)
                                             [] OTHER -> session[e]]
      /\ IF answer \in {"opened", "new session"}
         THEN /\ opened' = [opened EXCEPT ![e] = opened[e] \cup {[no |-> f.no, id |-> f.id]}]
              /\ astray' = IF answer = "new session" /\ Older(e, f) THEN astray \cup {"rollback"}
                           ELSE astray
         ELSE UNCHANGED <<opened, astray>>
      /\ inbox' = [inbox EXCEPT ![e] = Tail(inbox[e])]
      /\ UNCHANGED <<account, peer, disk, dirty, served, failed, queue, minted, sealed, troubles>>
  BY DEF Decrypt, bounds
<1>4. session[e] # None => session[e] \in Live
  BY DEF Shapes, Memories, Sessions, Live
<1>5. answer = "opened" => Known(e) /\ session[e] # None
  BY DEF Answer, MatchesCurrent
<1>6. answer = "new session" => Known(e) /\ f.from = peer[e].curve
  BY DEF Answer, Creates
<1>7. session \in [End -> Sessions]
  BY DEF Shapes, Memories
<1> HIDE DEF f, answer
<1>8. \/ /\ Known(e) /\ session[e] # None /\ session[e] \in Live
         /\ session' = [session EXCEPT ![e] = Advanced(session[e], f)]
      \/ /\ Known(e) /\ f.from = peer[e].curve
         /\ session' = [session EXCEPT ![e] = Inbound(f)]
      \/ session' = session
  <2>1. CASE answer = "opened"
    BY <1>3, <1>4, <1>5, <2>1
  <2>2. CASE answer = "new session"
    BY <1>3, <1>6, <2>2 DEF Replacing
  <2>3. CASE answer \notin {"opened", "new session"}
    BY <1>3, <1>7, <2>3
  <2> QED BY <2>1, <2>2, <2>3
<1>9. /\ \/ opened' = [opened EXCEPT ![e] = opened[e] \cup {[no |-> f.no, id |-> f.id]}]
         \/ opened' = opened
      /\ astray' \in {astray, astray \cup {"rollback"}}
  BY <1>3
<1> QED
  BY <1>2, <1>3, <1>8, <1>9 DEF f

LEMMA DecryptShapes ==
  ASSUME Shapes, NEW e \in End, Decrypt(e)
  PROVE  Shapes'
<1> DEFINE f == Head(inbox[e])
           rest == Tail(inbox[e])
           receipt == [no |-> f.no, id |-> f.id]
<1>1. /\ f \in Frames /\ rest \in Seq(Frames)
      /\ \/ /\ Known(e) /\ session[e] # None /\ session[e] \in Live
            /\ session' = [session EXCEPT ![e] = Advanced(session[e], f)]
         \/ /\ Known(e) /\ f.from = peer[e].curve
            /\ session' = [session EXCEPT ![e] = Inbound(f)]
         \/ session' = session
      /\ \/ opened' = [opened EXCEPT ![e] = opened[e] \cup {receipt}]
         \/ opened' = opened
      /\ astray' \in {astray, astray \cup {"rollback"}}
      /\ inbox' = [inbox EXCEPT ![e] = rest]
      /\ UNCHANGED <<account, peer, disk, dirty, served, failed, queue, minted, sealed, troubles>>
  BY DecryptStep
<1> HIDE DEF f, rest
<1>2. receipt \in Opened
  BY <1>1 DEF Frames, Opened
<1> HIDE DEF receipt
<1>3. session' \in [End -> Sessions]
  <2>1. session \in [End -> Sessions]
    BY DEF Shapes, Memories
  <2>2. /\ session[e] \in Live => Advanced(session[e], f) \in Sessions
        /\ Inbound(f) \in Sessions
    BY <1>1, AdvancedShape, InboundShape DEF Sessions, Live
  <2> QED
    BY <1>1, <2>1, <2>2
<1>4. opened' \in [End -> SUBSET Opened]
  BY <1>1, <1>2 DEF Shapes, Memories
<1>5. Memories'
  BY <1>1, <1>3, <1>4 DEF Shapes, Memories
<1>6. Rest'
  BY <1>1 DEF Shapes, Rest
<1> QED
  BY <1>5, <1>6 DEF Shapes

LEMMA RelayShapes ==
  ASSUME Shapes, NEW e \in End, Subscribe(e) \/ Leave(e)
  PROVE  Shapes'
<1>1. Memories'
  BY DEF Subscribe, Leave, memory, Shapes, Memories
<1>2. CASE Subscribe(e)
  BY <1>1, <1>2 DEF Subscribe, bounds, Shapes, Rest
<1>3. CASE Leave(e)
  <2>1. PICK i \in DOMAIN queue[e] : queue' = [queue EXCEPT ![e] = RemoveAt(queue[e], i)]
    BY <1>3 DEF Leave
  <2>2. queue[e] \in Seq(Frames)
    BY DEF Shapes, Rest
  <2>3. RemoveAt(queue[e], i) \in Seq(Frames)
    BY <2>2, RemoveKeeps
  <2>4. queue' \in [End -> Seq(Frames)]
    BY <2>1, <2>3 DEF Shapes, Rest
  <2>5. Rest'
    BY <1>3, <2>4 DEF Leave, bounds, Shapes, Rest
  <2> QED
    BY <1>1, <2>5 DEF Shapes
<1> QED
  BY <1>2, <1>3

LEMMA ExportShapes ==
  ASSUME Shapes, NEW e \in End, Export(e)
  PROVE  Shapes'
<1>1. Kept(e) \in Snapshot
  BY DEF Shapes, Memories, Kept, Snapshot
<1>2. /\ disk' = [disk EXCEPT ![e] = Kept(e)] /\ dirty' = dirty \ {e}
      /\ UNCHANGED <<account, peer, session, opened, served, failed, queue, inbox, minted,
                     sealed, troubles, astray>>
  BY DEF Export, memory, bounds
<1>3. Memories'
  BY <1>2 DEF Shapes, Memories
<1>4. Rest'
  BY <1>1, <1>2 DEF Shapes, Rest
<1> QED
  BY <1>3, <1>4 DEF Shapes

LEMMA ImportShapes ==
  ASSUME Shapes, NEW e \in End, Import(e)
  PROVE  Shapes'
<1>1. disk[e] \in Snapshot
  BY DEF Shapes, Rest
<1>2. Memories'
  BY <1>1 DEF Import, Shapes, Memories, Snapshot
<1>3. troubles' = troubles + 1 /\ troubles' \in 0..MaxTroubles /\ troubles \in Nat
  BY TroubleCounts DEF Import, Shapes, Rest
<1>4. \A d \in End : failed'[d] <= troubles'
  BY <1>3 DEF Import, Shapes, Rest
<1>5. inbox' \in [End -> Seq(Frames)] /\ astray' \subseteq {"rollback", "restart"}
  BY DEF Import, Shapes, Rest
<1>6. Rest'
  BY <1>3, <1>4, <1>5 DEF Import, Shapes, Rest
<1> QED
  BY <1>2, <1>6 DEF Shapes

LEMMA CreateShapes ==
  ASSUME Shapes, NEW e \in End, Create(e)
  PROVE  Shapes'
<1> DEFINE k == minted[e] + 1
           a == Installed(k)
           blank == [account |-> a, peer |-> None, session |-> None, opened |-> {}]
           bundle == [curve |-> k, fallback |-> k]
<1>1. k \in Key /\ NoKey \in Nat
  BY KeyNumbers DEF Shapes, Rest, NoKey
<1>2. /\ troubles' = troubles + 1 /\ troubles' \in 0..MaxTroubles /\ troubles \in Nat
  BY TroubleCounts DEF Create, Shapes, Rest
<1>3. /\ minted' = [minted EXCEPT ![e] = k]
      /\ account' = [account EXCEPT ![e] = a]
      /\ peer' = [peer EXCEPT ![e] = None]
      /\ session' = [session EXCEPT ![e] = None]
      /\ opened' = [opened EXCEPT ![e] = {}]
      /\ disk' = [disk EXCEPT ![e] = blank]
      /\ dirty' = dirty \ {e}
      /\ served' = [served EXCEPT ![e] = bundle]
      /\ failed' = [failed EXCEPT ![e] = 0]
      /\ inbox' = [inbox EXCEPT ![e] = <<>>]
      /\ UNCHANGED <<queue, sealed, astray>>
  BY DEF Create
<1> HIDE DEF k
<1>4. a \in Account /\ bundle \in Keys
  BY <1>1 DEF Installed, Account, Keys
<1> HIDE DEF a, bundle
<1>5. blank \in Snapshot
  BY <1>4 DEF Snapshot, Sessions
<1> HIDE DEF blank
<1>6. Memories'
  BY <1>3, <1>4 DEF Shapes, Memories, Sessions
<1>7. \A d \in End : failed'[d] <= troubles'
  BY <1>2, <1>3 DEF Shapes, Rest
<1>8. Rest'
  <2>1. disk' \in [End -> Snapshot] /\ served' \in [End -> Keys] /\ minted' \in [End -> Key]
    BY <1>1, <1>3, <1>4, <1>5 DEF Shapes, Rest
  <2>2. failed' \in [End -> Nat] /\ inbox' \in [End -> Seq(Frames)]
    BY <1>3 DEF Shapes, Rest
  <2> QED
    BY <1>2, <1>3, <1>7, <2>1, <2>2 DEF Shapes, Rest
<1> QED
  BY <1>6, <1>8 DEF Shapes

LEMMA NextShapes ==
  ASSUME Shapes, [Next]_vars
  PROVE  Shapes'
<1>1. CASE Next
  <2> PICK e \in End :
        \/ PublishBundle(e) \/ ForgetPreviousFallbackKey(e)
        \/ LearnPeer(e) \/ ForgetPeer(e)
        \/ EstablishOutbound(e) \/ Encrypt(e) \/ Decrypt(e)
        \/ Subscribe(e) \/ Leave(e)
        \/ Export(e) \/ Import(e) \/ Create(e)
    BY <1>1 DEF Next
  <2> QED
    BY PublishShapes, KeysShapes, EstablishShapes, EncryptShapes, DecryptShapes, RelayShapes,
       ExportShapes, ImportShapes, CreateShapes
<1>2. CASE UNCHANGED vars
  BY <1>2 DEF vars, memory, bounds, Shapes, Memories, Rest
<1> QED
  BY <1>1, <1>2

-----------------------------------------------------------------------------
(* A session is with the key verified for the peer, in memory and on disk.  *)
Fits(s, k) == s # None => k \notin {None, Forgotten} /\ s.to = k.curve
FitsTrue ==
  \A e \in End : Fits(session[e], peer[e]) /\ Fits(disk[e].session, disk[e].peer)

LEMMA FitsKeep ==
  ASSUME Shapes, FitsTrue, [Next]_vars
  PROVE  FitsTrue'
<1>1. ASSUME NEW e \in End,
             \/ PublishBundle(e) \/ ForgetPreviousFallbackKey(e) \/ Subscribe(e) \/ Leave(e)
             \/ UNCHANGED vars
      PROVE  FitsTrue'
  <2>1. UNCHANGED <<peer, session, disk>>
    BY <1>1 DEF PublishBundle, ForgetPreviousFallbackKey, Subscribe, Leave, vars, memory
  <2> QED
    BY <2>1 DEF FitsTrue
<1>2. ASSUME NEW e \in End, peer' \in [End -> Keys \cup {None, Forgotten}],
             session' \in [End -> Sessions],
             \A d \in End : d # e => session'[d] = session[d] /\ peer'[d] = peer[d],
             disk' = disk, Fits(session'[e], peer'[e])
      PROVE  FitsTrue'
  BY <1>2 DEF FitsTrue
<1>3. Memories' /\ Memories
  BY NextShapes DEF Shapes
<1>4. ASSUME NEW e \in End, LearnPeer(e)
      PROVE  FitsTrue'
  <2>1. served[Other(e)] \in Keys
    BY OtherIsOther DEF Shapes, Rest
  <2>2. /\ peer' = [peer EXCEPT ![e] = served[Other(e)]]
        /\ session' = [session EXCEPT ![e] = LearnedSession(e, served[Other(e)])]
        /\ disk' = disk
    BY <1>4 DEF LearnPeer
  <2>3. Fits(LearnedSession(e, served[Other(e)]), served[Other(e)])
    BY <2>1, KeysAreSome DEF FitsTrue, Fits, LearnedSession
  <2> QED
    BY <1>2, <1>3, <2>2, <2>3 DEF Memories
<1>5. ASSUME NEW e \in End, ForgetPeer(e)
      PROVE  FitsTrue'
  <2>1. /\ peer' = [peer EXCEPT ![e] = Forgotten] /\ session' = [session EXCEPT ![e] = None]
        /\ disk' = disk
    BY <1>5 DEF ForgetPeer
  <2> QED
    BY <1>2, <1>3, <2>1 DEF Memories, Fits
<1>6. ASSUME NEW e \in End, EstablishOutbound(e)
      PROVE  FitsTrue'
  <2>1. /\ session' = [session EXCEPT ![e] = Established(e)]
        /\ peer' = peer /\ disk' = disk /\ Known(e)
    BY <1>6 DEF EstablishOutbound
  <2>2. Fits(Established(e), peer[e])
    BY <2>1, EstablishedShape DEF Fits, Known
  <2> QED
    BY <1>2, <1>3, <2>1, <2>2 DEF Memories
<1>7. ASSUME NEW e \in End, Encrypt(e)
      PROVE  FitsTrue'
  <2> DEFINE s == Sending(e)
             after == [s EXCEPT !.next = s.next + 1]
  <2>1. /\ session' = [session EXCEPT ![e] = after]
        /\ peer' = peer /\ disk' = disk /\ Known(e)
    BY <1>7 DEF Encrypt
  <2>2. /\ s \in Live
        /\ session[e] = None => s.to = peer[e].curve
        /\ session[e] # None => s.to = session[e].to
    BY <2>1, SendingShape
  <2> HIDE DEF s
  <2>3. after.to = s.to
    <3>1. s.next + 1 \in Nat
      BY <2>2 DEF Live
    <3> QED BY <2>2, <3>1, OneField
  <2>4. Fits(after, peer[e])
    BY <2>1, <2>2, <2>3 DEF Fits, FitsTrue, Known
  <2> HIDE DEF after
  <2> QED
    BY <1>2, <1>3, <2>1, <2>4 DEF Memories
<1>8. ASSUME NEW e \in End, Decrypt(e)
      PROVE  FitsTrue'
  <2> DEFINE f == Head(inbox[e])
  <2>1. /\ f \in Frames
        /\ \/ /\ Known(e) /\ session[e] # None /\ session[e] \in Live
              /\ session' = [session EXCEPT ![e] = Advanced(session[e], f)]
           \/ /\ Known(e) /\ f.from = peer[e].curve
              /\ session' = [session EXCEPT ![e] = Inbound(f)]
           \/ session' = session
        /\ peer' = peer /\ disk' = disk
    BY <1>8, DecryptStep
  <2> HIDE DEF f
  <2>2. session[e] \in Live /\ session[e] # None => Fits(Advanced(session[e], f), peer[e])
    BY <2>1, AdvancedShape DEF Fits, FitsTrue
  <2>3. (Known(e) /\ f.from = peer[e].curve) => Fits(Inbound(f), peer[e])
    BY <2>1, InboundShape DEF Fits, Known
  <2>4. Fits(session[e], peer[e])
    BY DEF FitsTrue
  <2>5. Fits(session'[e], peer'[e])
    BY <1>3, <2>1, <2>2, <2>3, <2>4 DEF Memories
  <2> QED
    BY <1>2, <1>3, <2>1, <2>5 DEF Memories
<1>9. ASSUME NEW e \in End, Export(e)
      PROVE  FitsTrue'
  <2>1. disk' = [disk EXCEPT ![e] = Kept(e)] /\ UNCHANGED <<peer, session>>
    BY <1>9 DEF Export, memory
  <2>2. Kept(e).session = session[e] /\ Kept(e).peer = peer[e]
    BY DEF Kept
  <2> HIDE DEF Kept
  <2> QED
    BY <2>1, <2>2 DEF FitsTrue, Shapes, Rest
<1>10. ASSUME NEW e \in End, Import(e)
       PROVE  FitsTrue'
  <2>1. /\ peer' = [peer EXCEPT ![e] = disk[e].peer]
        /\ session' = [session EXCEPT ![e] = disk[e].session]
        /\ disk' = disk
    BY <1>10 DEF Import
  <2>2. Fits(disk[e].session, disk[e].peer)
    BY DEF FitsTrue
  <2> QED
    BY <1>2, <1>3, <2>1, <2>2 DEF Memories
<1>11. ASSUME NEW e \in End, Create(e)
       PROVE  FitsTrue'
  <2> DEFINE blank == [account |-> Installed(minted[e] + 1), peer |-> None, session |-> None,
                       opened |-> {}]
  <2>1. /\ peer' = [peer EXCEPT ![e] = None]
        /\ session' = [session EXCEPT ![e] = None]
        /\ disk' = [disk EXCEPT ![e] = blank]
    BY <1>11 DEF Create
  <2>2. blank.session = None
    OBVIOUS
  <2> HIDE DEF blank
  <2>3. /\ session'[e] = None /\ disk'[e].session = None
        /\ \A d \in End : d # e => session'[d] = session[d] /\ peer'[d] = peer[d] /\ disk'[d] = disk[d]
    BY <1>3, <2>1, <2>2 DEF Memories, Shapes, Rest
  <2> QED
    BY <2>3 DEF FitsTrue, Fits
<1>12. CASE UNCHANGED vars
  BY <1>12 DEF FitsTrue, vars, memory
<1> QED
  BY <1>1, <1>4, <1>5, <1>6, <1>7, <1>8, <1>9, <1>10, <1>11, <1>12 DEF Next

-----------------------------------------------------------------------------
(* The fallback key that was served is one of the two held: the one made    *)
(* last, or the one before if the upload of the last failed.               *)
ServedIn(a, e) ==
  /\ failed[e] = 0 => a.current = served[e].fallback
  /\ failed[e] = 1 => a.previous = served[e].fallback

ServedTrue ==
  "restart" \notin astray =>
    \A e \in End : /\ ServedIn(account[e], e)
                   /\ e \notin dirty => ServedIn(disk[e].account, e)

LEMMA ServedKeep ==
  ASSUME Shapes, ServedTrue, [Next]_vars
  PROVE  ServedTrue'
<1> SUFFICES ASSUME "restart" \notin astray', NEW d \in End
             PROVE  /\ ServedIn(account[d], d)'
                    /\ d \notin dirty' => ServedIn(disk[d].account, d)'
  BY DEF ServedTrue
<1>1. /\ account \in [End -> Account] /\ disk \in [End -> Snapshot] /\ served \in [End -> Keys]
      /\ failed \in [End -> Nat] /\ minted \in [End -> Key]
  BY DEF Shapes, Memories, Rest
<1>2. astray \subseteq astray'
  BY DEF Next, PublishBundle, ForgetPreviousFallbackKey, LearnPeer, ForgetPeer, EstablishOutbound,
         Encrypt, Decrypt, Subscribe, Leave, Export, Import, Create, vars
<1>3. /\ ServedIn(account[d], d)
      /\ d \notin dirty => ServedIn(disk[d].account, d)
  BY <1>2 DEF ServedTrue
<1>4. CASE UNCHANGED <<account, disk, served, failed>> /\ dirty \subseteq dirty'
  BY <1>3, <1>4 DEF ServedIn
<1>5. ASSUME NEW e \in End, PublishBundle(e)
      PROVE  /\ ServedIn(account[d], d)'
             /\ d \notin dirty' => ServedIn(disk[d].account, d)'
  <2> DEFINE a == Generated(e)
             k == minted[e] + 1
             bundle == [curve |-> account[e].curve, fallback |-> k]
  <2>1. /\ account' = [account EXCEPT ![e] = a] /\ disk' = disk /\ dirty' = dirty \cup {e}
        /\ \/ served' = [served EXCEPT ![e] = bundle] /\ failed' = [failed EXCEPT ![e] = 0]
           \/ failed' = [failed EXCEPT ![e] = failed[e] + 1] /\ served' = served
    BY <1>5 DEF PublishBundle
  <2>2. a.current = k /\ a.previous = account[e].current /\ bundle.fallback = k
    <3>1. account[e] \in Account
      BY <1>1
    <3> QED BY <3>1 DEF Generated, Account
  <2> HIDE DEF a, k, bundle
  <2>3. CASE d # e
    <3>1. /\ account'[d] = account[d] /\ failed'[d] = failed[d] /\ served'[d] = served[d]
          /\ d \notin dirty' => d \notin dirty
      BY <1>1, <2>1, <2>3
    <3> QED
      BY <1>3, <2>1, <3>1 DEF ServedIn
  <2>4. CASE d = e
    <3>1. account'[d] = a /\ d \in dirty' /\ failed[d] \in Nat
      BY <1>1, <2>1, <2>4
    <3>2. CASE served' = [served EXCEPT ![e] = bundle] /\ failed' = [failed EXCEPT ![e] = 0]
      <4>1. served'[d].fallback = k /\ failed'[d] = 0
        BY <1>1, <2>2, <2>4, <3>2
      <4> QED
        BY <2>2, <3>1, <4>1 DEF ServedIn
    <3>3. CASE failed' = [failed EXCEPT ![e] = failed[e] + 1] /\ served' = served
      <4>1. failed'[d] = failed[d] + 1
        BY <1>1, <2>4, <3>3
      <4>2. failed'[d] = 1 => failed[d] = 0
        BY <3>1, <4>1
      <4>3. failed'[d] # 0
        BY <3>1, <4>1
      <4> QED
        BY <1>3, <2>2, <2>4, <3>1, <3>3, <4>2, <4>3 DEF ServedIn
    <3> QED BY <2>1, <3>2, <3>3
  <2> QED BY <2>3, <2>4
<1>6. ASSUME NEW e \in End, ForgetPreviousFallbackKey(e)
      PROVE  /\ ServedIn(account[d], d)'
             /\ d \notin dirty' => ServedIn(disk[d].account, d)'
  <2> DEFINE a == [account[e] EXCEPT !.previous = NoKey]
  <2>1. /\ account' = [account EXCEPT ![e] = a] /\ failed[e] = 0
        /\ UNCHANGED <<disk, served, failed, dirty>>
    BY <1>6 DEF ForgetPreviousFallbackKey
  <2>2. a.current = account[e].current
    <3>1. account[e] \in Account
      BY <1>1
    <3> QED BY <3>1 DEF Account
  <2> HIDE DEF a
  <2>3. account'[d].current = account[d].current /\ (d # e => account'[d] = account[d])
    BY <1>1, <2>1, <2>2
  <2> QED
    BY <1>3, <2>1, <2>3 DEF ServedIn
<1>7. ASSUME NEW e \in End, Export(e)
      PROVE  /\ ServedIn(account[d], d)'
             /\ d \notin dirty' => ServedIn(disk[d].account, d)'
  <2>1. /\ disk' = [disk EXCEPT ![e] = Kept(e)] /\ dirty' = dirty \ {e}
        /\ UNCHANGED <<account, served, failed>>
    BY <1>7 DEF Export, memory
  <2>2. Kept(e).account = account[e]
    BY DEF Kept
  <2> HIDE DEF Kept
  <2>3. disk'[d] = IF d = e THEN Kept(e) ELSE disk[d]
    BY <1>1, <2>1
  <2> QED
    BY <1>3, <2>1, <2>2, <2>3 DEF ServedIn
<1>8. ASSUME NEW e \in End, Import(e)
      PROVE  /\ ServedIn(account[d], d)'
             /\ d \notin dirty' => ServedIn(disk[d].account, d)'
  <2>1. /\ account' = [account EXCEPT ![e] = disk[e].account] /\ dirty' = dirty \ {e}
        /\ UNCHANGED <<disk, served, failed>>
        /\ e \notin dirty
    BY <1>8 DEF Import
  <2>2. account'[d] = IF d = e THEN disk[e].account ELSE account[d]
    BY <1>1, <2>1
  <2> QED
    BY <1>3, <2>1, <2>2 DEF ServedIn
<1>9. ASSUME NEW e \in End, Create(e)
      PROVE  /\ ServedIn(account[d], d)'
             /\ d \notin dirty' => ServedIn(disk[d].account, d)'
  <2> DEFINE k == minted[e] + 1
             a == Installed(k)
             blank == [account |-> a, peer |-> None, session |-> None, opened |-> {}]
             bundle == [curve |-> k, fallback |-> k]
  <2>1. /\ account' = [account EXCEPT ![e] = a] /\ disk' = [disk EXCEPT ![e] = blank]
        /\ dirty' = dirty \ {e} /\ served' = [served EXCEPT ![e] = bundle]
        /\ failed' = [failed EXCEPT ![e] = 0]
    BY <1>9 DEF Create
  <2>2. a.current = k /\ blank.account = a /\ bundle.fallback = k
    BY DEF Installed
  <2> HIDE DEF k, a, blank, bundle
  <2>3. CASE d = e
    <3>1. account'[d] = a /\ disk'[d] = blank /\ served'[d] = bundle /\ failed'[d] = 0
      BY <1>1, <2>1, <2>3
    <3> QED
      BY <2>2, <3>1 DEF ServedIn
  <2>4. CASE d # e
    <3>1. /\ account'[d] = account[d] /\ disk'[d] = disk[d] /\ served'[d] = served[d]
          /\ failed'[d] = failed[d] /\ (d \notin dirty' => d \notin dirty)
      BY <1>1, <2>1, <2>4
    <3> QED
      BY <1>3, <3>1 DEF ServedIn
  <2> QED BY <2>3, <2>4
<1>10. ASSUME NEW e \in End,
              \/ LearnPeer(e) \/ ForgetPeer(e) \/ EstablishOutbound(e) \/ Encrypt(e)
              \/ Decrypt(e) \/ Subscribe(e) \/ Leave(e)
       PROVE  UNCHANGED <<account, disk, served, failed>> /\ dirty \subseteq dirty'
  BY <1>10 DEF LearnPeer, ForgetPeer, EstablishOutbound, Encrypt, Decrypt, Subscribe, Leave, memory
<1>11. UNCHANGED vars => UNCHANGED <<account, disk, served, failed>> /\ dirty \subseteq dirty'
  BY DEF vars, memory
<1> QED
  BY <1>4, <1>5, <1>6, <1>7, <1>8, <1>9, <1>10, <1>11 DEF Next

-----------------------------------------------------------------------------
(* Only the end that established a session has heard nothing in it.        *)
LEMMA StartersKeep ==
  ASSUME Shapes, StartersTrue, [Next]_vars
  PROVE  StartersTrue'
<1>1. /\ session \in [End -> Sessions] /\ disk \in [End -> Snapshot]
  BY DEF Shapes, Memories, Rest
<1>2. ASSUME NEW e \in End, NEW s, session' = [session EXCEPT ![e] = s], disk' = disk, Starts(e, s)
      PROVE  StartersTrue'
  <2>1. session'[e] = s /\ \A d \in End : d # e => session'[d] = session[d]
    BY <1>1, <1>2
  <2> QED
    BY <1>2, <2>1 DEF StartersTrue
<1>3. ASSUME NEW e \in End, EstablishOutbound(e)
      PROVE  StartersTrue'
  <2>1. /\ session' = [session EXCEPT ![e] = Established(e)] /\ disk' = disk
        /\ Established(e).id[1] = e
    BY <1>3, EstablishedShape DEF EstablishOutbound
  <2> QED
    BY <1>2, <2>1 DEF Starts
<1>4. ASSUME NEW e \in End, Encrypt(e)
      PROVE  StartersTrue'
  <2> DEFINE s == Sending(e)
             after == [s EXCEPT !.next = s.next + 1]
  <2>1. session' = [session EXCEPT ![e] = after] /\ disk' = disk /\ Known(e)
    BY <1>4 DEF Encrypt
  <2>2. /\ s \in Live
        /\ session[e] = None => s.id[1] = e
        /\ session[e] # None => s.id = session[e].id /\ s.got = session[e].got
    BY <2>1, SendingShape
  <2> HIDE DEF s
  <2>3. after.id = s.id /\ after.got = s.got
    <3>1. s.next + 1 \in Nat
      BY <2>2 DEF Live
    <3> QED BY <2>2, <3>1, OneField
  <2>4. Starts(e, after)
    BY <2>2, <2>3 DEF Starts, StartersTrue
  <2> HIDE DEF after
  <2> QED
    BY <1>2, <2>1, <2>4
<1>5. ASSUME NEW e \in End, Decrypt(e)
      PROVE  StartersTrue'
  <2> DEFINE f == Head(inbox[e])
  <2>1. /\ f \in Frames
        /\ \/ /\ session[e] \in Live
              /\ session' = [session EXCEPT ![e] = Advanced(session[e], f)]
           \/ session' = [session EXCEPT ![e] = Inbound(f)]
           \/ session' = session
        /\ disk' = disk
    BY <1>5, DecryptStep
  <2> HIDE DEF f
  <2>2. session[e] \in Live => Starts(e, Advanced(session[e], f))
    BY <2>1, AdvancedShape DEF Starts
  <2>3. Starts(e, Inbound(f))
    BY <2>1, InboundShape DEF Starts
  <2>4. session' = session => StartersTrue'
    BY <2>1 DEF StartersTrue
  <2> QED
    BY <1>2, <2>1, <2>2, <2>3, <2>4
<1>6. ASSUME NEW e \in End, LearnPeer(e)
      PROVE  StartersTrue'
  <2>1. PICK s \in {None, session[e]} : session' = [session EXCEPT ![e] = s] /\ disk' = disk
    BY <1>6 DEF LearnPeer, LearnedSession
  <2>2. Starts(e, s)
    BY DEF Starts, StartersTrue
  <2> QED
    BY <1>2, <2>1, <2>2
<1>7. ASSUME NEW e \in End, ForgetPeer(e)
      PROVE  StartersTrue'
  BY <1>2, <1>7 DEF ForgetPeer, Starts
<1>8. ASSUME NEW e \in End, Export(e)
      PROVE  StartersTrue'
  <2>1. disk' = [disk EXCEPT ![e] = Kept(e)] /\ session' = session
    BY <1>8 DEF Export, memory
  <2>2. Kept(e).session = session[e]
    BY DEF Kept
  <2> HIDE DEF Kept
  <2>3. \A d \in End : disk'[d].session \in {disk[d].session, session[d]}
    BY <1>1, <2>1, <2>2
  <2> QED
    BY <2>1, <2>3 DEF StartersTrue
<1>9. ASSUME NEW e \in End, Import(e)
      PROVE  StartersTrue'
  <2>1. session' = [session EXCEPT ![e] = disk[e].session] /\ disk' = disk
    BY <1>9 DEF Import
  <2>2. Starts(e, disk[e].session)
    BY DEF StartersTrue
  <2> QED
    BY <1>2, <2>1, <2>2
<1>10. ASSUME NEW e \in End, Create(e)
       PROVE  StartersTrue'
  <2> DEFINE blank == [account |-> Installed(minted[e] + 1), peer |-> None, session |-> None,
                       opened |-> {}]
  <2>1. session' = [session EXCEPT ![e] = None] /\ disk' = [disk EXCEPT ![e] = blank]
    BY <1>10 DEF Create
  <2>2. blank.session = None
    OBVIOUS
  <2> HIDE DEF blank
  <2>3. \A d \in End : /\ session'[d] \in {None, session[d]}
                       /\ disk'[d].session \in {None, disk[d].session}
    BY <1>1, <2>1, <2>2
  <2> QED
    BY <2>3 DEF StartersTrue, Starts
<1>11. ASSUME UNCHANGED <<session, disk>>
       PROVE  StartersTrue'
  BY <1>11 DEF StartersTrue
<1>12. ASSUME NEW e \in End,
              PublishBundle(e) \/ ForgetPreviousFallbackKey(e) \/ Subscribe(e) \/ Leave(e)
       PROVE  UNCHANGED <<session, disk>>
  BY <1>12 DEF PublishBundle, ForgetPreviousFallbackKey, Subscribe, Leave, memory
<1>13. UNCHANGED vars => UNCHANGED <<session, disk>>
  BY DEF vars, memory
<1> QED
  BY <1>3, <1>4, <1>5, <1>6, <1>7, <1>8, <1>9, <1>10, <1>11, <1>12, <1>13 DEF Next

-----------------------------------------------------------------------------
IInv == Shapes /\ StartersTrue /\ FitsTrue /\ ServedTrue

LEMMA InvariantAlways == Spec => []IInv
<1>1. Init => IInv
  <2> SUFFICES ASSUME Init PROVE IInv
    OBVIOUS
  <2>1. \A e \in End : /\ session[e] = None /\ disk[e].session = None
                       /\ account[e] = Installed(1) /\ disk[e].account = Installed(1)
                       /\ served[e].fallback = 1 /\ failed[e] = 0
    BY DEF Init, Kept
  <2>2. StartersTrue /\ FitsTrue
    BY <2>1 DEF StartersTrue, Starts, FitsTrue, Fits
  <2>3. Installed(1).current = 1
    BY DEF Installed
  <2>4. ServedTrue
    BY <2>1, <2>3 DEF ServedTrue, ServedIn
  <2> QED
    BY InitShapes, <2>2, <2>4 DEF IInv
<1>2. IInv /\ [Next]_vars => IInv'
  BY NextShapes, StartersKeep, FitsKeep, ServedKeep DEF IInv
<1> QED
  BY <1>1, <1>2, PTL DEF Spec

\* The state stays in its shape and its bounds: the counters behind a session's names run on
\* through restarts and installations, and only its starter can be without an answer.
THEOREM TypesAlways == Spec => []TypeOK
<1>1. IInv => TypeOK
  <2> SUFFICES ASSUME IInv PROVE TypeOK
    OBVIOUS
  <2>1. Memories /\ Rest /\ StartersTrue
    BY DEF IInv, Shapes
  <2>2. \A e \in End : Kept(e) \in Snapshot
    BY <2>1 DEF Memories, Kept, Snapshot
  <2>3. \A e \in End : failed[e] \in 0..MaxTroubles
    BY <2>1, SessionAssumption DEF Rest
  <2> QED
    BY <2>1, <2>2, <2>3 DEF TypeOK, Rest, StartersTrue, Starts
<1> QED
  BY InvariantAlways, <1>1, PTL

\* A session is only ever with the key verified for the peer, also after a restart from any
\* snapshot: learn_peer drops the session of a peer whose key has changed (session.rs).
THEOREM SessionsFit == Spec => []SessionFitsPeer
<1>1. IInv => SessionFitsPeer
  BY DEF IInv, FitsTrue, Fits, SessionFitsPeer, Known
<1> QED
  BY InvariantAlways, <1>1, PTL

\* The device can open what a peer seals to the bundle it finds on the server, unless two
\* uploads failed in a row or a restart forgot the key (session.rs, publish_bundle: "keeps
\* exactly two fallback private keys").
THEOREM ServedKeysAreHeld == Spec => []ServedKeyIsHeld
<1>1. IInv => ServedKeyIsHeld
  <2> SUFFICES ASSUME IInv, "restart" \notin astray, NEW e \in End, failed[e] <= 1
               PROVE  Holds(e, served[e].fallback)
    BY DEF ServedKeyIsHeld
  <2>1. /\ failed[e] \in Nat /\ served[e] \in Keys
        /\ ServedIn(account[e], e)
    BY DEF IInv, Shapes, Rest, ServedTrue
  <2>2. served[e].fallback # NoKey
    BY <2>1 DEF Keys, Key
  <2>3. failed[e] = 0 \/ failed[e] = 1
    BY <2>1
  <2> QED
    BY <2>1, <2>2, <2>3 DEF ServedIn, Holds
<1> QED
  BY InvariantAlways, <1>1, PTL

-----------------------------------------------------------------------------
(* Who hears whom, where one end establishes and the other only answers.    *)
LEMMA TwoEnds ==
  ASSUME NEW e \in End
  PROVE  /\ Other(e) \in End /\ Other(e) # e /\ Other(Other(e)) = e
         /\ \A d \in End : d = e \/ d = Other(e)
BY SessionAssumption DEF Other

\* The sessions an end has or could restart with, and the frames on their way to it.
Recs(e) == {session[e], disk[e].session} \ {None}
InFlight(e) == Range(queue[e]) \cup Range(inbox[e])

UsedBy(s) == {s.id, s.chain, s.last} \ {None.id}
UsedIn(f) == {f.id, f.chain, f.parent} \ {None.id}

\* A step that brings no session and no frame that was not there.
Narrows ==
  \A e \in End : Recs(e)' \subseteq Recs(e) /\ InFlight(e)' \subseteq InFlight(e)

\* A step by which e goes on to session t, and sends the frames F.
Sends(e, t, F) ==
  /\ t \in Live
  /\ session' = [session EXCEPT ![e] = t]
  /\ InFlight(e)' \subseteq InFlight(e)
  /\ InFlight(Other(e))' \subseteq InFlight(Other(e)) \cup F
  /\ UNCHANGED <<account, peer, disk, served>>

LEMMA RangeFacts ==
  ASSUME NEW S, NEW s \in Seq(S)
  PROVE  /\ s \in Seq(Range(s)) /\ Range(s) \subseteq S
         /\ \A i \in DOMAIN s : Range(RemoveAt(s, i)) \subseteq Range(s)
         /\ s # <<>> => Head(s) \in Range(s) /\ Range(Tail(s)) \subseteq Range(s)
         /\ \A x : Range(Append(s, x)) \subseteq Range(s) \cup {x}
<1>1. \A T : \A t \in Seq(T) : Range(t) \subseteq T
  BY ElementOfSeq, LenProperties DEF Range
<1>2. s \in Seq(Range(s))
  <2>1. Len(s) \in Nat /\ s \in [1..Len(s) -> S] /\ DOMAIN s = 1..Len(s)
    BY LenProperties
  <2>2. \A i \in 1..Len(s) : s[i] \in Range(s)
    BY <2>1 DEF Range
  <2> QED BY <2>1, <2>2
<1>3. \A i \in DOMAIN s : Range(RemoveAt(s, i)) \subseteq Range(s)
  <2> DEFINE R == Range(s)
  <2> HIDE DEF R
  <2>1. \A i \in DOMAIN s : RemoveAt(s, i) \in Seq(R)
    BY <1>2, RemoveKeeps DEF R
  <2> QED BY <1>1, <2>1 DEF R
<1>4. s # <<>> => Head(s) \in Range(s) /\ Range(Tail(s)) \subseteq Range(s)
  BY <1>1, <1>2, HeadTailProperties
<1>5. \A x : Range(Append(s, x)) \subseteq Range(s) \cup {x}
  <2> SUFFICES ASSUME NEW x PROVE Range(Append(s, x)) \subseteq Range(s) \cup {x}
    OBVIOUS
  <2> DEFINE R == Range(s) \cup {x}
  <2>1. s \in Seq(R)
    <3>1. \A T : Range(s) \subseteq T => s \in Seq(T)
      BY <1>2, SeqMonotonic
    <3> QED BY <3>1
  <2> HIDE DEF R
  <2>2. x \in R
    BY DEF R
  <2>3. Append(s, x) \in Seq(R)
    BY <2>1, <2>2, AppendProperties
  <2> QED BY <1>1, <2>3 DEF R
<1> QED
  BY <1>1, <1>2, <1>3, <1>4, <1>5

LEMMA WhatThereIs ==
  ASSUME Shapes, NEW e \in End
  PROVE  /\ Recs(e) \subseteq Live /\ InFlight(e) \subseteq Frames
         /\ minted[e] \in Nat
<1>1. /\ session[e] \in Sessions /\ disk[e].session \in Sessions
      /\ queue[e] \in Seq(Frames) /\ inbox[e] \in Seq(Frames) /\ minted[e] \in Nat
  BY KeyNumbers DEF Shapes, Memories, Rest, Snapshot
<1>2. InFlight(e) \subseteq Frames
  BY <1>1, RangeFacts DEF InFlight
<1> QED
  BY <1>1, <1>2 DEF Recs, Sessions, Live

\* What is made afresh is numbered after all that was made.
LEMMA MintedGrows ==
  ASSUME Shapes, [Next]_vars
  PROVE  \A d \in End : minted[d] \in Nat /\ minted'[d] \in Nat /\ minted[d] <= minted'[d]
<1> SUFFICES ASSUME NEW d \in End
             PROVE  minted[d] \in Nat /\ minted'[d] \in Nat /\ minted[d] <= minted'[d]
  OBVIOUS
<1>1. Shapes'
  BY NextShapes
<1>2. /\ minted \in [End -> Key] /\ minted[d] \in Nat /\ minted'[d] \in Nat
  BY <1>1, KeyNumbers DEF Shapes, Rest
<1>3. ASSUME NEW e \in End, PublishBundle(e) \/ EstablishOutbound(e) \/ Encrypt(e) \/ Create(e)
      PROVE  minted[d] <= minted'[d]
  <2>1. PICK n \in {minted[e], minted[e] + 1} : minted' = [minted EXCEPT ![e] = n]
    BY <1>3 DEF PublishBundle, EstablishOutbound, Encrypt, Create
  <2> QED BY <1>2, <2>1
<1>4. ASSUME NEW e \in End,
             \/ ForgetPreviousFallbackKey(e) \/ LearnPeer(e) \/ ForgetPeer(e) \/ Decrypt(e)
             \/ Subscribe(e) \/ Leave(e) \/ Export(e) \/ Import(e)
      PROVE  minted' = minted
  BY <1>4 DEF ForgetPreviousFallbackKey, LearnPeer, ForgetPeer, Decrypt, Subscribe, Leave, Export,
              Import
<1>5. UNCHANGED vars => minted' = minted
  BY DEF vars
<1> QED
  BY <1>2, <1>3, <1>4, <1>5 DEF Next

\* All steps but those that seal and open bring nothing new.
LEMMA OthersNarrow ==
  ASSUME Shapes, NEW e \in End,
         \/ PublishBundle(e) \/ ForgetPreviousFallbackKey(e) \/ LearnPeer(e) \/ ForgetPeer(e)
         \/ Subscribe(e) \/ Leave(e) \/ Export(e) \/ Import(e) \/ Create(e)
  PROVE  Narrows
<1>1. /\ session \in [End -> Sessions] /\ disk \in [End -> Snapshot]
      /\ queue \in [End -> Seq(Frames)] /\ inbox \in [End -> Seq(Frames)]
  BY DEF Shapes, Memories, Rest
<1>2. /\ UNCHANGED <<session, disk>> => \A d \in End : Recs(d)' = Recs(d)
      /\ UNCHANGED <<queue, inbox>> => \A d \in End : InFlight(d)' = InFlight(d)
  BY DEF Recs, InFlight
<1>3. inbox' = [inbox EXCEPT ![e] = <<>>] /\ queue' = queue
        => \A d \in End : InFlight(d)' \subseteq InFlight(d)
  <2>1. Range(<<>>) = {}
    BY DEF Range
  <2> QED BY <1>1, <2>1 DEF InFlight
<1>4. CASE PublishBundle(e) \/ ForgetPreviousFallbackKey(e)
  BY <1>2, <1>4 DEF PublishBundle, ForgetPreviousFallbackKey, Narrows
<1>5. CASE LearnPeer(e) \/ ForgetPeer(e)
  <2>1. /\ \E s \in {None, session[e]} : session' = [session EXCEPT ![e] = s]
        /\ UNCHANGED <<disk, queue, inbox>>
    BY <1>5 DEF LearnPeer, ForgetPeer, LearnedSession
  <2>2. \A d \in End : session'[d] \in {None, session[d]} /\ disk'[d] = disk[d]
    BY <1>1, <2>1
  <2> QED
    BY <1>2, <2>1, <2>2 DEF Narrows, Recs
<1>6. CASE Subscribe(e)
  <2>1. inbox' = [inbox EXCEPT ![e] = queue[e]] /\ UNCHANGED <<session, disk, queue>>
    BY <1>6 DEF Subscribe, memory
  <2>2. \A d \in End : inbox'[d] \in {inbox[d], queue[d]}
    BY <1>1, <2>1
  <2> QED
    BY <1>2, <2>1, <2>2 DEF Narrows, InFlight
<1>7. CASE Leave(e)
  <2>1. PICK i \in DOMAIN queue[e] : queue' = [queue EXCEPT ![e] = RemoveAt(queue[e], i)]
    BY <1>7 DEF Leave
  <2>2. UNCHANGED <<session, disk, inbox>>
    BY <1>7 DEF Leave, memory
  <2>3. Range(RemoveAt(queue[e], i)) \subseteq Range(queue[e])
    BY <1>1, RangeFacts
  <2>4. \A d \in End : Range(queue'[d]) \subseteq Range(queue[d])
    BY <1>1, <2>1, <2>3
  <2> QED
    BY <1>2, <2>2, <2>4 DEF Narrows, InFlight
<1>8. CASE Export(e)
  <2>1. disk' = [disk EXCEPT ![e] = Kept(e)] /\ UNCHANGED <<session, queue, inbox>>
    BY <1>8 DEF Export, memory
  <2>2. Kept(e).session = session[e]
    BY DEF Kept
  <2> HIDE DEF Kept
  <2>3. \A d \in End : disk'[d].session \in {disk[d].session, session[d]}
    BY <1>1, <2>1, <2>2
  <2> QED
    BY <1>2, <2>1, <2>3 DEF Narrows, Recs
<1>9. CASE Import(e)
  <2>1. /\ session' = [session EXCEPT ![e] = disk[e].session]
        /\ inbox' = [inbox EXCEPT ![e] = <<>>] /\ UNCHANGED <<disk, queue>>
    BY <1>9 DEF Import
  <2>2. \A d \in End : session'[d] \in {disk[d].session, session[d]}
    BY <1>1, <2>1
  <2> QED
    BY <1>3, <2>1, <2>2 DEF Narrows, Recs
<1>10. CASE Create(e)
  <2> DEFINE blank == [account |-> Installed(minted[e] + 1), peer |-> None, session |-> None,
                       opened |-> {}]
  <2>1. /\ session' = [session EXCEPT ![e] = None] /\ disk' = [disk EXCEPT ![e] = blank]
        /\ inbox' = [inbox EXCEPT ![e] = <<>>] /\ UNCHANGED queue
    BY <1>10 DEF Create
  <2>2. blank.session = None
    OBVIOUS
  <2> HIDE DEF blank
  <2>3. \A d \in End : /\ session'[d] \in {None, session[d]}
                       /\ disk'[d].session \in {None, disk[d].session}
    BY <1>1, <2>1, <2>2
  <2> QED
    BY <1>3, <2>1, <2>3 DEF Narrows, Recs
<1> QED
  BY <1>4, <1>5, <1>6, <1>7, <1>8, <1>9, <1>10

\* The session t that e establishes, and the one it seals on in.
Newest(e) == <<e, minted[e] + 1>>
Begins(e, t) ==
  /\ e \in Starters
  /\ t.id = Newest(e) /\ t.chain = Newest(e) /\ t.last = None.id /\ t.got = {}
  /\ minted'[e] = minted[e] + 1
GoesOn(e, t) ==
  /\ session[e] # None
  /\ t.id = session[e].id /\ t.to = session[e].to
  /\ t.got = session[e].got /\ t.last = session[e].last
  /\ t.chain \in Chain
  /\ t.chain = session[e].chain \/ (t.chain = Newest(e) /\ minted'[e] = minted[e] + 1)

LEMMA NewestIsAChain ==
  ASSUME Shapes, NEW e \in End
  PROVE  Newest(e) \in Chain /\ Newest(e)[1] = e /\ Newest(e)[2] = minted[e] + 1
BY KeyNumbers DEF Shapes, Rest, Newest, Chain

\* What sealing does.
LEMMA SealStep ==
  ASSUME Shapes, NEW e \in End, EstablishOutbound(e) \/ Encrypt(e)
  PROVE  \E t \in Live, F \in SUBSET Frames :
           /\ Sends(e, t, F)
           /\ Begins(e, t) \/ GoesOn(e, t)
           /\ \A f \in F : /\ f.id = t.id /\ f.chain = t.chain /\ f.parent = t.last
                           /\ f.from = account[e].curve
                           /\ t.got # {} => ~f.prekey
           /\ dirty' = dirty \cup {e} /\ astray' = astray
<1>1. /\ queue \in [End -> Seq(Frames)] /\ minted \in [End -> Key] /\ inbox \in [End -> Seq(Frames)]
  BY DEF Shapes, Rest
<1>2. CASE EstablishOutbound(e)
  <2>1. Sends(e, Established(e), {})
    BY <1>2, EstablishedShape DEF EstablishOutbound, Sends, InFlight
  <2>2. Begins(e, Established(e))
    BY <1>1, <1>2 DEF EstablishOutbound, Begins, Established, Newest
  <2>3. dirty' = dirty \cup {e} /\ astray' = astray /\ Established(e) \in Live
    BY <1>2, <2>1 DEF EstablishOutbound, Sends
  <2> HIDE DEF Established
  <2> QED
    BY <2>1, <2>2, <2>3
<1>3. CASE Encrypt(e)
  <2> DEFINE s == Sending(e)
             n == s.next + 1
             t == [s EXCEPT !.next = n]
             f == Frame(e, s)
             most == IF s.chain = Newest(e) THEN minted[e] + 1 ELSE minted[e]
  <2>1. /\ session[e] # None \/ e \in Starters
        /\ session' = [session EXCEPT ![e] = t]
        /\ minted' = [minted EXCEPT ![e] = most]
        /\ queue' = [queue EXCEPT ![Other(e)] = Append(queue[Other(e)], f)]
        /\ dirty' = dirty \cup {e}
        /\ UNCHANGED <<account, peer, disk, served, inbox, astray>>
    BY <1>3 DEF Encrypt, Newest
  <2>2. Known(e)
    BY <1>3 DEF Encrypt
  <2>3. /\ s \in Live /\ s.chain \in Chain
        /\ session[e] = None => s = Established(e)
        /\ session[e] # None => /\ s.to = session[e].to /\ s.id = session[e].id
                                /\ s.got = session[e].got /\ s.last = session[e].last
                                /\ s.chain \in {session[e].chain, Newest(e)}
    BY <2>2, SendingShape DEF Newest
  <2> HIDE DEF s
  <2>4. n \in Nat
    BY <2>3 DEF Live
  <2> HIDE DEF n
  <2>5. /\ t \in Live /\ t.chain = s.chain /\ t.id = s.id /\ t.got = s.got /\ t.to = s.to
        /\ t.last = s.last
    BY <2>3, <2>4, OneField
  <2>6. /\ f \in Frames
        /\ f.id = s.id /\ f.chain = s.chain /\ f.parent = s.last /\ f.from = account[e].curve
        /\ s.got # {} => ~f.prekey
    BY <2>3, FrameShape
  <2> HIDE DEF t, f, most
  <2>7. Sends(e, t, {f})
    <3>1. /\ queue'[e] = queue[e] /\ inbox' = inbox
          /\ queue'[Other(e)] = Append(queue[Other(e)], f)
      BY <1>1, <2>1, TwoEnds
    <3>2. Range(Append(queue[Other(e)], f)) \subseteq Range(queue[Other(e)]) \cup {f}
      BY <1>1, TwoEnds, RangeFacts
    <3>3. InFlight(e)' \subseteq InFlight(e) /\ InFlight(Other(e))' \subseteq InFlight(Other(e)) \cup {f}
      BY <3>1, <3>2 DEF InFlight
    <3> QED
      BY <2>1, <2>5, <3>3 DEF Sends
  <2>8. s.chain = Newest(e) => minted'[e] = minted[e] + 1
    BY <1>1, <2>1 DEF most
  <2>9. Begins(e, t) \/ GoesOn(e, t)
    <3>1. CASE session[e] = None
      <4>1. s.id = Newest(e) /\ s.chain = Newest(e) /\ s.last = None.id /\ s.got = {}
        BY <2>3, <3>1 DEF Established, Newest
      <4> QED
        BY <2>1, <2>5, <2>8, <3>1, <4>1 DEF Begins
    <3>2. CASE session[e] # None
      BY <2>3, <2>5, <2>8, <3>2 DEF GoesOn
    <3> QED BY <3>1, <3>2
  <2> QED
    BY <2>1, <2>5, <2>6, <2>7, <2>9
<1> QED
  BY <1>2, <1>3

\* The session t in which e opens frame f of the session it has.
HearsIn(e, t, f) ==
  /\ session[e] # None
  /\ t.id = session[e].id /\ t.to = session[e].to
  /\ \/ session[e].got # {} /\ t.chain = session[e].chain /\ t.last = session[e].last
     \/ NextChain(session[e], f) /\ t.chain = None.id /\ t.last = f.chain

\* ... and the one it makes of f.
Makes(e, t, f) ==
  /\ t.id = f.id /\ t.to = f.from /\ t.chain = None.id /\ t.last = f.chain
  /\ f.prekey /\ Known(e) /\ f.from = peer[e].curve
  /\ session[e] # None => session[e].id # f.id
  /\ Older(e, f) => astray' # {}

\* What opening does.
LEMMA HearStep ==
  ASSUME Shapes, NEW e \in End, Decrypt(e)
  PROVE  /\ UNCHANGED <<account, peer, disk, dirty, served, minted>>
         /\ astray \subseteq astray'
         /\ \/ Narrows /\ session' = session
            \/ \E t \in Live, f \in InFlight(e) :
                 Sends(e, t, {}) /\ (HearsIn(e, t, f) \/ Makes(e, t, f))
<1> DEFINE f == Head(inbox[e])
           answer == Answer(e, f)
<1>1. /\ inbox[e] # <<>> /\ inbox \in [End -> Seq(Frames)]
      /\ session \in [End -> Sessions]
  BY DEF Decrypt, Shapes, Memories, Rest
<1>2. f \in Range(inbox[e]) /\ Range(Tail(inbox[e])) \subseteq Range(inbox[e])
  BY <1>1, RangeFacts
<1>3. f \in Frames /\ f \in InFlight(e)
  BY <1>2, WhatThereIs DEF InFlight
<1>4. /\ session' = [session EXCEPT ![e] = CASE answer = "opened" -> Advanced(session[e], f)
                                             [] answer = "new session" -> Replacing(e, f)
                                             [] OTHER -> session[e]]
      /\ inbox' = [inbox EXCEPT ![e] = Tail(inbox[e])]
      /\ UNCHANGED <<account, peer, disk, dirty, served, failed, queue, minted>>
  BY DEF Decrypt
<1>5. /\ astray \subseteq astray'
      /\ answer = "new session" /\ Older(e, f) => astray' # {}
  BY DEF Decrypt
<1>6. \A d \in End : InFlight(d)' \subseteq InFlight(d)
  BY <1>1, <1>2, <1>4 DEF InFlight
<1>7. /\ answer = "opened" => session[e] # None /\ Opens(session[e], f)
      /\ answer = "new session" => /\ f.prekey /\ Known(e) /\ f.from = peer[e].curve
                                   /\ session[e] # None => session[e].id # f.id
  BY DEF Answer, MatchesCurrent, Creates
<1> HIDE DEF f, answer
<1>8. CASE answer = "opened"
  <2> DEFINE s == session[e]
             t == Advanced(s, f)
  <2>1. s # None /\ s \in Live /\ Opens(s, f)
    BY <1>1, <1>7, <1>8 DEF Sessions, Live
  <2>2. session' = [session EXCEPT ![e] = t]
    BY <1>4, <1>8
  <2> HIDE DEF s
  <2>3. /\ t \in Live /\ t.to = s.to /\ t.id = s.id
        /\ Follows(s, f) => t.chain = s.chain /\ t.last = s.last
        /\ ~Follows(s, f) => t.chain = None.id /\ t.last = f.chain
    BY <1>3, <2>1, AdvancedShape
  <2> HIDE DEF t
  <2>4. Sends(e, t, {})
    BY <1>4, <1>6, <2>2, <2>3, TwoEnds DEF Sends
  <2>5. HearsIn(e, t, f)
    BY <2>1, <2>3 DEF HearsIn, Opens, Follows, s
  <2> QED
    BY <1>3, <1>4, <1>5, <2>3, <2>4, <2>5
<1>9. CASE answer = "new session"
  <2> DEFINE t == Inbound(f)
  <2>1. session' = [session EXCEPT ![e] = t]
    BY <1>4, <1>9 DEF Replacing
  <2>2. t \in Live /\ t.id = f.id /\ t.to = f.from /\ t.chain = None.id /\ t.last = f.chain
    BY <1>3, InboundShape DEF Inbound
  <2> HIDE DEF t
  <2>3. Sends(e, t, {})
    BY <1>4, <1>6, <2>1, <2>2, TwoEnds DEF Sends
  <2>4. Makes(e, t, f)
    BY <1>5, <1>7, <1>9, <2>2 DEF Makes
  <2> QED
    BY <1>3, <1>4, <1>5, <2>2, <2>3, <2>4
<1>10. CASE answer \notin {"opened", "new session"}
  <2>1. session' = session
    BY <1>1, <1>4, <1>10
  <2> QED
    BY <1>4, <1>5, <1>6, <2>1 DEF Narrows, Recs
<1> QED
  BY <1>8, <1>9, <1>10

-----------------------------------------------------------------------------
(* Numbers are given out before they are used, and an end has one long-term key. *)
Old(c) == c[2] <= minted[c[1]]
ChainsOld ==
  \A e \in End : /\ \A s \in Recs(e) : \A c \in UsedBy(s) : Old(c)
                 /\ \A f \in InFlight(e) : \A c \in UsedIn(f) : Old(c)

KeyOld(e, k) == k \in Keys => k.curve <= minted[Other(e)]
KeysTrue ==
  \A e \in End :
    /\ KeyOld(e, peer[e]) /\ KeyOld(e, disk[e].peer)
    /\ account[e].curve <= minted[e]
    /\ served[e].curve = account[e].curve
    /\ disk[e].account.curve = account[e].curve

LEMMA UsedAreChains ==
  ASSUME Shapes, NEW e \in End
  PROVE  /\ \A s \in Recs(e) : UsedBy(s) \subseteq Chain
         /\ \A f \in InFlight(e) : UsedIn(f) \subseteq Chain
BY WhatThereIs DEF UsedBy, UsedIn, Live, Frames

LEMMA OldStaysOld ==
  ASSUME Shapes, [Next]_vars, NEW c \in Chain, Old(c)
  PROVE  Old(c)'
<1>1. c[1] \in End /\ c[2] \in Nat
  BY KeyNumbers DEF Chain
<1> QED
  BY <1>1, MintedGrows DEF Old

LEMMA NewestIsNew ==
  ASSUME Shapes, NEW e \in End
  PROVE  \A c \in Chain : c = Newest(e) =>
           /\ ~Old(c)
           /\ minted'[e] = minted[e] + 1 => Old(c)'
BY NewestIsAChain, WhatThereIs DEF Old

\* What a step of sending can bring.
LEMMA SendsBrings ==
  ASSUME Shapes, NEW e \in End, NEW t, NEW F, Sends(e, t, F)
  PROVE  /\ \A d \in End : Recs(d)' \subseteq Recs(d) \cup {t}
         /\ \A d \in End : d # e => Recs(d)' \subseteq Recs(d) /\ session'[d] = session[d]
         /\ Recs(e)' \subseteq {t} \cup ({disk[e].session} \ {None})
         /\ session'[e] = t /\ t # None
         /\ \A d \in End : InFlight(d)' \subseteq InFlight(d) \cup F
         /\ InFlight(e)' \subseteq InFlight(e)
         /\ \A d \in End : session[d] # None => session[d] \in Recs(d)
<1>1. session \in [End -> Sessions]
  BY DEF Shapes, Memories
<1>2. \A d \in End : d # e => d = Other(e)
  BY TwoEnds
<1>3. session'[e] = t /\ t # None /\ \A d \in End : d # e => session'[d] = session[d]
  BY <1>1, LiveIsSome DEF Sends
<1>4. disk' = disk
  BY DEF Sends
<1>5. /\ InFlight(e)' \subseteq InFlight(e)
      /\ InFlight(Other(e))' \subseteq InFlight(Other(e)) \cup F
  BY DEF Sends
<1>6. \A d \in End : InFlight(d)' \subseteq InFlight(d) \cup F
  BY <1>2, <1>5
<1>7. /\ \A d \in End : Recs(d)' \subseteq Recs(d) \cup {t}
      /\ \A d \in End : d # e => Recs(d)' \subseteq Recs(d)
      /\ Recs(e)' \subseteq {t} \cup ({disk[e].session} \ {None})
      /\ \A d \in End : session[d] # None => session[d] \in Recs(d)
  BY <1>3, <1>4 DEF Recs
<1> QED
  BY <1>3, <1>5, <1>6, <1>7

\* A step is one that brings nothing, one that seals, or one that opens.
LEMMA ThreeWays ==
  ASSUME Shapes, [Next]_vars
  PROVE  \/ Narrows
         \/ \E e \in End : EstablishOutbound(e) \/ Encrypt(e)
         \/ \E e \in End : Decrypt(e)
<1>1. UNCHANGED vars => Narrows
  BY DEF vars, memory, Narrows, Recs, InFlight
<1> QED
  BY <1>1, OthersNarrow DEF Next

LEMMA ChainsKeep ==
  ASSUME Shapes, ChainsOld, [Next]_vars
  PROVE  ChainsOld'
<1>1. /\ \A d \in End : \A s \in Recs(d) : \A c \in UsedBy(s) : Old(c)'
      /\ \A d \in End : \A f \in InFlight(d) : \A c \in UsedIn(f) : Old(c)'
  BY UsedAreChains, OldStaysOld DEF ChainsOld
<1>2. CASE Narrows
  BY <1>1, <1>2 DEF Narrows, ChainsOld, UsedBy, UsedIn
<1>3. ASSUME NEW e \in End, NEW t, NEW F, Sends(e, t, F),
             \A c \in UsedBy(t) : Old(c)',
             \A f \in F : \A c \in UsedIn(f) : Old(c)'
      PROVE  ChainsOld'
  BY <1>1, <1>3, SendsBrings DEF ChainsOld, UsedBy, UsedIn
<1>4. ASSUME NEW e \in End, EstablishOutbound(e) \/ Encrypt(e)
      PROVE  ChainsOld'
  <2>1. PICK t \in Live, F \in SUBSET Frames :
          /\ Sends(e, t, F)
          /\ Begins(e, t) \/ GoesOn(e, t)
          /\ \A f \in F : f.id = t.id /\ f.chain = t.chain /\ f.parent = t.last
    BY <1>4, SealStep
  <2>2. \A c \in UsedBy(t) : Old(c)'
    <3>1. CASE Begins(e, t)
      BY <3>1, NewestIsNew, NewestIsAChain DEF Begins, UsedBy
    <3>2. CASE GoesOn(e, t)
      <4>1. session[e] \in Recs(e)
        BY <3>2, <2>1, SendsBrings DEF GoesOn
      <4>2. \A c \in UsedBy(session[e]) : Old(c)'
        BY <1>1, <4>1
      <4> QED
        BY <3>2, <4>2, NewestIsNew DEF GoesOn, UsedBy
    <3> QED BY <2>1, <3>1, <3>2
  <2>3. \A f \in F : UsedIn(f) = UsedBy(t)
    BY <2>1 DEF UsedIn, UsedBy
  <2> QED
    BY <1>3, <2>1, <2>2, <2>3
<1>5. ASSUME NEW e \in End, Decrypt(e)
      PROVE  ChainsOld'
  <2>1. CASE Narrows
    BY <1>2, <2>1
  <2>2. ASSUME NEW t \in Live, NEW f \in InFlight(e), Sends(e, t, {}),
               HearsIn(e, t, f) \/ Makes(e, t, f)
        PROVE  \A c \in UsedBy(t) : Old(c)'
    <3>1. \A c \in UsedIn(f) : Old(c)'
      BY <1>1, <2>2
    <3>2. session[e] # None => \A c \in UsedBy(session[e]) : Old(c)'
      BY <1>1, <2>2, SendsBrings
    <3> QED
      BY <2>2, <3>1, <3>2 DEF HearsIn, Makes, UsedBy, UsedIn
  <2> QED
    BY <1>3, <1>5, <2>1, <2>2, HearStep
<1> QED
  BY <1>2, <1>4, <1>5, ThreeWays

LEMMA KeysKeep ==
  ASSUME Shapes, KeysTrue, [Next]_vars
  PROVE  KeysTrue'
<1>1. /\ account \in [End -> Account] /\ peer \in [End -> Keys \cup {None, Forgotten}]
      /\ disk \in [End -> Snapshot] /\ served \in [End -> Keys] /\ minted \in [End -> Key]
  BY DEF Shapes, Memories, Rest
<1>2. \A d \in End : Other(d) \in End /\ minted[d] \in Nat /\ minted'[d] \in Nat /\ minted[d] <= minted'[d]
  BY TwoEnds, MintedGrows
<1>3. \A d \in End : /\ \A k : KeyOld(d, k) => KeyOld(d, k)'
                     /\ account[d].curve <= minted'[d]
  BY <1>1, <1>2 DEF KeyOld, KeysTrue, Keys, Key, Account
<1>4. ASSUME NEW e \in End, PublishBundle(e)
      PROVE  KeysTrue'
  <2> DEFINE a == Generated(e)
             bundle == [curve |-> account[e].curve, fallback |-> minted[e] + 1]
  <2>1. /\ account' = [account EXCEPT ![e] = a] /\ UNCHANGED <<peer, disk>>
        /\ served' = [served EXCEPT ![e] = bundle] \/ served' = served
    BY <1>4 DEF PublishBundle
  <2>2. a.curve = account[e].curve /\ bundle.curve = account[e].curve
    BY <1>1 DEF Generated, Account
  <2> HIDE DEF a, bundle
  <2>3. \A d \in End : /\ account'[d].curve = account[d].curve
                       /\ served'[d].curve = served[d].curve \/ served'[d].curve = account[d].curve
    BY <1>1, <2>1, <2>2
  <2> QED
    BY <1>3, <2>1, <2>3 DEF KeysTrue
<1>5. ASSUME NEW e \in End, ForgetPreviousFallbackKey(e)
      PROVE  KeysTrue'
  <2> DEFINE a == [account[e] EXCEPT !.previous = NoKey]
  <2>1. account' = [account EXCEPT ![e] = a] /\ UNCHANGED <<peer, disk, served>>
    BY <1>5 DEF ForgetPreviousFallbackKey
  <2>2. a.curve = account[e].curve
    BY <1>1 DEF Account
  <2> HIDE DEF a
  <2>3. \A d \in End : account'[d].curve = account[d].curve
    BY <1>1, <2>1, <2>2
  <2> QED
    BY <1>3, <2>1, <2>3 DEF KeysTrue
<1>6. ASSUME NEW e \in End, LearnPeer(e) \/ ForgetPeer(e)
      PROVE  KeysTrue'
  <2>1. PICK k \in {served[Other(e)], Forgotten} :
          peer' = [peer EXCEPT ![e] = k] /\ UNCHANGED <<account, disk, served>>
    BY <1>6 DEF LearnPeer, ForgetPeer
  <2>2. KeyOld(e, served[Other(e)]) /\ KeyOld(e, Forgotten)
    BY <1>2, KeysAreSome DEF KeysTrue, KeyOld
  <2>3. \A d \in End : peer'[d] = peer[d] \/ (d = e /\ peer'[d] = k)
    BY <1>1, <2>1
  <2> QED
    BY <1>3, <2>1, <2>2, <2>3 DEF KeysTrue
<1>7. ASSUME UNCHANGED <<account, peer, disk, served>>
      PROVE  KeysTrue'
  BY <1>3, <1>7 DEF KeysTrue
<1>8. ASSUME NEW e \in End, Export(e)
      PROVE  KeysTrue'
  <2>1. disk' = [disk EXCEPT ![e] = Kept(e)] /\ UNCHANGED <<account, peer, served>>
    BY <1>8 DEF Export, memory
  <2>2. Kept(e).account = account[e] /\ Kept(e).peer = peer[e]
    BY DEF Kept
  <2> HIDE DEF Kept
  <2>3. \A d \in End : disk'[d] = disk[d] \/ (d = e /\ disk'[d] = Kept(e))
    BY <1>1, <2>1
  <2> QED
    BY <1>3, <2>1, <2>2, <2>3 DEF KeysTrue
<1>9. ASSUME NEW e \in End, Import(e)
      PROVE  KeysTrue'
  <2>1. /\ account' = [account EXCEPT ![e] = disk[e].account]
        /\ peer' = [peer EXCEPT ![e] = disk[e].peer]
        /\ UNCHANGED <<disk, served>>
    BY <1>9 DEF Import
  <2>2. \A d \in End : /\ account'[d].curve = account[d].curve
                       /\ peer'[d] = peer[d] \/ (d = e /\ peer'[d] = disk[e].peer)
    BY <1>1, <2>1 DEF KeysTrue
  <2> QED
    BY <1>3, <2>1, <2>2 DEF KeysTrue
<1>10. ASSUME NEW e \in End, Create(e)
       PROVE  KeysTrue'
  <2> DEFINE k == minted[e] + 1
             a == Installed(k)
             blank == [account |-> a, peer |-> None, session |-> None, opened |-> {}]
             bundle == [curve |-> k, fallback |-> k]
  <2>1. /\ account' = [account EXCEPT ![e] = a] /\ disk' = [disk EXCEPT ![e] = blank]
        /\ peer' = [peer EXCEPT ![e] = None] /\ served' = [served EXCEPT ![e] = bundle]
        /\ minted' = [minted EXCEPT ![e] = k]
    BY <1>10 DEF Create
  <2>2. a.curve = k /\ blank.account = a /\ blank.peer = None /\ bundle.curve = k /\ k \in Nat
    BY <1>2 DEF Installed
  <2> HIDE DEF k, a, blank, bundle
  <2>3. /\ account'[e] = a /\ disk'[e] = blank /\ peer'[e] = None /\ served'[e] = bundle
        /\ minted'[e] = k
    BY <1>1, <2>1
  <2>4. \A d \in End : d # e => /\ account'[d] = account[d] /\ disk'[d] = disk[d]
                                /\ peer'[d] = peer[d] /\ served'[d] = served[d]
    BY <1>1, <2>1
  <2>5. KeyOld(e, None)'
    BY KeysAreSome DEF KeyOld
  <2>6. \A d \in End : d # e => /\ KeyOld(d, peer[d])' /\ KeyOld(d, disk[d].peer)'
    <3>1. SUFFICES ASSUME NEW d \in End, d # e
                   PROVE  KeyOld(d, peer[d])' /\ KeyOld(d, disk[d].peer)'
      OBVIOUS
    <3>2. peer'[d] = peer[d] /\ disk'[d] = disk[d] /\ KeyOld(d, peer[d]) /\ KeyOld(d, disk[d].peer)
      BY <2>4, <3>1 DEF KeysTrue
    <3>3. \A q : KeyOld(d, q) => (q \in Keys => q.curve <= minted'[Other(d)])
      BY <1>3 DEF KeyOld
    <3> QED BY <3>2, <3>3 DEF KeyOld
  <2>7. k <= k
    BY <2>2
  <2> QED
    BY <1>3, <2>2, <2>3, <2>4, <2>5, <2>6, <2>7 DEF KeysTrue
<1>11. ASSUME NEW e \in End, \/ EstablishOutbound(e) \/ Encrypt(e) \/ Decrypt(e)
                             \/ Subscribe(e) \/ Leave(e)
       PROVE  UNCHANGED <<account, peer, disk, served>>
  BY <1>11 DEF EstablishOutbound, Encrypt, Decrypt, Subscribe, Leave, memory
<1>12. UNCHANGED vars => UNCHANGED <<account, peer, disk, served>>
  BY DEF vars, memory
<1> QED
  BY <1>4, <1>5, <1>6, <1>7, <1>8, <1>9, <1>10, <1>11, <1>12 DEF Next

-----------------------------------------------------------------------------
(* A chain belongs to one session, wherever it is used.                    *)
FitIn(of, id, C) == \A c \in C \ {None.id} : of[c] = id
AllFit(of) ==
  \A e \in End : /\ \A s \in Recs(e) : FitIn(of, s.id, {s.chain, s.last})
                 /\ \A f \in InFlight(e) : FitIn(of, f.id, {f.chain, f.parent})
ChainsTrue == \E of \in [Chain -> Chain] : AllFit(of)

LEMMA FitKeep ==
  ASSUME Shapes, ChainsOld, ChainsTrue, [Next]_vars
  PROVE  ChainsTrue'
<1> PICK of \in [Chain -> Chain] : AllFit(of)
  BY DEF ChainsTrue
<1>1. CASE Narrows
  <2>1. AllFit(of)'
    BY <1>1 DEF AllFit, Narrows
  <2> QED BY <2>1 DEF ChainsTrue
<1>2. ASSUME NEW e \in End, NEW t, NEW F, Sends(e, t, F), NEW on \in [Chain -> Chain], AllFit(on),
             FitIn(on, t.id, {t.chain, t.last}),
             \A f \in F : f.id = t.id /\ f.chain = t.chain /\ f.parent = t.last
      PROVE  ChainsTrue'
  <2>1. \A d \in End : /\ Recs(d)' \subseteq Recs(d) \cup {t}
                       /\ InFlight(d)' \subseteq InFlight(d) \cup F
    BY <1>2, SendsBrings
  <2>2. \A d \in End : \A s \in Recs(d)' : FitIn(on, s.id, {s.chain, s.last})
    BY <1>2, <2>1 DEF AllFit
  <2>3. \A f \in F : FitIn(on, f.id, {f.chain, f.parent})
    BY <1>2
  <2>4. \A d \in End : \A f \in InFlight(d)' : FitIn(on, f.id, {f.chain, f.parent})
    BY <1>2, <2>1, <2>3 DEF AllFit
  <2>5. AllFit(on)'
    BY <2>2, <2>4 DEF AllFit
  <2> QED BY <2>5 DEF ChainsTrue
<1>3. ASSUME NEW e \in End, EstablishOutbound(e) \/ Encrypt(e)
      PROVE  ChainsTrue'
  <2>1. PICK t \in Live, F \in SUBSET Frames :
          /\ Sends(e, t, F)
          /\ Begins(e, t) \/ GoesOn(e, t)
          /\ \A f \in F : f.id = t.id /\ f.chain = t.chain /\ f.parent = t.last
    BY <1>3, SealStep
  <2>2. session[e] # None => session[e] \in Recs(e)
    BY DEF Recs
  <2>3. t.id \in Chain /\ t.chain \in Chain
    BY <2>1, NewestIsAChain DEF Live, Begins, GoesOn
  <2>4. CASE t.chain = Newest(e)
    <3> DEFINE on == [of EXCEPT ![t.chain] = t.id]
    <3>1. on \in [Chain -> Chain] /\ on[t.chain] = t.id
      BY <2>3
    <3>2. \A c \in Chain : Old(c) => on[c] = of[c]
      BY <2>3, <2>4, NewestIsNew
    <3> HIDE DEF on
    <3>3. AllFit(on)
      <4>1. \A d \in End : \A s \in Recs(d) : FitIn(on, s.id, {s.chain, s.last})
        BY <3>2, UsedAreChains DEF AllFit, FitIn, ChainsOld, UsedBy
      <4>2. \A d \in End : \A f \in InFlight(d) : FitIn(on, f.id, {f.chain, f.parent})
        BY <3>2, UsedAreChains DEF AllFit, FitIn, ChainsOld, UsedIn
      <4> QED BY <4>1, <4>2 DEF AllFit
    <3>4. FitIn(on, t.id, {t.chain, t.last})
      <4>1. CASE Begins(e, t)
        BY <3>1, <4>1 DEF Begins, FitIn
      <4>2. CASE GoesOn(e, t)
        <5>1. FitIn(on, session[e].id, {session[e].chain, session[e].last})
          BY <2>2, <3>3, <4>2 DEF AllFit, GoesOn
        <5> QED BY <3>1, <4>2, <5>1 DEF GoesOn, FitIn
      <4> QED BY <2>1, <4>1, <4>2
    <3> QED
      BY <1>2, <2>1, <3>1, <3>3, <3>4
  <2>5. CASE t.chain # Newest(e)
    <3>1. /\ session[e] # None /\ t.id = session[e].id
          /\ t.chain = session[e].chain /\ t.last = session[e].last
      BY <2>1, <2>5 DEF Begins, GoesOn
    <3>2. FitIn(of, session[e].id, {session[e].chain, session[e].last})
      BY <2>2, <3>1 DEF AllFit
    <3>3. FitIn(of, t.id, {t.chain, t.last})
      BY <3>1, <3>2
    <3> QED
      BY <1>2, <2>1, <3>3
  <2> QED BY <2>4, <2>5
<1>4. ASSUME NEW e \in End, Decrypt(e)
      PROVE  ChainsTrue'
  <2>1. ASSUME NEW t \in Live, NEW f \in InFlight(e), Sends(e, t, {}),
               HearsIn(e, t, f) \/ Makes(e, t, f)
        PROVE  FitIn(of, t.id, {t.chain, t.last})
    <3>1. FitIn(of, f.id, {f.chain, f.parent})
      BY <2>1 DEF AllFit
    <3>2. session[e] # None => FitIn(of, session[e].id, {session[e].chain, session[e].last})
      BY DEF AllFit, Recs
    <3>3. CASE HearsIn(e, t, f)
      BY <3>1, <3>2, <3>3 DEF HearsIn, NextChain, FitIn
    <3>4. CASE Makes(e, t, f)
      BY <3>1, <3>4 DEF Makes, FitIn
    <3> QED BY <2>1, <3>3, <3>4
  <2>2. CASE Narrows
    BY <1>1, <2>2
  <2>3. CASE \E t \in Live, f \in InFlight(e) :
               Sends(e, t, {}) /\ (HearsIn(e, t, f) \/ Makes(e, t, f))
    <3> PICK t \in Live, f \in InFlight(e) :
               Sends(e, t, {}) /\ (HearsIn(e, t, f) \/ Makes(e, t, f))
      BY <2>3
    <3>1. FitIn(of, t.id, {t.chain, t.last})
      BY <2>1
    <3> DEFINE F == {}
    <3>2. /\ Sends(e, t, F)
          /\ \A g \in F : g.id = t.id /\ g.chain = t.chain /\ g.parent = t.last
      OBVIOUS
    <3> HIDE DEF F
    <3> QED BY <1>2, <3>1, <3>2
  <2> QED
    BY <1>4, <2>2, <2>3, HearStep
<1> QED
  BY <1>1, <1>3, <1>4, ThreeWays

-----------------------------------------------------------------------------
(* What is under way is of the starters' sessions, and what they get are answers. *)
OneStarter == \A a, b \in Starters : a = b

StartedTrue ==
  \A e \in End :
    /\ \A s \in Recs(e) : s.id[1] \in Starters
    /\ \A f \in InFlight(e) : f.id[1] \in Starters
    /\ e \in Starters => \A f \in InFlight(e) : ~f.prekey

LEMMA StartedKeep ==
  ASSUME OneStarter, Shapes, StartersTrue, StartedTrue, [Next]_vars
  PROVE  StartedTrue'
<1>1. CASE Narrows
  BY <1>1 DEF StartedTrue, Narrows
<1>2. ASSUME NEW e \in End, NEW t, NEW F, Sends(e, t, F), t.id[1] \in Starters,
             \A f \in F : f.id = t.id /\ (Other(e) \in Starters => ~f.prekey)
      PROVE  StartedTrue'
  <2>1. \A d \in End : d # e => d = Other(e)
    BY TwoEnds
  <2> QED BY <1>2, <2>1, SendsBrings DEF StartedTrue
<1>3. ASSUME NEW e \in End, EstablishOutbound(e) \/ Encrypt(e)
      PROVE  StartedTrue'
  <2>1. PICK t \in Live, F \in SUBSET Frames :
          /\ Sends(e, t, F)
          /\ Begins(e, t) \/ GoesOn(e, t)
          /\ \A f \in F : f.id = t.id /\ (t.got # {} => ~f.prekey)
    BY <1>3, SealStep
  <2>2. CASE Begins(e, t)
    <3>1. t.id[1] \in Starters /\ Other(e) \notin Starters
      BY <2>2, NewestIsAChain, TwoEnds DEF Begins, OneStarter
    <3> QED BY <1>2, <2>1, <3>1
  <2>3. CASE GoesOn(e, t)
    <3>1. t.id[1] \in Starters
      BY <2>3 DEF GoesOn, StartedTrue, Recs
    <3>2. t.got = {} => t.id[1] = e
      BY <2>3 DEF GoesOn, StartersTrue, Starts
    <3>3. Other(e) \in Starters => t.got # {}
      BY <3>1, <3>2, TwoEnds DEF OneStarter
    <3> QED BY <1>2, <2>1, <3>1, <3>3
  <2> QED BY <2>1, <2>2, <2>3
<1>4. ASSUME NEW e \in End, Decrypt(e)
      PROVE  StartedTrue'
  <2>1. ASSUME NEW t \in Live, NEW f \in InFlight(e), HearsIn(e, t, f) \/ Makes(e, t, f)
        PROVE  t.id[1] \in Starters
    BY <2>1 DEF HearsIn, Makes, StartedTrue, Recs
  <2> QED
    BY <1>1, <1>2, <1>4, <2>1, HearStep
<1> QED
  BY <1>1, <1>3, <1>4, ThreeWays

-----------------------------------------------------------------------------
(* Of a session of this installation's, the other end knows the right key.  *)
FromAt(a) ==
  \A x \in Recs(a) :
    /\ \A f \in InFlight(Other(a)) : f.id = x.id => f.from = account[a].curve
    /\ \A s \in Recs(Other(a)) : s.id = x.id => s.to = account[a].curve
FromTrue == \A a \in Starters : FromAt(a)

\* Only a new installation changes the long-term key, and it has no session.
LEMMA CurvesStay ==
  ASSUME Shapes, KeysTrue, [Next]_vars, NEW d \in End
  PROVE  \/ account'[d].curve = account[d].curve
         \/ Recs(d)' = {} /\ account'[d].curve = minted[d] + 1
<1>1. account \in [End -> Account] /\ disk \in [End -> Snapshot] /\ session \in [End -> Sessions]
  BY DEF Shapes, Memories, Rest
<1>2. ASSUME NEW e \in End, PublishBundle(e) \/ ForgetPreviousFallbackKey(e) \/ Import(e)
      PROVE  account'[d].curve = account[d].curve
  <2>1. PICK k \in {Generated(e), [account[e] EXCEPT !.previous = NoKey], disk[e].account} :
          account' = [account EXCEPT ![e] = k]
    BY <1>2 DEF PublishBundle, ForgetPreviousFallbackKey, Import
  <2>2. k.curve = account[e].curve
    BY <1>1 DEF Generated, Account, KeysTrue
  <2> QED BY <1>1, <2>1, <2>2
<1>3. ASSUME NEW e \in End, Create(e)
      PROVE  \/ account'[d].curve = account[d].curve
             \/ Recs(d)' = {} /\ account'[d].curve = minted[d] + 1
  <2> DEFINE a == Installed(minted[e] + 1)
             blank == [account |-> a, peer |-> None, session |-> None, opened |-> {}]
  <2>1. /\ account' = [account EXCEPT ![e] = a] /\ disk' = [disk EXCEPT ![e] = blank]
        /\ session' = [session EXCEPT ![e] = None]
    BY <1>3 DEF Create
  <2>2. a.curve = minted[e] + 1 /\ blank.session = None
    BY DEF Installed
  <2> HIDE DEF a, blank
  <2>3. CASE d = e
    <3>1. session'[d] = None /\ disk'[d] = blank /\ account'[d] = a
      BY <1>1, <2>1, <2>3
    <3> QED BY <2>2, <2>3, <3>1 DEF Recs
  <2>4. CASE d # e
    BY <1>1, <2>1, <2>4
  <2> QED BY <2>3, <2>4
<1>4. ASSUME NEW e \in End, \/ LearnPeer(e) \/ ForgetPeer(e) \/ EstablishOutbound(e) \/ Encrypt(e)
                            \/ Decrypt(e) \/ Subscribe(e) \/ Leave(e) \/ Export(e)
      PROVE  account' = account
  BY <1>4 DEF LearnPeer, ForgetPeer, EstablishOutbound, Encrypt, Decrypt, Subscribe, Leave, Export,
              memory
<1>5. UNCHANGED vars => account' = account
  BY DEF vars, memory
<1> QED
  BY <1>2, <1>3, <1>4, <1>5 DEF Next

\* The starter goes on in the session it has, or in a new one.
LEMMA StarterSeals ==
  ASSUME OneStarter, Shapes, ChainsOld, StartedTrue, NEW a \in Starters,
         EstablishOutbound(a) \/ Encrypt(a)
  PROVE  \E t \in Live, F \in SUBSET Frames :
           /\ Sends(a, t, F)
           /\ dirty' = dirty \cup {a} /\ astray' = astray
           /\ \A f \in F : f.id = t.id /\ f.from = account[a].curve
           /\ \/ /\ session[a] # None /\ t.id = session[a].id /\ t.to = session[a].to
                 /\ t.got = session[a].got
                 /\ \/ t.chain = session[a].chain
                    \/ \A f \in InFlight(a) : f.parent # t.chain
              \/ /\ \A f \in InFlight(Other(a)) : f.id[2] < t.id[2] /\ f.id # t.id
                 /\ \A s \in Recs(Other(a)) : s.id[2] < t.id[2] /\ s.id # t.id
                 /\ t.got = {} /\ \A f \in InFlight(a) : f.parent # t.chain
<1>1. a \in End /\ Other(a) \in End
  BY SessionAssumption, TwoEnds
<1>2. PICK t \in Live, F \in SUBSET Frames :
        /\ Sends(a, t, F)
        /\ Begins(a, t) \/ GoesOn(a, t)
        /\ \A f \in F : f.id = t.id /\ f.from = account[a].curve
        /\ dirty' = dirty \cup {a} /\ astray' = astray
  BY <1>1, SealStep
<1>3. t.chain = Newest(a) => \A f \in InFlight(a) : f.parent # t.chain
  <2> SUFFICES ASSUME t.chain = Newest(a), NEW f \in InFlight(a), f.parent = t.chain
               PROVE  FALSE
    OBVIOUS
  <2>1. t.chain \in Chain /\ ~Old(t.chain)
    BY <1>1, NewestIsAChain, NewestIsNew
  <2>2. f.parent \in UsedIn(f)
    BY <2>1, NoChain DEF UsedIn
  <2> QED BY <1>1, <2>1, <2>2 DEF ChainsOld
<1>4. CASE GoesOn(a, t)
  BY <1>2, <1>3, <1>4 DEF GoesOn
<1>5. CASE Begins(a, t)
  <2>1. t.id[2] = minted[a] + 1 /\ minted[a] \in Nat
    BY <1>1, <1>5, NewestIsAChain, WhatThereIs DEF Begins
  <2>2. ASSUME NEW c \in Chain, Old(c), c[1] \in Starters
        PROVE  c[2] < t.id[2] /\ c # t.id
    <3>1. c[1] = a /\ c[2] <= minted[a] /\ c[2] \in Nat
      BY <2>2, KeyNumbers DEF OneStarter, Old, Chain
    <3> QED BY <2>1, <3>1
  <2>3. \A f \in InFlight(Other(a)) : f.id \in Chain /\ Old(f.id) /\ f.id[1] \in Starters
    <3>1. \A f \in InFlight(Other(a)) : f.id \in Chain
      BY <1>1, WhatThereIs DEF Frames
    <3> QED BY <1>1, <3>1, NoChain DEF ChainsOld, StartedTrue, UsedIn
  <2>4. \A s \in Recs(Other(a)) : s.id \in Chain /\ Old(s.id) /\ s.id[1] \in Starters
    <3>1. \A s \in Recs(Other(a)) : s.id \in Chain
      BY <1>1, WhatThereIs DEF Live
    <3> QED BY <1>1, <3>1, NoChain DEF ChainsOld, StartedTrue, UsedBy
  <2>5. t.chain = Newest(a) /\ t.got = {}
    BY <1>5 DEF Begins
  <2> QED
    BY <1>2, <1>3, <2>2, <2>3, <2>4, <2>5
<1> QED
  BY <1>2, <1>4, <1>5

\* The end that answers seals in the session it has; the frame follows what was heard last.
LEMMA AnswererSeals ==
  ASSUME OneStarter, Shapes, NEW a \in Starters, EstablishOutbound(Other(a)) \/ Encrypt(Other(a))
  PROVE  LET b == Other(a) IN
         \E t \in Live, F \in SUBSET Frames :
           /\ Sends(b, t, F)
           /\ dirty' = dirty \cup {b} /\ astray' = astray
           /\ session[b] # None /\ t.id = session[b].id /\ t.to = session[b].to
           /\ \A f \in F : f.id = t.id /\ f.parent = session[b].last
<1>1. a \in End /\ Other(a) \in End /\ Other(a) \notin Starters
  BY SessionAssumption, TwoEnds DEF OneStarter
<1>2. PICK t \in Live, F \in SUBSET Frames :
        /\ Sends(Other(a), t, F)
        /\ Begins(Other(a), t) \/ GoesOn(Other(a), t)
        /\ \A f \in F : f.id = t.id /\ f.parent = t.last
        /\ dirty' = dirty \cup {Other(a)} /\ astray' = astray
  BY <1>1, SealStep
<1> QED
  BY <1>1, <1>2 DEF Begins, GoesOn

\* The starter opens in the session it has: what it gets are answers.
LEMMA StarterHears ==
  ASSUME Shapes, StartedTrue, NEW a \in Starters, Decrypt(a)
  PROVE  \/ Narrows /\ session' = session
         \/ \E t \in Live, f \in InFlight(a) : Sends(a, t, {}) /\ HearsIn(a, t, f)
<1>1. a \in End
  BY SessionAssumption
<1>2. \A f \in InFlight(a) : ~f.prekey
  BY <1>1 DEF StartedTrue
<1> QED
  BY <1>1, <1>2, HearStep DEF Makes

LEMMA FromKeep ==
  ASSUME OneStarter, Shapes, ChainsOld, KeysTrue, StartersTrue, StartedTrue, FromTrue, [Next]_vars
  PROVE  FromTrue'
<1> SUFFICES ASSUME NEW a \in Starters
             PROVE  FromAt(a)'
  BY DEF FromTrue
<1> DEFINE b == Other(a)
<1>1. /\ a \in End /\ b \in End /\ b # a /\ Other(b) = a
      /\ \A d \in End : d = a \/ d = b
  BY SessionAssumption, TwoEnds
<1>2. \A x \in Recs(a) : /\ \A f \in InFlight(b) : f.id = x.id => f.from = account[a].curve
                         /\ \A s \in Recs(b) : s.id = x.id => s.to = account[a].curve
  BY DEF FromTrue, FromAt
<1>3. ASSUME Narrows
      PROVE  FromAt(a)'
  BY <1>1, <1>2, <1>3, CurvesStay DEF Narrows, FromAt
<1>4. ASSUME EstablishOutbound(a) \/ Encrypt(a)
      PROVE  FromAt(a)'
  <2>1. PICK t \in Live, F \in SUBSET Frames :
           /\ Sends(a, t, F)
           /\ \A f \in F : f.id = t.id /\ f.from = account[a].curve
           /\ \/ session[a] # None /\ t.id = session[a].id
              \/ /\ \A f \in InFlight(b) : f.id # t.id
                 /\ \A s \in Recs(b) : s.id # t.id
    BY <1>1, <1>4, StarterSeals
  <2>2. account' = account
    BY <2>1 DEF Sends
  <2>3. /\ Recs(a)' \subseteq Recs(a) \cup {t} /\ Recs(b)' \subseteq Recs(b)
        /\ InFlight(b)' \subseteq InFlight(b) \cup F
        /\ session[a] # None => session[a] \in Recs(a)
    BY <1>1, <2>1, SendsBrings
  <2>4. /\ \A f \in InFlight(b) : f.id = t.id => f.from = account[a].curve
        /\ \A s \in Recs(b) : s.id = t.id => s.to = account[a].curve
    BY <1>2, <2>1, <2>3
  <2> QED
    BY <1>2, <2>1, <2>2, <2>3, <2>4 DEF FromAt
<1>5. ASSUME EstablishOutbound(b) \/ Encrypt(b)
      PROVE  FromAt(a)'
  <2>1. PICK t \in Live, F \in SUBSET Frames :
           /\ Sends(b, t, F)
           /\ session[b] # None /\ t.id = session[b].id /\ t.to = session[b].to
    BY <1>5, AnswererSeals
  <2>2. account' = account
    BY <2>1 DEF Sends
  <2>3. /\ Recs(a)' \subseteq Recs(a) /\ Recs(b)' \subseteq Recs(b) \cup {t}
        /\ InFlight(b)' \subseteq InFlight(b)
        /\ session[b] \in Recs(b)
    BY <1>1, <2>1, SendsBrings
  <2> QED
    BY <1>2, <2>1, <2>2, <2>3 DEF FromAt
<1>6. ASSUME Decrypt(a)
      PROVE  FromAt(a)'
  <2>1. CASE Narrows
    BY <1>3, <2>1
  <2>2. ASSUME NEW t \in Live, NEW f \in InFlight(a), Sends(a, t, {}), HearsIn(a, t, f)
        PROVE  FromAt(a)'
    <3>1. session[a] # None /\ t.id = session[a].id /\ account' = account
      BY <2>2 DEF HearsIn, Sends
    <3>2. /\ Recs(a)' \subseteq Recs(a) \cup {t} /\ Recs(b)' \subseteq Recs(b)
          /\ InFlight(b)' \subseteq InFlight(b) \cup {}
          /\ session[a] \in Recs(a)
      BY <1>1, <2>2, <3>1, SendsBrings
    <3> QED
      BY <1>2, <3>1, <3>2 DEF FromAt
  <2> QED
    BY <1>6, <2>1, <2>2, StarterHears
<1>7. ASSUME Decrypt(b)
      PROVE  FromAt(a)'
  <2>1. CASE Narrows
    BY <1>3, <2>1
  <2>2. ASSUME NEW t \in Live, NEW f \in InFlight(b), Sends(b, t, {}),
               HearsIn(b, t, f) \/ Makes(b, t, f)
        PROVE  FromAt(a)'
    <3>1. \/ session[b] # None /\ t.id = session[b].id /\ t.to = session[b].to
          \/ t.id = f.id /\ t.to = f.from
      BY <2>2 DEF HearsIn, Makes
    <3>2. account' = account
      BY <2>2 DEF Sends
    <3>3. /\ Recs(a)' \subseteq Recs(a) /\ Recs(b)' \subseteq Recs(b) \cup {t}
          /\ InFlight(b)' \subseteq InFlight(b)
          /\ session[b] # None => session[b] \in Recs(b)
      BY <1>1, <2>2, SendsBrings
    <3>4. \A x \in Recs(a) : t.id = x.id => t.to = account[a].curve
      BY <1>2, <2>2, <3>1, <3>3
    <3> QED
      BY <1>2, <3>2, <3>3, <3>4 DEF FromAt
  <2> QED
    BY <1>1, <1>7, <2>1, <2>2, HearStep
<1> QED
  BY <1>1, <1>3, <1>4, <1>5, <1>6, <1>7, ThreeWays

-----------------------------------------------------------------------------
(* The session a starter has, or would have after a restart that loses      *)
(* nothing, is the last one there is.                                       *)
Current(a) ==
  ({session[a]} \cup (IF a \in dirty THEN {} ELSE {disk[a].session})) \ {None}

LatestAt(a) ==
  \A x \in Current(a) : /\ \A f \in InFlight(Other(a)) : f.id[2] <= x.id[2]
                        /\ \A s \in Recs(Other(a)) : s.id[2] <= x.id[2]
LatestTrue == astray = {} => \A a \in Starters : LatestAt(a)

LEMMA AstrayGrows == ASSUME [Next]_vars PROVE astray \subseteq astray'
BY DEF Next, PublishBundle, ForgetPreviousFallbackKey, LearnPeer, ForgetPeer, EstablishOutbound,
       Encrypt, Decrypt, Subscribe, Leave, Export, Import, Create, vars

LEMMA OthersCurrent ==
  ASSUME Shapes, NEW e \in End, astray' = {},
         \/ PublishBundle(e) \/ ForgetPreviousFallbackKey(e) \/ LearnPeer(e) \/ ForgetPeer(e)
         \/ Subscribe(e) \/ Leave(e) \/ Export(e) \/ Import(e) \/ Create(e),
         NEW d \in End
  PROVE  Current(d)' \subseteq Current(d)
<1>1. session \in [End -> Sessions] /\ disk \in [End -> Snapshot]
  BY DEF Shapes, Memories, Rest
<1>2. CASE PublishBundle(e) \/ ForgetPreviousFallbackKey(e) \/ Subscribe(e) \/ Leave(e)
  <2>1. UNCHANGED <<session, disk>> /\ dirty \subseteq dirty'
    BY <1>2 DEF PublishBundle, ForgetPreviousFallbackKey, Subscribe, Leave, memory
  <2> QED BY <2>1 DEF Current
<1>3. CASE LearnPeer(e) \/ ForgetPeer(e)
  <2>1. PICK s \in {None, session[e]} : session' = [session EXCEPT ![e] = s]
    BY <1>3 DEF LearnPeer, ForgetPeer, LearnedSession
  <2>2. UNCHANGED <<disk, dirty>>
    BY <1>3 DEF LearnPeer, ForgetPeer
  <2>3. session'[d] \in {None, session[d]}
    BY <1>1, <2>1
  <2> QED BY <2>2, <2>3 DEF Current
<1>4. CASE Export(e)
  <2>1. /\ disk' = [disk EXCEPT ![e] = Kept(e)] /\ dirty' = dirty \ {e} /\ session' = session
    BY <1>4 DEF Export, memory
  <2>2. Kept(e).session = session[e]
    BY DEF Kept
  <2> HIDE DEF Kept
  <2>3. CASE d = e
    BY <1>1, <2>1, <2>2, <2>3 DEF Current
  <2>4. CASE d # e
    BY <1>1, <2>1, <2>4 DEF Current
  <2> QED BY <2>3, <2>4
<1>5. CASE Import(e)
  <2>1. /\ session' = [session EXCEPT ![e] = disk[e].session] /\ disk' = disk
        /\ dirty' = dirty \ {e} /\ e \notin dirty
    BY <1>5 DEF Import
  <2> QED BY <1>1, <2>1 DEF Current
<1>6. CASE Create(e)
  <2> DEFINE blank == [account |-> Installed(minted[e] + 1), peer |-> None, session |-> None,
                       opened |-> {}]
  <2>1. /\ session' = [session EXCEPT ![e] = None] /\ disk' = [disk EXCEPT ![e] = blank]
        /\ dirty' = dirty \ {e}
    BY <1>6 DEF Create
  <2>2. blank.session = None
    OBVIOUS
  <2> HIDE DEF blank
  <2>3. CASE d = e
    BY <1>1, <2>1, <2>2, <2>3 DEF Current
  <2>4. CASE d # e
    BY <1>1, <2>1, <2>4 DEF Current
  <2> QED BY <2>3, <2>4
<1> QED
  BY <1>2, <1>3, <1>4, <1>5, <1>6

\* The end that takes a step of sending goes on from its new session.
LEMMA SendsCurrent ==
  ASSUME Shapes, NEW e \in End, NEW t, NEW F, Sends(e, t, F), dirty' = dirty \/ dirty' = dirty \cup {e}
  PROVE  /\ Current(e)' \subseteq Current(e) \cup {t}
         /\ dirty' = dirty \cup {e} => Current(e)' = {t}
         /\ \A d \in End : d # e => Current(d)' = Current(d)
         /\ session[e] # None => session[e] \in Current(e)
<1>1. session'[e] = t /\ t # None /\ \A d \in End : d # e => session'[d] = session[d]
  BY SendsBrings
<1>2. disk' = disk
  BY DEF Sends
<1> QED
  BY <1>1, <1>2 DEF Current

LEMMA LatestKeep ==
  ASSUME OneStarter, Shapes, ChainsOld, StartersTrue, StartedTrue, LatestTrue, [Next]_vars
  PROVE  LatestTrue'
<1> SUFFICES ASSUME astray' = {}, NEW a \in Starters
             PROVE  LatestAt(a)'
  BY DEF LatestTrue
<1> DEFINE b == Other(a)
<1>1. /\ a \in End /\ b \in End /\ b # a /\ Other(b) = a
      /\ \A d \in End : d = a \/ d = b
  BY SessionAssumption, TwoEnds
<1>2. \A x \in Current(a) : /\ \A f \in InFlight(b) : f.id[2] <= x.id[2]
                            /\ \A s \in Recs(b) : s.id[2] <= x.id[2]
  BY AstrayGrows DEF LatestTrue, LatestAt
<1>3. ASSUME Narrows, Current(a)' \subseteq Current(a)
      PROVE  LatestAt(a)'
  BY <1>1, <1>2, <1>3 DEF Narrows, LatestAt
<1>4. ASSUME EstablishOutbound(a) \/ Encrypt(a)
      PROVE  LatestAt(a)'
  <2>1. PICK t \in Live, F \in SUBSET Frames :
           /\ Sends(a, t, F) /\ dirty' = dirty \cup {a}
           /\ \A f \in F : f.id = t.id
           /\ \/ session[a] # None /\ t.id = session[a].id
              \/ /\ \A f \in InFlight(b) : f.id[2] < t.id[2]
                 /\ \A s \in Recs(b) : s.id[2] < t.id[2]
    BY <1>1, <1>4, StarterSeals
  <2>2. /\ Current(a)' = {t} /\ Recs(b)' \subseteq Recs(b)
        /\ InFlight(b)' \subseteq InFlight(b) \cup F
        /\ session[a] # None => session[a] \in Current(a)
    BY <1>1, <2>1, SendsBrings, SendsCurrent
  <2>3. /\ \A f \in Frames : f.id[2] \in Nat
        /\ \A s \in Live : s.id[2] \in Nat
    BY KeyNumbers DEF Frames, Live, Chain
  <2>4. /\ t.id[2] <= t.id[2] /\ InFlight(b) \subseteq Frames /\ Recs(b) \subseteq Live
    BY <1>1, <2>1, <2>3, WhatThereIs
  <2>5. /\ \A f \in InFlight(b) \cup F : f.id[2] <= t.id[2]
        /\ \A s \in Recs(b) : s.id[2] <= t.id[2]
    BY <1>2, <2>1, <2>2, <2>3, <2>4
  <2> QED
    BY <2>2, <2>5 DEF LatestAt
<1>5. ASSUME EstablishOutbound(b) \/ Encrypt(b)
      PROVE  LatestAt(a)'
  <2>1. PICK t \in Live, F \in SUBSET Frames :
           /\ Sends(b, t, F) /\ dirty' = dirty \cup {b}
           /\ session[b] # None /\ t.id = session[b].id
    BY <1>5, AnswererSeals
  <2>2. /\ Current(a)' = Current(a) /\ Recs(b)' \subseteq Recs(b) \cup {t}
        /\ InFlight(b)' \subseteq InFlight(b)
        /\ session[b] \in Recs(b)
    BY <1>1, <2>1, SendsBrings, SendsCurrent
  <2> QED
    BY <1>2, <2>1, <2>2 DEF LatestAt
<1>6. ASSUME NEW e \in End, Decrypt(e), Narrows, session' = session
      PROVE  LatestAt(a)'
  <2>1. UNCHANGED <<session, disk, dirty>>
    BY <1>6, HearStep
  <2> QED BY <1>3, <1>6, <2>1 DEF Current
<1>7. ASSUME Decrypt(a)
      PROVE  LatestAt(a)'
  <2>1. ASSUME NEW t \in Live, NEW f \in InFlight(a), Sends(a, t, {}), HearsIn(a, t, f)
        PROVE  LatestAt(a)'
    <3>1. session[a] # None /\ t.id = session[a].id /\ dirty' = dirty
      BY <1>1, <1>7, <2>1, HearStep DEF HearsIn
    <3>2. /\ Current(a)' \subseteq Current(a) \cup {t} /\ Recs(b)' \subseteq Recs(b)
          /\ InFlight(b)' \subseteq InFlight(b) \cup {}
          /\ session[a] \in Current(a)
      BY <1>1, <2>1, <3>1, SendsBrings, SendsCurrent
    <3> QED
      BY <1>2, <3>1, <3>2 DEF LatestAt
  <2> QED
    BY <1>1, <1>6, <1>7, <2>1, StarterHears
<1>8. ASSUME Decrypt(b)
      PROVE  LatestAt(a)'
  <2>1. ASSUME NEW t \in Live, NEW f \in InFlight(b), Sends(b, t, {}),
               HearsIn(b, t, f) \/ Makes(b, t, f)
        PROVE  LatestAt(a)'
    <3>1. \/ session[b] # None /\ t.id = session[b].id
          \/ t.id = f.id
      BY <2>1 DEF HearsIn, Makes
    <3>2. dirty' = dirty
      BY <1>1, <1>8, HearStep
    <3>3. /\ Current(a)' = Current(a) /\ Recs(b)' \subseteq Recs(b) \cup {t}
          /\ InFlight(b)' \subseteq InFlight(b)
          /\ session[b] # None => session[b] \in Recs(b)
      BY <1>1, <2>1, <3>2, SendsBrings, SendsCurrent
    <3>4. \A x \in Current(a) : t.id[2] <= x.id[2]
      BY <1>2, <2>1, <3>1, <3>3
    <3> QED
      BY <1>2, <3>3, <3>4 DEF LatestAt
  <2> QED
    BY <1>1, <1>6, <1>8, <2>1, HearStep
<1>9. ASSUME NEW e \in End,
             \/ PublishBundle(e) \/ ForgetPreviousFallbackKey(e) \/ LearnPeer(e) \/ ForgetPeer(e)
             \/ Subscribe(e) \/ Leave(e) \/ Export(e) \/ Import(e) \/ Create(e)
      PROVE  LatestAt(a)'
  BY <1>1, <1>3, <1>9, OthersNarrow, OthersCurrent
<1>10. ASSUME UNCHANGED vars
       PROVE  LatestAt(a)'
  BY <1>3, <1>10 DEF vars, memory, Narrows, Recs, InFlight, Current
<1> QED
  BY <1>1, <1>4, <1>5, <1>7, <1>8, <1>9, <1>10 DEF Next

-----------------------------------------------------------------------------
(* What is answered was heard: the other end is on the session, unless it    *)
(* was told to forget the starter or is not the installation meant.         *)
Follower(a, x, k, s) ==
  \/ s # None /\ s.id = x.id /\ k.curve = account[a].curve
  \/ k = Forgotten
  \/ x.to # account[Other(a)].curve

Answered(a, x) ==
  x.got # {} \/ (x.chain # None.id /\ \E f \in InFlight(a) : f.parent = x.chain)

HeardAt(a) ==
  \A x \in Current(a) : Answered(a, x) =>
    /\ Follower(a, x, peer[Other(a)], session[Other(a)])
    /\ Other(a) \notin dirty => Follower(a, x, disk[Other(a)].peer, disk[Other(a)].session)
HeardTrue == astray = {} => \A a \in Starters : HeardAt(a)

LEMMA FollowerKeeps ==
  ASSUME NEW a \in End, NEW x, NEW k, NEW s, Follower(a, x, k, s),
         account'[a].curve = account[a].curve,
         account'[Other(a)].curve = account[Other(a)].curve
  PROVE  Follower(a, x, k, s)'
BY DEF Follower

LEMMA CurrentAreRecs ==
  ASSUME NEW d \in End
  PROVE  Current(d) \subseteq Recs(d)
BY DEF Current, Recs

\* A step that leaves the other end alone.
LEMMA HeardStays ==
  ASSUME NEW a \in End, NEW b, b = Other(a), HeardAt(a),
         Current(a)' \subseteq Current(a), InFlight(a)' \subseteq InFlight(a),
         UNCHANGED <<peer[b], session[b], disk[b]>>, b \notin dirty' => b \notin dirty,
         Current(a)' # {} => account'[a].curve = account[a].curve,
         account'[b].curve = account[b].curve
  PROVE  HeardAt(a)'
<1> SUFFICES ASSUME NEW x \in Current(a)', Answered(a, x)'
             PROVE  /\ Follower(a, x, peer[b], session[b])'
                    /\ b \notin dirty' => Follower(a, x, disk[b].peer, disk[b].session)'
  BY DEF HeardAt
<1>1. Answered(a, x)
  BY DEF Answered
<1>2. /\ Follower(a, x, peer[b], session[b])
      /\ b \notin dirty => Follower(a, x, disk[b].peer, disk[b].session)
  BY <1>1 DEF HeardAt
<1>3. account'[a].curve = account[a].curve
  OBVIOUS
<1> QED
  BY <1>2, <1>3 DEF Follower

LEMMA HeardKeepStarter ==
  ASSUME OneStarter, Shapes, ChainsOld, StartersTrue, StartedTrue, NEW a \in Starters, HeardAt(a),
         EstablishOutbound(a) \/ Encrypt(a) \/ Decrypt(a)
  PROVE  HeardAt(a)'
<1> DEFINE b == Other(a)
<1>1. a \in End /\ b \in End /\ b # a
  BY SessionAssumption, TwoEnds
<1>2. ASSUME NEW t \in Live, NEW F, Sends(a, t, F),
             dirty' = dirty \/ dirty' = dirty \cup {a},
             Current(a)' = {t} \/ Current(a)' \subseteq Current(a) \cup {t},
             Answered(a, t)' => /\ session[a] # None /\ Answered(a, session[a])
                                /\ t.id = session[a].id /\ t.to = session[a].to
      PROVE  HeardAt(a)'
  <2> SUFFICES ASSUME NEW x \in Current(a)', Answered(a, x)'
               PROVE  /\ Follower(a, x, peer[b], session[b])'
                      /\ b \notin dirty' => Follower(a, x, disk[b].peer, disk[b].session)'
    BY DEF HeardAt
  <2>1. /\ UNCHANGED <<account, peer, disk>> /\ session'[b] = session[b]
        /\ b \notin dirty' => b \notin dirty
        /\ InFlight(a)' \subseteq InFlight(a)
        /\ session[a] # None => session[a] \in Current(a)
    BY <1>1, <1>2, SendsBrings, SendsCurrent DEF Sends
  <2>2. PICK y \in Current(a) : Answered(a, y) /\ y.id = x.id /\ y.to = x.to
    <3>1. CASE x = t
      BY <1>2, <2>1, <3>1
    <3>2. CASE x # t
      <4>1. x \in Current(a)
        BY <1>2, <3>2
      <4>2. Answered(a, x)
        BY <2>1 DEF Answered
      <4> QED BY <4>1, <4>2
    <3> QED BY <3>1, <3>2
  <2>3. /\ Follower(a, y, peer[b], session[b])
        /\ b \notin dirty => Follower(a, y, disk[b].peer, disk[b].session)
    BY <2>2 DEF HeardAt
  <2> QED BY <2>1, <2>2, <2>3 DEF Follower
<1>3. CASE EstablishOutbound(a) \/ Encrypt(a)
  <2>1. PICK t \in Live, F \in SUBSET Frames :
           /\ Sends(a, t, F) /\ dirty' = dirty \cup {a}
           /\ \/ /\ session[a] # None /\ t.id = session[a].id /\ t.to = session[a].to
                 /\ t.got = session[a].got
                 /\ \/ t.chain = session[a].chain
                    \/ \A f \in InFlight(a) : f.parent # t.chain
              \/ t.got = {} /\ \A f \in InFlight(a) : f.parent # t.chain
    BY <1>1, <1>3, StarterSeals
  <2>2. Current(a)' = {t} /\ InFlight(a)' \subseteq InFlight(a)
    BY <1>1, <2>1, SendsBrings, SendsCurrent
  <2>3. Answered(a, t)' => Answered(a, t)
    BY <2>2 DEF Answered
  <2>4. Answered(a, t) => /\ session[a] # None /\ Answered(a, session[a])
                          /\ t.id = session[a].id /\ t.to = session[a].to
    BY <2>1 DEF Answered
  <2> QED
    BY <1>2, <2>1, <2>2, <2>3, <2>4
<1>4. CASE Decrypt(a)
  <2>1. UNCHANGED <<account, peer, disk, dirty>>
    BY <1>1, <1>4, HearStep
  <2>2. CASE Narrows /\ session' = session
    <3>1. Current(a)' = Current(a) /\ InFlight(a)' \subseteq InFlight(a)
      BY <1>1, <2>1, <2>2 DEF Current, Narrows
    <3> QED
      BY <1>1, <2>1, <2>2, <3>1, HeardStays
  <2>3. ASSUME NEW t \in Live, NEW f \in InFlight(a), Sends(a, t, {}), HearsIn(a, t, f)
        PROVE  HeardAt(a)'
    <3>1. Current(a)' \subseteq Current(a) \cup {t}
      BY <1>1, <2>1, <2>3, SendsCurrent
    <3>2. /\ session[a] # None /\ Answered(a, session[a])
          /\ t.id = session[a].id /\ t.to = session[a].to
      BY <2>3 DEF HearsIn, NextChain, Answered
    <3> QED
      BY <1>2, <2>1, <2>3, <3>1, <3>2
  <2> QED
    BY <1>4, <2>2, <2>3, StarterHears
<1> QED
  BY <1>3, <1>4

LEMMA HeardKeepAnswerer ==
  ASSUME OneStarter, Shapes, FitsTrue, ChainsTrue, StartedTrue, NEW a \in Starters,
         FromAt(a), LatestAt(a), HeardAt(a), astray' = {},
         EstablishOutbound(Other(a)) \/ Encrypt(Other(a)) \/ Decrypt(Other(a))
  PROVE  HeardAt(a)'
<1> DEFINE b == Other(a)
<1>1. a \in End /\ b \in End /\ b # a /\ Other(b) = a
  BY SessionAssumption, TwoEnds
<1>2. CASE EstablishOutbound(b) \/ Encrypt(b)
  <2>1. PICK t \in Live, F \in SUBSET Frames :
           /\ Sends(b, t, F) /\ dirty' = dirty \cup {b}
           /\ session[b] # None /\ t.id = session[b].id
           /\ \A f \in F : f.parent = session[b].last
    BY <1>2, AnswererSeals
  <2>2. /\ Current(a)' = Current(a) /\ InFlight(a)' \subseteq InFlight(a) \cup F
        /\ session'[b] = t /\ t # None /\ session[b] \in Recs(b)
    BY <1>1, <2>1, SendsBrings, SendsCurrent
  <2>3. UNCHANGED <<account, peer>>
    BY <2>1 DEF Sends
  <2> SUFFICES ASSUME NEW x \in Current(a), Answered(a, x)'
               PROVE  Follower(a, x, peer[b], session[b])'
    BY <2>1, <2>2 DEF HeardAt
  <2>4. CASE Answered(a, x)
    <3>1. Follower(a, x, peer[b], session[b])
      BY <2>4 DEF HeardAt
    <3> QED BY <2>1, <2>2, <2>3, <3>1 DEF Follower
  <2>5. CASE ~Answered(a, x)
    <3>1. x.chain # None.id /\ x.chain = session[b].last
      BY <2>1, <2>2, <2>5 DEF Answered
    <3>2. x \in Recs(a)
      BY <1>1, CurrentAreRecs
    <3>3. PICK of \in [Chain -> Chain] : AllFit(of)
      BY DEF ChainsTrue
    <3>4. of[x.chain] = x.id /\ of[session[b].last] = session[b].id
      BY <1>1, <2>2, <3>1, <3>2, <3>3 DEF AllFit, FitIn
    <3>5. session[b].id = x.id
      BY <3>1, <3>4
    <3>6. session[b].to = account[a].curve
      BY <2>2, <3>2, <3>5 DEF FromAt
    <3>7. peer[b].curve = account[a].curve
      BY <1>1, <2>1, <3>6 DEF FitsTrue, Fits
    <3> QED BY <2>1, <2>2, <2>3, <3>5, <3>7 DEF Follower
  <2> QED BY <2>4, <2>5
<1>3. CASE Decrypt(b)
  <2>1. UNCHANGED <<account, peer, disk, dirty>>
    BY <1>1, <1>3, HearStep
  <2>2. CASE Narrows /\ session' = session
    <3>1. Current(a)' = Current(a) /\ InFlight(a)' \subseteq InFlight(a)
      BY <1>1, <2>1, <2>2 DEF Current, Narrows
    <3> QED
      BY <1>1, <2>1, <2>2, <3>1, HeardStays
  <2>3. ASSUME NEW t \in Live, NEW f \in InFlight(b), Sends(b, t, {}),
               HearsIn(b, t, f) \/ Makes(b, t, f)
        PROVE  HeardAt(a)'
    <3>1. /\ Current(a)' = Current(a) /\ InFlight(a)' \subseteq InFlight(a)
          /\ session'[b] = t /\ t # None
      BY <1>1, <2>1, <2>3, SendsBrings, SendsCurrent
    <3> SUFFICES ASSUME NEW x \in Current(a), Answered(a, x)
                 PROVE  Follower(a, x, peer[b], session[b])'
      BY <2>1, <3>1 DEF HeardAt, Answered, Follower
    <3>2. Follower(a, x, peer[b], session[b])
      BY DEF HeardAt
    <3>3. CASE HearsIn(b, t, f)
      BY <2>1, <3>1, <3>2, <3>3 DEF Follower, HearsIn
    <3>4. CASE Makes(b, t, f)
      <4>1. peer[b] # Forgotten
        BY <3>4 DEF Makes, Known
      <4>2. ~(session[b] # None /\ session[b].id = x.id)
        <5> SUFFICES ASSUME session[b] # None, session[b].id = x.id
                     PROVE  FALSE
          OBVIOUS
        <5>1. x \in Recs(a) /\ x.id \in Chain /\ f.id \in Chain
          BY <1>1, CurrentAreRecs, WhatThereIs DEF Live, Frames
        <5>2. f.id # x.id /\ f.id[2] <= x.id[2] /\ ~Older(b, f)
          BY <3>4 DEF Makes, LatestAt
        <5>3. f.id[1] = a /\ x.id[1] = a
          BY <1>1, <5>1 DEF StartedTrue, OneStarter
        <5>4. f.id[2] < x.id[2]
          BY <5>1, <5>2, <5>3, KeyNumbers DEF Chain
        <5> QED BY <5>2, <5>3, <5>4 DEF Older
      <4> QED BY <2>1, <3>2, <4>1, <4>2 DEF Follower
    <3> QED BY <2>3, <3>3, <3>4
  <2> QED
    BY <1>1, <1>3, <2>2, <2>3, HearStep
<1> QED
  BY <1>2, <1>3

\* The other end learns the starter's keys, or forgets it, or writes down what it knows.
LEMMA HeardKeepPeer ==
  ASSUME OneStarter, Shapes, FitsTrue, KeysTrue, NEW a \in Starters, HeardAt(a), astray' = {},
         LearnPeer(Other(a)) \/ ForgetPeer(Other(a)) \/ Export(Other(a)) \/ Import(Other(a))
           \/ Create(Other(a))
  PROVE  HeardAt(a)'
<1> DEFINE b == Other(a)
<1>1. a \in End /\ b \in End /\ b # a /\ Other(b) = a
  BY SessionAssumption, TwoEnds
<1>2. /\ account \in [End -> Account] /\ peer \in [End -> Keys \cup {None, Forgotten}]
      /\ session \in [End -> Sessions] /\ disk \in [End -> Snapshot]
  BY DEF Shapes, Memories, Rest
<1>3. Current(a)' \subseteq Current(a) /\ InFlight(a)' \subseteq InFlight(a)
  BY <1>1, OthersNarrow, OthersCurrent DEF Narrows
<1>4. ASSUME NEW x \in Current(a), Answered(a, x)
      PROVE  /\ Follower(a, x, peer[b], session[b])
             /\ b \notin dirty => Follower(a, x, disk[b].peer, disk[b].session)
  BY <1>4 DEF HeardAt
<1>5. ASSUME \A x \in Current(a) : Answered(a, x) =>
               /\ Follower(a, x, peer[b], session[b])'
               /\ b \notin dirty' => Follower(a, x, disk[b].peer, disk[b].session)'
      PROVE  HeardAt(a)'
  <2>1. \A x : Answered(a, x)' => Answered(a, x)
    BY <1>3 DEF Answered
  <2> QED BY <1>3, <1>5, <2>1 DEF HeardAt
<1>6. CASE LearnPeer(b)
  <2> DEFINE keys == served[a]
  <2>1. /\ keys \in Keys /\ keys.curve = account[a].curve /\ peer[b] # Forgotten
        /\ peer' = [peer EXCEPT ![b] = keys]
        /\ session' = [session EXCEPT ![b] = LearnedSession(b, keys)]
        /\ UNCHANGED <<account, disk, dirty>>
    BY <1>1, <1>6 DEF LearnPeer, KeysTrue, Shapes, Rest
  <2> HIDE DEF keys
  <2>2. peer'[b] = keys /\ session'[b] = LearnedSession(b, keys)
    BY <1>1, <1>2, <2>1
  <2>3. ASSUME NEW x \in Current(a), Follower(a, x, peer[b], session[b])
        PROVE  Follower(a, x, peer[b], session[b])'
    <3>1. (session[b] # None /\ peer[b].curve = account[a].curve) => session'[b] = session[b]
      BY <1>1, <2>1, <2>2 DEF LearnedSession, FitsTrue, Fits
    <3> QED BY <2>1, <2>2, <2>3, <3>1 DEF Follower
  <2>4. ASSUME NEW x \in Current(a), Follower(a, x, disk[b].peer, disk[b].session)
        PROVE  Follower(a, x, disk[b].peer, disk[b].session)'
    BY <2>1, <2>4 DEF Follower
  <2> QED BY <1>4, <1>5, <2>1, <2>3, <2>4
<1>7. CASE ForgetPeer(b)
  <2>1. peer'[b] = Forgotten /\ UNCHANGED <<account, disk, dirty>>
    BY <1>1, <1>2, <1>7 DEF ForgetPeer
  <2> QED BY <1>4, <1>5, <2>1 DEF Follower
<1>8. CASE Export(b)
  <2>1. disk' = [disk EXCEPT ![b] = Kept(b)] /\ UNCHANGED <<account, peer, session>>
    BY <1>8 DEF Export, memory
  <2>2. Kept(b).peer = peer[b] /\ Kept(b).session = session[b]
    BY DEF Kept
  <2> HIDE DEF Kept
  <2>3. disk'[b].peer = peer[b] /\ disk'[b].session = session[b]
    BY <1>1, <1>2, <2>1, <2>2
  <2> QED BY <1>4, <1>5, <2>1, <2>3 DEF Follower
<1>9. CASE Import(b)
  <2>1. /\ b \notin dirty
        /\ account' = [account EXCEPT ![b] = disk[b].account]
        /\ peer' = [peer EXCEPT ![b] = disk[b].peer]
        /\ session' = [session EXCEPT ![b] = disk[b].session]
        /\ disk' = disk
    BY <1>9 DEF Import
  <2>2. /\ peer'[b] = disk[b].peer /\ session'[b] = disk[b].session
        /\ account'[a].curve = account[a].curve /\ account'[b].curve = account[b].curve
    BY <1>1, <1>2, <2>1 DEF KeysTrue
  <2> QED BY <1>4, <1>5, <2>1, <2>2 DEF Follower
<1>10. CASE Create(b)
  <2>1. account'[b].curve = minted[b] + 1
    BY <1>1, <1>2, <1>10 DEF Create, Installed
  <2>2. ASSUME NEW x \in Current(a)
        PROVE  x.to # account'[b].curve
    <3>1. x \in Recs(a)
      BY <1>1, CurrentAreRecs
    <3>2. PICK k \in {peer[a], disk[a].peer} : k \notin {None, Forgotten} /\ x.to = k.curve
      BY <1>1, <3>1 DEF FitsTrue, Fits, Recs
    <3>3. peer[a] \in Keys \cup {None, Forgotten} /\ disk[a].peer \in Keys \cup {None, Forgotten}
      BY <1>1, <1>2 DEF Snapshot
    <3>4. k \in Keys /\ k.curve <= minted[b]
      BY <1>1, <3>2, <3>3 DEF KeysTrue, KeyOld
    <3>5. k.curve \in Nat /\ minted[b] \in Nat
      BY <1>1, <3>4, WhatThereIs DEF Keys, Key
    <3> QED BY <2>1, <3>2, <3>4, <3>5
  <2> QED BY <1>5, <2>2 DEF Follower
<1> QED
  BY <1>6, <1>7, <1>8, <1>9, <1>10

LEMMA HeardKeep ==
  ASSUME OneStarter, Shapes, StartersTrue, FitsTrue, ChainsOld, KeysTrue, ChainsTrue, StartedTrue,
         FromTrue, LatestTrue, HeardTrue, [Next]_vars
  PROVE  HeardTrue'
<1> SUFFICES ASSUME astray' = {}, NEW a \in Starters
             PROVE  HeardAt(a)'
  BY DEF HeardTrue
<1> DEFINE b == Other(a)
<1>1. /\ a \in End /\ b \in End /\ b # a
      /\ \A d \in End : d = a \/ d = b
  BY SessionAssumption, TwoEnds
<1>2. FromAt(a) /\ LatestAt(a) /\ HeardAt(a)
  BY AstrayGrows DEF FromTrue, LatestTrue, HeardTrue
<1>3. ASSUME NEW e \in End, e = a,
             \/ PublishBundle(e) \/ ForgetPreviousFallbackKey(e) \/ LearnPeer(e) \/ ForgetPeer(e)
             \/ Subscribe(e) \/ Leave(e) \/ Export(e) \/ Import(e) \/ Create(e)
      PROVE  HeardAt(a)'
  <2>1. Current(a)' \subseteq Current(a) /\ InFlight(a)' \subseteq InFlight(a)
    BY <1>3, OthersNarrow, OthersCurrent DEF Narrows
  <2>2. /\ UNCHANGED <<account[b], peer[b], session[b], disk[b]>>
        /\ b \notin dirty' => b \notin dirty
    <3>1. /\ account \in [End -> Account] /\ peer \in [End -> Keys \cup {None, Forgotten}]
          /\ session \in [End -> Sessions] /\ disk \in [End -> Snapshot]
      BY DEF Shapes, Memories, Rest
    <3> QED
      BY <1>1, <1>3, <3>1 DEF PublishBundle, ForgetPreviousFallbackKey, LearnPeer, ForgetPeer,
         Subscribe, Leave, Export, Import, Create, memory
  <2>3. Current(a)' # {} => account'[a].curve = account[a].curve
    <3>1. Current(a)' \subseteq Recs(a)'
      BY DEF Current, Recs
    <3> QED BY <1>1, <3>1, CurvesStay
  <2> QED
    BY <1>1, <1>2, <2>1, <2>2, <2>3, HeardStays
<1>4. ASSUME NEW e \in End, e = b,
             PublishBundle(e) \/ ForgetPreviousFallbackKey(e) \/ Subscribe(e) \/ Leave(e)
      PROVE  HeardAt(a)'
  <2>1. Current(a)' \subseteq Current(a) /\ InFlight(a)' \subseteq InFlight(a)
    BY <1>1, <1>4, OthersNarrow, OthersCurrent DEF Narrows
  <2>2. UNCHANGED <<peer, session, disk>> /\ dirty \subseteq dirty'
    BY <1>4 DEF PublishBundle, ForgetPreviousFallbackKey, Subscribe, Leave, memory
  <2>3. /\ Current(a)' # {} => account'[a].curve = account[a].curve
        /\ account'[b].curve = account[b].curve
    <3>1. account \in [End -> Account]
      BY DEF Shapes, Memories
    <3>2. PICK k : k.curve = account[e].curve /\ account' = [account EXCEPT ![e] = k]
      <4>1. Generated(e).curve = account[e].curve
        BY <3>1 DEF Generated, Account
      <4>2. [account[e] EXCEPT !.previous = NoKey].curve = account[e].curve
        BY <3>1 DEF Account
      <4>3. account = [account EXCEPT ![e] = account[e]]
        BY <3>1
      <4>4. CASE PublishBundle(e)
        BY <4>1, <4>4 DEF PublishBundle
      <4>5. CASE ForgetPreviousFallbackKey(e)
        BY <4>2, <4>5 DEF ForgetPreviousFallbackKey
      <4>6. CASE Subscribe(e) \/ Leave(e)
        BY <4>3, <4>6 DEF Subscribe, Leave, memory
      <4> QED BY <1>4, <4>4, <4>5, <4>6
    <3> QED BY <1>1, <3>1, <3>2
  <2> QED
    BY <1>1, <1>2, <2>1, <2>2, <2>3, HeardStays
<1>5. ASSUME UNCHANGED vars
      PROVE  HeardAt(a)'
  <2>1. UNCHANGED <<account, peer, session, disk, dirty, queue, inbox>>
    BY <1>5 DEF vars, memory
  <2>2. Current(a)' = Current(a) /\ InFlight(a)' = InFlight(a)
    BY <2>1 DEF Current, InFlight
  <2> QED BY <1>1, <1>2, <2>1, <2>2, HeardStays
<1>6. ASSUME LearnPeer(b) \/ ForgetPeer(b) \/ Export(b) \/ Import(b) \/ Create(b)
      PROVE  HeardAt(a)'
  BY <1>2, <1>6, HeardKeepPeer
<1>7. ASSUME EstablishOutbound(b) \/ Encrypt(b) \/ Decrypt(b)
      PROVE  HeardAt(a)'
  BY <1>2, <1>7, HeardKeepAnswerer
<1>8. ASSUME EstablishOutbound(a) \/ Encrypt(a) \/ Decrypt(a)
      PROVE  HeardAt(a)'
  BY <1>2, <1>8, HeardKeepStarter
<1>9. CASE Next
  <2> PICK e \in End :
        \/ PublishBundle(e) \/ ForgetPreviousFallbackKey(e)
        \/ LearnPeer(e) \/ ForgetPeer(e)
        \/ EstablishOutbound(e) \/ Encrypt(e) \/ Decrypt(e)
        \/ Subscribe(e) \/ Leave(e)
        \/ Export(e) \/ Import(e) \/ Create(e)
    BY <1>9 DEF Next
  <2>1. CASE e = a
    BY <1>3, <1>8, <2>1
  <2>2. CASE e = b
    BY <1>4, <1>6, <1>7, <2>2
  <2> QED BY <1>1, <2>1, <2>2
<1> QED
  BY <1>5, <1>9

-----------------------------------------------------------------------------
HeardInv ==
  /\ Shapes /\ StartersTrue /\ FitsTrue
  /\ ChainsOld /\ KeysTrue /\ ChainsTrue /\ StartedTrue /\ FromTrue /\ LatestTrue /\ HeardTrue

LEMMA InitHeard == Init => HeardInv
<1> SUFFICES ASSUME Init PROVE HeardInv
  OBVIOUS
<1>1. Shapes
  BY InitShapes
<1>2. \A e \in End : /\ session[e] = None /\ disk[e].session = None
                     /\ peer[e] = None /\ disk[e].peer = None
                     /\ account[e] = Installed(1) /\ disk[e].account = Installed(1)
                     /\ served[e].curve = 1 /\ minted[e] = 1
                     /\ queue[e] = <<>> /\ inbox[e] = <<>>
  BY DEF Init, Kept
<1>3. \A e \in End : Recs(e) = {} /\ InFlight(e) = {} /\ Current(e) = {}
  <2>1. Range(<<>>) = {}
    BY DEF Range
  <2> QED BY <1>2, <2>1 DEF Recs, InFlight, Current
<1>4. Installed(1).curve = 1
  BY DEF Installed
<1>5. \A a \in Starters : a \in End /\ Other(a) \in End
  BY SessionAssumption, TwoEnds
<1>6. StartersTrue /\ FitsTrue
  BY <1>2 DEF StartersTrue, Starts, FitsTrue, Fits
<1>7. ChainsOld /\ StartedTrue
  BY <1>3 DEF ChainsOld, StartedTrue
<1>8. KeysTrue
  BY <1>2, <1>4, KeysAreSome DEF KeysTrue, KeyOld
<1>9. ChainsTrue
  <2>1. [c \in Chain |-> c] \in [Chain -> Chain]
    OBVIOUS
  <2>2. AllFit([c \in Chain |-> c])
    BY <1>3 DEF AllFit
  <2> QED BY <2>1, <2>2 DEF ChainsTrue
<1>10. FromTrue /\ LatestTrue /\ HeardTrue
  BY <1>3, <1>5 DEF FromTrue, FromAt, LatestTrue, LatestAt, HeardTrue, HeardAt
<1> QED
  BY <1>1, <1>6, <1>7, <1>8, <1>9, <1>10 DEF HeardInv

\* Where one end establishes and the other answers, an end that has stopped sending what
\* would make the session anew has the other end on that session: no order of losses,
\* redeliveries, refreshed bundles, sessions opened over others and restarts that lose no
\* more than receipts leaves the two on different ones (session.rs, decrypt and learn_peer).
THEOREM StartersAreHeard == OneStarter => (Spec => []StarterIsHeard)
<1> SUFFICES ASSUME OneStarter PROVE Spec => []StarterIsHeard
  OBVIOUS
<1>1. HeardInv /\ [Next]_vars => HeardInv'
  BY NextShapes, StartersKeep, FitsKeep, ChainsKeep, KeysKeep, FitKeep, StartedKeep, FromKeep,
     LatestKeep, HeardKeep DEF HeardInv
<1>2. HeardInv => StarterIsHeard
  <2> SUFFICES ASSUME HeardInv, astray = {}, NEW e \in End, Heard(session[e]), session[e].id[1] = e
               PROVE  LET d == Other(e) IN
                      \/ session[d] # None /\ session[d].id = session[e].id
                      \/ ~Known(d) \/ peer[d].curve # account[e].curve
                      \/ session[e].to # account[d].curve
    BY DEF StarterIsHeard
  <2>1. session[e] # None /\ session[e].got # {}
    BY DEF Heard
  <2>2. session[e] \in Recs(e) /\ session[e] \in Current(e) /\ Answered(e, session[e])
    BY <2>1 DEF Recs, Current, Answered
  <2>3. e \in Starters
    BY <2>2 DEF HeardInv, StartedTrue
  <2>4. Follower(e, session[e], peer[Other(e)], session[Other(e)])
    BY <2>2, <2>3 DEF HeardInv, HeardTrue, HeardAt
  <2> QED
    BY <2>4 DEF Follower, Known
<1> QED
  BY InitHeard, <1>1, <1>2, PTL DEF Spec

=============================================================================
