------------------------------- MODULE Session -------------------------------
(***************************************************************************)
(* The session layer between two devices (session.rs, session_store.rs),   *)
(* over channels that lose and redeliver.                                  *)
(*                                                                         *)
(* The ratchet is external and modelled by what the layer sees of it.  A   *)
(* session is named after the first sending chain of the end that          *)
(* established it.  A chain is derived from the last chain heard of the    *)
(* other end, its parent: a receiver can follow a chain it has opened      *)
(* something of, or one whose parent is the chain it now sends on.  Until  *)
(* it has heard anything, the end that established sends pre-key frames,   *)
(* which carry what the other end needs to make the session.  The bounds   *)
(* on skipped keys, chains kept and gaps are beyond what is sent here.     *)
(*                                                                         *)
(* A definition named Op_Variant, just before Op, is Op with a plausible   *)
(* mistake in it; no action uses it.                                       *)
(***************************************************************************)
EXTENDS Naturals, Sequences, SequencesExt

CONSTANTS
  End,           \* the two devices
  Starters,      \* those that send to a peer they have no session with
  MaxSealed,     \* bound of the model: frames each end seals
  MaxTroubles    \* bound of the model: bundles made after the first, sessions
                 \* opened over others, restarts and new installations, together

ASSUME SessionAssumption ==
  /\ \E a, b \in End : a # b /\ End = {a, b}
  /\ Starters \subseteq End
  /\ {MaxSealed, MaxTroubles} \subseteq Nat

VARIABLES
  account,   \* account[e]: e's long-term key and the fallback keys it holds
  peer,      \* peer[e]: the keys e has verified for the other end
  session,   \* session[e]: e's session with the other end
  opened,    \* opened[e]: the frames e has opened
  disk,      \* disk[e]: the snapshot e would restart from
  dirty,     \* the ends that sealed or made keys since their snapshot
  served,    \* served[e]: e's bundle on the server
  failed,    \* failed[e]: bundles made since that one whose upload failed
  queue,     \* queue[e]: what the relay holds for e
  inbox,     \* inbox[e]: what e has fetched of it and not looked at
  minted,    \* minted[e]: keys and chains e has made, of any kind
  sealed, troubles,
  astray     \* what went wrong that the layer cannot know of

memory == <<account, peer, session, opened>>
bounds == <<sealed, troubles>>
vars == <<memory, disk, dirty, served, failed, queue, inbox, minted, bounds, astray>>

None == [id |-> <<>>]
NoKey == 0
Forgotten == [curve |-> NoKey, fallback |-> NoKey]
Other(e) == CHOOSE d \in End : d # e

Kept(e) == [account |-> account[e], peer |-> peer[e], session |-> session[e],
            opened |-> opened[e]]
Holds(e, key) == key # NoKey /\ key \in {account[e].current, account[e].previous}
Heard(s) == s # None /\ s.got # {}
Trouble == troubles < MaxTroubles /\ troubles' = troubles + 1
Known(e) == peer[e] \notin {None, Forgotten}

-----------------------------------------------------------------------------
(* Bundles.  The account holds two fallback keys, and a bundle carries one  *)
(* that none has carried before: every publication makes a key.            *)
Generated_KeepNone(e) == [account[e] EXCEPT !.previous = NoKey, !.current = minted[e] + 1]
Generated(e) == [account[e] EXCEPT !.previous = account[e].current, !.current = minted[e] + 1]

\* publish_bundle and rotate_fallback_key, and the upload that follows.
PublishBundle(e) ==
  /\ Trouble
  /\ account' = [account EXCEPT ![e] = Generated(e)]
  /\ minted' = [minted EXCEPT ![e] = @ + 1]
  /\ dirty' = dirty \cup {e}
  /\ \/ /\ served' = [served EXCEPT ![e] = [curve |-> account[e].curve,
                                            fallback |-> minted[e] + 1]]
        /\ failed' = [failed EXCEPT ![e] = 0]
     \/ failed' = [failed EXCEPT ![e] = @ + 1] /\ UNCHANGED served
  /\ UNCHANGED <<peer, session, opened, disk, queue, inbox, sealed, astray>>

\* When the lifetime of the key before the served one is over.
ForgetPreviousFallbackKey(e) ==
  /\ failed[e] = 0
  /\ account[e].previous # NoKey
  /\ account' = [account EXCEPT ![e].previous = NoKey]
  /\ UNCHANGED <<peer, session, opened, disk, dirty, served, failed, queue, inbox, minted,
                 bounds, astray>>

\* The peer's bundle is fetched, verified and learned.
LearnedSession_Kept(e, keys) == session[e]
LearnedSession_Dropped(e, keys) == None
LearnedSession(e, keys) ==
  IF peer[e] # None /\ peer[e].curve = keys.curve THEN session[e] ELSE None

LearnPeer(e) ==
  LET keys == served[Other(e)] IN
  /\ peer[e] \notin {keys, Forgotten}
  /\ peer' = [peer EXCEPT ![e] = keys]
  /\ session' = [session EXCEPT ![e] = LearnedSession(e, keys)]
  /\ UNCHANGED <<account, opened, disk, dirty, served, failed, queue, inbox, minted, bounds,
                 astray>>

\* The peer left the family, and is not learned again.
ForgetPeer(e) ==
  /\ Known(e)
  /\ peer' = [peer EXCEPT ![e] = Forgotten]
  /\ session' = [session EXCEPT ![e] = None]
  /\ UNCHANGED <<account, opened, disk, dirty, served, failed, queue, inbox, minted, bounds,
                 astray>>

-----------------------------------------------------------------------------
(* Sealing.                                                                *)
Established(e) ==
  [id |-> <<e, minted[e] + 1>>, chain |-> <<e, minted[e] + 1>>, next |-> 0, got |-> {},
   last |-> None.id, to |-> peer[e].curve, fallback |-> peer[e].fallback]

EstablishOutbound(e) ==
  /\ e \in Starters
  /\ Known(e)
  /\ session[e] # None
  /\ Trouble
  /\ session' = [session EXCEPT ![e] = Established(e)]
  /\ minted' = [minted EXCEPT ![e] = @ + 1]
  /\ dirty' = dirty \cup {e}
  /\ UNCHANGED <<account, peer, opened, disk, served, failed, queue, inbox, sealed, astray>>

\* The session as it is to seal with: one is established where there is none,
\* and a chain is begun where what was last heard ended the last.
Sending(e) ==
  IF session[e] = None THEN Established(e)
  ELSE IF session[e].chain # None.id THEN session[e]
  ELSE [session[e] EXCEPT !.chain = <<e, minted[e] + 1>>, !.next = 0]

Frame(e, s) ==
  [no |-> <<e, sealed[e] + 1>>, id |-> s.id, prekey |-> ~Heard(s), from |-> account[e].curve,
   to |-> s.to, fallback |-> s.fallback, chain |-> s.chain, parent |-> s.last,
   place |-> s.next, knew |-> {o.id : o \in opened[e]}]

Encrypt(e) ==
  LET s == Sending(e) IN
  /\ Known(e)
  /\ session[e] # None \/ e \in Starters
  /\ sealed[e] < MaxSealed
  /\ sealed' = [sealed EXCEPT ![e] = @ + 1]
  /\ session' = [session EXCEPT ![e] = [s EXCEPT !.next = @ + 1]]
  /\ minted' = [minted EXCEPT ![e] = IF s.chain = <<e, @ + 1>> THEN @ + 1 ELSE @]
  /\ queue' = [queue EXCEPT ![Other(e)] = Append(@, Frame(e, s))]
  /\ dirty' = dirty \cup {e}
  /\ UNCHANGED <<account, peer, opened, disk, served, failed, inbox, troubles, astray>>

-----------------------------------------------------------------------------
(* Opening.                                                                *)
MatchesCurrent_Never(e, f) == FALSE
MatchesCurrent(e, f) == session[e] # None /\ session[e].id = f.id

Follows(s, f) == \E g \in s.got : g[1] = f.chain
Fresh(s, f) == <<f.chain, f.place>> \notin s.got
NextChain(s, f) == s.chain # None.id /\ f.parent = s.chain

\* What opens in the session there is, and the session from then on.
Opens(s, f) == IF Follows(s, f) THEN Fresh(s, f) ELSE NextChain(s, f)
Advanced(s, f) ==
  LET heard == [s EXCEPT !.got = @ \cup {<<f.chain, f.place>>}] IN
  IF Follows(s, f) THEN heard ELSE [heard EXCEPT !.chain = None.id, !.last = f.chain]

\* What makes a session of its own, and the session it makes.
Creates(e, f) == f.from = peer[e].curve /\ Holds(e, f.fallback)
Inbound(f) ==
  [id |-> f.id, chain |-> None.id, next |-> 0, got |-> {<<f.chain, f.place>>},
   last |-> f.chain, to |-> f.from, fallback |-> NoKey]

Replacing_KeepOld(e, f) == IF session[e] = None THEN Inbound(f) ELSE session[e]
Replacing(e, f) == Inbound(f)

\* A frame of a session that the peer has replaced since, handed out again.
Older(e, f) ==
  session[e] # None /\ session[e].id[1] = f.id[1] /\ f.id[2] < session[e].id[2]

Answer(e, f) ==
  IF ~Known(e) THEN "UnknownPeer"
  ELSE IF f.prekey /\ ~MatchesCurrent(e, f)
  THEN IF Creates(e, f) THEN "new session" ELSE "Olm"
  ELSE IF session[e] = None THEN "NoSession"
  ELSE IF Opens(session[e], f) THEN "opened"
  ELSE IF Follows(session[e], f) THEN "SessionLost" ELSE "Olm"

Decrypt(e) ==
  LET f == Head(inbox[e]) IN
  LET answer == Answer(e, f) IN
  /\ inbox[e] # <<>>
  /\ inbox' = [inbox EXCEPT ![e] = Tail(@)]
  /\ session' = [session EXCEPT ![e] = CASE answer = "opened" -> Advanced(@, f)
                                         [] answer = "new session" -> Replacing(e, f)
                                         [] OTHER -> @]
  /\ IF answer \in {"opened", "new session"}
     THEN /\ opened' = [opened EXCEPT ![e] = @ \cup {[no |-> f.no, id |-> f.id]}]
          /\ astray' = IF answer = "new session" /\ Older(e, f) THEN astray \cup {"rollback"}
                       ELSE astray
     ELSE UNCHANGED <<opened, astray>>
  /\ UNCHANGED <<account, peer, disk, dirty, served, failed, queue, minted, bounds>>

-----------------------------------------------------------------------------
(* The relay: a subscription hands out what is there in order; a frame      *)
(* leaves when it is acknowledged or expires, and until then is handed out  *)
(* again by the next subscription.  One that leaves while it waits in the    *)
(* inbox may as well leave when it has been looked at.                     *)
Subscribe(e) ==
  /\ inbox[e] = <<>>
  /\ inbox' = [inbox EXCEPT ![e] = queue[e]]
  /\ UNCHANGED <<memory, disk, dirty, served, failed, queue, minted, bounds, astray>>

Leave(e) ==
  /\ \E i \in DOMAIN queue[e] :
       /\ queue[e][i] \notin Range(inbox[e])
       /\ queue' = [queue EXCEPT ![e] = RemoveAt(@, i)]
  /\ UNCHANGED <<memory, disk, dirty, served, failed, inbox, minted, bounds, astray>>

-----------------------------------------------------------------------------
(* Persistence.                                                            *)
Export(e) ==
  /\ troubles < MaxTroubles
  /\ disk[e] # Kept(e)
  /\ disk' = [disk EXCEPT ![e] = Kept(e)]
  /\ dirty' = dirty \ {e}
  /\ UNCHANGED <<memory, served, failed, queue, inbox, minted, bounds, astray>>

\* The process is killed and restores what it last wrote.
Import(e) ==
  /\ Trouble
  /\ account' = [account EXCEPT ![e] = disk[e].account]
  /\ peer' = [peer EXCEPT ![e] = disk[e].peer]
  /\ session' = [session EXCEPT ![e] = disk[e].session]
  /\ opened' = [opened EXCEPT ![e] = disk[e].opened]
  /\ inbox' = [inbox EXCEPT ![e] = <<>>]
  /\ astray' = IF e \in dirty THEN astray \cup {"restart"} ELSE astray
  /\ dirty' = dirty \ {e}
  /\ UNCHANGED <<disk, served, failed, queue, minted, sealed>>

Installed(k) == [curve |-> k, current |-> k, previous |-> NoKey]

\* The device is set up again with nothing, and its bundle published.
Create(e) ==
  LET k == minted[e] + 1 IN
  /\ Trouble
  /\ minted' = [minted EXCEPT ![e] = k]
  /\ account' = [account EXCEPT ![e] = Installed(k)]
  /\ peer' = [peer EXCEPT ![e] = None]
  /\ session' = [session EXCEPT ![e] = None]
  /\ opened' = [opened EXCEPT ![e] = {}]
  /\ disk' = [disk EXCEPT ![e] = [account |-> Installed(k), peer |-> None, session |-> None,
                                  opened |-> {}]]
  /\ dirty' = dirty \ {e}
  /\ served' = [served EXCEPT ![e] = [curve |-> k, fallback |-> k]]
  /\ failed' = [failed EXCEPT ![e] = 0]
  /\ inbox' = [inbox EXCEPT ![e] = <<>>]
  /\ UNCHANGED <<queue, sealed, astray>>

-----------------------------------------------------------------------------
Init ==
  /\ account = [e \in End |-> Installed(1)]
  /\ peer = [e \in End |-> None]
  /\ session = [e \in End |-> None]
  /\ opened = [e \in End |-> {}]
  /\ disk = [e \in End |-> Kept(e)]
  /\ dirty = {}
  /\ served = [e \in End |-> [curve |-> 1, fallback |-> 1]]
  /\ failed = [e \in End |-> 0]
  /\ queue = [e \in End |-> <<>>]
  /\ inbox = [e \in End |-> <<>>]
  /\ minted = [e \in End |-> 1]
  /\ sealed = [e \in End |-> 0]
  /\ troubles = 0
  /\ astray = {}

Next ==
  \E e \in End :
    \/ PublishBundle(e) \/ ForgetPreviousFallbackKey(e)
    \/ LearnPeer(e) \/ ForgetPeer(e)
    \/ EstablishOutbound(e) \/ Encrypt(e) \/ Decrypt(e)
    \/ Subscribe(e) \/ Leave(e)
    \/ Export(e) \/ Import(e) \/ Create(e)

Spec == Init /\ [][Next]_vars

-----------------------------------------------------------------------------
Key == Nat \ {NoKey}
Chain == End \X Key
Keys == [curve : Key, fallback : Key]
Account == [curve : Key, current : Key, previous : Nat]
Sessions ==
  {None} \cup [id : Chain, chain : Chain \cup {None.id}, next : Nat,
               got : SUBSET (Chain \X Nat), last : Chain \cup {None.id}, to : Key,
               fallback : Nat]
Opened == [no : Chain, id : Chain]
Frames ==
  [no : Chain, id : Chain, prekey : BOOLEAN, from : Key, to : Key, fallback : Nat,
   chain : Chain, parent : Chain \cup {None.id}, place : Nat, knew : SUBSET Chain]
Snapshot == [account : Account, peer : Keys \cup {None, Forgotten}, session : Sessions,
             opened : SUBSET Opened]

\* A session, a snapshot and a frame consist of keys, chains and places, the end
\* that established is the one that can still send pre-key frames, and what is
\* counted stays in its bounds.
TypeOK ==
  /\ \A e \in End : /\ Kept(e) \in Snapshot
                    /\ disk[e] \in Snapshot
                    /\ served[e] \in Keys
                    /\ failed[e] \in 0..MaxTroubles
                    /\ queue[e] \in Seq(Frames)
                    /\ inbox[e] \in Seq(Frames)
                    /\ minted[e] \in Key
                    /\ sealed[e] \in 0..MaxSealed
                    /\ session[e] # None /\ session[e].got = {} => session[e].id[1] = e
  /\ dirty \subseteq End
  /\ troubles \in 0..MaxTroubles
  /\ astray \subseteq {"rollback", "restart"}

\* A session is with the key verified for the peer: one that outlives a change of
\* key would seal to a device that is not there (session.rs, learn_peer).
SessionFitsPeer ==
  \A e \in End : session[e] # None => Known(e) /\ session[e].to = peer[e].curve

\* The key a peer would fetch now is one the device can still open with, as long
\* as no two uploads failed in a row and no restart forgot the key
\* (session.rs, publish_bundle: "keeps exactly two fallback private keys").
ServedKeyIsHeld ==
  "restart" \notin astray =>
    \A e \in End : failed[e] <= 1 => Holds(e, served[e].fallback)

\* What a device may refuse of what was sealed for it and it has not opened: what
\* another installation or an unverified one sealed or was meant to open, what
\* was sealed to a fallback key rotated away, and what the peer sealed in a
\* session that the device has replaced, before hearing of the new one.
MayRefuse(e, f) ==
  \/ ~Known(e) \/ f.from # peer[e].curve \/ f.to # account[e].curve
  \/ f.prekey /\ ~MatchesCurrent(e, f) /\ ~Holds(e, f.fallback)
  \/ f.id[1] = e /\ (session[e] = None \/ session[e].id \notin f.knew \cup {f.id})

\* Frames lost on the way, bundles refreshed, sessions opened over old ones and
\* restarts that lose no more than receipts cost no frame that arrives, as long as
\* one end establishes (session.rs, decrypt; "out-of-order" and "dropped" tests).
FreshFramesOpen ==
  [][astray = {} =>
       \A e \in End :
         LET f == Head(inbox[e]) IN
         (inbox[e] # <<>> /\ inbox'[e] = Tail(inbox[e]) /\ troubles' = troubles
            /\ f.no \notin {o.no : o \in opened[e]})
           => (f.no \in {o.no : o \in opened'[e]} \/ MayRefuse(e, f))]_vars

\* An end that established and has stopped sending pre-key frames has the other
\* end on the same session, or on none with it that could be answered: nothing it
\* sends then could make the session anew (session.rs, decrypt and learn_peer).
StarterIsHeard ==
  astray = {} =>
    \A e \in End :
      LET d == Other(e) IN
      (Heard(session[e]) /\ session[e].id[1] = e) =>
        \/ session[d] # None /\ session[d].id = session[e].id
        \/ ~Known(d) \/ peer[d].curve # account[e].curve
        \/ session[e].to # account[d].curve

=============================================================================
