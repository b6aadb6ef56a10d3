---------------------------- MODULE RosterProofs ----------------------------
(***************************************************************************)
(* Proofs about Roster, for any family, any keys and any bounds.           *)
(***************************************************************************)
EXTENDS Roster, FiniteSetTheorems, TLAPS

-----------------------------------------------------------------------------
(* What the helpers of the handlers return.                                 *)

(* A record that is there can be marked removed.                            *)
LEMMA RemovedRecord ==
  ASSUME NEW r \in Record, r.state # "unknown"
  PROVE  [r EXCEPT !.state = "removed"] \in Record
  BY DEF Record, Unknown

(* apply_tombstone keeps a roster well formed.                              *)
LEMMA ApplyTombstonesType ==
  ASSUME TypeOK, NEW d \in Device, NEW S \in SUBSET Device,
         NEW e \in 0..MaxEpoch, ApplyTombstones(d, S, e)
  PROVE  /\ devices' \in [Device -> [Device -> Record]]
         /\ tombstones' \in [Device -> SUBSET Device]
         /\ epoch' \in [Device -> 0..MaxEpoch]
         /\ held' \in [Device -> SUBSET HeldAdmission]
<1>1. Deactivated(d, S) \in [Device -> Record]
  BY RemovedRecord DEF TypeOK, Deactivated, Known
<1>2. Unheld(d, S) \in SUBSET HeldAdmission
  BY DEF TypeOK, Unheld
<1>3. MaxOf(epoch[d], e) \in 0..MaxEpoch
  BY DEF TypeOK, MaxOf
<1>. QED
  BY <1>1, <1>2, <1>3 DEF TypeOK, ApplyTombstones

(* The churn log stays a count inside the budget.                           *)
LEMMA ChurnType ==
  ASSUME TypeOK, NEW d \in Device, NEW s \in Device, NEW x \in Device,
         NEW fresh \in BOOLEAN, NEW S \in SUBSET Device
  PROVE  /\ ChurnAfter(d, s, x, fresh) \in [Device -> 0..Budget]
         /\ Forgotten(ChurnAfter(d, s, x, fresh), S) \in [Device -> 0..Budget]
         /\ Forgotten(churn[d], S) \in [Device -> 0..Budget]
<1>1. \A n \in 0..Budget : Charge(n) \in 0..Budget
  BY RosterAssumption DEF Charge
<1>2. churn[d] \in [Device -> 0..Budget]
  BY DEF TypeOK
<1>3. ChurnAfter(d, s, x, fresh) \in [Device -> 0..Budget]
  BY <1>1, <1>2 DEF ChurnAfter
<1>. QED
  BY <1>2, <1>3, RosterAssumption DEF Forgotten

LEMMA FreshType == ASSUME NEW s PROVE Fresh(s) \subseteq BOOLEAN
  BY DEF Fresh

(* receive_introduce keeps a roster well formed.                            *)
LEMMA IntroduceType ==
  ASSUME TypeOK, NEW d \in Device, NEW m \in RosterIntroduce,
         NEW fresh \in BOOLEAN
  PROVE  /\ DevicesAfter(d, m) \in [Device -> Record]
         /\ HeldAfter(d, m) \in SUBSET HeldAdmission
         /\ ChurnAfterIntroduce(d, m, fresh) \in [Device -> 0..Budget]
<1>1. m.from \in Device /\ m.subject \in Device /\ m.pk \in Keys
  BY DEF RosterIntroduce
<1>2. Admit(d, m.subject, m.pk) \in [Device -> Record]
  BY <1>1 DEF TypeOK, Admit, ActiveRecord, Record
<1>3. DevicesAfter(d, m) \in [Device -> Record]
  BY <1>2 DEF TypeOK, DevicesAfter
<1>4. HeldAfter(d, m) \in SUBSET HeldAdmission
  BY <1>1 DEF TypeOK, HeldAfter, HeldAdmission
<1>5. ChurnAfterIntroduce(d, m, fresh) \in [Device -> 0..Budget]
  BY <1>1, ChurnType DEF TypeOK, ChurnAfterIntroduce
<1>. QED
  BY <1>3, <1>4, <1>5

(* The key of a device with a roster is an identity key.                    *)
LEMMA JoinedKey ==
  ASSUME TypeOK, NEW d \in Device, Joined(d)
  PROVE  MyKey(d) \in Keys
  BY DEF TypeOK, Joined, Known, MyKey, Record, Unknown

(* What a ceremony does to everything but the rosters of the two phones.    *)
LEMMA VouchedByType ==
  ASSUME TypeOK, NEW i \in Device, NEW x \in Device, NEW k \in Keys,
         VouchedBy(i, x, k)
  PROVE  /\ IntroduceMsg(i, x, k) \in RosterIntroduce
         /\ msgs' \subseteq RosterIntroduce \cup RosterRemove
         /\ held' \in [Device -> SUBSET HeldAdmission]
         /\ churn' \in [Device -> [Device -> 0..Budget]]
<1>1. IntroduceMsg(i, x, k) \in RosterIntroduce
  BY JoinedKey DEF VouchedBy, IntroduceMsg, RosterIntroduce
<1>2. msgs' \subseteq RosterIntroduce \cup RosterRemove
  BY <1>1 DEF VouchedBy, TypeOK
<1>3. held' \in [Device -> SUBSET HeldAdmission]
  BY <1>1, IntroduceType DEF VouchedBy, TypeOK
<1>4. churn' \in [Device -> [Device -> 0..Budget]]
  BY <1>1, IntroduceType, FreshType DEF VouchedBy, TypeOK
<1>. QED
  BY <1>1, <1>2, <1>3, <1>4

-----------------------------------------------------------------------------
(* Type correctness.                                                        *)

LEMMA InitTypeOK == Init => TypeOK
  BY RosterAssumption DEF Init, TypeOK, Record, Unknown, ActiveRecord

LEMMA NextTypeOK == TypeOK /\ [Next]_vars => TypeOK'
<1> SUFFICES ASSUME TypeOK, [Next]_vars PROVE TypeOK'
  OBVIOUS
<1>1. ASSUME NEW i \in Device, NEW x \in Device, NEW k \in Keys, Vouch(i, x, k)
      PROVE  TypeOK'
  <2>1. IntroduceMsg(i, x, k) \in RosterIntroduce
    BY <1>1, VouchedByType DEF Vouch
  <2>2. DevicesAfter(i, IntroduceMsg(i, x, k)) \in [Device -> Record]
    BY <2>1, IntroduceType
  <2>. QED
    BY <1>1, <2>2, VouchedByType DEF Vouch, TypeOK
<1>2. ASSUME NEW i \in Device, NEW x \in Device, NEW k \in Keys,
             NEW all \in BOOLEAN, Join(i, x, k, all)
      PROVE  TypeOK'
  <2>1. IntroduceMsg(i, x, k) \in RosterIntroduce
    BY <1>2, VouchedByType DEF Join
  <2>2. DevicesAfter(i, IntroduceMsg(i, x, k)) \in [Device -> Record]
    BY <2>1, IntroduceType
  <2>3. Adopted(i, x, k, all) \in [Device -> Record]
    BY DEF TypeOK, Adopted, ActiveRecord, Record
  <2>4. devices' \in [Device -> [Device -> Record]]
    BY <1>2, <2>2, <2>3 DEF Join, TypeOK
  <2>. QED
    BY <1>2, <2>4, VouchedByType DEF Join, TypeOK
<1>3. ASSUME NEW d \in Device, NEW m \in msgs, ReceiveIntroduce(d, m)
      PROVE  TypeOK'
  <2>1. m \in RosterIntroduce
    BY <1>3 DEF TypeOK, ReceiveIntroduce, RosterRemove
  <2>2. DevicesAfter(d, m) \in [Device -> Record]
    BY <2>1, IntroduceType
  <2>3. HeldAfter(d, m) \in SUBSET HeldAdmission
    BY <2>1, IntroduceType
  <2>4. \A fresh \in Fresh(m.from) :
           ChurnAfterIntroduce(d, m, fresh) \in [Device -> 0..Budget]
    BY <2>1, IntroduceType, FreshType
  <2>. QED
    BY <1>3, <2>2, <2>3, <2>4 DEF ReceiveIntroduce, TypeOK
<1>4. ASSUME NEW d \in Device, NEW m \in msgs, ReceiveRemove(d, m)
      PROVE  TypeOK'
  <2>1. m \in RosterRemove
    BY <1>4 DEF TypeOK, ReceiveRemove, RosterIntroduce
  <2>2. m.from \in Device /\ m.subject \in Device /\ m.epoch \in 0..MaxEpoch
    BY <2>1, RosterAssumption DEF RosterRemove
  <2>3. churn' \in [Device -> [Device -> 0..Budget]]
    <3>1. \A fresh \in Fresh(m.from) :
            LET counted == ChurnAfter(d, m.from, m.subject, fresh) IN
              /\ counted \in [Device -> 0..Budget]
              /\ Forgotten(counted, {m.subject}) \in [Device -> 0..Budget]
      BY <2>2, ChurnType, FreshType
    <3>2. \E f \in [Device -> 0..Budget] : churn' = [churn EXCEPT ![d] = f]
      BY <1>4, <3>1 DEF ReceiveRemove
    <3>. QED
      BY <3>2 DEF TypeOK
  <2>4. CASE m.subject \in tombstones[d]
    BY <1>4, <2>3, <2>4 DEF ReceiveRemove, TypeOK
  <2>5. CASE m.subject \notin tombstones[d]
    <3>1. ApplyTombstones(d, {m.subject}, m.epoch)
      BY <1>4, <2>5 DEF ReceiveRemove
    <3>2. /\ devices' \in [Device -> [Device -> Record]]
          /\ tombstones' \in [Device -> SUBSET Device]
          /\ epoch' \in [Device -> 0..MaxEpoch]
          /\ held' \in [Device -> SUBSET HeldAdmission]
      BY <2>2, <3>1, ApplyTombstonesType
    <3>. QED
      BY <1>4, <2>3, <3>2 DEF ReceiveRemove, TypeOK
  <2>. QED
    BY <2>4, <2>5
<1>5. ASSUME NEW d \in Device, NEW m \in msgs, ReceiveRemovalOfSelf(d, m)
      PROVE  TypeOK'
  <2>1. m.from \in Device /\ m.epoch \in 0..MaxEpoch
    BY <1>5 DEF TypeOK, ReceiveRemovalOfSelf, RosterIntroduce, RosterRemove
  <2>2. MaxOf(epoch[d], m.epoch) \in 0..MaxEpoch
    BY <2>1 DEF TypeOK, MaxOf
  <2>. QED
    BY <1>5, <2>1, <2>2 DEF ReceiveRemovalOfSelf, TypeOK
<1>6. ASSUME NEW d \in Device, NEW h \in held[d], ApproveHeld(d, h)
      PROVE  TypeOK'
  <2>1. h \in HeldAdmission
    BY DEF TypeOK
  <2>2. Admit(d, h.subject, h.pk) \in [Device -> Record]
    BY <2>1 DEF TypeOK, Admit, ActiveRecord, Record, HeldAdmission
  <2>. QED
    BY <1>6, <2>2 DEF ApproveHeld, TypeOK
<1>7. ASSUME NEW d \in Device, NEW h \in held[d], DenyHeld(d, h)
      PROVE  TypeOK'
  BY <1>7 DEF DenyHeld, TypeOK
<1>8. ASSUME NEW d \in Device, NEW x \in Device, Remove(d, x)
      PROVE  TypeOK'
  <2>1. epoch[d] + 1 \in 1..MaxEpoch
    BY <1>8, RosterAssumption DEF Remove, TypeOK
  <2>2. RemoveMsg(d, x) \in RosterRemove
    BY <1>8, <2>1, JoinedKey
       DEF Remove, RemoveMsg, RosterRemove, Joined, IsActive, Known
  <2>3. churn' \in [Device -> [Device -> 0..Budget]]
    <3>1. \A fresh \in Fresh(d) :
            Forgotten(ChurnAfter(d, d, x, fresh), {x}) \in [Device -> 0..Budget]
      BY ChurnType, FreshType
    <3>. QED
      BY <1>8, <3>1 DEF Remove, TypeOK
  <2>4. /\ devices' \in [Device -> [Device -> Record]]
        /\ tombstones' \in [Device -> SUBSET Device]
        /\ epoch' \in [Device -> 0..MaxEpoch]
        /\ held' \in [Device -> SUBSET HeldAdmission]
    <3>1. ApplyTombstones(d, {x}, epoch[d] + 1) /\ epoch[d] + 1 \in 0..MaxEpoch
      BY <1>8, <2>1, RosterAssumption DEF Remove
    <3>. QED
      BY <3>1, ApplyTombstonesType
  <2>. QED
    BY <1>8, <2>2, <2>3, <2>4 DEF Remove, TypeOK
<1>9. ASSUME NEW d \in Device, SendSync(d)
      PROVE  TypeOK'
  BY <1>9 DEF SendSync, SyncMsg, RosterSync, TypeOK
<1>10. ASSUME NEW m \in syncs, LoseSync(m)
       PROVE  TypeOK'
  BY <1>10 DEF LoseSync, TypeOK
<1>11. ASSUME NEW m \in syncs, NEW d \in Device, ReceiveSync(d, m)
       PROVE  TypeOK'
  <2>1. m.from \in Device /\ m.epoch \in 0..MaxEpoch
    BY DEF TypeOK, RosterSync
  <2>2. Learned(d, m) \in SUBSET Device
    BY DEF Learned
  <2>3. churn' \in [Device -> [Device -> 0..Budget]]
    BY <1>11, <2>2, ChurnType DEF ReceiveSync, TypeOK
  <2>4. /\ devices' \in [Device -> [Device -> Record]]
        /\ tombstones' \in [Device -> SUBSET Device]
        /\ epoch' \in [Device -> 0..MaxEpoch]
        /\ held' \in [Device -> SUBSET HeldAdmission]
    BY <1>11, <2>1, <2>2, ApplyTombstonesType DEF ReceiveSync
  <2>. QED
    BY <1>11, <2>1, <2>3, <2>4 DEF ReceiveSync, TypeOK
<1>12. ASSUME NEW d \in Device, NEW R \in SUBSET Revocable, Reconcile(d, R)
       PROVE  TypeOK'
  <2>1. [x \in Device |-> IF x \in R /\ IsActive(d, x)
                          THEN [devices[d][x] EXCEPT !.state = "removed"]
                          ELSE devices[d][x]] \in [Device -> Record]
    BY RemovedRecord DEF TypeOK, IsActive
  <2>. QED
    BY <1>12, <2>1 DEF Reconcile, TypeOK
<1>13. ASSUME NEW d \in Device, NEW s \in Device, NEW n \in 0..Budget,
              WindowRolls(d, s, n)
       PROVE  TypeOK'
  BY <1>13 DEF WindowRolls, TypeOK
<1>14. CASE UNCHANGED vars
  BY <1>14 DEF vars, TypeOK
<1>. QED
  BY <1>1, <1>2, <1>3, <1>4, <1>5, <1>6, <1>7, <1>8, <1>9, <1>10, <1>11,
     <1>12, <1>13, <1>14 DEF Next

(* Every roster, message and churn count stays well formed.                 *)
THEOREM TypeCorrect == Spec => []TypeOK
  BY InitTypeOK, NextTypeOK, PTL DEF Spec

-----------------------------------------------------------------------------
(* Tombstones win.  A newcomer takes over the tombstones of the device that *)
(* vouched for it, so the invariant needs that it waits for no approval of  *)
(* its own yet: before it has a roster, a device holds nothing.             *)
HoldsOnceJoined == \A d \in Device : Joined(d) \/ held[d] = {}
TombstoneInv == TypeOK /\ TombstoneWins /\ HoldsOnceJoined

(* A roster that has been founded or adopted stays.                         *)
LEMMA JoinedStays ==
  ASSUME TypeOK, NEW d \in Device, Joined(d), [Next]_vars
  PROVE  Joined(d)'
<1>1. \A i \in Device : \A m :
        Known(i, d) => DevicesAfter(i, m)[d].state # "unknown"
  BY DEF TypeOK, DevicesAfter, Admit, ActiveRecord, Known
<1>2. \A i \in Device : \A S :
        Known(i, d) => Deactivated(i, S)[d].state # "unknown"
  BY DEF TypeOK, Deactivated, Known, Record, Unknown
<1>3. ASSUME NEW i \in Device, NEW x \in Device, NEW k \in Keys, Vouch(i, x, k)
      PROVE  Joined(d)'
  BY <1>1, <1>3 DEF Vouch, TypeOK, Joined, Known
<1>4. ASSUME NEW i \in Device, NEW x \in Device, NEW k \in Keys,
             NEW all \in BOOLEAN, Join(i, x, k, all)
      PROVE  Joined(d)'
  BY <1>1, <1>4 DEF Join, TypeOK, Joined, Known
<1>5. ASSUME NEW e \in Device, NEW m \in msgs, ReceiveIntroduce(e, m)
      PROVE  Joined(d)'
  BY <1>1, <1>5 DEF ReceiveIntroduce, TypeOK, Joined, Known
<1>6. ASSUME NEW e \in Device, NEW m \in msgs, ReceiveRemove(e, m)
      PROVE  Joined(d)'
  BY <1>2, <1>6 DEF ReceiveRemove, ApplyTombstones, TypeOK, Joined, Known
<1>7. ASSUME NEW e \in Device, NEW h \in held[e], ApproveHeld(e, h)
      PROVE  Joined(d)'
  BY <1>7 DEF ApproveHeld, Admit, ActiveRecord, TypeOK, Joined, Known
<1>8. ASSUME NEW e \in Device, NEW x \in Device, Remove(e, x)
      PROVE  Joined(d)'
  BY <1>2, <1>8 DEF Remove, ApplyTombstones, TypeOK, Joined, Known
<1>9. ASSUME NEW m \in syncs, NEW e \in Device, ReceiveSync(e, m)
      PROVE  Joined(d)'
  BY <1>2, <1>9 DEF ReceiveSync, ApplyTombstones, TypeOK, Joined, Known
<1>10. ASSUME NEW e \in Device, NEW R \in SUBSET Revocable, Reconcile(e, R)
       PROVE  Joined(d)'
  BY <1>10, RemovedRecord DEF Reconcile, IsActive, TypeOK, Joined, Known
<1>11. CASE UNCHANGED devices
  BY <1>11 DEF Joined, Known
<1>. QED
  BY <1>3, <1>4, <1>5, <1>6, <1>7, <1>8, <1>9, <1>10, <1>11
     DEF Next, vars, ReceiveRemovalOfSelf, DenyHeld, SendSync, LoseSync,
         WindowRolls

(* receive_introduce never admits, nor holds, a device with a tombstone.    *)
LEMMA IntroduceRespects ==
  ASSUME TypeOK, TombstoneWins, NEW d \in Device, NEW m \in RosterIntroduce,
         NEW x \in tombstones[d]
  PROVE  /\ DevicesAfter(d, m)[x].state # "active"
         /\ \A h \in HeldAfter(d, m) : h.subject # x
<1>1. x \in Device /\ m.subject \in Device
  BY DEF TypeOK, RosterIntroduce
<1>2. devices[d][x].state # "active" /\ \A h \in held[d] : h.subject # x
  BY DEF TombstoneWins, IsActive
<1>3. m.subject = x => Verdict(d, m) = "refused"
  BY DEF Verdict, Refused, Barred
<1>4. DevicesAfter(d, m)[x].state # "active"
  BY <1>1, <1>2, <1>3 DEF DevicesAfter, Admit, TypeOK
<1>5. \A h \in HeldAfter(d, m) : h.subject # x
  BY <1>2, <1>3 DEF HeldAfter
<1>. QED
  BY <1>4, <1>5

(* apply_tombstone deactivates what it bars and drops what waits for it.    *)
LEMMA ApplyTombstonesRespects ==
  ASSUME TypeOK, TombstoneWins, NEW d \in Device, NEW S \in SUBSET Device, NEW e,
         ApplyTombstones(d, S, e)
  PROVE  TombstoneWins'
<1> SUFFICES ASSUME NEW c \in Device, NEW x \in tombstones[c]'
             PROVE  /\ ~IsActive(c, x)'
                    /\ \A h \in held[c]' : h.subject # x
  BY DEF TombstoneWins
<1>1. CASE c # d
  BY <1>1 DEF ApplyTombstones, TypeOK, TombstoneWins, IsActive
<1>2. CASE c = d
  <2>1. x \in Device /\ (x \in S \/ x \in tombstones[d])
    BY <1>2 DEF ApplyTombstones, TypeOK
  <2>2. devices'[d][x] = Deactivated(d, S)[x] /\ held'[d] = Unheld(d, S)
    BY DEF ApplyTombstones, TypeOK
  <2>3. Deactivated(d, S)[x].state # "active"
    BY <2>1 DEF Deactivated, Known, TypeOK, TombstoneWins, IsActive, Record
  <2>4. \A h \in Unheld(d, S) : h.subject # x
    BY <2>1 DEF Unheld, TombstoneWins
  <2>. QED
    BY <1>2, <2>2, <2>3, <2>4 DEF IsActive
<1>. QED
  BY <1>1, <1>2

LEMMA InitTombstoneInv == Init => TombstoneInv
  BY InitTypeOK DEF Init, TombstoneInv, TombstoneWins, HoldsOnceJoined

LEMMA NextHoldsOnceJoined ==
  ASSUME TypeOK, HoldsOnceJoined, [Next]_vars
  PROVE  HoldsOnceJoined'
<1> SUFFICES ASSUME NEW d \in Device, held'[d] # {} PROVE Joined(d)'
  BY DEF HoldsOnceJoined
<1>1. CASE held[d] # {}
  BY <1>1, JoinedStays DEF HoldsOnceJoined
<1>2. CASE held[d] = {}
  <2>1. ASSUME NEW i \in Device, NEW x \in Device, NEW k \in Keys,
               VouchedBy(i, x, k)
        PROVE  Joined(d)
    BY <1>2, <2>1 DEF VouchedBy, TypeOK
  <2>2. ASSUME NEW e \in Device, NEW m, ReceiveIntroduce(e, m)
        PROVE  Joined(d)
    BY <1>2, <2>2 DEF ReceiveIntroduce, TypeOK
  <2>3. ASSUME NEW e \in Device, NEW S, NEW n, ApplyTombstones(e, S, n)
        PROVE  Joined(d)
    BY <1>2, <2>3 DEF ApplyTombstones, Unheld, TypeOK
  <2>4. ASSUME NEW e \in Device, NEW h, held' = [held EXCEPT ![e] = @ \ {h}]
        PROVE  Joined(d)
    BY <1>2, <2>4 DEF TypeOK
  <2>5. held' # held
    BY <1>2
  <2>6. Joined(d)
    BY <2>1, <2>2, <2>3, <2>4, <2>5
       DEF Next, vars, Vouch, Join, ReceiveRemove, Remove, ReceiveSync,
           ReceiveRemovalOfSelf, ApproveHeld, DenyHeld, SendSync, LoseSync,
           Reconcile, WindowRolls
  <2>. QED
    BY <2>6, JoinedStays
<1>. QED
  BY <1>1, <1>2

LEMMA NextTombstoneWins ==
  ASSUME TombstoneInv, [Next]_vars
  PROVE  TombstoneWins'
<1>. USE DEF TombstoneInv
<1>1. ASSUME NEW i \in Device, NEW x \in Device, NEW k \in Keys, Vouch(i, x, k)
      PROVE  TombstoneWins'
  <2>1. IntroduceMsg(i, x, k) \in RosterIntroduce
    BY <1>1, VouchedByType DEF Vouch
  <2>2. \A y \in tombstones[i] :
          /\ DevicesAfter(i, IntroduceMsg(i, x, k))[y].state # "active"
          /\ \A h \in HeldAfter(i, IntroduceMsg(i, x, k)) : h.subject # y
    BY <2>1, IntroduceRespects
  <2>. QED
    BY <1>1, <2>2 DEF Vouch, VouchedBy, TypeOK, TombstoneWins, IsActive
<1>2. ASSUME NEW i \in Device, NEW x \in Device, NEW k \in Keys,
             NEW all \in BOOLEAN, Join(i, x, k, all)
      PROVE  TombstoneWins'
  <2>. DEFINE m == IntroduceMsg(i, x, k)
  <2>1. m \in RosterIntroduce
    BY <1>2, VouchedByType DEF Join
  <2>2. \A y \in tombstones[i] :
          /\ DevicesAfter(i, m)[y].state # "active"
          /\ \A h \in HeldAfter(i, m) : h.subject # y
    BY <2>1, IntroduceRespects
  <2>3. i # x /\ x \notin tombstones[i] /\ held[x] = {}
    BY <1>2 DEF Join, VouchedBy, MayVouch, HoldsOnceJoined
  <2>4. \A y \in tombstones[i] : Adopted(i, x, k, all)[y].state # "active"
    BY <2>3 DEF Adopted, Unknown, TypeOK, TombstoneWins, IsActive
  <2>5. /\ devices' = [devices EXCEPT ![i] = DevicesAfter(i, m),
                                      ![x] = Adopted(i, x, k, all)]
        /\ tombstones' = [tombstones EXCEPT ![x] = tombstones[i]]
        /\ held' = [held EXCEPT ![i] = HeldAfter(i, m)]
    BY <1>2 DEF Join, VouchedBy
  <2>. HIDE DEF m
  <2>6. ASSUME NEW c \in Device, NEW y \in tombstones'[c]
        PROVE  ~IsActive(c, y)' /\ \A h \in held'[c] : h.subject # y
    <3>1. CASE c = x
      BY <2>3, <2>4, <2>5, <2>6, <3>1 DEF TypeOK, IsActive
    <3>2. CASE c = i
      BY <2>2, <2>3, <2>5, <2>6, <3>2 DEF TypeOK, IsActive
    <3>3. CASE c # x /\ c # i
      BY <2>5, <2>6, <3>3 DEF TypeOK, TombstoneWins, IsActive
    <3>. QED
      BY <3>1, <3>2, <3>3
  <2>. QED
    BY <2>6 DEF TombstoneWins
<1>3. ASSUME NEW d \in Device, NEW m \in msgs, ReceiveIntroduce(d, m)
      PROVE  TombstoneWins'
  <2>1. m \in RosterIntroduce
    BY <1>3 DEF TypeOK, ReceiveIntroduce, RosterRemove
  <2>2. \A y \in tombstones[d] :
          /\ DevicesAfter(d, m)[y].state # "active"
          /\ \A h \in HeldAfter(d, m) : h.subject # y
    BY <2>1, IntroduceRespects
  <2>. QED
    BY <1>3, <2>2 DEF ReceiveIntroduce, TypeOK, TombstoneWins, IsActive
<1>4. ASSUME NEW d \in Device, NEW m \in msgs, ReceiveRemove(d, m)
      PROVE  TombstoneWins'
  <2>1. m.subject \in Device
    BY <1>4 DEF TypeOK, ReceiveRemove, RosterIntroduce, RosterRemove
  <2>2. CASE m.subject \in tombstones[d]
    BY <1>4, <2>2 DEF ReceiveRemove, TombstoneWins, IsActive
  <2>3. CASE m.subject \notin tombstones[d]
    <3>1. ApplyTombstones(d, {m.subject}, m.epoch)
      BY <1>4, <2>3 DEF ReceiveRemove
    <3>. QED
      BY <2>1, <3>1, ApplyTombstonesRespects
  <2>. QED
    BY <2>2, <2>3
<1>5. ASSUME NEW d \in Device, NEW h \in held[d], ApproveHeld(d, h)
      PROVE  TombstoneWins'
  <2>1. h.subject \in Device
    BY DEF TypeOK, HeldAdmission
  <2>2. CASE MayApprove(d, h)
    BY <1>5, <2>1, <2>2
       DEF ApproveHeld, MayApprove, Admit, TypeOK, TombstoneWins, IsActive
  <2>3. CASE ~MayApprove(d, h)
    BY <1>5, <2>3 DEF ApproveHeld, TypeOK, TombstoneWins, IsActive
  <2>. QED
    BY <2>2, <2>3
<1>6. ASSUME NEW d \in Device, NEW h \in held[d], DenyHeld(d, h)
      PROVE  TombstoneWins'
  BY <1>6 DEF DenyHeld, TypeOK, TombstoneWins, IsActive
<1>7. ASSUME NEW d \in Device, NEW x \in Device, Remove(d, x)
      PROVE  TombstoneWins'
  BY <1>7, ApplyTombstonesRespects DEF Remove
<1>8. ASSUME NEW m \in syncs, NEW d \in Device, ReceiveSync(d, m)
      PROVE  TombstoneWins'
  <2>1. Learned(d, m) \in SUBSET Device
    BY DEF Learned
  <2>. QED
    BY <1>8, <2>1, ApplyTombstonesRespects DEF ReceiveSync
<1>9. ASSUME NEW d \in Device, NEW R \in SUBSET Revocable, Reconcile(d, R)
      PROVE  TombstoneWins'
  BY <1>9 DEF Reconcile, TypeOK, TombstoneWins, IsActive
<1>10. CASE UNCHANGED <<devices, tombstones, held>>
  BY <1>10 DEF TombstoneWins, IsActive
<1>. QED
  BY <1>1, <1>2, <1>3, <1>4, <1>5, <1>6, <1>7, <1>8, <1>9, <1>10
     DEF Next, vars, ReceiveRemovalOfSelf, SendSync, LoseSync, WindowRolls

(* A removal is permanent on every device that knows of it: no reordering   *)
(* of vouches, approvals, syncs, server lists and adoptions makes a device  *)
(* active again, or leaves it waiting, where there is a tombstone for it.   *)
THEOREM RemovalIsPermanent == Spec => []TombstoneWins
<1>1. TombstoneInv /\ [Next]_vars => TombstoneInv'
  BY NextTypeOK, NextHoldsOnceJoined, NextTombstoneWins DEF TombstoneInv
<1>2. TombstoneInv => TombstoneWins
  BY DEF TombstoneInv
<1>. QED
  BY InitTombstoneInv, <1>1, <1>2, PTL DEF Spec

-----------------------------------------------------------------------------
(* What a removal rests on.  The server's list marks records removed with   *)
(* no tombstone, and a sync does not say why a record is removed: so these  *)
(* facts are about the devices that the server never lists as revoked.      *)
OnOurWord == Device \ Revocable

Signed(M, x, e) == \E m \in M : m.type = "remove" /\ m.subject = x /\ m.epoch <= e

(* Before it has a roster a device has removed nobody, and no vouch of its  *)
(* own is out.                                                              *)
RemovesOnceJoined == \A d \in Device : Joined(d) \/ tombstones[d] = {}

(* Whoever broadcasts a removal holds the tombstone.                        *)
RemoversMeanIt ==
  \A m \in msgs : m.type = "remove" => m.subject \in tombstones[m.from]

RecordsRestOnTombstones ==
  \A d \in Device : \A x \in OnOurWord :
    devices[d][x].state = "removed" => x \in tombstones[d]

TombstonesRestOnSignatures ==
  \A d \in Device : \A x \in OnOurWord \cap tombstones[d] : Signed(msgs, x, epoch[d])

(* A sync in flight reports what its sender still holds.                    *)
SyncsRestOnTombstones ==
  \A s \in syncs : \A x \in OnOurWord :
    ReportsRemoved(s, x) => x \in tombstones[s.from] /\ Signed(msgs, x, s.epoch)

EvictionsRestOnTombstones ==
  \A d \in OnOurWord : \A r \in removedMe[d] : d \in tombstones[r]

RemovalInv ==
  /\ TypeOK
  /\ RemovesOnceJoined
  /\ RemoversMeanIt
  /\ RecordsRestOnTombstones
  /\ TombstonesRestOnSignatures
  /\ SyncsRestOnTombstones
  /\ EvictionsRestOnTombstones

LEMMA InitRemovalInv == Init => RemovalInv
<1> SUFFICES ASSUME Init PROVE RemovalInv
  OBVIOUS
<1>1. \A d, x \in Device : devices[d][x].state # "removed"
  BY DEF Init, ActiveRecord, Unknown
<1>. QED
  BY <1>1, InitTypeOK
     DEF Init, RemovalInv, RemovesOnceJoined, RemoversMeanIt, OnOurWord,
         RecordsRestOnTombstones, TombstonesRestOnSignatures,
         SyncsRestOnTombstones, EvictionsRestOnTombstones

(* The facts that a step keeps by adding to what is held and signed and by  *)
(* adding nothing else: no tombstone and no signature is ever taken back.   *)
OnlyGrows ==
  /\ msgs \subseteq msgs'
  /\ \A d \in Device : tombstones[d] \subseteq tombstones'[d]

LEMMA SignedStays ==
  ASSUME TypeOK, OnlyGrows, NEW x, NEW e \in 0..MaxEpoch, NEW f \in 0..MaxEpoch,
         e <= f, Signed(msgs, x, e)
  PROVE  Signed(msgs', x, f)
<1>1. PICK m \in msgs : m.type = "remove" /\ m.subject = x /\ m.epoch <= e
  BY DEF Signed
<1>2. m.epoch \in 1..MaxEpoch /\ m \in msgs'
  BY <1>1 DEF TypeOK, RosterIntroduce, RosterRemove, OnlyGrows
<1>3. m.epoch <= f
  BY <1>1, <1>2, RosterAssumption
<1>. QED
  BY <1>1, <1>2, <1>3 DEF Signed

LEMMA StepRemovalInv ==
  ASSUME RemovalInv, TypeOK', RemovesOnceJoined', OnlyGrows,
         \A m \in msgs' \ msgs : m.type = "remove" => m.subject \in tombstones'[m.from],
         \A d \in Device : \A x \in OnOurWord :
           devices'[d][x].state = "removed" =>
             devices[d][x].state = "removed" \/ x \in tombstones'[d],
         \A d \in Device : \A x \in OnOurWord \cap tombstones'[d] :
           Signed(msgs', x, epoch'[d]) \/ (x \in tombstones[d] /\ epoch[d] <= epoch'[d]),
         \A s \in syncs' \ syncs : \A x \in OnOurWord :
           ReportsRemoved(s, x) => x \in tombstones'[s.from] /\ Signed(msgs', x, s.epoch),
         \A d \in OnOurWord : \A r \in removedMe'[d] \ removedMe[d] : d \in tombstones'[r]
  PROVE  RemovalInv'
<1>1. RemoversMeanIt'
  <2>1. ASSUME NEW m \in msgs, m.type = "remove" PROVE m.subject \in tombstones'[m.from]
    <3>1. m.from \in Device
      BY DEF RemovalInv, TypeOK, RosterIntroduce, RosterRemove
    <3>. QED
      BY <2>1, <3>1 DEF RemovalInv, RemoversMeanIt, OnlyGrows
  <2>. QED
    BY <2>1 DEF RemoversMeanIt
<1>2. RecordsRestOnTombstones'
  BY DEF RemovalInv, RecordsRestOnTombstones, OnlyGrows
<1>3. TombstonesRestOnSignatures'
  <2> SUFFICES ASSUME NEW d \in Device, NEW x \in OnOurWord \cap tombstones'[d]
               PROVE  Signed(msgs', x, epoch'[d])
    BY DEF TombstonesRestOnSignatures
  <2>1. CASE x \in tombstones[d] /\ epoch[d] <= epoch'[d]
    <3>1. epoch[d] \in 0..MaxEpoch /\ epoch'[d] \in 0..MaxEpoch
      BY DEF RemovalInv, TypeOK
    <3>2. Signed(msgs, x, epoch[d])
      BY <2>1 DEF RemovalInv, TombstonesRestOnSignatures
    <3>. QED
      BY <2>1, <3>1, <3>2, SignedStays DEF RemovalInv
  <2>. QED
    BY <2>1
<1>4. SyncsRestOnTombstones'
  <2>1. ASSUME NEW s \in syncs, NEW x \in OnOurWord, ReportsRemoved(s, x)
        PROVE  x \in tombstones'[s.from] /\ Signed(msgs', x, s.epoch)
    <3>1. s.from \in Device /\ s.epoch \in 0..MaxEpoch /\ s.epoch <= s.epoch
      BY DEF RemovalInv, TypeOK, RosterSync
    <3>. QED
      BY <2>1, <3>1, SignedStays DEF RemovalInv, SyncsRestOnTombstones, OnlyGrows
  <2>. QED
    BY <2>1 DEF SyncsRestOnTombstones, ReportsRemoved
<1>5. EvictionsRestOnTombstones'
  <2>1. ASSUME NEW d \in OnOurWord, NEW r \in removedMe[d] PROVE d \in tombstones'[r]
    BY DEF RemovalInv, TypeOK, OnOurWord, EvictionsRestOnTombstones, OnlyGrows
  <2>. QED
    BY <2>1 DEF EvictionsRestOnTombstones
<1>. QED
  BY <1>1, <1>2, <1>3, <1>4, <1>5 DEF RemovalInv

(* What apply_tombstone does, entry by entry.                               *)
LEMMA ApplyTombstonesEffect ==
  ASSUME TypeOK, NEW d \in Device, NEW S \in SUBSET Device,
         NEW e \in 0..MaxEpoch, ApplyTombstones(d, S, e)
  PROVE  /\ tombstones'[d] = tombstones[d] \cup S
         /\ \A c \in Device : c # d => tombstones'[c] = tombstones[c]
         /\ \A c, x \in Device : devices'[c][x] =
              IF c = d /\ x \in S /\ Known(d, x)
              THEN [devices[d][x] EXCEPT !.state = "removed"] ELSE devices[c][x]
         /\ \A c \in Device : epoch[c] <= epoch'[c]
         /\ e <= epoch'[d]
<1>1. /\ tombstones'[d] = tombstones[d] \cup S
      /\ \A c \in Device : c # d => tombstones'[c] = tombstones[c]
  BY DEF ApplyTombstones, TypeOK
<1>2. /\ devices'[d] = Deactivated(d, S)
      /\ \A c \in Device : c # d => devices'[c] = devices[c]
  BY DEF ApplyTombstones, TypeOK
<1>3. \A x \in Device : Deactivated(d, S)[x] =
        IF x \in S /\ Known(d, x) THEN [devices[d][x] EXCEPT !.state = "removed"]
        ELSE devices[d][x]
  BY DEF Deactivated
<1>4. \A c \in Device : epoch[c] \in 0..MaxEpoch /\ epoch[c] <= epoch[c]
  BY RosterAssumption DEF TypeOK
<1>5. /\ epoch'[d] = MaxOf(epoch[d], e)
      /\ \A c \in Device : c # d => epoch'[c] = epoch[c]
  BY DEF ApplyTombstones, TypeOK
<1>6. epoch[d] <= MaxOf(epoch[d], e) /\ e <= MaxOf(epoch[d], e)
  BY <1>4, RosterAssumption DEF MaxOf
<1>7. \A c \in Device : epoch[c] <= epoch'[c]
  BY <1>4, <1>5, <1>6
<1>. QED
  BY <1>1, <1>2, <1>3, <1>5, <1>6, <1>7

LEMMA NextRemovesOnceJoined ==
  ASSUME TypeOK, RemovesOnceJoined, [Next]_vars
  PROVE  RemovesOnceJoined'
<1> SUFFICES ASSUME NEW d \in Device, tombstones'[d] # {} PROVE Joined(d)'
  BY DEF RemovesOnceJoined
<1>1. CASE tombstones[d] # {}
  BY <1>1, JoinedStays DEF RemovesOnceJoined
<1>2. CASE tombstones[d] = {}
  <2>1. ASSUME NEW i \in Device, NEW x \in Device, NEW k \in Keys,
               NEW all \in BOOLEAN, Join(i, x, k, all)
        PROVE  Joined(d)'
    <3>1. x = d
      BY <1>2, <2>1 DEF Join, TypeOK
    <3>2. devices'[x] = Adopted(i, x, k, all)
      BY <2>1 DEF Join, TypeOK
    <3>3. Adopted(i, x, k, all)[x] = ActiveRecord(k)
      BY DEF Adopted
    <3>. QED
      BY <3>1, <3>2, <3>3 DEF Joined, Known, ActiveRecord
  <2>2. ASSUME Joined(d) PROVE Joined(d)'
    BY <2>2, JoinedStays
  <2>3. ASSUME NEW e \in Device, NEW m \in msgs, ReceiveRemove(e, m)
        PROVE  Joined(d)
    BY <1>2, <2>3 DEF ReceiveRemove, ApplyTombstones, TypeOK
  <2>4. ASSUME NEW e \in Device, NEW x \in Device, Remove(e, x)
        PROVE  Joined(d)
    BY <1>2, <2>4 DEF Remove, ApplyTombstones, TypeOK, Joined, Known, IsActive
  <2>5. ASSUME NEW e \in Device, NEW m \in syncs, ReceiveSync(e, m)
        PROVE  Joined(d)
    BY <1>2, <2>5 DEF ReceiveSync, ApplyTombstones, TypeOK
  <2>6. tombstones' # tombstones
    BY <1>2
  <2>. QED
    BY <2>1, <2>2, <2>3, <2>4, <2>5, <2>6
       DEF Next, vars, Vouch, ReceiveIntroduce, ReceiveRemovalOfSelf, ApproveHeld,
           DenyHeld, SendSync, LoseSync, Reconcile, WindowRolls
<1>. QED
  BY <1>1, <1>2

(* No tombstone is taken back, and no message unsaid.                       *)
LEMMA TombstonesGrow ==
  ASSUME TypeOK, RemovesOnceJoined, [Next]_vars
  PROVE  OnlyGrows
<1>1. ASSUME NEW d \in Device PROVE tombstones[d] \subseteq tombstones'[d]
  <2>1. ASSUME NEW i \in Device, NEW x \in Device, NEW k \in Keys,
               NEW all \in BOOLEAN, Join(i, x, k, all)
        PROVE  tombstones[d] \subseteq tombstones'[d]
    BY <2>1 DEF Join, TypeOK, RemovesOnceJoined
  <2>2. ASSUME NEW e \in Device, NEW S, NEW n, ApplyTombstones(e, S, n)
        PROVE  tombstones[d] \subseteq tombstones'[d]
    BY <2>2 DEF ApplyTombstones, TypeOK
  <2>. QED
    BY <2>1, <2>2
       DEF Next, vars, Vouch, ReceiveIntroduce, ReceiveRemove, ReceiveRemovalOfSelf,
           ApproveHeld, DenyHeld, Remove, SendSync, LoseSync, ReceiveSync, Reconcile,
           WindowRolls
<1>2. msgs \subseteq msgs'
  <2>1. ASSUME NEW i \in Device, NEW x \in Device, NEW k \in Keys, VouchedBy(i, x, k)
        PROVE  msgs \subseteq msgs'
    BY <2>1 DEF VouchedBy
  <2>2. ASSUME NEW d \in Device, NEW x \in Device, Remove(d, x)
        PROVE  msgs \subseteq msgs'
    BY <2>2 DEF Remove
  <2>. QED
    BY <2>1, <2>2
       DEF Next, vars, Vouch, Join, ReceiveIntroduce, ReceiveRemove,
           ReceiveRemovalOfSelf, ApproveHeld, DenyHeld, SendSync, LoseSync, ReceiveSync,
           Reconcile, WindowRolls
<1>. QED
  BY <1>1, <1>2 DEF OnlyGrows

(* What one action after the other has to show for StepRemovalInv.          *)
NewRemovalsMeant == \A m \in msgs' \ msgs : m.type = "remove" => m.subject \in tombstones'[m.from]
NewRecordsRest ==
  \A d \in Device : \A x \in OnOurWord :
    devices'[d][x].state = "removed" =>
      devices[d][x].state = "removed" \/ x \in tombstones'[d]
NewTombstonesRest ==
  \A d \in Device : \A x \in OnOurWord \cap tombstones'[d] :
    Signed(msgs', x, epoch'[d]) \/ (x \in tombstones[d] /\ epoch[d] <= epoch'[d])
NewSyncsRest ==
  \A s \in syncs' \ syncs : \A x \in OnOurWord :
    ReportsRemoved(s, x) => x \in tombstones'[s.from] /\ Signed(msgs', x, s.epoch)
NewEvictionsRest ==
  \A d \in OnOurWord : \A r \in removedMe'[d] \ removedMe[d] : d \in tombstones'[r]

LEMMA NextRemovalStep ==
  ASSUME RemovalInv, [Next]_vars, NewRemovalsMeant, NewRecordsRest, NewTombstonesRest,
         NewSyncsRest, NewEvictionsRest
  PROVE  RemovalInv'
<1>1. TypeOK /\ RemovesOnceJoined
  BY DEF RemovalInv
<1>2. TypeOK' /\ RemovesOnceJoined' /\ OnlyGrows
  BY <1>1, NextTypeOK, NextRemovesOnceJoined, TombstonesGrow
<1>. QED
  BY <1>2, StepRemovalInv
     DEF NewRemovalsMeant, NewRecordsRest, NewTombstonesRest, NewSyncsRest, NewEvictionsRest

(* Steps that take nothing up: no removal, tombstone, sync or eviction.     *)
LEMMA QuietRemovalStep ==
  ASSUME RemovalInv, [Next]_vars, UNCHANGED <<tombstones, epoch, removedMe>>,
         syncs' \subseteq syncs,
         \A m \in msgs' \ msgs : m.type = "introduce",
         \A d \in Device : \A x \in OnOurWord :
           devices'[d][x].state = "removed" => devices[d][x].state = "removed"
  PROVE  RemovalInv'
<1>1. \A d \in Device : epoch[d] <= epoch[d]
  BY RosterAssumption DEF RemovalInv, TypeOK
<1>. QED
  BY <1>1, NextRemovalStep
     DEF NewRemovalsMeant, NewRecordsRest, NewTombstonesRest, NewSyncsRest, NewEvictionsRest

LEMMA JoinRemovalStep ==
  ASSUME RemovalInv, [Next]_vars, NEW i \in Device, NEW x \in Device, NEW k \in Keys,
         NEW all \in BOOLEAN, Join(i, x, k, all)
  PROVE  RemovalInv'
<1>. DEFINE m == IntroduceMsg(i, x, k)
<1>1. TypeOK /\ \A d \in Device : epoch[d] <= epoch[d]
  BY RosterAssumption DEF RemovalInv, TypeOK
<1>2. /\ i # x
      /\ msgs' = msgs \cup {m} /\ m.type = "introduce"
      /\ devices' = [devices EXCEPT ![i] = DevicesAfter(i, m), ![x] = Adopted(i, x, k, all)]
      /\ tombstones' = [tombstones EXCEPT ![x] = tombstones[i]]
      /\ epoch' = [epoch EXCEPT ![x] = epoch[i]]
      /\ UNCHANGED removedMe /\ UNCHANGED syncs
  BY DEF Join, VouchedBy, IntroduceMsg
<1>3. m \in RosterIntroduce
  BY <1>1, VouchedByType DEF Join
<1>. HIDE DEF m
<1>4. NewRecordsRest
  <2> SUFFICES ASSUME NEW d \in Device, NEW y \in OnOurWord, devices'[d][y].state = "removed"
               PROVE  devices[d][y].state = "removed" \/ y \in tombstones'[d]
    BY DEF NewRecordsRest
  <2>. y \in Device
    BY DEF OnOurWord
  <2>1. CASE d = x
    <3>1. devices'[d][y] = Adopted(i, x, k, all)[y] /\ tombstones'[d] = tombstones[i]
      BY <1>1, <1>2, <2>1 DEF TypeOK
    <3>2. devices[i][y].state = "removed"
      BY <3>1 DEF Adopted, ActiveRecord, Unknown
    <3>. QED
      BY <3>1, <3>2 DEF RemovalInv, RecordsRestOnTombstones
  <2>2. CASE d = i
    <3>1. devices'[d][y] = DevicesAfter(i, m)[y]
      BY <1>1, <1>2, <2>2 DEF TypeOK
    <3>2. m.subject \in Device
      BY <1>3 DEF RosterIntroduce
    <3>3. devices[i][y].state = "removed"
      BY <1>1, <3>1, <3>2 DEF DevicesAfter, Admit, ActiveRecord, TypeOK
    <3>. QED
      BY <2>2, <3>3
  <2>3. CASE d # x /\ d # i
    BY <1>1, <1>2, <2>3 DEF TypeOK
  <2>. QED
    BY <2>1, <2>2, <2>3
<1>5. NewTombstonesRest
  <2> SUFFICES ASSUME NEW d \in Device, NEW y \in OnOurWord \cap tombstones'[d]
               PROVE  Signed(msgs', y, epoch'[d]) \/ (y \in tombstones[d] /\ epoch[d] <= epoch'[d])
    BY DEF NewTombstonesRest
  <2>1. CASE d = x
    <3>1. y \in tombstones[i] /\ epoch'[d] = epoch[i]
      BY <1>1, <1>2, <2>1 DEF TypeOK
    <3>2. Signed(msgs, y, epoch[i])
      BY <3>1 DEF RemovalInv, TombstonesRestOnSignatures
    <3>. QED
      BY <1>2, <3>1, <3>2 DEF Signed
  <2>2. CASE d # x
    BY <1>1, <1>2, <2>2 DEF TypeOK
  <2>. QED
    BY <2>1, <2>2
<1>6. NewRemovalsMeant /\ NewSyncsRest /\ NewEvictionsRest
  BY <1>2 DEF NewRemovalsMeant, NewSyncsRest, NewEvictionsRest
<1>. QED
  BY <1>4, <1>5, <1>6, NextRemovalStep

(* The step that applies tombstones which rest on signed removals.          *)
LEMMA ApplyRemovalStep ==
  ASSUME RemovalInv, [Next]_vars, NEW d \in Device, NEW S \in SUBSET Device,
         NEW e \in 0..MaxEpoch, ApplyTombstones(d, S, e),
         \A x \in OnOurWord \cap S : Signed(msgs', x, e),
         UNCHANGED syncs, NewRemovalsMeant, NewEvictionsRest
  PROVE  RemovalInv'
<1>1. TypeOK /\ TypeOK'
  BY NextTypeOK DEF RemovalInv
<1>2. /\ tombstones'[d] = tombstones[d] \cup S
      /\ \A c \in Device : c # d => tombstones'[c] = tombstones[c]
      /\ \A c, x \in Device : devices'[c][x] =
           IF c = d /\ x \in S /\ Known(d, x)
           THEN [devices[d][x] EXCEPT !.state = "removed"] ELSE devices[c][x]
      /\ \A c \in Device : epoch[c] <= epoch'[c]
      /\ e <= epoch'[d]
  BY <1>1, ApplyTombstonesEffect
<1>3. NewRecordsRest
  BY <1>2 DEF NewRecordsRest, OnOurWord
<1>4. NewTombstonesRest
  <2> SUFFICES ASSUME NEW c \in Device, NEW x \in OnOurWord \cap tombstones'[c],
                      x \notin tombstones[c]
               PROVE  Signed(msgs', x, epoch'[c])
    BY <1>2 DEF NewTombstonesRest
  <2>1. c = d /\ x \in S
    BY <1>2
  <2>2. PICK m \in msgs' : m.type = "remove" /\ m.subject = x /\ m.epoch <= e
    BY <2>1 DEF Signed
  <2>3. m.epoch \in 1..MaxEpoch /\ epoch'[d] \in 0..MaxEpoch
    BY <1>1, <2>2 DEF TypeOK, RosterIntroduce, RosterRemove
  <2>4. m.epoch <= epoch'[d]
    BY <1>2, <2>2, <2>3, RosterAssumption
  <2>. QED
    BY <2>1, <2>2, <2>4 DEF Signed
<1>5. NewSyncsRest
  BY DEF NewSyncsRest
<1>. QED
  BY <1>3, <1>4, <1>5, NextRemovalStep

LEMMA NextRemovalInv == RemovalInv /\ [Next]_vars => RemovalInv'
<1> SUFFICES ASSUME RemovalInv, [Next]_vars PROVE RemovalInv'
  OBVIOUS
<1>1. TypeOK /\ TypeOK'
  BY NextTypeOK DEF RemovalInv
<1>2. \A c \in Device : epoch[c] \in 0..MaxEpoch /\ epoch[c] <= epoch[c]
  BY <1>1, RosterAssumption DEF TypeOK
<1>3. ASSUME NEW d \in Device, NEW x \in Device, NEW k \in Keys,
             devices' = [devices EXCEPT ![d] = Admit(d, x, k)]
      PROVE  \A c \in Device : \A y \in OnOurWord :
               devices'[c][y].state = "removed" => devices[c][y].state = "removed"
  BY <1>1, <1>3 DEF Admit, ActiveRecord, TypeOK, OnOurWord
<1>4. ASSUME NEW i \in Device, NEW x \in Device, NEW k \in Keys, Vouch(i, x, k)
      PROVE  RemovalInv'
  <2>. DEFINE m == IntroduceMsg(i, x, k)
  <2>1. /\ UNCHANGED <<tombstones, epoch, removedMe, syncs>>
        /\ msgs' = msgs \cup {m} /\ m.type = "introduce"
        /\ devices' = [devices EXCEPT ![i] = DevicesAfter(i, m)]
        /\ m.subject = x /\ m.pk = k
    BY <1>4 DEF Vouch, VouchedBy, IntroduceMsg
  <2>. HIDE DEF m
  <2>2. \/ devices' = [devices EXCEPT ![i] = Admit(i, x, k)]
        \/ devices' = devices
    BY <1>1, <2>1 DEF DevicesAfter, TypeOK
  <2>3. \A c \in Device : \A y \in OnOurWord :
          devices'[c][y].state = "removed" => devices[c][y].state = "removed"
    BY <1>3, <2>2
  <2>. QED
    BY <2>1, <2>3, QuietRemovalStep
<1>5. ASSUME NEW d \in Device, NEW m \in msgs, ReceiveIntroduce(d, m)
      PROVE  RemovalInv'
  <2>1. /\ UNCHANGED <<tombstones, epoch, removedMe, syncs, msgs>>
        /\ m.type = "introduce"
        /\ devices' = [devices EXCEPT ![d] = DevicesAfter(d, m)]
    BY <1>5 DEF ReceiveIntroduce
  <2>2. m.subject \in Device /\ m.pk \in Keys
    BY <1>1, <2>1 DEF TypeOK, RosterIntroduce, RosterRemove
  <2>3. \/ devices' = [devices EXCEPT ![d] = Admit(d, m.subject, m.pk)]
        \/ devices' = devices
    BY <1>1, <2>1 DEF DevicesAfter, TypeOK
  <2>4. \A c \in Device : \A y \in OnOurWord :
          devices'[c][y].state = "removed" => devices[c][y].state = "removed"
    BY <1>3, <2>2, <2>3
  <2>. QED
    BY <2>1, <2>4, QuietRemovalStep
<1>6. ASSUME NEW d \in Device, NEW h \in held[d], ApproveHeld(d, h)
      PROVE  RemovalInv'
  <2>1. h.subject \in Device /\ h.pk \in Keys
    BY <1>1 DEF TypeOK, HeldAdmission
  <2>2. \A c \in Device : \A y \in OnOurWord :
          devices'[c][y].state = "removed" => devices[c][y].state = "removed"
    BY <1>3, <1>6, <2>1 DEF ApproveHeld
  <2>. QED
    BY <1>6, <2>2, QuietRemovalStep DEF ApproveHeld
<1>7. ASSUME NEW d \in Device, NEW R \in SUBSET Revocable, Reconcile(d, R)
      PROVE  RemovalInv'
  <2>1. \A c \in Device : \A y \in OnOurWord :
          devices'[c][y].state = "removed" => devices[c][y].state = "removed"
    BY <1>1, <1>7 DEF Reconcile, TypeOK, OnOurWord
  <2>. QED
    BY <1>7, <2>1, QuietRemovalStep DEF Reconcile
<1>8. ASSUME NEW d \in Device, NEW x \in Device, Remove(d, x)
      PROVE  RemovalInv'
  <2>. DEFINE m == RemoveMsg(d, x)
  <2>1. /\ ApplyTombstones(d, {x}, epoch[d] + 1)
        /\ msgs' = msgs \cup {m} /\ m \in msgs'
        /\ m.type = "remove" /\ m.subject = x /\ m.epoch = epoch[d] + 1 /\ m.from = d
        /\ UNCHANGED <<removedMe, syncs>>
    BY <1>8 DEF Remove, RemoveMsg
  <2>2. epoch[d] + 1 \in 0..MaxEpoch /\ epoch[d] + 1 <= epoch[d] + 1
    BY <1>2, <1>8, RosterAssumption DEF Remove
  <2>. HIDE DEF m
  <2>3. Signed(msgs', x, epoch[d] + 1)
    BY <2>1, <2>2 DEF Signed
  <2>4. x \in tombstones'[d]
    <3>1. {x} \in SUBSET Device
      OBVIOUS
    <3>2. tombstones'[d] = tombstones[d] \cup {x}
      BY <1>1, <2>1, <2>2, <3>1, ApplyTombstonesEffect
    <3>. QED
      BY <3>2
  <2>5. NewRemovalsMeant /\ NewEvictionsRest
    BY <2>1, <2>4 DEF NewRemovalsMeant, NewEvictionsRest
  <2>. QED
    BY <2>1, <2>2, <2>3, <2>5, ApplyRemovalStep
<1>9. ASSUME NEW d \in Device, NEW m \in msgs, ReceiveRemove(d, m)
      PROVE  RemovalInv'
  <2>1. m.type = "remove" /\ UNCHANGED <<removedMe, msgs, syncs>>
    BY <1>9 DEF ReceiveRemove
  <2>2. m.subject \in Device /\ m.epoch \in 0..MaxEpoch /\ m.epoch <= m.epoch
    BY <1>1, <2>1, RosterAssumption DEF TypeOK, RosterIntroduce, RosterRemove
  <2>3. CASE UNCHANGED <<tombstones, devices, held, epoch>>
    BY <2>1, <2>3, QuietRemovalStep
  <2>4. CASE ApplyTombstones(d, {m.subject}, m.epoch)
    <3>1. Signed(msgs', m.subject, m.epoch)
      BY <2>1, <2>2 DEF Signed
    <3>2. NewRemovalsMeant /\ NewEvictionsRest
      BY <2>1 DEF NewRemovalsMeant, NewEvictionsRest
    <3>. QED
      BY <2>1, <2>2, <2>4, <3>1, <3>2, ApplyRemovalStep
  <2>. QED
    BY <1>9, <2>3, <2>4 DEF ReceiveRemove
<1>10. ASSUME NEW d \in Device, NEW m \in msgs, ReceiveRemovalOfSelf(d, m)
       PROVE  RemovalInv'
  <2>1. /\ m.type = "remove" /\ m.subject = d
        /\ removedMe' = [removedMe EXCEPT ![d] = @ \cup {m.from}]
        /\ epoch' = [epoch EXCEPT ![d] = MaxOf(@, m.epoch)]
        /\ UNCHANGED <<devices, tombstones, churn, held, msgs, syncs>>
    BY <1>10 DEF ReceiveRemovalOfSelf
  <2>2. m.epoch \in 0..MaxEpoch
    BY <1>1, <2>1 DEF TypeOK, RosterIntroduce, RosterRemove
  <2>3. \A c \in Device : epoch[c] <= epoch'[c]
    BY <1>1, <1>2, <2>1, <2>2, RosterAssumption DEF MaxOf, TypeOK
  <2>4. d \in tombstones'[m.from]
    BY <2>1 DEF RemovalInv, RemoversMeanIt
  <2>5. NewEvictionsRest
    BY <1>1, <2>1, <2>4 DEF NewEvictionsRest, TypeOK, OnOurWord
  <2>6. NewRemovalsMeant /\ NewRecordsRest /\ NewTombstonesRest /\ NewSyncsRest
    BY <2>1, <2>3 DEF NewRemovalsMeant, NewRecordsRest, NewTombstonesRest, NewSyncsRest
  <2>. QED
    BY <2>5, <2>6, NextRemovalStep
<1>11. ASSUME NEW d \in Device, SendSync(d) PROVE RemovalInv'
  <2>1. /\ syncs' = syncs \cup {SyncMsg(d)}
        /\ UNCHANGED <<devices, tombstones, epoch, removedMe, msgs>>
    BY <1>11 DEF SendSync
  <2>2. ASSUME NEW x \in OnOurWord, devices[d][x].state = "removed"
        PROVE  x \in tombstones[d] /\ Signed(msgs, x, epoch[d])
    BY <2>2 DEF RemovalInv, RecordsRestOnTombstones, TombstonesRestOnSignatures
  <2>3. NewSyncsRest
    BY <2>1, <2>2 DEF NewSyncsRest, SyncMsg, ReportsRemoved
  <2>4. NewRemovalsMeant /\ NewRecordsRest /\ NewTombstonesRest /\ NewEvictionsRest
    BY <1>2, <2>1 DEF NewRemovalsMeant, NewRecordsRest, NewTombstonesRest, NewEvictionsRest
  <2>. QED
    BY <2>3, <2>4, NextRemovalStep
<1>12. ASSUME NEW d \in Device, NEW m \in syncs, ReceiveSync(d, m)
       PROVE  RemovalInv'
  <2>1. /\ ApplyTombstones(d, Learned(d, m), m.epoch)
        /\ UNCHANGED <<msgs, syncs>>
        /\ removedMe' = IF ReportsRemoved(m, d)
                        THEN [removedMe EXCEPT ![d] = @ \cup {m.from}] ELSE removedMe
    BY <1>12 DEF ReceiveSync
  <2>2. Learned(d, m) \in SUBSET Device /\ m.epoch \in 0..MaxEpoch
    BY <1>1 DEF Learned, TypeOK, RosterSync
  <2>3. \A x \in OnOurWord \cap Learned(d, m) : Signed(msgs', x, m.epoch)
    BY <2>1 DEF Learned, RemovalInv, SyncsRestOnTombstones
  <2>4. m.from \in Device
    BY <1>1 DEF TypeOK, RosterSync
  <2>5. ASSUME d \in OnOurWord, ReportsRemoved(m, d) PROVE d \in tombstones'[m.from]
    BY <1>1, <2>1, <2>2, <2>4, <2>5, ApplyTombstonesEffect
       DEF RemovalInv, SyncsRestOnTombstones
  <2>6. NewEvictionsRest
    BY <1>1, <2>1, <2>5 DEF NewEvictionsRest, TypeOK, OnOurWord
  <2>7. NewRemovalsMeant
    BY <2>1 DEF NewRemovalsMeant
  <2>. QED
    BY <2>1, <2>2, <2>3, <2>6, <2>7, ApplyRemovalStep
<1>13. CASE UNCHANGED vars
  BY <1>13, QuietRemovalStep DEF vars
<1>14. ASSUME NEW d \in Device, NEW h, DenyHeld(d, h) PROVE RemovalInv'
  BY <1>14, QuietRemovalStep DEF DenyHeld
<1>15. ASSUME NEW m, LoseSync(m) PROVE RemovalInv'
  BY <1>15, QuietRemovalStep DEF LoseSync
<1>16. ASSUME NEW d, NEW s, NEW n, WindowRolls(d, s, n) PROVE RemovalInv'
  BY <1>16, QuietRemovalStep DEF WindowRolls
<1>. QED
  BY <1>4, <1>5, <1>6, <1>7, <1>8, <1>9, <1>10, <1>11, <1>12, <1>13, <1>14, <1>15,
     <1>16, JoinRemovalStep DEF Next

LEMMA RemovalInvHolds == Spec => []RemovalInv
  BY InitRemovalInv, NextRemovalInv, PTL DEF Spec

(* A removal of a device the server's list never touches goes back, at every *)
(* device that holds its tombstone, to a roster_remove that was signed, and  *)
(* the epoch of the holder covers it, whatever becomes of the others.        *)
THEOREM RemovalsGoBackToSignatures == Spec => []TombstonesRestOnSignatures
  BY RemovalInvHolds, PTL DEF RemovalInv

(* A device the server's list never touches is told of its eviction only by *)
(* devices that hold its tombstone.                                         *)
THEOREM EvictionsAreReal == Spec => []EvictionsRestOnTombstones
  BY RemovalInvHolds, PTL DEF RemovalInv

(* In a family whose server never lists a device as revoked, every tombstone *)
(* goes back to a signed removal.  (With such a list this fails: a sync      *)
(* carries the record it marked removed, and its receiver takes the record   *)
(* for a removal.)                                                           *)
THEOREM TombstonesGoBackToSignatures ==
  ASSUME Revocable = {}
  PROVE  Spec => []TombstonesAreSigned
<1>1. RemovalInv => TombstonesAreSigned
  BY DEF RemovalInv, TypeOK, TombstonesRestOnSignatures, TombstonesAreSigned, OnOurWord,
         Signed
<1>. QED
  BY <1>1, RemovalInvHolds, PTL

(* In such a family a device is told of its eviction by none but devices     *)
(* that did evict it: receive_removal_of_self and receive_sync report no     *)
(* split that is not one.                                                    *)
THEOREM NoEvictionIsFalse ==
  ASSUME Revocable = {}
  PROVE  Spec => []NoFalseEviction
<1>1. RemovalInv => NoFalseEviction
  BY DEF RemovalInv, EvictionsRestOnTombstones, NoFalseEviction, OnOurWord
<1>. QED
  BY <1>1, RemovalInvHolds, PTL

-----------------------------------------------------------------------------
(* A key once held for an id stays, and no message takes a family past the  *)
(* cap.  Every step but an approval is tame, or is an admission that        *)
(* receive_introduce has checked.                                           *)
Tame(d) ==
  \A x \in Device :
    /\ Known(d, x) => devices'[d][x].pk = devices[d][x].pk
    /\ devices'[d][x].state = "active" => IsActive(d, x)
CheckedAdmission(d, x, k) ==
  /\ devices'[d] = Admit(d, x, k)
  /\ Known(d, x) => devices[d][x].pk = k
  /\ ActiveCount(d) < MaxActive

LEMMA ActiveFinite ==
  ASSUME NEW d \in Device
  PROVE  IsFiniteSet(ActiveIn(d)) /\ ActiveCount(d) \in Nat
<1>1. ActiveIn(d) \subseteq Device
  BY DEF ActiveIn
<1>. QED
  BY <1>1, FS_Subset, FS_CardinalityType, RosterAssumption DEF ActiveCount

LEMMA TameKeepsPinned ==
  ASSUME NEW d \in Device, Tame(d)
  PROVE  /\ \A x \in Device : Known(d, x) => devices'[d][x].pk = devices[d][x].pk
         /\ ActiveCount(d)' <= MaxOf(ActiveCount(d), MaxActive)
<1>1. ActiveIn(d)' \subseteq ActiveIn(d)
  BY DEF Tame, ActiveIn, IsActive
<1>2. /\ ActiveCount(d)' <= ActiveCount(d)
      /\ ActiveCount(d)' \in Nat /\ ActiveCount(d) \in Nat
  BY <1>1, ActiveFinite, FS_Subset, FS_CardinalityType DEF ActiveCount
<1>. QED
  BY <1>2, RosterAssumption DEF Tame, MaxOf

LEMMA CheckedAdmissionKeepsPinned ==
  ASSUME TypeOK, NEW d \in Device, NEW x \in Device, NEW k \in Keys,
         CheckedAdmission(d, x, k)
  PROVE  /\ \A y \in Device : Known(d, y) => devices'[d][y].pk = devices[d][y].pk
         /\ ActiveCount(d)' <= MaxOf(ActiveCount(d), MaxActive)
<1>1. \A y \in Device :
        devices'[d][y] = IF y = x THEN ActiveRecord(k) ELSE devices[d][y]
  BY DEF CheckedAdmission, Admit, TypeOK
<1>2. ActiveIn(d)' \subseteq ActiveIn(d) \cup {x}
  BY <1>1 DEF ActiveIn, IsActive
<1>3. /\ IsFiniteSet(ActiveIn(d) \cup {x})
      /\ Cardinality(ActiveIn(d) \cup {x}) \in Nat
      /\ Cardinality(ActiveIn(d) \cup {x}) <= ActiveCount(d) + 1
  <2>1. IsFiniteSet(ActiveIn(d)) /\ Cardinality(ActiveIn(d)) \in Nat
    BY ActiveFinite DEF ActiveCount
  <2>2. /\ IsFiniteSet(ActiveIn(d) \cup {x})
        /\ Cardinality(ActiveIn(d) \cup {x}) =
             IF x \in ActiveIn(d) THEN Cardinality(ActiveIn(d))
             ELSE Cardinality(ActiveIn(d)) + 1
    BY <2>1, FS_AddElement
  <2>. QED
    BY <2>1, <2>2 DEF ActiveCount
<1>4. /\ ActiveCount(d)' <= Cardinality(ActiveIn(d) \cup {x})
      /\ ActiveCount(d)' \in Nat /\ ActiveCount(d) \in Nat
  BY <1>2, <1>3, ActiveFinite, FS_Subset, FS_CardinalityType DEF ActiveCount
<1>5. ActiveCount(d)' <= MaxActive
  BY <1>3, <1>4, RosterAssumption DEF CheckedAdmission
<1>. QED
  BY <1>1, <1>4, <1>5, RosterAssumption DEF CheckedAdmission, ActiveRecord, MaxOf

(* receive_introduce either leaves the records alone or admits with checks. *)
LEMMA IntroduceIsChecked ==
  ASSUME TypeOK, NEW d \in Device, NEW m \in RosterIntroduce,
         devices'[d] = DevicesAfter(d, m)
  PROVE  Tame(d) \/ CheckedAdmission(d, m.subject, m.pk)
<1>1. CASE Verdict(d, m) # "admitted"
  BY <1>1 DEF DevicesAfter, Tame, IsActive
<1>2. CASE Verdict(d, m) = "admitted"
  <2>1. /\ devices'[d] = Admit(d, m.subject, m.pk)
        /\ ~Rekeyed(d, m) /\ ~OverCap(d, m) /\ ~IsActive(d, m.subject)
    BY <1>2 DEF DevicesAfter, Verdict, Refused
  <2>2. ActiveCount(d) < MaxActive
    BY <2>1, ActiveFinite, RosterAssumption DEF OverCap
  <2>. QED
    BY <2>1, <2>2 DEF CheckedAdmission, Rekeyed
<1>. QED
  BY <1>1, <1>2

LEMMA ApplyTombstonesIsTame ==
  ASSUME TypeOK, NEW c \in Device, NEW S \in SUBSET Device, NEW e \in 0..MaxEpoch,
         ApplyTombstones(c, S, e), NEW d \in Device
  PROVE  Tame(d)
<1>1. \A x \in Device : devices'[d][x] =
        IF d = c /\ x \in S /\ Known(c, x)
        THEN [devices[c][x] EXCEPT !.state = "removed"] ELSE devices[d][x]
  BY ApplyTombstonesEffect
<1>2. \A x \in Device : [devices[d][x] EXCEPT !.state = "removed"].pk = devices[d][x].pk
  BY DEF TypeOK, Record, Unknown
<1>3. \A x \in Device : [devices[d][x] EXCEPT !.state = "removed"].state # "active"
  BY DEF TypeOK, Record, Unknown
<1>. QED
  BY <1>1, <1>2, <1>3 DEF Tame, IsActive

LEMMA StepIsTameOrChecked ==
  ASSUME TypeOK, [Next]_vars, NEW d \in Device, Joined(d), ~Approves(d)
  PROVE  \/ Tame(d)
         \/ \E x \in Device, k \in Keys : CheckedAdmission(d, x, k)
<1>0. devices'[d] = devices[d] => Tame(d)
  BY DEF Tame, IsActive
<1>1. ASSUME NEW i \in Device, NEW x \in Device, NEW k \in Keys, Vouch(i, x, k)
      PROVE  Tame(d) \/ CheckedAdmission(d, x, k)
  <2>1. IntroduceMsg(i, x, k) \in RosterIntroduce
    BY <1>1, VouchedByType DEF Vouch
  <2>2. CASE d = i
    <3>1. devices'[d] = DevicesAfter(d, IntroduceMsg(i, x, k))
      BY <1>1, <2>2 DEF Vouch, TypeOK
    <3>. QED
      BY <2>1, <3>1, IntroduceIsChecked DEF IntroduceMsg
  <2>3. CASE d # i
    BY <1>0, <1>1, <2>3 DEF Vouch, TypeOK
  <2>. QED
    BY <2>2, <2>3
<1>2. ASSUME NEW i \in Device, NEW x \in Device, NEW k \in Keys,
             NEW all \in BOOLEAN, Join(i, x, k, all)
      PROVE  Tame(d) \/ CheckedAdmission(d, x, k)
  <2>1. IntroduceMsg(i, x, k) \in RosterIntroduce /\ d # x /\ i # x
    BY <1>2, VouchedByType DEF Join, VouchedBy
  <2>2. CASE d = i
    <3>1. devices'[d] = DevicesAfter(d, IntroduceMsg(i, x, k))
      BY <1>2, <2>1, <2>2 DEF Join, TypeOK
    <3>. QED
      BY <2>1, <3>1, IntroduceIsChecked DEF IntroduceMsg
  <2>3. CASE d # i
    BY <1>0, <1>2, <2>1, <2>3 DEF Join, TypeOK
  <2>. QED
    BY <2>2, <2>3
<1>3. ASSUME NEW e \in Device, NEW m \in msgs, ReceiveIntroduce(e, m)
      PROVE  \/ Tame(d)
             \/ \E x \in Device, k \in Keys : CheckedAdmission(d, x, k)
  <2>1. m \in RosterIntroduce /\ m.subject \in Device /\ m.pk \in Keys
    BY <1>3 DEF TypeOK, ReceiveIntroduce, RosterIntroduce, RosterRemove
  <2>2. CASE d = e
    <3>1. devices'[d] = DevicesAfter(d, m)
      BY <1>3, <2>2 DEF ReceiveIntroduce, TypeOK
    <3>. QED
      BY <2>1, <3>1, IntroduceIsChecked
  <2>3. CASE d # e
    BY <1>0, <1>3, <2>3 DEF ReceiveIntroduce, TypeOK
  <2>. QED
    BY <2>2, <2>3
<1>4. ASSUME NEW e \in Device, NEW h \in held[e], ApproveHeld(e, h)
      PROVE  Tame(d)
  <2>1. d # e
    BY <1>4 DEF ApproveHeld, Approves, TypeOK
  <2>. QED
    BY <1>0, <1>4, <2>1 DEF ApproveHeld, TypeOK
<1>5. ASSUME NEW e \in Device, NEW x \in Device, Remove(e, x) PROVE Tame(d)
  <2>1. epoch[e] + 1 \in 0..MaxEpoch /\ {x} \in SUBSET Device
    BY <1>5, RosterAssumption DEF Remove, TypeOK
  <2>. QED
    BY <1>5, <2>1, ApplyTombstonesIsTame DEF Remove
<1>6. ASSUME NEW e \in Device, NEW m \in msgs, ReceiveRemove(e, m) PROVE Tame(d)
  <2>1. m.subject \in Device /\ m.epoch \in 0..MaxEpoch
    BY <1>6 DEF ReceiveRemove, TypeOK, RosterIntroduce, RosterRemove
  <2>2. {m.subject} \in SUBSET Device
    BY <2>1
  <2>. QED
    BY <1>0, <1>6, <2>1, <2>2, ApplyTombstonesIsTame DEF ReceiveRemove
<1>7. ASSUME NEW m \in syncs, NEW e \in Device, ReceiveSync(e, m) PROVE Tame(d)
  <2>1. Learned(e, m) \in SUBSET Device /\ m.epoch \in 0..MaxEpoch
    BY DEF Learned, TypeOK, RosterSync
  <2>. QED
    BY <1>7, <2>1, ApplyTombstonesIsTame DEF ReceiveSync
<1>8. ASSUME NEW e \in Device, NEW R \in SUBSET Revocable, Reconcile(e, R) PROVE Tame(d)
  <2>1. \A x \in Device : [devices[d][x] EXCEPT !.state = "removed"].pk = devices[d][x].pk
    BY DEF TypeOK, Record, Unknown
  <2>2. CASE d = e
    <3>1. \A x \in Device :
            devices'[d][x] = IF x \in R /\ IsActive(d, x)
                             THEN [devices[d][x] EXCEPT !.state = "removed"]
                             ELSE devices[d][x]
      BY <1>8, <2>2 DEF Reconcile, TypeOK
    <3>2. \A x \in Device : IsActive(d, x) => devices[d][x] \in [state : {"active", "removed"}, pk : Keys]
      BY DEF TypeOK, Record, Unknown, IsActive
    <3>3. \A x \in Device :
            IsActive(d, x) => [devices[d][x] EXCEPT !.state = "removed"].state # "active"
      BY <3>2
    <3>. QED
      BY <2>1, <3>1, <3>3 DEF Tame, IsActive
  <2>3. CASE d # e
    BY <1>0, <1>8, <2>3 DEF Reconcile, TypeOK
  <2>. QED
    BY <2>2, <2>3
<1>. QED
  BY <1>0, <1>1, <1>2, <1>3, <1>4, <1>5, <1>6, <1>7, <1>8
     DEF Next, vars, ReceiveRemovalOfSelf, DenyHeld, SendSync, LoseSync, WindowRolls

(* "A peer that presents another identity key has to join again": whatever   *)
(* messages come in whatever order, a device that has joined replaces no key *)
(* and grows its family past the cap for none of them.                      *)
THEOREM KeysArePinned == Spec => IdentityPinned
<1>1. TypeOK /\ [Next]_vars =>
        [\A d \in Device :
           Joined(d) /\ ~Approves(d) =>
             /\ \A x \in Device : Known(d, x) => devices'[d][x].pk = devices[d][x].pk
             /\ ActiveCount(d)' <= MaxOf(ActiveCount(d), MaxActive)]_vars
  BY StepIsTameOrChecked, TameKeepsPinned, CheckedAdmissionKeepsPinned
<1>. QED
  BY <1>1, TypeCorrect, PTL DEF Spec, IdentityPinned

-----------------------------------------------------------------------------
(* Refinement.  A vouch that waits for approval was sent, so that admitting *)
(* its subject later on is still an admission on a member's vouch.          *)
Vouched(M, i, x) == \E m \in M : m.type = "introduce" /\ m.from = i /\ m.subject = x
HeldIsVouched == \A d \in Device : \A h \in held[d] : Vouched(msgs, h.introducer, h.subject)
NoSyncsAllowed == MaxSyncs = 0 => syncs = {}

RefinementInv == RemovalInv /\ TombstoneInv /\ HeldIsVouched /\ NoSyncsAllowed

LEMMA NextHeldIsVouched ==
  ASSUME TypeOK, HeldIsVouched, OnlyGrows, [Next]_vars
  PROVE  HeldIsVouched'
<1> SUFFICES ASSUME NEW d \in Device, NEW h \in held'[d]
             PROVE  Vouched(msgs', h.introducer, h.subject)
  BY DEF HeldIsVouched
<1>1. CASE h \in held[d]
  BY <1>1 DEF HeldIsVouched, Vouched, OnlyGrows
<1>2. CASE h \notin held[d]
  <2>1. ASSUME NEW m, h \in HeldAfter(d, m), m.type = "introduce", m \in msgs'
        PROVE  Vouched(msgs', h.introducer, h.subject)
    BY <1>2, <2>1 DEF HeldAfter, Vouched
  <2>2. ASSUME NEW i \in Device, NEW x \in Device, NEW k \in Keys, VouchedBy(i, x, k)
        PROVE  Vouched(msgs', h.introducer, h.subject)
    <3>1. i = d /\ h \in HeldAfter(d, IntroduceMsg(i, x, k))
      BY <1>2, <2>2 DEF VouchedBy, TypeOK
    <3>2. IntroduceMsg(i, x, k).type = "introduce" /\ IntroduceMsg(i, x, k) \in msgs'
      BY <2>2 DEF VouchedBy, IntroduceMsg
    <3>. QED
      BY <2>1, <3>1, <3>2
  <2>3. ASSUME NEW e \in Device, NEW m \in msgs, ReceiveIntroduce(e, m)
        PROVE  Vouched(msgs', h.introducer, h.subject)
    <3>1. e = d /\ h \in HeldAfter(d, m)
      BY <1>2, <2>3 DEF ReceiveIntroduce, TypeOK
    <3>2. m.type = "introduce" /\ m \in msgs'
      BY <2>3 DEF ReceiveIntroduce, OnlyGrows
    <3>. QED
      BY <2>1, <3>1, <3>2
  <2>4. ASSUME NEW e \in Device, NEW S, NEW n, ApplyTombstones(e, S, n) PROVE FALSE
    BY <1>2, <2>4 DEF ApplyTombstones, Unheld, TypeOK
  <2>5. ASSUME NEW e \in Device, NEW g, held' = [held EXCEPT ![e] = @ \ {g}] PROVE FALSE
    BY <1>2, <2>5 DEF TypeOK
  <2>. QED
    BY <1>2, <2>2, <2>3, <2>4, <2>5
       DEF Next, vars, Vouch, Join, ReceiveRemove, ReceiveRemovalOfSelf, ApproveHeld,
           DenyHeld, Remove, SendSync, LoseSync, ReceiveSync, Reconcile, WindowRolls
<1>. QED
  BY <1>1, <1>2

LEMMA NextNoSyncsAllowed ==
  ASSUME NoSyncsAllowed, [Next]_vars
  PROVE  NoSyncsAllowed'
<1> SUFFICES ASSUME MaxSyncs = 0, syncs = {} PROVE syncs' = {}
  BY DEF NoSyncsAllowed
<1>1. ASSUME NEW d, SendSync(d) PROVE FALSE
  BY <1>1, FS_EmptySet DEF SendSync
<1>2. ASSUME NEW i, NEW x, NEW k, NEW all, Vouch(i, x, k) \/ Join(i, x, k, all)
      PROVE  UNCHANGED syncs
  BY <1>2 DEF Vouch, Join
<1>3. ASSUME NEW m \in syncs PROVE FALSE
  OBVIOUS
<1>. QED
  BY <1>1, <1>2, <1>3
     DEF Next, vars, ReceiveIntroduce, ReceiveRemove, ReceiveRemovalOfSelf,
         ApproveHeld, DenyHeld, Remove, Reconcile, WindowRolls

LEMMA RefinementInvHolds == Spec => []RefinementInv
<1>1. Init => RefinementInv
  BY InitRemovalInv, InitTombstoneInv
     DEF Init, RefinementInv, HeldIsVouched, NoSyncsAllowed
<1>2. RefinementInv /\ [Next]_vars => RefinementInv'
  <2>1. RefinementInv /\ [Next]_vars => OnlyGrows /\ TypeOK
    BY TombstonesGrow DEF RefinementInv, RemovalInv
  <2>2. RefinementInv /\ [Next]_vars => TombstoneInv'
    BY NextTypeOK, NextTombstoneWins, NextHoldsOnceJoined DEF RefinementInv, TombstoneInv
  <2>. QED
    BY <2>1, <2>2, NextRemovalInv, NextHeldIsVouched, NextNoSyncsAllowed DEF RefinementInv
<1>. QED
  BY <1>1, <1>2, PTL DEF Spec

(* What x is to d, read off d's tombstones and its record of x.             *)
Standing(gone, r) ==
  IF gone THEN "gone"
  ELSE IF r.state = "unknown" THEN "stranger"
  ELSE IF r.state = "active" THEN "member" ELSE "suspended"

LEMMA ViewIs ==
  ASSUME TypeOK
  PROVE  /\ view \in [Device -> [Device -> Family!Standing]]
         /\ \A d, x \in Device :
              view[d][x] = Standing(x \in tombstones[d], devices[d][x])
<1>1. \A d, x \in Device : devices[d][x].state \in {"unknown", "active", "removed"}
  BY DEF TypeOK, Record, Unknown
<1>. QED
  BY <1>1 DEF view, Standing, Family!Standing

LEMMA ViewBecomes ==
  ASSUME TypeOK'
  PROVE  /\ view' \in [Device -> [Device -> Family!Standing]]
         /\ \A d, x \in Device :
              view'[d][x] = Standing(x \in tombstones'[d], devices'[d][x])
<1>1. \A d, x \in Device : devices'[d][x].state \in {"unknown", "active", "removed"}
  BY DEF TypeOK, Record, Unknown
<1>. QED
  BY <1>1 DEF view, Standing, Family!Standing

LEMMA SameView ==
  ASSUME NEW f \in [Device -> [Device -> Family!Standing]],
         NEW g \in [Device -> [Device -> Family!Standing]],
         \A d, x \in Device : f[d][x] = g[d][x]
  PROVE  f = g
<1>1. \A d \in Device : f[d] = g[d]
  OBVIOUS
<1>. QED
  BY <1>1

LEMMA SameRosters == ASSUME UNCHANGED <<devices, tombstones>> PROVE view' = view
  BY DEF view

(* A step that touches no record, no tombstone and no vouch is a stutter.   *)
LEMMA QuietStepStutters ==
  ASSUME UNCHANGED <<devices, tombstones, msgs>>
  PROVE  UNCHANGED <<view, vouches>>
  BY DEF view, vouches

\* A device with an active record, or with a roster, by what it is to d.
LEMMA StandingOf ==
  ASSUME RefinementInv, NEW d \in Device, NEW x \in Device
  PROVE  /\ IsActive(d, x) <=> view[d][x] = "member"
         /\ x \in tombstones[d] <=> view[d][x] = "gone"
         /\ x \notin tombstones[d] /\ ~IsActive(d, x) =>
              view[d][x] \in {"stranger", "suspended"}
         /\ Joined(d) => view[d][d] # "stranger"
         /\ ~Joined(d) => view[d][d] = "stranger" /\ ~Known(d, d)
<1>1. TypeOK /\ TombstoneWins /\ RemovesOnceJoined
  BY DEF RefinementInv, RemovalInv, TombstoneInv
<1>2. /\ view[d][x] = Standing(x \in tombstones[d], devices[d][x])
      /\ view[d][d] = Standing(d \in tombstones[d], devices[d][d])
  BY <1>1, ViewIs
<1>3. x \in tombstones[d] => ~IsActive(d, x)
  BY <1>1 DEF TombstoneWins
<1>. QED
  BY <1>1, <1>2, <1>3 DEF Standing, IsActive, Joined, Known, RemovesOnceJoined

LEMMA VouchesGrow ==
  ASSUME NEW i, NEW x, NEW m, msgs' = msgs \cup {m},
         m.type = "introduce", m.from = i, m.subject = x
  PROVE  vouches' = vouches \cup {<<i, x>>}
  BY DEF vouches

\* One admission, written to the record of one device.
LEMMA AdmissionView ==
  ASSUME RefinementInv, TypeOK', NEW d \in Device, NEW x \in Device, NEW k \in Keys,
         x \notin tombstones[d], devices' = [devices EXCEPT ![d] = Admit(d, x, k)],
         UNCHANGED tombstones
  PROVE  view' = [view EXCEPT ![d][x] = "member"]
<1>1. TypeOK
  BY DEF RefinementInv, RemovalInv
<1>2. /\ view \in [Device -> [Device -> Family!Standing]]
      /\ view' \in [Device -> [Device -> Family!Standing]]
      /\ \A c, y \in Device : /\ view[c][y] = Standing(y \in tombstones[c], devices[c][y])
                              /\ view'[c][y] = Standing(y \in tombstones'[c], devices'[c][y])
  BY <1>1, ViewIs, ViewBecomes
<1>. DEFINE new == [view EXCEPT ![d][x] = "member"]
<1>3. /\ new \in [Device -> [Device -> Family!Standing]]
      /\ \A c, y \in Device :
           new[c][y] = IF c = d /\ y = x THEN "member" ELSE view[c][y]
  BY <1>2 DEF Family!Standing
<1>4. \A c, y \in Device :
        devices'[c][y] = IF c = d /\ y = x THEN ActiveRecord(k) ELSE devices[c][y]
  BY <1>1 DEF Admit, TypeOK
<1>. HIDE DEF new
<1>5. \A c, y \in Device : view'[c][y] = new[c][y]
  <2> SUFFICES ASSUME NEW c \in Device, NEW y \in Device PROVE view'[c][y] = new[c][y]
    OBVIOUS
  <2>1. view'[c][y] = Standing(y \in tombstones[c], devices'[c][y])
    BY <1>2
  <2>2. CASE c = d /\ y = x
    <3>1. devices'[c][y] = ActiveRecord(k) /\ new[c][y] = "member" /\ ~(y \in tombstones[c])
      BY <1>3, <1>4, <2>2
    <3>2. Standing(y \in tombstones[c], ActiveRecord(k)) = "member"
      BY <3>1 DEF Standing, ActiveRecord
    <3>. QED
      BY <2>1, <3>1, <3>2
  <2>3. CASE ~(c = d /\ y = x)
    <3>1. devices'[c][y] = devices[c][y] /\ new[c][y] = view[c][y]
      BY <1>3, <1>4, <2>3
    <3>. QED
      BY <1>2, <2>1, <3>1
  <2>. QED
    BY <2>2, <2>3
<1>6. view' = new
  BY <1>2, <1>3, <1>5, SameView
<1>. QED
  BY <1>6 DEF new

LEMMA VouchRefines ==
  ASSUME RefinementInv, TypeOK', NEW i \in Device, NEW x \in Device, NEW k \in Keys,
         Vouch(i, x, k)
  PROVE  Family!Vouch(i, x)
<1>. DEFINE m == IntroduceMsg(i, x, k)
<1>1. /\ msgs' = msgs \cup {m}
      /\ m.type = "introduce" /\ m.from = i /\ m.subject = x /\ m.pk = k
      /\ Verdict(i, m) # "refused" /\ x \notin tombstones[i]
      /\ devices' = [devices EXCEPT ![i] = DevicesAfter(i, m)]
      /\ UNCHANGED tombstones
  BY DEF Vouch, VouchedBy, IntroduceMsg, MayVouch
<1>. HIDE DEF m
<1>2. vouches' = vouches \cup {<<i, x>>}
  BY <1>1, VouchesGrow
<1>3. IsActive(i, i)
  BY <1>1 DEF Verdict, Refused, Unauthorised
<1>4. view[i][i] = "member" /\ view[i][x] # "gone"
  BY <1>1, <1>3, StandingOf
<1>5. view' \in {view, [view EXCEPT ![i][x] = "member"]}
  <2>1. CASE Verdict(i, m) = "admitted"
    BY <1>1, <2>1, AdmissionView DEF DevicesAfter
  <2>2. CASE Verdict(i, m) # "admitted"
    <3>1. UNCHANGED devices
      BY <1>1, <2>2 DEF DevicesAfter, RefinementInv, RemovalInv, TypeOK
    <3>2. view' = view
      BY <1>1, <3>1, SameRosters
    <3>. QED
      BY <3>2
  <2>. QED
    BY <2>1, <2>2
<1>. QED
  BY <1>2, <1>4, <1>5 DEF Family!Vouch

LEMMA ReceiveIntroduceRefines ==
  ASSUME RefinementInv, TypeOK', NEW d \in Device, NEW m \in msgs, ReceiveIntroduce(d, m)
  PROVE  (\E x \in Device : Family!Admit(d, x)) \/ UNCHANGED <<view, vouches>>
<1>1. TypeOK
  BY DEF RefinementInv, RemovalInv
<1>2. /\ m.type = "introduce" /\ Joined(d)
      /\ devices' = [devices EXCEPT ![d] = DevicesAfter(d, m)]
      /\ UNCHANGED <<tombstones, msgs>>
  BY DEF ReceiveIntroduce
<1>3. m.from \in Device /\ m.subject \in Device /\ m.pk \in Keys
  BY <1>1, <1>2 DEF TypeOK, RosterIntroduce, RosterRemove
<1>4. CASE Verdict(d, m) = "admitted"
  <2>1. IsActive(d, m.from) /\ m.subject \notin tombstones[d] /\ ~IsActive(d, m.subject)
    BY <1>4 DEF Verdict, Refused, Unauthorised, Barred
  <2>2. view' = [view EXCEPT ![d][m.subject] = "member"]
    BY <1>2, <1>3, <1>4, <2>1, AdmissionView DEF DevicesAfter
  <2>3. /\ view[d][d] # "stranger" /\ view[d][m.from] = "member"
        /\ view[d][m.subject] \in {"stranger", "suspended"}
    BY <1>2, <1>3, <2>1, StandingOf
  <2>4. <<m.from, m.subject>> \in vouches /\ UNCHANGED vouches
    BY <1>2 DEF vouches
  <2>. QED
    BY <1>3, <2>2, <2>3, <2>4 DEF Family!Admit
<1>5. CASE Verdict(d, m) # "admitted"
  <2>1. UNCHANGED devices
    BY <1>1, <1>2, <1>5 DEF DevicesAfter, TypeOK
  <2>. QED
    BY <1>2, <2>1, QuietStepStutters
<1>. QED
  BY <1>4, <1>5

LEMMA ApproveHeldRefines ==
  ASSUME RefinementInv, TypeOK', NEW d \in Device, NEW h \in held[d], ApproveHeld(d, h)
  PROVE  (\E x \in Device : Family!Admit(d, x)) \/ UNCHANGED <<view, vouches>>
<1>1. TypeOK /\ HoldsOnceJoined
  BY DEF RefinementInv, RemovalInv, TombstoneInv
<1>2. h.introducer \in Device /\ h.subject \in Device /\ h.pk \in Keys
  BY <1>1 DEF TypeOK, HeldAdmission
<1>3. UNCHANGED <<tombstones, msgs>>
  BY DEF ApproveHeld
<1>4. CASE ~MayApprove(d, h)
  BY <1>3, <1>4, QuietStepStutters DEF ApproveHeld
<1>5. CASE MayApprove(d, h)
  <2>1. view' = [view EXCEPT ![d][h.subject] = "member"]
    BY <1>2, <1>3, <1>5, AdmissionView DEF ApproveHeld, MayApprove
  <2>2. UNCHANGED vouches
    BY <1>3 DEF vouches
  <2>3. CASE IsActive(d, h.subject)
    <3>1. view[d][h.subject] = "member"
      BY <1>2, <2>3, StandingOf
    <3>2. view \in [Device -> [Device -> Family!Standing]]
      BY <1>1, ViewIs
    <3>3. view' = view
      BY <1>2, <2>1, <3>1, <3>2
    <3>. QED
      BY <2>2, <3>3
  <2>4. CASE ~IsActive(d, h.subject)
    <3>1. view[d][h.subject] \in {"stranger", "suspended"}
      BY <1>2, <1>5, <2>4, StandingOf DEF MayApprove
    <3>2. view[d][h.introducer] = "member"
      BY <1>2, <1>5, StandingOf DEF MayApprove
    <3>3. view[d][d] # "stranger"
      BY <1>1, StandingOf DEF HoldsOnceJoined
    <3>4. <<h.introducer, h.subject>> \in vouches
      BY DEF RefinementInv, HeldIsVouched, Vouched, vouches
    <3>. QED
      BY <1>2, <2>1, <2>2, <3>1, <3>2, <3>3, <3>4 DEF Family!Admit
  <2>. QED
    BY <2>3, <2>4
<1>. QED
  BY <1>4, <1>5

\* Tombstones for S at d, that d or a member of d's family stands for.
LEMMA RemovalRefines ==
  ASSUME RefinementInv, TypeOK', NEW d \in Device, NEW S \in SUBSET Device,
         NEW e \in 0..MaxEpoch, ApplyTombstones(d, S, e), NEW r \in Device,
         IsActive(d, r),
         r # d => d \notin S /\ \A x \in S : x \in tombstones[r],
         vouches' = vouches
  PROVE  Family!Remove(d, S)
<1>1. TypeOK
  BY DEF RefinementInv, RemovalInv
<1>2. /\ view \in [Device -> [Device -> Family!Standing]]
      /\ view' \in [Device -> [Device -> Family!Standing]]
      /\ \A c, y \in Device : /\ view[c][y] = Standing(y \in tombstones[c], devices[c][y])
                              /\ view'[c][y] = Standing(y \in tombstones'[c], devices'[c][y])
  BY <1>1, ViewIs, ViewBecomes
<1>. DEFINE row == [x \in Device |-> IF x \in S THEN "gone" ELSE view[d][x]]
            new == [view EXCEPT ![d] = row]
<1>3. /\ new \in [Device -> [Device -> Family!Standing]]
      /\ \A c, y \in Device :
           new[c][y] = IF c = d /\ y \in S THEN "gone" ELSE view[c][y]
  BY <1>2 DEF Family!Standing
<1>4. /\ tombstones'[d] = tombstones[d] \cup S
      /\ \A c \in Device : c # d => tombstones'[c] = tombstones[c]
      /\ \A c, y \in Device : devices'[c][y] =
           IF c = d /\ y \in S /\ Known(d, y)
           THEN [devices[d][y] EXCEPT !.state = "removed"] ELSE devices[c][y]
  BY <1>1, ApplyTombstonesEffect
<1>. HIDE DEF new
<1>5. ASSUME NEW c \in Device, NEW y \in Device PROVE view'[c][y] = new[c][y]
  <2>1. CASE c = d /\ y \in S
    BY <1>2, <1>3, <1>4, <2>1 DEF Standing
  <2>2. CASE ~(c = d /\ y \in S)
    <3>1. devices'[c][y] = devices[c][y] /\ new[c][y] = view[c][y]
      BY <1>3, <1>4, <2>2
    <3>2. (y \in tombstones'[c]) = (y \in tombstones[c])
      BY <1>4, <2>2
    <3>. QED
      BY <1>2, <3>1, <3>2
  <2>. QED
    BY <2>1, <2>2
<1>6. view' = new
  BY <1>2, <1>3, <1>5, SameView
<1>7. view[d][r] = "member"
  BY StandingOf
<1>8. ASSUME r # d PROVE d \notin S /\ \A x \in S : view[r][x] = "gone"
  BY <1>8, StandingOf
<1>. QED
  BY <1>6, <1>7, <1>8 DEF Family!Remove, new, row

LEMMA RemoveRefines ==
  ASSUME RefinementInv, TypeOK', NEW d \in Device, NEW x \in Device, Remove(d, x)
  PROVE  \E S \in SUBSET Device : Family!Remove(d, S)
<1>1. epoch[d] + 1 \in 0..MaxEpoch
  BY RosterAssumption DEF RefinementInv, RemovalInv, TypeOK, Remove
<1>2. {x} \in SUBSET Device
  OBVIOUS
<1>3. RemoveMsg(d, x).type = "remove" /\ msgs' = msgs \cup {RemoveMsg(d, x)}
  BY DEF Remove, RemoveMsg
<1>4. vouches' = vouches
  BY <1>3 DEF vouches
<1>. QED
  BY <1>1, <1>2, <1>4, RemovalRefines DEF Remove

LEMMA ReceiveRemoveRefines ==
  ASSUME RefinementInv, TypeOK', NEW d \in Device, NEW m \in msgs, ReceiveRemove(d, m)
  PROVE  (\E S \in SUBSET Device : Family!Remove(d, S)) \/ UNCHANGED <<view, vouches>>
<1>1. TypeOK /\ RemoversMeanIt
  BY DEF RefinementInv, RemovalInv
<1>2. m.type = "remove" /\ UNCHANGED msgs /\ IsActive(d, m.from) /\ m.subject # d
  BY DEF ReceiveRemove, AcceptsRemoval
<1>3. m.subject \in Device /\ m.epoch \in 0..MaxEpoch /\ m.from \in Device
  BY <1>1, <1>2 DEF TypeOK, RosterIntroduce, RosterRemove
<1>4. CASE UNCHANGED <<tombstones, devices, held, epoch>>
  BY <1>2, <1>4, QuietStepStutters
<1>5. CASE ApplyTombstones(d, {m.subject}, m.epoch)
  <2>1. {m.subject} \in SUBSET Device /\ m.subject \in tombstones[m.from]
    BY <1>1, <1>2, <1>3 DEF RemoversMeanIt
  <2>2. vouches' = vouches
    BY <1>2 DEF vouches
  <2>. QED
    BY <1>2, <1>3, <1>5, <2>1, <2>2, RemovalRefines
<1>. QED
  BY <1>4, <1>5 DEF ReceiveRemove

LEMMA ReceiveSyncRefines ==
  ASSUME Revocable = {}, RefinementInv, TypeOK', NEW d \in Device, NEW m \in syncs,
         ReceiveSync(d, m)
  PROVE  \E S \in SUBSET Device : Family!Remove(d, S)
<1>1. TypeOK /\ SyncsRestOnTombstones
  BY DEF RefinementInv, RemovalInv
<1>2. /\ IsActive(d, m.from) /\ vouches' = vouches
      /\ ApplyTombstones(d, Learned(d, m), m.epoch)
  BY DEF ReceiveSync, MergesFrom, vouches
<1>3. m.from \in Device /\ m.epoch \in 0..MaxEpoch
  BY <1>1 DEF TypeOK, RosterSync
<1>4. /\ Learned(d, m) \in SUBSET Device /\ d \notin Learned(d, m)
      /\ \A x \in Learned(d, m) : x \in tombstones[m.from]
  BY <1>1 DEF Learned, SyncsRestOnTombstones, OnOurWord
<1>. QED
  BY <1>2, <1>3, <1>4, RemovalRefines

LEMMA ReconcileRefines ==
  ASSUME RefinementInv, TypeOK', NEW d \in Device, NEW R \in SUBSET Revocable,
         Reconcile(d, R)
  PROVE  Family!Suspend(d, R)
<1>1. TypeOK
  BY DEF RefinementInv, RemovalInv
<1>2. /\ view \in [Device -> [Device -> Family!Standing]]
      /\ view' \in [Device -> [Device -> Family!Standing]]
      /\ \A c, y \in Device : /\ view[c][y] = Standing(y \in tombstones[c], devices[c][y])
                              /\ view'[c][y] = Standing(y \in tombstones'[c], devices'[c][y])
  BY <1>1, ViewIs, ViewBecomes
<1>. DEFINE row == [x \in Device |-> IF x \in R /\ view[d][x] = "member"
                                     THEN "suspended" ELSE view[d][x]]
            new == [view EXCEPT ![d] = row]
<1>3. /\ new \in [Device -> [Device -> Family!Standing]]
      /\ \A c, y \in Device :
           new[c][y] = IF c = d /\ y \in R /\ view[d][y] = "member"
                       THEN "suspended" ELSE view[c][y]
  BY <1>2 DEF Family!Standing
<1>4. \A c, y \in Device : devices'[c][y] =
        IF c = d /\ y \in R /\ IsActive(d, y)
        THEN [devices[d][y] EXCEPT !.state = "removed"] ELSE devices[c][y]
  BY <1>1 DEF Reconcile, TypeOK
<1>5. UNCHANGED tombstones /\ UNCHANGED vouches
  BY DEF Reconcile, vouches
<1>. HIDE DEF new
<1>6. ASSUME NEW c \in Device, NEW y \in Device PROVE view'[c][y] = new[c][y]
  <2>0. IsActive(d, y) <=> view[d][y] = "member"
    BY StandingOf
  <2>1. CASE c = d /\ y \in R /\ IsActive(d, y)
    <3>1. view[d][y] = "member" /\ y \notin tombstones[d]
      BY <2>1, StandingOf
    <3>2. [devices[d][y] EXCEPT !.state = "removed"].state = "removed"
      BY <1>1, <2>1 DEF TypeOK, Record, Unknown, IsActive
    <3>3. view'[c][y] = Standing(y \in tombstones[d], [devices[d][y] EXCEPT !.state = "removed"])
      BY <1>2, <1>4, <1>5, <2>1
    <3>4. view'[c][y] = "suspended"
      BY <3>1, <3>2, <3>3 DEF Standing
    <3>. QED
      BY <1>3, <2>1, <3>1, <3>4
  <2>2. CASE ~(c = d /\ y \in R /\ IsActive(d, y))
    <3>1. devices'[c][y] = devices[c][y] /\ new[c][y] = view[c][y]
      BY <1>3, <1>4, <2>0, <2>2
    <3>. QED
      BY <1>2, <1>5, <3>1
  <2>. QED
    BY <2>1, <2>2
<1>7. view' = new
  BY <1>2, <1>3, <1>6, SameView
<1>. QED
  BY <1>5, <1>7 DEF Family!Suspend, new, row

\* The newcomer's family is its introducer's, less the suspended if it adopts
\* active records only.
LEMMA JoinRefines ==
  ASSUME RefinementInv, TypeOK', NEW i \in Device, NEW x \in Device, NEW k \in Keys,
         NEW all \in BOOLEAN, Join(i, x, k, all)
  PROVE  Family!Join(i, x)
<1>. DEFINE m == IntroduceMsg(i, x, k)
            left == {y \in Device : ~all /\ view[i][y] = "suspended"}
<1>1. TypeOK
  BY DEF RefinementInv, RemovalInv
<1>2. /\ i # x /\ ~Joined(x) /\ x \notin tombstones[i]
      /\ msgs' = msgs \cup {m}
      /\ m.type = "introduce" /\ m.from = i /\ m.subject = x /\ m.pk = k
      /\ Verdict(i, m) \in {"admitted", "known"}
      /\ devices' = [devices EXCEPT ![i] = DevicesAfter(i, m), ![x] = Adopted(i, x, k, all)]
      /\ tombstones' = [tombstones EXCEPT ![x] = tombstones[i]]
  BY DEF Join, VouchedBy, IntroduceMsg, MayVouch
<1>. HIDE DEF m
<1>3. IsActive(i, i)
  BY <1>2 DEF Verdict, Refused, Unauthorised
<1>4. /\ view[i][i] = "member" /\ view[i][x] # "gone" /\ view[x][x] = "stranger"
      /\ vouches' = vouches \cup {<<i, x>>}
  BY <1>2, <1>3, StandingOf, VouchesGrow
<1>5. /\ view \in [Device -> [Device -> Family!Standing]]
      /\ view' \in [Device -> [Device -> Family!Standing]]
      /\ \A c, y \in Device : /\ view[c][y] = Standing(y \in tombstones[c], devices[c][y])
                              /\ view'[c][y] = Standing(y \in tombstones'[c], devices'[c][y])
  BY <1>1, ViewIs, ViewBecomes
<1>. DEFINE adopted == [y \in Device |-> IF y = x THEN "member"
                                         ELSE IF y \in left THEN "stranger" ELSE view[i][y]]
            mid == [view EXCEPT ![i][x] = "member"]
            new == [mid EXCEPT ![x] = adopted]
<1>6. /\ mid \in [Device -> [Device -> Family!Standing]]
      /\ \A c, y \in Device : mid[c][y] = IF c = i /\ y = x THEN "member" ELSE view[c][y]
  BY <1>5 DEF Family!Standing
<1>7. /\ adopted \in [Device -> Family!Standing]
      /\ \A y \in Device : adopted[y] = IF y = x THEN "member"
                                        ELSE IF y \in left THEN "stranger" ELSE view[i][y]
  BY <1>5 DEF Family!Standing
<1>. HIDE DEF mid, adopted, left
<1>8. /\ new \in [Device -> [Device -> Family!Standing]]
      /\ \A c, y \in Device : new[c][y] = IF c = x THEN adopted[y] ELSE mid[c][y]
  BY <1>6, <1>7
<1>. HIDE DEF new
<1>9. /\ devices'[x] = Adopted(i, x, k, all)
      /\ devices'[i] = DevicesAfter(i, m)
      /\ \A c \in Device : c # i /\ c # x => devices'[c] = devices[c]
      /\ tombstones'[x] = tombstones[i]
      /\ \A c \in Device : c # x => tombstones'[c] = tombstones[c]
  BY <1>1, <1>2 DEF TypeOK
<1>10. ASSUME NEW c \in Device, NEW y \in Device PROVE view'[c][y] = new[c][y]
  <2>1. CASE c = x
    <3>1. view'[c][y] = Standing(y \in tombstones[i], Adopted(i, x, k, all)[y])
      BY <1>5, <1>9, <2>1
    <3>2. new[c][y] = adopted[y]
      BY <1>8, <2>1
    <3>3. CASE y = x
      <4>1. Adopted(i, x, k, all)[y] = ActiveRecord(k)
        BY <3>3 DEF Adopted
      <4>2. ~(y \in tombstones[i])
        BY <1>2, <3>3
      <4>3. Standing(y \in tombstones[i], ActiveRecord(k)) = "member"
        BY <4>2 DEF Standing, ActiveRecord
      <4>. QED
        BY <1>7, <3>1, <3>2, <3>3, <4>1, <4>3
    <3>4. CASE y # x /\ (y = i \/ all \/ IsActive(i, y))
      <4>1. Adopted(i, x, k, all)[y] = devices[i][y]
        BY <3>4 DEF Adopted
      <4>2. y \notin left
        BY <1>4, <3>4, StandingOf DEF left
      <4>. QED
        BY <1>5, <1>7, <3>1, <3>2, <3>4, <4>1, <4>2
    <3>5. CASE y # x /\ ~(y = i \/ all \/ IsActive(i, y))
      <4>1. Adopted(i, x, k, all)[y] = Unknown
        BY <3>5 DEF Adopted
      <4>2. y \in left <=> view[i][y] = "suspended"
        BY <3>5 DEF left
      <4>3. CASE y \in tombstones[i]
        <5>1. view[i][y] = "gone"
          BY <4>3, StandingOf
        <5>2. view'[c][y] = "gone"
          BY <3>1, <4>3 DEF Standing
        <5>. QED
          BY <1>7, <3>2, <3>5, <4>2, <5>1, <5>2
      <4>4. CASE y \notin tombstones[i]
        <5>1. view[i][y] \in {"stranger", "suspended"}
          BY <3>5, <4>4, StandingOf
        <5>2. ~(y \in tombstones[i]) /\ Unknown.state = "unknown"
          BY <4>4 DEF Unknown
        <5>3. view'[c][y] = "stranger"
          BY <3>1, <4>1, <5>2 DEF Standing
        <5>. QED
          BY <1>7, <3>2, <3>5, <4>2, <5>1, <5>3
      <4>. QED
        BY <4>3, <4>4
    <3>. QED
      BY <3>3, <3>4, <3>5
  <2>2. CASE c = i
    <3>1. view'[c][y] = Standing(y \in tombstones[i], DevicesAfter(i, m)[y])
      BY <1>2, <1>5, <1>9, <2>2
    <3>2. new[c][y] = IF y = x THEN "member" ELSE view[i][y]
      BY <1>2, <1>6, <1>8, <2>2
    <3>3. CASE y # x
      <4>1. DevicesAfter(i, m)[y] = devices[i][y]
        BY <1>1, <1>2, <3>3 DEF DevicesAfter, Admit, TypeOK
      <4>. QED
        BY <1>5, <3>1, <3>2, <3>3, <4>1
    <3>4. CASE y = x
      <4>1. DevicesAfter(i, m)[x].state = "active"
        <5>1. CASE Verdict(i, m) = "admitted"
          BY <1>1, <1>2, <5>1 DEF DevicesAfter, Admit, ActiveRecord, TypeOK
        <5>2. CASE Verdict(i, m) = "known"
          <6>1. IsActive(i, x)
            BY <1>2, <5>2 DEF Verdict
          <6>. QED
            BY <5>2, <6>1 DEF DevicesAfter, IsActive
        <5>. QED
          BY <1>2, <5>1, <5>2
      <4>2. ~(y \in tombstones[i])
        BY <1>2, <3>4
      <4>3. view'[c][y] = "member"
        BY <3>1, <3>4, <4>1, <4>2 DEF Standing
      <4>. QED
        BY <3>2, <3>4, <4>3
    <3>. QED
      BY <3>3, <3>4
  <2>3. CASE c # x /\ c # i
    <3>1. devices'[c] = devices[c] /\ tombstones'[c] = tombstones[c]
      BY <1>9, <2>3
    <3>2. new[c][y] = view[c][y]
      BY <1>6, <1>8, <2>3
    <3>. QED
      BY <1>5, <3>1, <3>2
  <2>. QED
    BY <2>1, <2>2, <2>3
<1>11. view' = new
  BY <1>5, <1>8, <1>10, SameView
<1>12. left \in SUBSET {y \in Device : view[i][y] = "suspended"}
  BY DEF left
<1>13. view' = [view EXCEPT ![i][x] = "member", ![x] = adopted]
  BY <1>11 DEF new, mid
<1>. QED
  BY <1>4, <1>12, <1>13 DEF Family!Join, adopted

LEMMA StepRefines ==
  ASSUME Revocable = {} \/ MaxSyncs = 0, RefinementInv, TypeOK', [Next]_vars
  PROVE  Family!Next \/ UNCHANGED <<view, vouches>>
<1>1. ASSUME NEW d \in Device, NEW m \in syncs, ReceiveSync(d, m)
      PROVE  \E S \in SUBSET Device : Family!Remove(d, S)
  <2>1. MaxSyncs # 0
    BY DEF RefinementInv, NoSyncsAllowed
  <2>. QED
    BY <1>1, <2>1, ReceiveSyncRefines
<1>2. ASSUME NEW d \in Device, NEW R \in SUBSET Revocable, Reconcile(d, R)
      PROVE  Family!Next
  <2>1. R \in SUBSET Device
    BY RosterAssumption
  <2>. QED
    BY <1>2, <2>1, ReconcileRefines DEF Family!Next
<1>3. ASSUME NEW i \in Device, NEW x \in Device, NEW k \in Keys, Vouch(i, x, k)
      PROVE  Family!Next
  BY <1>3, VouchRefines DEF Family!Next
<1>4. ASSUME NEW i \in Device, NEW x \in Device, NEW k \in Keys, NEW all \in BOOLEAN,
             Join(i, x, k, all)
      PROVE  Family!Next
  BY <1>4, JoinRefines DEF Family!Next
<1>5. ASSUME NEW d \in Device, NEW m \in msgs, ReceiveIntroduce(d, m)
      PROVE  Family!Next \/ UNCHANGED <<view, vouches>>
  BY <1>5, ReceiveIntroduceRefines DEF Family!Next
<1>6. ASSUME NEW d \in Device, NEW m \in msgs, ReceiveRemove(d, m)
      PROVE  Family!Next \/ UNCHANGED <<view, vouches>>
  BY <1>6, ReceiveRemoveRefines DEF Family!Next
<1>7. ASSUME NEW d \in Device, NEW h \in held[d], ApproveHeld(d, h)
      PROVE  Family!Next \/ UNCHANGED <<view, vouches>>
  BY <1>7, ApproveHeldRefines DEF Family!Next
<1>8. ASSUME NEW d \in Device, NEW x \in Device, Remove(d, x)
      PROVE  Family!Next
  BY <1>8, RemoveRefines DEF Family!Next
<1>9. ASSUME NEW d \in Device, NEW m \in syncs, ReceiveSync(d, m)
      PROVE  Family!Next
  BY <1>1, <1>9 DEF Family!Next
<1>. QED
  BY <1>2, <1>3, <1>4, <1>5, <1>6, <1>7, <1>8, <1>9, QuietStepStutters
     DEF Next, vars, ReceiveRemovalOfSelf, DenyHeld, SendSync, LoseSync, WindowRolls

LEMMA InitRefines == Init => Family!Init
<1> SUFFICES ASSUME Init PROVE Family!Init
  OBVIOUS
<1>. DEFINE new == [d \in Device |-> [x \in Device |->
                      IF d = Founder /\ x = Founder THEN "member" ELSE "stranger"]]
<1>1. TypeOK
  BY InitTypeOK
<1>2. /\ view \in [Device -> [Device -> Family!Standing]]
      /\ new \in [Device -> [Device -> Family!Standing]]
  BY <1>1, ViewIs DEF Family!Standing
<1>3. ASSUME NEW d \in Device, NEW x \in Device PROVE view[d][x] = new[d][x]
  <2>1. view[d][x] = Standing(FALSE, devices[d][x])
    <3>1. (x \in tombstones[d]) = FALSE
      BY DEF Init
    <3>. QED
      BY <1>1, <3>1, ViewIs
  <2>. QED
    BY <2>1 DEF Init, Standing, ActiveRecord, Unknown
<1>4. view = new
  BY <1>2, <1>3, SameView
<1>5. vouches = {}
  BY DEF Init, vouches
<1>. QED
  BY <1>4, <1>5 DEF Family!Init

(* The rosters, their messages and their budgets implement the abstract     *)
(* membership: every step of every handler changes who is a member of whose *)
(* family as a vouch, an adoption, a removal or a suspension of Membership  *)
(* does, or not at all.  What it takes is that the server's list and        *)
(* roster_sync are not both at work (see TombstonesGoBackToSignatures).      *)
THEOREM RosterImplementsMembership ==
  ASSUME Revocable = {} \/ MaxSyncs = 0
  PROVE  Spec => ImplementsMembership
<1>1. RefinementInv /\ RefinementInv' /\ [Next]_vars => [Family!Next]_<<view, vouches>>
  BY StepRefines DEF RefinementInv, RemovalInv
<1>. QED
  BY <1>1, InitRefines, RefinementInvHolds, PTL DEF Spec, ImplementsMembership, Family!Spec

=============================================================================
