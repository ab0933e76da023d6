--------------------------- MODULE SessionProofs ---------------------------
(***************************************************************************)
(* Theorems about Session, for any number of threads, any calls and any    *)
(* bounds.                                                                 *)
(***************************************************************************)
EXTENDS Session, FiniteSetTheorems, TLAPS

USE DEF Step, EpochRoll, RootInit, Derive

----------------------------------------------------------------------------
(* Type correctness.                                                       *)

\* The frame of an idle thread is a frame.
LEMMA NoFrameType == NoFrame \in Frame
  BY DEF NoFrame, Frame, RootKey

\* Starting, applying and committing evolutions keeps every variable of its
\* type.
LEMMA EvolutionStepType ==
  ASSUME TypeOK, NEW t \in Thread, EvolutionStep(t), UNCHANGED wire
  PROVE  TypeOK'
<1>0. Owner[t] \in Peer
  BY CallersAssumption
<1> USE <1>0, NoFrameType
    DEF TypeOK, RootTypeOK, FfiTypeOK, EvolutionTypeOK, CipherTypeOK,
        rootVars, ffiVars, evoVars, pkVars, wireVars
<1>1. CASE GenerateBobKeypair(t)
  BY <1>1 DEF GenerateBobKeypair
<1>2. CASE SetPeerPublicKey(t)
  BY <1>2 DEF SetPeerPublicKey, Continue, Label
<1>3. CASE SetPeerPkHash(t)
  BY <1>3 DEF SetPeerPkHash, Return, Label
<1>4. CASE StartEvolution(t)
  BY <1>4 DEF StartEvolution, Continue, Label, Frame, NoFrame
<1>5. CASE StartRefused(t)
  BY <1>5 DEF StartRefused, Return, Label
<1>6. CASE StartEncapsulate(t)
  <2>1. FfiTypeOK'
    <3>1. [frame[t] EXCEPT !.num = secrets + 1] \in Frame
      BY DEF Frame
    <3>2. QED
      BY <1>6, <3>1 DEF StartEncapsulate, Continue, Label
  <2>2. EvolutionTypeOK' /\ RootTypeOK' /\ CipherTypeOK'
    BY <1>6 DEF StartEncapsulate
  <2>3. QED
    BY <2>1, <2>2
<1>7. CASE StartSetPend(t)
  <2>1. frame[t] \in Frame /\ Derive(frame[t].root, frame[t].num) \in RootKey
    BY DEF Frame, RootKey
  <2>2. FfiTypeOK'
    BY <1>7 DEF StartSetPend, Continue, Label
  <2>3. rootPend' \in [Peer -> SUBSET RootKey]
    BY <1>7, <2>1 DEF StartSetPend, SetRootStatePend
  <2>4. QED
    BY <1>7, <2>2, <2>3 DEF StartSetPend, SetRootStatePend
<1>8. CASE StartSetCipher(t)
  BY <1>8 DEF StartSetCipher, Return, Label, Frame, KemCipher
<1>9. CASE GetKemCipher(t)
  BY <1>9 DEF GetKemCipher
<1>10. ASSUME NEW ct \in kemWire, ApplyRefused(t, ct) \/ ApplyPeerKem(t, ct)
       PROVE  TypeOK'
  <2>1. Decapsulate(ct, ownKey[Owner[t]]) \in Int
    BY DEF Decapsulate, KemCipher
  <2>2. applied' \in [Peer -> SUBSET KemCipher]
    BY <1>10 DEF ApplyRefused, ApplyPeerKem, ReceiveKem
  <2>3. CASE ApplyRefused(t, ct)
    BY <2>2, <2>3 DEF ApplyRefused, ReceiveKem
  <2>4. CASE ApplyPeerKem(t, ct)
    <3>1. FfiTypeOK'
      BY <2>1, <2>4 DEF ApplyPeerKem, Continue, Label, Frame, NoFrame
    <3>2. QED
      BY <2>2, <2>4, <3>1 DEF ApplyPeerKem, ReceiveKem
  <2>5. QED
    BY <1>10, <2>3, <2>4
<1>11. CASE ApplyReadCurr(t)
  BY <1>11 DEF ApplyReadCurr, Continue, Label, Frame
<1>12. CASE ApplySetPend(t)
  <2>1. Derive(frame[t].root, frame[t].num) \in RootKey
    BY DEF Frame, RootKey
  <2>2. FfiTypeOK'
    BY <1>12 DEF ApplySetPend, Return, Label
  <2>3. rootPend' \in [Peer -> SUBSET RootKey]
    BY <1>12, <2>1 DEF ApplySetPend, SetRootStatePend
  <2>4. QED
    BY <1>12, <2>2, <2>3 DEF ApplySetPend, SetRootStatePend
<1>13. CASE CommitEvolution(t)
  BY <1>13 DEF CommitEvolution, PromotePending, NothingPending
<1>14. QED
  BY <1>1, <1>2, <1>3, <1>4, <1>5, <1>6, <1>7, <1>8, <1>9, <1>10, <1>11,
     <1>12, <1>13 DEF EvolutionStep

\* Sending and decrypting keeps every variable of its type; the wire stays
\* finite, so that the next message has a number.
LEMMA CipherStepType ==
  ASSUME TypeOK, NEW t \in Thread, CipherStep(t), UNCHANGED evoVars
  PROVE  TypeOK'
<1>0. Owner[t] \in Peer
  BY CallersAssumption
<1> USE <1>0, NoFrameType
    DEF TypeOK, RootTypeOK, FfiTypeOK, EvolutionTypeOK, CipherTypeOK,
        rootVars, ffiVars, evoVars
<1>1. CASE SendNextSeq(t)
  <2> DEFINE f == [NoFrame EXCEPT !.num = msgCounter[Owner[t]]]
  <2>0. f \in Frame
    <3>1. msgCounter[Owner[t]] \in Int
      OBVIOUS
    <3>2. QED
      BY <3>1 DEF Frame, NoFrame
  <2>1. FfiTypeOK'
    BY <1>1, <2>0 DEF SendNextSeq, Continue, Label
  <2>2. RootTypeOK'
    BY <1>1 DEF SendNextSeq
  <2>3. QED
    BY <1>1, <2>1, <2>2 DEF SendNextSeq
<1>2. CASE SendReadEpoch(t)
  BY <1>2 DEF SendReadEpoch, Continue, Label, Frame
<1>3. CASE SendEncrypt(t)
  <2>1. FfiTypeOK'
    BY <1>3 DEF SendEncrypt, Return, Label
  <2>2. CipherTypeOK'
    <3>1. Cardinality(wire) \in Nat
      BY FS_CardinalityType
    <3>2. IsFiniteSet(wire')
      BY <1>3, FS_AddElement DEF SendEncrypt
    <3>3. QED
      BY <1>3, <3>1, <3>2 DEF SendEncrypt, Message, Frame
  <2>3. QED
    BY <1>3, <2>1, <2>2 DEF SendEncrypt
<1>4. ASSUME NEW m \in wire, DecryptReadCurr(t, m)
      PROVE  TypeOK'
  <2>1. {m} \in SUBSET Message
    OBVIOUS
  <2>2. FfiTypeOK'
    BY <1>4, <2>1 DEF DecryptReadCurr, Continue, Label, Frame, NoFrame
  <2>3. QED
    BY <1>4, <2>2 DEF DecryptReadCurr
<1>5. CASE DecryptOpened(t) \/ DecryptFails(t)
  BY <1>5 DEF DecryptOpened, DecryptFails, Return, Label
<1>6. CASE DecryptSlowPath(t) \/ DecryptOpenedByPend(t)
  BY <1>6 DEF DecryptSlowPath, DecryptOpenedByPend, Continue, Label
<1>7. CASE DecryptCommit(t)
  BY <1>7 DEF DecryptCommit, PromotePending, NothingPending, Return, Label
<1>8. QED
  BY <1>1, <1>2, <1>3, <1>4, <1>5, <1>6, <1>7 DEF CipherStep

\* Rolling epochs forward keeps every variable of its type.
LEMMA RecoverStepType ==
  ASSUME TypeOK, NEW t \in Thread, RecoverStep(t, RecoverTargets(t)),
         UNCHANGED <<evoVars, wire>>
  PROVE  TypeOK'
<1>0. Owner[t] \in Peer /\ RecoverTargets(t) \subseteq Nat
  BY CallersAssumption, EvolutionAssumption
     DEF RecoverTargets, HeaderEpochs, TypeOK, CipherTypeOK, Message
<1> USE <1>0, NoFrameType
    DEF TypeOK, RootTypeOK, FfiTypeOK, EvolutionTypeOK, CipherTypeOK,
        rootVars, ffiVars, evoVars
<1>1. CASE \E target \in RecoverTargets(t) : RecoverDeclined(t, target)
  BY <1>1 DEF RecoverDeclined
<1>2. ASSUME NEW target \in Nat, RecoverAfterLoss(t, target)
      PROVE  TypeOK'
  <2>1. FfiTypeOK'
    <3>1. target - epoch[Owner[t]] \in Int
      OBVIOUS
    <3>2. QED
      BY <1>2, <3>1 DEF RecoverAfterLoss, Continue, Label, Frame, NoFrame
  <2>2. QED
    BY <1>2, <2>1 DEF RecoverAfterLoss
<1>3. CASE RollUntilTarget(t)
  <2> DEFINE f == [frame[t] EXCEPT !.num = @ - 1]
  <2>0. f \in Frame
    <3>1. frame[t] \in Frame
      OBVIOUS
    <3> HIDE DEF TypeOK
    <3>2. QED
      BY <3>1 DEF Frame
  <2>1. FfiTypeOK'
    <3>1. CASE frame[t].num > 1
      BY <1>3, <2>0, <3>1 DEF RollUntilTarget, Continue, Label
    <3>2. CASE ~(frame[t].num > 1)
      BY <1>3, <3>2 DEF RollUntilTarget, Return, Label
    <3>3. QED
      BY <3>1, <3>2
  <2>2. RootTypeOK'
    BY <1>3 DEF RollUntilTarget, RollEpochForward, RootKey
  <2>3. QED
    BY <1>3, <2>1, <2>2 DEF RollUntilTarget
<1>4. QED
  BY <1>1, <1>2, <1>3 DEF RecoverStep

\* Every step keeps the types.
LEMMA NextType == TypeOK /\ [Next]_vars => TypeOK'
<1> SUFFICES ASSUME TypeOK, [Next]_vars PROVE TypeOK'
  OBVIOUS
<1>1. CASE UNCHANGED vars
  BY <1>1 DEF vars, rootVars, ffiVars, evoVars, TypeOK, RootTypeOK, FfiTypeOK,
              EvolutionTypeOK, CipherTypeOK
<1>2. ASSUME NEW t \in Thread, ThreadStep(t) PROVE TypeOK'
  BY <1>2, EvolutionStepType, CipherStepType, RecoverStepType DEF ThreadStep
<1>3. QED
  BY <1>1, <1>2 DEF Next

\* Every variable of the two devices, their threads and the relay keeps its
\* type; in particular MSG_COUNTER never hands out the error sentinel 0
\* (message_cipher.rs:36).
THEOREM TypeCorrect == Spec => []TypeOK
<1>1. Init => TypeOK
  BY NoFrameType, FS_EmptySet
     DEF Init, InitRootState, InitFfi, InitEvolution, InitCipher, TypeOK,
         RootTypeOK, FfiTypeOK, EvolutionTypeOK, CipherTypeOK, RootKey, Label
<1>2. QED
  BY <1>1, NextType, PTL DEF Spec

----------------------------------------------------------------------------
(* Agreement.                                                              *)

\* A step of one thread leaves the calls of the others, the other device and
\* the messages already sent as they are.
LEMMA StepIsLocal ==
  ASSUME TypeOK, NEW t \in Thread, ThreadStep(t)
  PROVE  /\ \A u \in Thread \ {t} : pc'[u] = pc[u] /\ frame'[u] = frame[u]
         /\ \A q \in Peer \ {Owner[t]} : /\ rootCurr'[q] = rootCurr[q]
                                         /\ rootPend'[q] = rootPend[q]
                                         /\ epoch'[q] = epoch[q]
         /\ wire \subseteq wire'
<1> USE CallersAssumption DEF TypeOK, RootTypeOK, FfiTypeOK, rootVars, ffiVars
<1>1. CASE EvolutionStep(t) /\ UNCHANGED wire
  <2>1. CASE GenerateBobKeypair(t) \/ GetKemCipher(t)
    BY <1>1, <2>1 DEF GenerateBobKeypair, GetKemCipher
  <2>2. CASE SetPeerPublicKey(t) \/ SetPeerPkHash(t)
    BY <1>1, <2>2 DEF SetPeerPublicKey, SetPeerPkHash, Continue, Return
  <2>3. CASE StartEvolution(t) \/ StartRefused(t) \/ StartEncapsulate(t)
    BY <1>1, <2>3 DEF StartEvolution, StartRefused, StartEncapsulate,
                      Continue, Return
  <2>4. CASE StartSetPend(t) \/ StartSetCipher(t)
    BY <1>1, <2>4 DEF StartSetPend, StartSetCipher, SetRootStatePend,
                      Continue, Return
  <2>5. CASE \E ct \in kemWire : ApplyRefused(t, ct) \/ ApplyPeerKem(t, ct)
    BY <1>1, <2>5 DEF ReceiveKem, ApplyRefused, ApplyPeerKem, Continue
  <2>6. CASE ApplyReadCurr(t) \/ ApplySetPend(t)
    BY <1>1, <2>6 DEF ApplyReadCurr, ApplySetPend, SetRootStatePend,
                      Continue, Return
  <2>7. CASE CommitEvolution(t)
    BY <1>1, <2>7 DEF CommitEvolution, PromotePending, NothingPending
  <2>8. QED
    BY <1>1, <2>1, <2>2, <2>3, <2>4, <2>5, <2>6, <2>7 DEF EvolutionStep
<1>2. CASE CipherStep(t)
  BY <1>2 DEF CipherStep, SendNextSeq, SendReadEpoch, SendEncrypt,
     DecryptReadCurr, DecryptOpened, DecryptSlowPath, DecryptFails,
     DecryptOpenedByPend, DecryptCommit, PromotePending, NothingPending,
     Continue, Return
<1>3. CASE RecoverStep(t, RecoverTargets(t)) /\ UNCHANGED <<evoVars, wire>>
  <2>1. CASE \E n \in RecoverTargets(t) :
                RecoverDeclined(t, n) \/ RecoverAfterLoss(t, n)
    BY <1>3, <2>1 DEF RecoverDeclined, RecoverAfterLoss, Continue
  <2>2. CASE RollUntilTarget(t)
    <3>1. pc' = [pc EXCEPT ![t] = pc'[t]] /\ frame' = [frame EXCEPT ![t] = frame'[t]]
      BY <2>2 DEF RollUntilTarget, Continue, Return
    <3>2. QED
      BY <1>3, <2>2, <3>1 DEF RollUntilTarget, RollEpochForward
  <2>3. QED
    BY <1>3, <2>1, <2>2 DEF RecoverStep
<1>4. QED
  BY <1>1, <1>2, <1>3 DEF ThreadStep

\* What another thread knows stays true, if it runs on another device.
LEMMA OthersStillKnow ==
  ASSUME TypeOK, FollowersOnlyAutoCommit, NEW t \in Thread, ThreadStep(t),
         NEW u \in Thread \ {t}, ThreadKnows(u)
  PROVE  ThreadKnows(u)'
<1>1. Owner[u] \in Peer \ {Owner[t]}
  BY CallersAssumption DEF FollowersOnlyAutoCommit
<1>2. QED
  BY <1>1, StepIsLocal DEF ThreadKnows

\* The device of the stepping thread, when no epoch changes.
LEMMA SameEpochStep ==
  ASSUME TypeOK, NeverAheadInv, FollowersOnlyAutoCommit,
         NEW t \in Thread, ThreadStep(t),
         UNCHANGED <<rootCurr, epoch, wire>>, SinglePend', ThreadKnows(t)'
  PROVE  NeverAheadInv'
<1>1. NeverAhead'
  BY DEF NeverAheadInv, NeverAhead, NotAheadOfBob
<1>2. \A u \in Thread : ThreadKnows(u)'
  BY OthersStillKnow DEF NeverAheadInv
<1>3. QED
  BY <1>1, <1>2 DEF NeverAheadInv

\* When Bob's epoch advances, whatever was not ahead of Bob is behind.
LEMMA BobAdvances ==
  ASSUME TypeOK, NeverAheadInv, FollowersOnlyAutoCommit,
         NEW t \in Thread, ThreadStep(t), Owner[t] = Bob,
         epoch'[Bob] = epoch[Bob] + 1, UNCHANGED wire,
         SinglePend', ThreadKnows(t)'
  PROVE  NeverAheadInv'
<1>1. NeverAhead'
  <2>1. \A p \in Peer : NotAheadOfBob(epoch[p], rootCurr[p])'
    <3> SUFFICES ASSUME NEW p \in Peer
                 PROVE  NotAheadOfBob(epoch[p], rootCurr[p])'
      OBVIOUS
    <3>1. CASE p = Bob
      BY <3>1 DEF NotAheadOfBob
    <3>2. CASE p # Bob
      <4>1. epoch'[p] = epoch[p]
        BY <3>2, StepIsLocal
      <4>2. epoch[p] <= epoch[Bob] /\ epoch[p] \in Nat /\ epoch[Bob] \in Nat
        BY PairAssumption
           DEF NeverAheadInv, NeverAhead, NotAheadOfBob, TypeOK, RootTypeOK
      <4>3. QED
        BY <4>1, <4>2 DEF NotAheadOfBob
    <3>3. QED
      BY <3>1, <3>2
  <2>2. \A m \in wire' : NotAheadOfBob(m.epoch, m.root)'
    <3> SUFFICES ASSUME NEW m \in wire
                 PROVE  NotAheadOfBob(m.epoch, m.root)'
      OBVIOUS
    <3>1. m.epoch <= epoch[Bob] /\ m.epoch \in Nat /\ epoch[Bob] \in Nat
      BY PairAssumption
         DEF NeverAheadInv, NeverAhead, NotAheadOfBob, TypeOK, RootTypeOK,
             CipherTypeOK, Message
    <3>2. QED
      BY <3>1 DEF NotAheadOfBob
  <2>3. QED
    BY <2>1, <2>2 DEF NeverAhead
<1>2. \A u \in Thread : ThreadKnows(u)'
  BY OthersStillKnow DEF NeverAheadInv
<1>3. QED
  BY <1>1, <1>2 DEF NeverAheadInv

\* Evolutions: the peer's pending root changes, and Bob may commit.
LEMMA EvolutionKeepsNeverAhead ==
  ASSUME TypeOK, NeverAheadInv, FollowersOnlyAutoCommit,
         NEW t \in Thread, EvolutionStep(t), UNCHANGED wire
  PROVE  NeverAheadInv'
<1>0. ThreadStep(t) /\ Owner[t] \in Peer /\ ThreadKnows(t) /\ SinglePend
  BY CallersAssumption DEF ThreadStep, NeverAheadInv
<1>1. ASSUME UNCHANGED <<rootCurr, epoch>>, SinglePend',
             frame'[t].msg \in {frame[t].msg, {}},
             pc'[t] \notin {"send_key", "roll", "dec_pend", "dec_commit"}
      PROVE  NeverAheadInv'
  <2>1. ThreadKnows(t)'
    BY <1>0, <1>1 DEF ThreadKnows
  <2>2. QED
    BY <1>0, <1>1, <2>1, SameEpochStep
<1>2. NoFrame.msg = {}
  BY DEF NoFrame
<1>3. rootPend' = rootPend => SinglePend'
  BY <1>0 DEF SinglePend
<1>4. \A key : SetRootStatePend(Owner[t], key) => SinglePend'
  BY <1>0 DEF SinglePend, SetRootStatePend, TypeOK, RootTypeOK
<1> USE <1>2, <1>3 DEF TypeOK, FfiTypeOK, Begin, rootVars, ffiVars
<1>5. CASE GenerateBobKeypair(t) \/ GetKemCipher(t)
  BY <1>1, <1>5 DEF GenerateBobKeypair, GetKemCipher
<1>6. CASE SetPeerPublicKey(t) \/ SetPeerPkHash(t)
  BY <1>1, <1>6 DEF SetPeerPublicKey, SetPeerPkHash, Continue, Return
<1>7. CASE StartEvolution(t) \/ StartRefused(t)
  BY <1>1, <1>7 DEF StartEvolution, StartRefused, Continue, Return, NoFrame
<1>8. CASE StartEncapsulate(t)
  BY <1>1, <1>8 DEF StartEncapsulate, Continue, Frame
<1>9. CASE StartSetPend(t) \/ ApplySetPend(t)
  BY <1>1, <1>4, <1>9 DEF StartSetPend, ApplySetPend, SetRootStatePend,
                          Continue, Return
<1>10. CASE StartSetCipher(t)
  BY <1>1, <1>10 DEF StartSetCipher, Return
<1>11. CASE \E ct \in kemWire : ApplyRefused(t, ct) \/ ApplyPeerKem(t, ct)
  BY <1>1, <1>11 DEF ApplyRefused, ApplyPeerKem, ReceiveKem, Continue, NoFrame
<1>12. CASE ApplyReadCurr(t)
  BY <1>1, <1>12 DEF ApplyReadCurr, Continue, Frame
<1>13. CASE CommitEvolution(t)
  <2>1. pc'[t] = "idle" /\ frame'[t].msg = frame[t].msg
    BY <1>13 DEF CommitEvolution
  <2>2. CASE NothingPending(Owner[t])
    BY <1>1, <2>1, <2>2 DEF NothingPending
  <2>3. CASE PromotePending(Owner[t])
    <3>1. Owner[t] = Bob
      BY <1>13 DEF CommitEvolution, FollowersOnlyAutoCommit
    <3>2. epoch'[Bob] = epoch[Bob] + 1 /\ SinglePend'
      BY <1>0, <2>3, <3>1 DEF PromotePending, RootTypeOK, SinglePend
    <3>3. ThreadKnows(t)'
      BY <1>0, <2>1 DEF ThreadKnows
    <3>4. QED
      BY <1>0, <3>1, <3>2, <3>3, BobAdvances
  <2>4. QED
    BY <1>13, <2>2, <2>3 DEF CommitEvolution
<1>14. QED
  BY <1>5, <1>6, <1>7, <1>8, <1>9, <1>10, <1>11, <1>12, <1>13
     DEF EvolutionStep

\* Messages: what is sent shows the sender's epoch and root, and a device
\* that commits a pending root lands on the root of a message it received.
LEMMA CipherKeepsNeverAhead ==
  ASSUME TypeOK, NeverAheadInv, FollowersOnlyAutoCommit,
         NEW t \in Thread, CipherStep(t), UNCHANGED evoVars
  PROVE  NeverAheadInv'
<1>0. ThreadStep(t) /\ Owner[t] \in Peer /\ ThreadKnows(t) /\ SinglePend
  BY CallersAssumption DEF ThreadStep, NeverAheadInv
<1>1. UNCHANGED <<rootCurr, rootPend, epoch, wire>> /\ ThreadKnows(t)'
        => NeverAheadInv'
  BY <1>0, SameEpochStep DEF SinglePend
<1> USE DEF TypeOK, FfiTypeOK, rootVars
<1>2. CASE SendNextSeq(t)
  BY <1>1, <1>2 DEF SendNextSeq, Continue, NoFrame, ThreadKnows
<1>3. CASE SendReadEpoch(t)
  BY <1>0, <1>1, <1>3 DEF SendReadEpoch, Continue, Frame, ThreadKnows
<1>4. CASE SendEncrypt(t)
  <2>1. NotAheadOfBob(frame[t].epoch, rootCurr[Owner[t]])
    BY <1>0, <1>4 DEF SendEncrypt, ThreadKnows, NeverAheadInv, NeverAhead
  <2>2. NeverAhead'
    <3>1. UNCHANGED <<epoch, rootCurr>>
      BY <1>4 DEF SendEncrypt, rootVars
    <3>2. \A m \in wire' : NotAheadOfBob(m.epoch, m.root)
      <4> DEFINE new == [from |-> Owner[t], root |-> rootCurr[Owner[t]],
                         epoch |-> frame[t].epoch, seq |-> frame[t].num,
                         id |-> Cardinality(wire)]
      <4>1. wire' = wire \cup {new}
        BY <1>4 DEF SendEncrypt
      <4>2. NotAheadOfBob(new.epoch, new.root)
        BY <2>1
      <4> HIDE DEF new
      <4>3. QED
        BY <4>1, <4>2 DEF NeverAheadInv, NeverAhead
    <3>3. QED
      BY <3>1, <3>2 DEF NeverAheadInv, NeverAhead, NotAheadOfBob
  <2>3. ThreadKnows(t)' /\ SinglePend'
    BY <1>0, <1>4 DEF SendEncrypt, Return, NoFrame, ThreadKnows, SinglePend
  <2>4. QED
    BY <1>0, <2>2, <2>3, OthersStillKnow DEF NeverAheadInv
<1>5. CASE \E m \in wire : DecryptReadCurr(t, m)
  BY <1>1, <1>5 DEF DecryptReadCurr, Continue, NoFrame, ThreadKnows
<1>6. CASE DecryptOpened(t) \/ DecryptFails(t)
  <2>1. pc'[t] = "idle" /\ frame'[t].msg = {} /\ UNCHANGED <<rootVars, wire>>
    <3>1. Return(t) /\ UNCHANGED <<rootVars, wire>>
      BY <1>6 DEF DecryptOpened, DecryptFails
    <3>2. QED
      BY <3>1 DEF Return, NoFrame
  <2>2. ThreadKnows(t)'
    BY <2>1 DEF ThreadKnows
  <2>3. QED
    BY <1>1, <2>1, <2>2
<1>7. CASE DecryptSlowPath(t)
  BY <1>0, <1>1, <1>7 DEF DecryptSlowPath, OneAhead, Continue, ThreadKnows
<1>8. CASE DecryptOpenedByPend(t)
  BY <1>0, <1>1, <1>8 DEF DecryptOpenedByPend, Opens, Continue, ThreadKnows
<1>9. CASE DecryptCommit(t)
  <2>1. ThreadKnows(t)' /\ UNCHANGED wire
    BY <1>9 DEF DecryptCommit, Return, NoFrame, ThreadKnows
  <2>2. CASE NothingPending(Owner[t])
    BY <1>1, <2>1, <2>2 DEF NothingPending
  <2>3. CASE PromotePending(Owner[t])
    <3>1. SinglePend' /\ epoch'[Owner[t]] = epoch[Owner[t]] + 1
      BY <1>0, <2>3 DEF PromotePending, RootTypeOK, SinglePend
    <3>2. CASE Owner[t] = Bob
      BY <1>0, <2>1, <3>1, <3>2, BobAdvances
    <3>3. CASE Owner[t] # Bob
      <4>1. PICK m \in frame[t].msg : /\ m.epoch = epoch[Owner[t]] + 1
                                      /\ m.root \in rootPend[Owner[t]]
        BY <1>0, <1>9 DEF DecryptCommit, ThreadKnows
      <4>2. epoch'[Owner[t]] = m.epoch /\ rootCurr'[Owner[t]] = m.root
        <5>1. PICK key \in rootPend[Owner[t]] :
                 rootCurr' = [rootCurr EXCEPT ![Owner[t]] = key]
          BY <2>3 DEF PromotePending
        <5>2. key = m.root
          BY <1>0, <4>1 DEF NeverAheadInv, SinglePend
        <5>3. QED
          BY <1>0, <3>1, <4>1, <5>1, <5>2 DEF RootTypeOK
      <4>3. epoch'[Bob] = epoch[Bob] /\ rootCurr'[Bob] = rootCurr[Bob]
        BY <1>0, <3>3, StepIsLocal, PairAssumption
      <4>4. NotAheadOfBob(m.epoch, m.root)
        BY <1>0, <4>1 DEF ThreadKnows, NeverAheadInv, NeverAhead
      <4>5. NeverAhead'
        <5>1. \A p \in Peer : NotAheadOfBob(epoch[p], rootCurr[p])'
          <6>1. ASSUME NEW p \in Peer \ {Owner[t]}
                PROVE  epoch'[p] = epoch[p] /\ rootCurr'[p] = rootCurr[p]
            BY <1>0, StepIsLocal
          <6>2. ASSUME NEW p \in Peer \ {Owner[t]}
                PROVE  NotAheadOfBob(epoch[p], rootCurr[p])'
            BY <4>3, <6>1 DEF NeverAheadInv, NeverAhead, NotAheadOfBob
          <6>3. NotAheadOfBob(epoch[Owner[t]], rootCurr[Owner[t]])'
            BY <4>2, <4>3, <4>4 DEF NotAheadOfBob
          <6>4. QED
            BY <6>2, <6>3
        <5>2. QED
          BY <2>1, <4>3, <5>1 DEF NeverAheadInv, NeverAhead, NotAheadOfBob
      <4>6. QED
        BY <1>0, <2>1, <3>1, <4>5, OthersStillKnow DEF NeverAheadInv
    <3>4. QED
      BY <3>2, <3>3
  <2>4. QED
    BY <1>9, <2>2, <2>3 DEF DecryptCommit
<1>10. QED
  BY <1>2, <1>3, <1>4, <1>5, <1>6, <1>7, <1>8, <1>9 DEF CipherStep

\* Recoveries: only Bob rolls.
LEMMA RecoverKeepsNeverAhead ==
  ASSUME TypeOK, NeverAheadInv, FollowersOnlyAutoCommit,
         NEW t \in Thread, RecoverStep(t, RecoverTargets(t)),
         UNCHANGED <<evoVars, wire>>
  PROVE  NeverAheadInv'
<1>0. ThreadStep(t) /\ Owner[t] \in Peer /\ ThreadKnows(t) /\ SinglePend
  BY CallersAssumption DEF ThreadStep, NeverAheadInv
<1>1. UNCHANGED rootVars /\ ThreadKnows(t)' => NeverAheadInv'
  BY <1>0, SameEpochStep DEF SinglePend, rootVars
<1>2. Owner[t] # Bob => RecoverTargets(t) = {}
  BY DEF RecoverTargets, FollowersOnlyAutoCommit
<1> USE DEF TypeOK, FfiTypeOK
<1>3. CASE \E target \in RecoverTargets(t) : RecoverDeclined(t, target)
  BY <1>0, <1>1, <1>3 DEF RecoverDeclined, rootVars, ffiVars, ThreadKnows
<1>4. CASE \E target \in RecoverTargets(t) : RecoverAfterLoss(t, target)
  BY <1>1, <1>2, <1>4 DEF RecoverAfterLoss, Continue, NoFrame, ThreadKnows
<1>5. CASE RollUntilTarget(t)
  <2>1. Owner[t] = Bob /\ SinglePend'
    BY <1>0, <1>5 DEF RollUntilTarget, RollEpochForward, ThreadKnows, SinglePend
  <2>2. epoch'[Bob] = epoch[Bob] + 1
    BY <1>5, <2>1, PairAssumption
       DEF RollUntilTarget, RollEpochForward, RootTypeOK
  <2>3. ThreadKnows(t)'
    <3>1. CASE frame[t].num > 1
      BY <1>0, <1>5, <2>1, <3>1 DEF RollUntilTarget, Continue, Frame, ThreadKnows
    <3>2. CASE ~(frame[t].num > 1)
      BY <1>5, <3>2 DEF RollUntilTarget, Return, NoFrame, ThreadKnows
    <3>3. QED
      BY <3>1, <3>2
  <2>4. QED
    BY <1>0, <2>1, <2>2, <2>3, BobAdvances
<1>6. QED
  BY <1>3, <1>4, <1>5 DEF RecoverStep

\* The inductive invariant behind Agreement: no device and no message is ever
\* ahead of Bob.
THEOREM NeverAheadInvariant ==
  ASSUME FollowersOnlyAutoCommit
  PROVE  Spec => []NeverAheadInv
<1>1. Init => NeverAheadInv
  <2> SUFFICES ASSUME Init PROVE NeverAheadInv
    OBVIOUS
  <2>1. NeverAhead
    BY PairAssumption DEF Init, InitRootState, InitCipher, NeverAhead,
                          NotAheadOfBob
  <2>2. SinglePend
    BY DEF Init, InitRootState, SinglePend
  <2>3. \A t \in Thread : pc[t] = "idle" /\ frame[t].msg = {}
    BY DEF Init, InitFfi, NoFrame
  <2>4. QED
    BY <2>1, <2>2, <2>3 DEF NeverAheadInv, ThreadKnows
<1>2. TypeOK /\ NeverAheadInv /\ [Next]_vars => NeverAheadInv'
  <2> SUFFICES ASSUME TypeOK, NeverAheadInv, [Next]_vars
               PROVE  NeverAheadInv'
    OBVIOUS
  <2>1. CASE UNCHANGED vars
    <3>1. \A t \in Thread : ThreadKnows(t)'
      BY <2>1 DEF vars, rootVars, ffiVars, NeverAheadInv, ThreadKnows
    <3>2. NeverAhead' /\ SinglePend'
      BY <2>1 DEF vars, rootVars, NeverAheadInv, NeverAhead, NotAheadOfBob,
                  SinglePend
    <3>3. QED
      BY <3>1, <3>2 DEF NeverAheadInv
  <2>2. ASSUME NEW t \in Thread, ThreadStep(t) PROVE NeverAheadInv'
    BY <2>2, EvolutionKeepsNeverAhead, CipherKeepsNeverAhead,
       RecoverKeepsNeverAhead DEF ThreadStep
  <2>3. QED
    BY <2>1, <2>2 DEF Next
<1>3. QED
  BY <1>1, <1>2, TypeCorrect, PTL DEF Spec

\* Devices in the same epoch hold the same root, whatever the relay loses,
\* repeats or reorders, however often evolutions are restarted and however
\* Bob mixes commits with epoch rolls: as long as each host makes one call at
\* a time and the peer changes epoch only through the auto-commit of
\* try_decrypt_with_evolution.
THEOREM AgreementHolds ==
  ASSUME FollowersOnlyAutoCommit
  PROVE  Spec => []Agreement
<1>1. TypeOK /\ NeverAheadInv => Agreement
  <2> SUFFICES ASSUME TypeOK, NeverAheadInv, NEW p \in Peer, NEW q \in Peer,
                      epoch[p] = epoch[q]
               PROVE  rootCurr[p] = rootCurr[q]
    BY DEF Agreement
  <2>1. CASE p = Bob \/ q = Bob
    BY <2>1, PairAssumption DEF NeverAheadInv, NeverAhead, NotAheadOfBob,
                                TypeOK, RootTypeOK
  <2>2. CASE p # Bob /\ q # Bob
    BY <2>2, PairAssumption
  <2>3. QED
    BY <2>1, <2>2
<1>2. QED
  BY <1>1, NeverAheadInvariant, TypeCorrect, PTL
============================================================================
