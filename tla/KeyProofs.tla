----------------------------- MODULE KeyProofs -----------------------------
(***************************************************************************)
(* What it buys that the threads of a device keep out of each other's way, *)
(* for any two devices and any number of epochs and messages.  If no other *)
(* thread changes the epoch while one sends or rolls, no number of a device*)
(* is used twice and a recovery ends in its target epoch.  With one thread *)
(* per device, a new epoch has a new root and a message is refused only if *)
(* no root opens it.  Otherwise the first and the last fail                *)
(* (v_key_repeats, v_spurious_none).  And what needs no such discipline:   *)
(* rolls alone keep the devices in agreement.                              *)
(***************************************************************************)
EXTENDS SessionProofs

OneThreadPerDevice == \A t, u \in Thread : Owner[t] = Owner[u] => t = u

\* Weaker: while a thread sends or rolls, no other thread of its device changes
\* the epoch.  Several threads may send where none of them changes it.
EpochCalls == {"commit", "decrypt", "recover", "roll_to"}
RecoverCalls == {"recover", "roll_to"}

EpochsUndisturbed ==
    \A t, u \in Thread :
        /\ t # u /\ Owner[t] = Owner[u]
        /\ Calls[t] \cap ({"send"} \cup RecoverCalls) # {}
        => Calls[u] \cap EpochCalls = {}

Sending == {"send_epoch", "send_key"}
Decrypting == {"dec_epoch", "dec_pend", "dec_commit"}

\* What was sent carries an earlier epoch, or a number that the counter of
\* its epoch has passed.
NumbersPassed ==
    \A m \in wire : \/ m.epoch < epoch[m.from]
                    \/ m.epoch = epoch[m.from] /\ m.seq < msgCounter[m.from]

\* A thread that is sending has a number to itself; one that is rolling has as
\* many rolls left as there are epochs to its target.
ThreadOwns(t) ==
    /\ pc[t] \in Sending =>
           /\ frame[t].num < msgCounter[Owner[t]]
           /\ \A m \in wire : m.from = Owner[t] /\ m.epoch = epoch[Owner[t]]
                                  => m.seq # frame[t].num
    /\ pc[t] = "send_key" => frame[t].epoch = epoch[Owner[t]]
    /\ pc[t] = "roll" => /\ frame[t].num >= 1
                         /\ epoch[Owner[t]] + frame[t].num = frame[t].epoch

NumbersUnique ==
    \A m, n \in wire : m.from = n.from /\ m.epoch = n.epoch /\ m.seq = n.seq
                           => m = n

\* Two threads of a device that are sending have different numbers.
NumbersApart ==
    \A t, u \in Thread :
        /\ t # u /\ Owner[t] = Owner[u]
        /\ pc[t] \in Sending /\ pc[u] \in Sending
        => frame[t].num # frame[u].num

\* A thread is inside calls that it makes.
Called(t) ==
    /\ pc[t] \in Sending => "send" \in Calls[t]
    /\ pc[t] \in Decrypting => "decrypt" \in Calls[t]
    /\ pc[t] = "roll" => Calls[t] \cap RecoverCalls # {}

NumberInv ==
    /\ NumbersPassed /\ NumbersUnique /\ NumbersApart
    /\ \A t \in Thread : ThreadOwns(t) /\ Called(t)

----------------------------------------------------------------------------
(* The steps, as far as epochs, counters and messages tell them apart.     *)

Plain(t) ==
    /\ UNCHANGED <<epoch, msgCounter, wire>>
    /\ pc'[t] \notin Sending \cup {"roll"}
    /\ pc'[t] \in Decrypting => pc[t] \in Decrypting \/ "decrypt" \in Calls[t]

NewEpoch(t) ==
    /\ pc[t] = "dec_commit" \/ "commit" \in Calls[t]
    /\ epoch' = [epoch EXCEPT ![Owner[t]] = @ + 1]
    /\ msgCounter' = [msgCounter EXCEPT ![Owner[t]] = 1]
    /\ UNCHANGED wire
    /\ pc'[t] \notin Sending \cup Decrypting \cup {"roll"}

Recovers(t) ==
    /\ Calls[t] \cap RecoverCalls # {}
    /\ UNCHANGED <<epoch, msgCounter, wire>>
    /\ \E target \in Nat : RecoverAfterLoss(t, target)

Rolls(t) == RollUntilTarget(t) /\ UNCHANGED wire

\* What each step of an evolution is to the numbers ...
LEMMA EvolutionKinds ==
  ASSUME TypeOK, NEW t \in Thread, EvolutionStep(t), UNCHANGED wire
  PROVE  pc[t] \notin {"roll", "dec_commit"} /\ (Plain(t) \/ NewEpoch(t))
<1> USE DEF TypeOK, RootTypeOK, FfiTypeOK, rootVars, ffiVars, Begin, Plain,
            NewEpoch, Sending, Decrypting
<1>1. CASE GenerateBobKeypair(t) \/ GetKemCipher(t)
  BY <1>1 DEF GenerateBobKeypair, GetKemCipher
<1>2. CASE SetPeerPublicKey(t) \/ SetPeerPkHash(t)
  BY <1>2 DEF SetPeerPublicKey, SetPeerPkHash, Continue, Return
<1>3. CASE StartEvolution(t) \/ StartRefused(t) \/ StartEncapsulate(t)
  BY <1>3 DEF StartEvolution, StartRefused, StartEncapsulate, Continue, Return
<1>4. CASE StartSetPend(t) \/ StartSetCipher(t)
  BY <1>4 DEF StartSetPend, StartSetCipher, SetRootStatePend, Continue, Return
<1>5. CASE \E ct \in kemWire : ApplyRefused(t, ct) \/ ApplyPeerKem(t, ct)
  BY <1>5 DEF ReceiveKem, ApplyRefused, ApplyPeerKem, Continue
<1>6. CASE ApplyReadCurr(t) \/ ApplySetPend(t)
  BY <1>6 DEF ApplyReadCurr, ApplySetPend, SetRootStatePend, Continue, Return
<1>7. CASE CommitEvolution(t)
  BY <1>7 DEF CommitEvolution, PromotePending, NothingPending
<1>8. QED
  BY <1>1, <1>2, <1>3, <1>4, <1>5, <1>6, <1>7 DEF EvolutionStep

\* ... each step of the message cipher ...
LEMMA CipherKinds ==
  ASSUME TypeOK, NEW t \in Thread, CipherStep(t)
  PROVE  /\ pc[t] # "roll"
         /\ pc[t] = "dec_commit" => DecryptCommit(t)
         /\ \/ Plain(t) \/ NewEpoch(t)
            \/ SendNextSeq(t) \/ SendReadEpoch(t) \/ SendEncrypt(t)
<1> USE DEF TypeOK, RootTypeOK, FfiTypeOK, rootVars, ffiVars, Begin, Plain,
            NewEpoch, Sending, Decrypting
<1>1. CASE SendNextSeq(t) \/ SendReadEpoch(t) \/ SendEncrypt(t)
  BY <1>1 DEF SendNextSeq, SendReadEpoch, SendEncrypt
<1>2. CASE \E m \in wire : DecryptReadCurr(t, m)
  BY <1>2 DEF DecryptReadCurr, Continue
<1>3. CASE DecryptOpened(t) \/ DecryptSlowPath(t) \/ DecryptFails(t)
  BY <1>3 DEF DecryptOpened, DecryptSlowPath, DecryptFails, Continue, Return
<1>4. CASE DecryptOpenedByPend(t)
  BY <1>4 DEF DecryptOpenedByPend, Continue
<1>5. CASE DecryptCommit(t)
  BY <1>5 DEF DecryptCommit, PromotePending, NothingPending, Return
<1>6. QED
  BY <1>1, <1>2, <1>3, <1>4, <1>5 DEF CipherStep

\* ... and each step of a recovery.
LEMMA RecoverKinds ==
  ASSUME TypeOK, NEW t \in Thread, RecoverStep(t, RecoverTargets(t)),
         UNCHANGED wire
  PROVE  /\ pc[t] = "roll" => RollUntilTarget(t)
         /\ pc[t] # "dec_commit"
         /\ Plain(t) \/ Recovers(t) \/ Rolls(t)
<1>1. CASE RollUntilTarget(t)
  BY <1>1 DEF RollUntilTarget, Rolls
<1>2. ASSUME NEW target \in RecoverTargets(t), pc[t] = "idle",
             RecoverDeclined(t, target)
      PROVE  Plain(t)
  BY <1>2 DEF RecoverDeclined, Plain, Sending, Decrypting, rootVars, ffiVars
<1>3. ASSUME NEW target \in RecoverTargets(t), pc[t] = "idle",
             RecoverAfterLoss(t, target)
      PROVE  Recovers(t)
  <2>1. target \in Nat
    <3>1. HeaderEpochs(Owner[t]) \subseteq Nat
      BY DEF HeaderEpochs, TypeOK, CipherTypeOK, Message
    <3>2. 1 .. MaxEpoch \subseteq Nat
      BY EvolutionAssumption
    <3>3. QED
      BY <1>3, <3>1, <3>2 DEF RecoverTargets
  <2>2. QED
    BY <1>3, <2>1
       DEF RecoverAfterLoss, Recovers, RecoverTargets, RecoverCalls, rootVars
<1>4. QED
  BY <1>1, <1>2, <1>3 DEF RecoverStep

----------------------------------------------------------------------------
(* One step keeps the invariant.                                           *)

\* Another thread, if its epoch stands still and nobody uses its number.
LEMMA OthersOwn ==
  ASSUME NumberInv, TypeOK, TypeOK', NEW t \in Thread,
         ThreadStep(t), NEW u \in Thread \ {t},
         epoch'[Owner[u]] = epoch[Owner[u]],
         msgCounter'[Owner[u]] >= msgCounter[Owner[u]],
         \A m \in wire' \ wire : m.from = Owner[u] /\ pc[u] \in Sending
                                    => m.seq # frame[u].num
  PROVE  ThreadOwns(u)'
<1>1. pc'[u] = pc[u] /\ frame'[u] = frame[u]
  BY StepIsLocal
<1>2. ThreadOwns(u)
  BY DEF NumberInv
<1>3. /\ frame[u].num \in Int /\ msgCounter[Owner[u]] \in Int
      /\ msgCounter'[Owner[u]] \in Int
  BY CallersAssumption DEF TypeOK, FfiTypeOK, Frame, RootTypeOK
<1>4. frame[u].num < msgCounter[Owner[u]]
          => frame[u].num < msgCounter'[Owner[u]]
  BY <1>3
<1>5. QED
  BY <1>1, <1>2, <1>4 DEF ThreadOwns

\* What the numbers of the threads need of a step: thread t has no new one.
LEMMA StillApart ==
  ASSUME NumberInv, TypeOK, NEW t \in Thread, ThreadStep(t),
         pc'[t] \in Sending => pc[t] \in Sending /\ frame'[t].num = frame[t].num,
         Called(t)'
  PROVE  NumbersApart' /\ \A u \in Thread : Called(u)'
<1>1. \A u \in Thread \ {t} : pc'[u] = pc[u] /\ frame'[u] = frame[u]
  BY StepIsLocal
<1>2. \A u \in Thread : Called(u)'
  BY <1>1 DEF NumberInv, Called
<1>3. NumbersApart'
  BY <1>1 DEF NumberInv, NumbersApart
<1>4. QED
  BY <1>2, <1>3

\* A step that begins no epoch, takes no number and sends nothing.
LEMMA PlainStep ==
  ASSUME NumberInv, TypeOK, TypeOK', NEW t \in Thread,
         ThreadStep(t), UNCHANGED <<epoch, msgCounter, wire>>,
         pc'[t] \in Sending => pc[t] \in Sending /\ frame'[t].num = frame[t].num,
         ThreadOwns(t)', Called(t)'
  PROVE  NumberInv'
<1>1. \A u \in Thread : ThreadOwns(u)'
  <2>1. \A u \in Thread : msgCounter'[Owner[u]] >= msgCounter[Owner[u]]
    BY CallersAssumption DEF TypeOK, RootTypeOK
  <2>2. QED
    BY <2>1, OthersOwn
<1>2. NumbersPassed' /\ NumbersUnique'
  BY DEF NumberInv, NumbersPassed, NumbersUnique
<1>3. QED
  BY <1>1, <1>2, StillApart DEF NumberInv

\* A step into the next epoch.
LEMMA NewEpochStep ==
  ASSUME NumberInv, EpochsUndisturbed, TypeOK, TypeOK', NEW t \in Thread,
         ThreadStep(t), UNCHANGED wire, Calls[t] \cap EpochCalls # {},
         epoch' = [epoch EXCEPT ![Owner[t]] = @ + 1],
         msgCounter' = [msgCounter EXCEPT ![Owner[t]] = 1],
         pc'[t] \notin Sending, ThreadOwns(t)', Called(t)'
  PROVE  NumberInv'
<1>1. Owner[t] \in Peer /\ \A u \in Thread : Owner[u] \in Peer
  BY CallersAssumption
<1>2. \A u \in Thread : ThreadOwns(u)'
  <2>1. ASSUME NEW u \in Thread \ {t}, Owner[u] # Owner[t]
        PROVE  ThreadOwns(u)'
    <3>1. /\ epoch'[Owner[u]] = epoch[Owner[u]]
          /\ msgCounter'[Owner[u]] = msgCounter[Owner[u]]
          /\ msgCounter[Owner[u]] \in Int
      BY <1>1, <2>1 DEF TypeOK, RootTypeOK
    <3>2. QED
      BY <3>1, OthersOwn
  <2>2. ASSUME NEW u \in Thread \ {t}, Owner[u] = Owner[t]
        PROVE  ThreadOwns(u)'
    <3>1. Calls[u] \cap ({"send"} \cup RecoverCalls) = {}
      BY <2>2 DEF EpochsUndisturbed
    <3>2. pc[u] \notin Sending /\ pc[u] # "roll"
      BY <3>1 DEF NumberInv, Called
    <3>3. pc'[u] \notin Sending /\ pc'[u] # "roll"
      BY <3>2, StepIsLocal
    <3>4. QED
      BY <3>3 DEF ThreadOwns, Sending
  <2>3. QED
    BY <2>1, <2>2
<1>3. NumbersPassed'
  <2>1. ASSUME NEW m \in wire
        PROVE  \/ m.epoch < epoch'[m.from]
               \/ /\ m.epoch = epoch'[m.from]
                  /\ m.seq < msgCounter'[m.from]
    <3>1. m.from \in Peer /\ m.epoch \in Nat /\ epoch[m.from] \in Nat
      BY DEF TypeOK, CipherTypeOK, Message, RootTypeOK
    <3>2. \/ m.epoch < epoch[m.from]
          \/ m.epoch = epoch[m.from] /\ m.seq < msgCounter[m.from]
      BY DEF NumberInv, NumbersPassed
    <3>3. CASE m.from = Owner[t]
      <4>1. epoch'[m.from] = epoch[m.from] + 1
        BY <1>1, <3>3 DEF TypeOK, RootTypeOK
      <4>2. QED
        BY <3>1, <3>2, <4>1
    <3>4. CASE m.from # Owner[t]
      <4>1. /\ epoch'[m.from] = epoch[m.from]
            /\ msgCounter'[m.from] = msgCounter[m.from]
        BY <3>1, <3>4 DEF TypeOK, RootTypeOK
      <4>2. QED
        BY <3>2, <4>1
    <3>5. QED
      BY <3>3, <3>4
  <2>2. QED
    BY <2>1 DEF NumbersPassed
<1>4. NumbersUnique'
  BY DEF NumberInv, NumbersUnique
<1>5. QED
  BY <1>2, <1>3, <1>4, StillApart DEF NumberInv

\* next_msg_seq.
LEMMA NumberTaken ==
  ASSUME NumberInv, TypeOK, TypeOK', NEW t \in Thread,
         ThreadStep(t), SendNextSeq(t)
  PROVE  NumberInv'
<1>1. /\ Owner[t] \in Peer /\ \A u \in Thread : Owner[u] \in Peer
      /\ msgCounter \in [Peer -> Nat \ {0}]
  BY CallersAssumption DEF TypeOK, RootTypeOK
<1>2. /\ "send" \in Calls[t]
      /\ pc'[t] = "send_epoch" /\ frame'[t].num = msgCounter[Owner[t]]
      /\ msgCounter' = [msgCounter EXCEPT ![Owner[t]] = @ + 1]
      /\ UNCHANGED <<epoch, wire>>
  BY DEF SendNextSeq, Begin, Continue, TypeOK, FfiTypeOK, NoFrame
<1>3. /\ msgCounter'[Owner[t]] = msgCounter[Owner[t]] + 1
      /\ \A q \in Peer \ {Owner[t]} : msgCounter'[q] = msgCounter[q]
      /\ \A q \in Peer : msgCounter[q] \in Nat
  BY <1>1, <1>2
<1>4. \A m \in wire : m.from \in Peer /\ m.seq \in Int
  BY DEF TypeOK, CipherTypeOK, Message
<1>5. ThreadOwns(t)'
  <2>1. \A m \in wire : m.from = Owner[t] /\ m.epoch = epoch[Owner[t]]
                            => m.seq < msgCounter[Owner[t]]
    <3>1. epoch[Owner[t]] \in Nat
      BY <1>1 DEF TypeOK, RootTypeOK
    <3>2. QED
      BY <3>1 DEF NumberInv, NumbersPassed
  <2>2. \A m \in wire : m.from = Owner[t] /\ m.epoch = epoch[Owner[t]]
                            => m.seq # msgCounter[Owner[t]]
    BY <1>1, <1>3, <1>4, <2>1
  <2>3. frame'[t].num < msgCounter'[Owner[t]]
    BY <1>1, <1>2, <1>3
  <2>4. QED
    BY <1>2, <2>2, <2>3 DEF ThreadOwns, Sending
<1>6. \A u \in Thread : ThreadOwns(u)'
  <2>1. ASSUME NEW u \in Thread \ {t}
        PROVE  ThreadOwns(u)'
    <3>1. msgCounter'[Owner[u]] >= msgCounter[Owner[u]]
      BY <1>1, <1>3
    <3>2. QED
      BY <1>2, <3>1, OthersOwn
  <2>2. QED
    BY <1>5, <2>1
<1>7. NumbersPassed'
  <2>1. ASSUME NEW m \in wire, m.seq < msgCounter[m.from]
        PROVE  m.seq < msgCounter'[m.from]
    <3>1. CASE m.from = Owner[t]
      BY <1>3, <1>4, <2>1, <3>1
    <3>2. CASE m.from # Owner[t]
      BY <1>3, <1>4, <2>1, <3>2
    <3>3. QED
      BY <3>1, <3>2
  <2>2. QED
    BY <1>2, <2>1 DEF NumberInv, NumbersPassed
<1>8. NumbersUnique'
  BY <1>2 DEF NumberInv, NumbersUnique
<1>9. \A u \in Thread \ {t} : pc'[u] = pc[u] /\ frame'[u] = frame[u]
  BY StepIsLocal
<1>10. \A u \in Thread : Called(u)'
  BY <1>2, <1>9 DEF NumberInv, Called, Sending, Decrypting
<1>11. NumbersApart'
  <2>1. ASSUME NEW u \in Thread \ {t}, Owner[u] = Owner[t],
               pc'[u] \in Sending
        PROVE  frame'[u].num # frame'[t].num
    <3>1. frame[u].num < msgCounter[Owner[t]] /\ frame[u].num \in Int
      BY <1>9, <2>1
         DEF NumberInv, ThreadOwns, TypeOK, FfiTypeOK, Frame
    <3>2. QED
      BY <1>1, <1>2, <1>3, <1>9, <3>1
  <2>2. QED
    BY <1>9, <2>1 DEF NumberInv, NumbersApart
<1>12. QED
  BY <1>6, <1>7, <1>8, <1>10, <1>11 DEF NumberInv

\* encrypt: the message that goes out has a number no other message has.
LEMMA NumberUsed ==
  ASSUME NumberInv, TypeOK, TypeOK', NEW t \in Thread,
         ThreadStep(t), SendEncrypt(t)
  PROVE  NumberInv'
<1> DEFINE sent == [from |-> Owner[t], root |-> rootCurr[Owner[t]],
                    epoch |-> frame[t].epoch, seq |-> frame[t].num,
                    id |-> Cardinality(wire)]
<1>1. /\ pc[t] = "send_key" /\ wire' = wire \cup {sent}
      /\ UNCHANGED <<epoch, msgCounter>> /\ pc'[t] = "idle"
  BY DEF SendEncrypt, Return, rootVars, TypeOK, FfiTypeOK
<1>2. /\ sent.from = Owner[t] /\ sent.epoch = epoch[Owner[t]]
      /\ sent.seq < msgCounter[Owner[t]]
      /\ \A m \in wire : m.from = Owner[t] /\ m.epoch = epoch[Owner[t]]
                             => m.seq # sent.seq
  <2>1. ThreadOwns(t)
    BY DEF NumberInv
  <2>2. QED
    BY <1>1, <2>1 DEF ThreadOwns, Sending
<1>6. sent.seq = frame[t].num
  OBVIOUS
<1> HIDE DEF sent
<1>3. NumbersPassed'
  BY <1>1, <1>2 DEF NumberInv, NumbersPassed
<1>4. NumbersUnique'
  BY <1>1, <1>2 DEF NumberInv, NumbersUnique
<1>5. ThreadOwns(t)'
  BY <1>1 DEF ThreadOwns, Sending
<1>7. ASSUME NEW u \in Thread \ {t}
      PROVE  ThreadOwns(u)'
  <2>1. /\ epoch'[Owner[u]] = epoch[Owner[u]]
        /\ msgCounter'[Owner[u]] >= msgCounter[Owner[u]]
    BY <1>1, CallersAssumption DEF TypeOK, RootTypeOK
  <2>2. \A m \in wire' \ wire : m.from = Owner[u] /\ pc[u] \in Sending
                                    => m.seq # frame[u].num
    BY <1>1, <1>2, <1>6 DEF NumberInv, NumbersApart, Sending
  <2>3. QED
    BY <2>1, <2>2, OthersOwn
<1>8. Called(t)'
  BY <1>1 DEF Called, Sending, Decrypting
<1>9. QED
  BY <1>1, <1>3, <1>4, <1>5, <1>7, <1>8, StillApart DEF NumberInv, Sending

\* A step of a thread keeps the numbers apart.
LEMMA NumberStep ==
  ASSUME NumberInv, EpochsUndisturbed, TypeOK, TypeOK', NEW t \in Thread,
         ThreadStep(t)
  PROVE  NumberInv'
<1>1. \/ Plain(t) \/ NewEpoch(t) \/ Recovers(t) \/ Rolls(t)
      \/ SendNextSeq(t) \/ SendReadEpoch(t) \/ SendEncrypt(t)
  BY EvolutionKinds, CipherKinds, RecoverKinds DEF ThreadStep
<1>2. /\ Owner[t] \in Peer /\ ThreadOwns(t) /\ Called(t)
      /\ epoch[Owner[t]] \in Nat /\ frame[t] \in Frame
      /\ t \in DOMAIN pc /\ t \in DOMAIN frame
  BY CallersAssumption DEF TypeOK, RootTypeOK, FfiTypeOK, NumberInv
<1>3. CASE Plain(t)
  <2>1. ThreadOwns(t)' /\ Called(t)'
    BY <1>2, <1>3 DEF Plain, ThreadOwns, Called, Sending
  <2>2. QED
    BY <1>3, <2>1, PlainStep DEF Plain
<1>4. CASE NewEpoch(t)
  <2>1. ThreadOwns(t)' /\ Called(t)'
    BY <1>4 DEF NewEpoch, ThreadOwns, Called, Sending
  <2>2. Calls[t] \cap EpochCalls # {}
    BY <1>2, <1>4 DEF NewEpoch, Called, Decrypting, EpochCalls
  <2>3. QED
    BY <1>4, <2>1, <2>2, NewEpochStep DEF NewEpoch
<1>5. CASE Recovers(t)
  <2>1. PICK target \in Nat : RecoverAfterLoss(t, target)
    BY <1>5 DEF Recovers
  <2>2. /\ pc'[t] = "roll" /\ frame'[t].epoch = target
        /\ frame'[t].num = target - epoch[Owner[t]]
        /\ target > epoch[Owner[t]]
    BY <1>2, <2>1 DEF RecoverAfterLoss, Continue, NoFrame
  <2>3. epoch' = epoch
    BY <1>5 DEF Recovers
  <2>4. ThreadOwns(t)'
    BY <1>2, <2>2, <2>3 DEF ThreadOwns, Sending
  <2>5. Called(t)' /\ pc'[t] \notin Sending
    BY <1>5, <2>2 DEF Recovers, Called, Sending, Decrypting
  <2>6. QED
    BY <1>5, <2>4, <2>5, PlainStep DEF Recovers
<1>6. CASE Rolls(t)
  <2>1. /\ pc[t] = "roll" /\ UNCHANGED wire
        /\ epoch' = [epoch EXCEPT ![Owner[t]] = @ + 1]
        /\ msgCounter' = [msgCounter EXCEPT ![Owner[t]] = 1]
    BY <1>6 DEF Rolls, RollUntilTarget, RollEpochForward
  <2>2. /\ frame[t].num \in Int /\ frame[t].epoch \in Nat
        /\ epoch[Owner[t]] + frame[t].num = frame[t].epoch
        /\ epoch'[Owner[t]] = epoch[Owner[t]] + 1
    BY <1>2, <2>1 DEF ThreadOwns, Frame, TypeOK, RootTypeOK
  <2>0. Calls[t] \cap RecoverCalls # {} /\ Calls[t] \cap EpochCalls # {}
    BY <1>2, <2>1 DEF Called, RecoverCalls, EpochCalls
  <2>3. CASE frame[t].num > 1
    <3>1. /\ pc'[t] = "roll"
          /\ frame'[t] = [frame[t] EXCEPT !.num = @ - 1]
      BY <1>2, <1>6, <2>3 DEF Rolls, RollUntilTarget, Continue
    <3>2. /\ frame'[t].num = frame[t].num - 1
          /\ frame'[t].epoch = frame[t].epoch
      BY <1>2, <3>1 DEF Frame
    <3>3. ThreadOwns(t)'
      BY <1>2, <2>2, <2>3, <3>1, <3>2 DEF ThreadOwns, Sending
    <3>4. Called(t)' /\ pc'[t] \notin Sending
      BY <2>0, <3>1 DEF Called, Sending, Decrypting
    <3>5. QED
      BY <2>0, <2>1, <3>3, <3>4, NewEpochStep
  <2>4. CASE ~(frame[t].num > 1)
    <3>1. pc'[t] = "idle"
      BY <1>2, <1>6, <2>4 DEF Rolls, RollUntilTarget, Return
    <3>2. ThreadOwns(t)' /\ Called(t)' /\ pc'[t] \notin Sending
      BY <3>1 DEF ThreadOwns, Called, Sending, Decrypting
    <3>3. QED
      BY <2>0, <2>1, <3>2, NewEpochStep
  <2>5. QED
    BY <2>3, <2>4
<1>7. CASE SendNextSeq(t)
  BY <1>7, NumberTaken
<1>8. CASE SendReadEpoch(t)
  <2>1. /\ pc[t] = "send_epoch" /\ pc'[t] = "send_key"
        /\ frame'[t] = [frame[t] EXCEPT !.epoch = epoch[Owner[t]]]
        /\ UNCHANGED <<epoch, msgCounter, wire>>
    BY <1>2, <1>8 DEF SendReadEpoch, Continue, rootVars
  <2>2. /\ frame'[t].num = frame[t].num
        /\ frame'[t].epoch = epoch[Owner[t]]
    BY <1>2, <2>1 DEF Frame
  <2>3. ThreadOwns(t)'
    BY <1>2, <2>1, <2>2 DEF ThreadOwns, Sending
  <2>4. Called(t)'
    BY <1>2, <2>1 DEF Called, Sending, Decrypting
  <2>5. QED
    BY <2>1, <2>2, <2>3, <2>4, PlainStep DEF Sending
<1>9. CASE SendEncrypt(t)
  BY <1>9, NumberUsed
<1>10. QED
  BY <1>1, <1>3, <1>4, <1>5, <1>6, <1>7, <1>8, <1>9

----------------------------------------------------------------------------
(* The theorems.                                                           *)

\* If no thread changes the epoch while another one sends or rolls, the numbers
\* on the wire stay behind the counter and the one that is being used is nobody
\* else's (message_cipher.rs:31-44).
THEOREM NumberInvariant ==
  ASSUME EpochsUndisturbed
  PROVE  Spec => [](TypeOK /\ NumberInv)
<1>1. Init => NumberInv
  BY DEF Init, InitFfi, InitCipher, NumberInv, NumbersPassed, NumbersUnique,
         NumbersApart, ThreadOwns, Called, Sending, Decrypting
<1>2. TypeOK /\ TypeOK' /\ NumberInv /\ [Next]_vars => NumberInv'
  <2>1. CASE Next
    BY <2>1, NumberStep DEF Next
  <2>2. CASE UNCHANGED vars
    BY <2>2 DEF vars, rootVars, ffiVars, NumberInv, NumbersPassed,
       NumbersUnique, NumbersApart, ThreadOwns, Called
  <2>3. QED
    BY <2>1, <2>2
<1>3. QED
  BY <1>1, <1>2, TypeCorrect, PTL DEF Spec

\* If no thread changes the epoch while another one sends or rolls, no two
\* messages of a device carry the same epoch and number, however many threads
\* send (message_cipher.rs:4, 38).
THEOREM NumbersNeverRepeat ==
  ASSUME EpochsUndisturbed
  PROVE  Spec => []NumbersUnique
BY NumberInvariant, PTL DEF NumberInv

\* The key has no part for the sender, so that two devices that both send use
\* the same keys: it takes one that only receives.
OneDeviceSends ==
    \A t, u \in Thread :
        "send" \in Calls[t] /\ "send" \in Calls[u] => Owner[t] = Owner[u]

SentBySenders ==
    \A m \in wire : \E t \in Thread : m.from = Owner[t] /\ "send" \in Calls[t]

\* If moreover only one of the devices sends, no two messages at all are sealed
\* under one key (message_cipher.rs:14).
THEOREM KeysNeverRepeatHolds ==
  ASSUME EpochsUndisturbed, OneDeviceSends
  PROVE  Spec => []KeysNeverRepeat
<1>1. Init => SentBySenders
  BY DEF Init, InitCipher, SentBySenders
<1>2. ASSUME TypeOK, NumberInv, SentBySenders, [Next]_vars
      PROVE  SentBySenders'
  <2>1. CASE UNCHANGED wire
    BY <1>2, <2>1 DEF SentBySenders
  <2>2. ASSUME NEW t \in Thread, SendEncrypt(t)
        PROVE  SentBySenders'
    <3>1. "send" \in Calls[t]
      BY <1>2, <2>2 DEF NumberInv, Called, Sending, SendEncrypt
    <3>2. \A m \in wire' : m \in wire \/ m.from = Owner[t]
      BY <2>2 DEF SendEncrypt
    <3> QED  BY <1>2, <3>1, <3>2 DEF SentBySenders
  <2>3. ASSUME NEW t \in Thread, ThreadStep(t)
        PROVE  UNCHANGED wire \/ SendEncrypt(t)
    BY <1>2, <2>3, CipherKinds
       DEF ThreadStep, Plain, NewEpoch, SendNextSeq, SendReadEpoch
  <2> QED  BY <1>2, <2>1, <2>2, <2>3 DEF Next, vars
<1>3. NumberInv /\ SentBySenders => KeysNeverRepeat
  <2> SUFFICES ASSUME NumberInv, SentBySenders, NEW m \in wire, NEW n \in wire,
                      m.epoch = n.epoch, m.seq = n.seq
               PROVE  m.id = n.id
    BY DEF KeysNeverRepeat
  <2>1. m.from = n.from
    BY DEF SentBySenders, OneDeviceSends
  <2> QED  BY <2>1 DEF NumberInv, NumbersUnique
<1> QED  BY <1>1, <1>2, <1>3, NumberInvariant, PTL DEF Spec

\* Under the same discipline, recover_after_loss that rolls at all ends in the
\* epoch it was asked for (anti_dos.rs:21).
THEOREM RecoverLandsOnTargetHolds ==
  ASSUME EpochsUndisturbed
  PROVE  Spec => RecoverLandsOnTarget
<1>1. ASSUME TypeOK, NumberInv, [Next]_vars
      PROVE  [\A t \in Thread : pc[t] = "roll" /\ pc'[t] = "idle"
                 => epoch'[Owner[t]] = frame[t].epoch]_vars
  <2>1. SUFFICES ASSUME Next, NEW t \in Thread,
                        pc[t] = "roll", pc'[t] = "idle"
                 PROVE  epoch'[Owner[t]] = frame[t].epoch
    BY <1>1
  <2>2. PICK u \in Thread : ThreadStep(u)
    BY <2>1 DEF Next
  <2>3. u = t
    BY <1>1, <2>1, <2>2, StepIsLocal
  <2>4. RollUntilTarget(t)
    BY <1>1, <2>1, <2>2, <2>3, EvolutionKinds, CipherKinds, RecoverKinds
       DEF ThreadStep
  <2>5. frame[t] \in Frame /\ pc \in [Thread -> Label] /\ Owner[t] \in Peer
    BY <1>1, CallersAssumption DEF TypeOK, FfiTypeOK
  <2>6. ~(frame[t].num > 1)
    BY <2>1, <2>4, <2>5 DEF RollUntilTarget, Continue
  <2>7. /\ frame[t].num >= 1 /\ frame[t].num \in Int
        /\ epoch[Owner[t]] + frame[t].num = frame[t].epoch
    BY <1>1, <2>1, <2>5 DEF NumberInv, ThreadOwns, Frame
  <2>8. epoch'[Owner[t]] = epoch[Owner[t]] + 1
    BY <1>1, <2>4, <2>5
       DEF RollUntilTarget, RollEpochForward, TypeOK, RootTypeOK
  <2>9. QED
    BY <2>6, <2>7, <2>8
<1>2. QED
  BY <1>1, NumberInvariant, PTL DEF Spec, RecoverLandsOnTarget

\* With one thread per device and followers that only auto-commit, a message
\* opened with the pending root leaves the device on the root and in the epoch
\* of its sender (message_cipher.rs:87-88).
THEOREM AutoCommitLandsOnSenderHolds ==
  ASSUME FollowersOnlyAutoCommit
  PROVE  Spec => AutoCommitLandsOnSender
<1>1. ASSUME TypeOK, NeverAheadInv, [Next]_vars
      PROVE  [\A t \in Thread : \A m \in frame[t].msg :
                 pc[t] = "dec_commit" /\ pc'[t] = "idle"
                 => rootCurr'[Owner[t]] = m.root
                        /\ epoch'[Owner[t]] = m.epoch]_vars
  <2>1. SUFFICES ASSUME Next, NEW t \in Thread, NEW m \in frame[t].msg,
                        pc[t] = "dec_commit", pc'[t] = "idle"
                 PROVE  /\ rootCurr'[Owner[t]] = m.root
                        /\ epoch'[Owner[t]] = m.epoch
    BY <1>1
  <2>2. PICK u \in Thread : ThreadStep(u)
    BY <2>1 DEF Next
  <2>3. u = t
    BY <1>1, <2>1, <2>2, StepIsLocal
  <2>4. DecryptCommit(t)
    BY <1>1, <2>1, <2>2, <2>3, EvolutionKinds, CipherKinds, RecoverKinds
       DEF ThreadStep
  <2>5. ThreadKnows(t) /\ SinglePend /\ Owner[t] \in Peer
    BY <1>1, CallersAssumption DEF NeverAheadInv
  <2>6. m.epoch = epoch[Owner[t]] + 1 /\ m.root \in rootPend[Owner[t]]
    BY <2>1, <2>5 DEF ThreadKnows
  <2>7. PICK key \in rootPend[Owner[t]] :
            /\ rootCurr' = [rootCurr EXCEPT ![Owner[t]] = key]
            /\ epoch' = [epoch EXCEPT ![Owner[t]] = @ + 1]
    BY <2>4, <2>6 DEF DecryptCommit, PromotePending, NothingPending
  <2>8. key = m.root
    BY <2>5, <2>6, <2>7 DEF SinglePend
  <2>9. QED
    BY <1>1, <2>5, <2>6, <2>7, <2>8 DEF TypeOK, RootTypeOK
<1>2. QED
  BY <1>1, NeverAheadInvariant, TypeCorrect, PTL
     DEF Spec, AutoCommitLandsOnSender

----------------------------------------------------------------------------
(* What the threads copy: with one thread per device a copied root is the  *)
(* device's root, so a pending root is a new one and try_decrypt judges by *)
(* the keys the device holds.                                              *)

HoldsRoot == {"start_pk", "start_pend", "apply_pend", "dec_epoch", "dec_pend"}
HoldsSecret == {"start_pend", "start_cipher", "apply_curr", "apply_pend"}

ThreadCopies(t) ==
    /\ pc[t] \in HoldsRoot => frame[t].root = rootCurr[Owner[t]]
    /\ pc[t] \in HoldsSecret => frame[t].num # EpochRoll
    /\ \A m, n \in frame[t].msg : m = n

\* A pending root ends in a secret, and so is no root a roll leads to.
PendIsNew ==
    \A p \in Peer : \A key \in rootPend[p] :
        /\ key # rootCurr[p]
        /\ key # << >> /\ key[Len(key)] # EpochRoll

SecretsAreNoRolls ==
    \A ct \in kemWire \cup UNION {kemCipher[p] : p \in Peer} :
        ct.ss # EpochRoll

CopyInv ==
    PendIsNew /\ SecretsAreNoRolls /\ \A t \in Thread : ThreadCopies(t)

\* Derivation makes a longer list that ends in the step.
LEMMA DeriveAppends ==
  ASSUME NEW k \in RootKey, NEW x \in Int
  PROVE  /\ Derive(k, x) \in RootKey /\ Derive(k, x) # k
         /\ Derive(k, x) # << >>
         /\ Derive(k, x)[Len(Derive(k, x))] = x
<1>1. /\ Derive(k, x) \in RootKey /\ Len(Derive(k, x)) = Len(k) + 1
      /\ Len(k) \in Nat /\ Derive(k, x)[Len(k) + 1] = x
  BY DEF Derive, RootKey, Step
<1>2. QED
  BY <1>1

\* It suffices to look at the thread that steps.
LEMMA CopyKeeps ==
  ASSUME TypeOK, CopyInv, OneThreadPerDevice, NEW t \in Thread,
         ThreadStep(t), PendIsNew', SecretsAreNoRolls', ThreadCopies(t)'
  PROVE  CopyInv'
<1>1. ASSUME NEW u \in Thread \ {t} PROVE ThreadCopies(u)'
  <2>1. Owner[u] \in Peer \ {Owner[t]} /\ ThreadCopies(u)
    BY CallersAssumption DEF OneThreadPerDevice, CopyInv
  <2>2. QED
    BY <2>1, StepIsLocal DEF ThreadCopies
<1>2. QED
  BY <1>1 DEF CopyInv

\* Evolutions copy the device's root and derive from it.
LEMMA EvolutionCopies ==
  ASSUME TypeOK, CopyInv, OneThreadPerDevice, NEW t \in Thread,
         EvolutionStep(t), UNCHANGED wire
  PROVE  CopyInv'
<1>0. /\ ThreadStep(t) /\ Owner[t] \in Peer /\ ThreadCopies(t)
      /\ PendIsNew /\ SecretsAreNoRolls
      /\ frame[t] \in Frame /\ t \in DOMAIN pc /\ t \in DOMAIN frame
  BY CallersAssumption DEF ThreadStep, CopyInv, TypeOK, FfiTypeOK
<1>1. NoFrame.msg = {}
  BY DEF NoFrame
<1>2. ASSUME UNCHANGED <<rootCurr, rootPend, kemCipher, kemWire>>,
             ThreadCopies(t)'
      PROVE  CopyInv'
  <2>1. PendIsNew' /\ SecretsAreNoRolls'
    BY <1>0, <1>2 DEF PendIsNew, SecretsAreNoRolls
  <2>2. QED
    BY <1>0, <1>2, <2>1, CopyKeeps
<1>3. ASSUME SetRootStatePend(Owner[t], Derive(frame[t].root, frame[t].num)),
             pc[t] \in {"start_pend", "apply_pend"},
             UNCHANGED <<kemCipher, kemWire>>, ThreadCopies(t)'
      PROVE  CopyInv'
  <2> DEFINE key == Derive(frame[t].root, frame[t].num)
  <2>1. /\ frame[t].root = rootCurr[Owner[t]] /\ frame[t].num # EpochRoll
        /\ frame[t].root \in RootKey /\ frame[t].num \in Int
    BY <1>0, <1>3 DEF ThreadCopies, HoldsRoot, HoldsSecret, Frame
  <2>2. /\ key # rootCurr[Owner[t]] /\ key # << >>
        /\ key[Len(key)] # EpochRoll
    BY <2>1, DeriveAppends
  <2> HIDE DEF key
  <2>3. rootPend' = [rootPend EXCEPT ![Owner[t]] = {key}]
        /\ rootCurr' = rootCurr
    BY <1>3 DEF SetRootStatePend, key
  <2>4. PendIsNew'
    BY <1>0, <2>2, <2>3 DEF PendIsNew, TypeOK, RootTypeOK
  <2>5. SecretsAreNoRolls'
    BY <1>0, <1>3 DEF SecretsAreNoRolls
  <2>6. QED
    BY <1>0, <1>3, <2>4, <2>5, CopyKeeps
<1> USE DEF rootVars, ffiVars, evoVars, pkVars, wireVars, Begin, HoldsRoot,
            HoldsSecret
<1>4. CASE GenerateBobKeypair(t)
  BY <1>0, <1>2, <1>4 DEF GenerateBobKeypair, ThreadCopies
<1>5. CASE SetPeerPublicKey(t)
  BY <1>0, <1>1, <1>2, <1>5 DEF SetPeerPublicKey, Continue, ThreadCopies
<1>6. CASE SetPeerPkHash(t)
  BY <1>0, <1>1, <1>2, <1>6 DEF SetPeerPkHash, Return, ThreadCopies
<1>7. CASE StartEvolution(t)
  BY <1>0, <1>2, <1>7 DEF StartEvolution, Continue, NoFrame, ThreadCopies
<1>8. CASE StartRefused(t)
  BY <1>0, <1>1, <1>2, <1>8 DEF StartRefused, Return, ThreadCopies
<1>9. CASE StartEncapsulate(t)
  <2>1. /\ pc[t] = "start_pk" /\ pc'[t] = "start_pend"
        /\ frame'[t] = [frame[t] EXCEPT !.num = secrets + 1]
        /\ UNCHANGED <<rootCurr, rootPend, kemCipher, kemWire>>
    BY <1>0, <1>9 DEF StartEncapsulate, Continue
  <2>2. /\ frame'[t].root = frame[t].root /\ frame'[t].msg = frame[t].msg
        /\ frame'[t].num = secrets + 1
    BY <1>0, <2>1 DEF Frame
  <2>3. secrets + 1 # EpochRoll
    BY DEF TypeOK, EvolutionTypeOK, EpochRoll
  <2>4. QED
    BY <1>0, <1>2, <2>1, <2>2, <2>3 DEF ThreadCopies
<1>10. CASE StartSetPend(t)
  BY <1>0, <1>3, <1>10 DEF StartSetPend, Continue, ThreadCopies
<1>11. CASE StartSetCipher(t)
  <2>1. PICK pk : kemCipher' = [kemCipher EXCEPT
                      ![Owner[t]] = {[to |-> pk, ss |-> frame[t].num]}]
    BY <1>11 DEF StartSetCipher
  <2>2. /\ pc[t] = "start_cipher" /\ pc'[t] = "idle" /\ frame'[t].msg = {}
        /\ UNCHANGED <<rootCurr, rootPend, kemWire>>
    BY <1>0, <1>1, <1>11 DEF StartSetCipher, Return
  <2>3. frame[t].num # EpochRoll
    BY <1>0, <2>2 DEF ThreadCopies
  <2>4. SecretsAreNoRolls'
    BY <1>0, <2>1, <2>2, <2>3
       DEF SecretsAreNoRolls, TypeOK, EvolutionTypeOK
  <2>5. PendIsNew' /\ ThreadCopies(t)'
    BY <1>0, <2>2 DEF PendIsNew, ThreadCopies
  <2>6. QED
    BY <1>0, <2>4, <2>5, CopyKeeps
<1>12. CASE GetKemCipher(t)
  <2>1. SecretsAreNoRolls'
    BY <1>0, <1>12 DEF GetKemCipher, SecretsAreNoRolls
  <2>2. PendIsNew' /\ ThreadCopies(t)'
    BY <1>0, <1>12 DEF GetKemCipher, PendIsNew, ThreadCopies
  <2>3. QED
    BY <1>0, <2>1, <2>2, CopyKeeps
<1>13. ASSUME NEW ct \in kemWire, ApplyRefused(t, ct)
       PROVE  CopyInv'
  BY <1>0, <1>2, <1>13 DEF ApplyRefused, ReceiveKem, ThreadCopies
<1>14. ASSUME NEW ct \in kemWire, ApplyPeerKem(t, ct)
       PROVE  CopyInv'
  <2>1. Decapsulate(ct, ownKey[Owner[t]]) # EpochRoll
    <3>1. ct.ss \in Int /\ ct.ss # 0
      BY <1>0 DEF SecretsAreNoRolls, EpochRoll, TypeOK, EvolutionTypeOK,
         KemCipher
    <3>2. Decapsulate(ct, ownKey[Owner[t]]) \in {ct.ss, -ct.ss}
      BY DEF Decapsulate
    <3>3. QED
      BY <3>1, <3>2 DEF EpochRoll
  <2>2. /\ pc'[t] = "apply_curr" /\ frame'[t].msg = {}
        /\ frame'[t].num = Decapsulate(ct, ownKey[Owner[t]])
        /\ UNCHANGED <<rootCurr, rootPend, kemCipher, kemWire>>
    BY <1>0, <1>14 DEF ApplyPeerKem, ReceiveKem, Continue, NoFrame
  <2>3. QED
    BY <1>2, <2>1, <2>2 DEF ThreadCopies
<1>15. CASE ApplyReadCurr(t)
  <2>1. /\ pc[t] = "apply_curr" /\ pc'[t] = "apply_pend"
        /\ frame'[t] = [frame[t] EXCEPT !.root = rootCurr[Owner[t]]]
        /\ UNCHANGED <<rootCurr, rootPend, kemCipher, kemWire>>
    BY <1>0, <1>15 DEF ApplyReadCurr, Continue
  <2>2. /\ frame'[t].root = rootCurr[Owner[t]]
        /\ frame'[t].num = frame[t].num /\ frame'[t].msg = frame[t].msg
    BY <1>0, <2>1 DEF Frame
  <2>3. QED
    BY <1>0, <1>2, <2>1, <2>2 DEF ThreadCopies
<1>16. CASE ApplySetPend(t)
  BY <1>0, <1>1, <1>3, <1>16 DEF ApplySetPend, Return, ThreadCopies
<1>17. CASE CommitEvolution(t)
  <2>1. /\ pc[t] = "idle"
        /\ UNCHANGED <<pc, frame, kemCipher, kemWire>>
    BY <1>17 DEF CommitEvolution
  <2>2. ThreadCopies(t)' /\ SecretsAreNoRolls'
    BY <1>0, <2>1 DEF ThreadCopies, SecretsAreNoRolls
  <2>3. PendIsNew'
    BY <1>0, <1>17 DEF CommitEvolution, PromotePending, NothingPending,
       PendIsNew, TypeOK, RootTypeOK
  <2>4. QED
    BY <1>0, <2>2, <2>3, CopyKeeps
<1>18. QED
  BY <1>4, <1>5, <1>6, <1>7, <1>8, <1>9, <1>10, <1>11, <1>12, <1>13, <1>14,
     <1>15, <1>16, <1>17 DEF EvolutionStep

\* try_decrypt copies the device's root; its commit leaves nothing pending.
LEMMA CipherCopies ==
  ASSUME TypeOK, CopyInv, OneThreadPerDevice, NEW t \in Thread,
         CipherStep(t), UNCHANGED evoVars
  PROVE  CopyInv'
<1>0. /\ ThreadStep(t) /\ Owner[t] \in Peer /\ ThreadCopies(t)
      /\ PendIsNew /\ SecretsAreNoRolls
      /\ frame[t] \in Frame /\ t \in DOMAIN pc /\ t \in DOMAIN frame
  BY CallersAssumption DEF ThreadStep, CopyInv, TypeOK, FfiTypeOK
<1>1. SecretsAreNoRolls'
  BY <1>0 DEF SecretsAreNoRolls, evoVars
<1>2. ASSUME UNCHANGED <<rootCurr, rootPend>>, ThreadCopies(t)'
      PROVE  CopyInv'
  <2>1. PendIsNew'
    BY <1>0, <1>2 DEF PendIsNew
  <2>2. QED
    BY <1>0, <1>1, <1>2, <2>1, CopyKeeps
<1> USE DEF rootVars, Begin, HoldsRoot, HoldsSecret
<1>3. CASE SendNextSeq(t)
  BY <1>0, <1>2, <1>3 DEF SendNextSeq, Continue, NoFrame, ThreadCopies
<1>4. CASE SendReadEpoch(t)
  BY <1>0, <1>2, <1>4 DEF SendReadEpoch, Continue, Frame, ThreadCopies
<1>5. CASE SendEncrypt(t) \/ DecryptOpened(t) \/ DecryptFails(t)
  <2>1. Return(t) /\ UNCHANGED rootVars
    BY <1>5 DEF SendEncrypt, DecryptOpened, DecryptFails
  <2>2. QED
    BY <1>0, <1>2, <2>1 DEF Return, NoFrame, ThreadCopies
<1>6. ASSUME NEW m \in wire, DecryptReadCurr(t, m)
      PROVE  CopyInv'
  <2>1. /\ pc'[t] = "dec_epoch" /\ frame'[t].root = rootCurr[Owner[t]]
        /\ frame'[t].msg = {m} /\ UNCHANGED <<rootCurr, rootPend>>
    BY <1>0, <1>6 DEF DecryptReadCurr, Continue, NoFrame
  <2>2. QED
    BY <1>2, <2>1 DEF ThreadCopies
<1>7. CASE DecryptSlowPath(t) \/ DecryptOpenedByPend(t)
  <2>1. /\ frame' = frame /\ UNCHANGED <<rootCurr, rootPend>>
        /\ \/ pc[t] = "dec_epoch" /\ pc'[t] = "dec_pend"
           \/ pc'[t] = "dec_commit"
    BY <1>0, <1>7 DEF DecryptSlowPath, DecryptOpenedByPend, Continue, TypeOK,
       FfiTypeOK
  <2>2. QED
    BY <1>0, <1>2, <2>1 DEF ThreadCopies
<1>8. CASE DecryptCommit(t)
  <2>1. PendIsNew'
    BY <1>0, <1>8 DEF DecryptCommit, PromotePending, NothingPending,
       PendIsNew, TypeOK, RootTypeOK
  <2>2. ThreadCopies(t)'
    BY <1>0, <1>8 DEF DecryptCommit, Return, NoFrame, ThreadCopies
  <2>3. QED
    BY <1>0, <1>1, <2>1, <2>2, CopyKeeps
<1>9. QED
  BY <1>3, <1>4, <1>5, <1>6, <1>7, <1>8 DEF CipherStep

\* A roll leads to a root that no pending root equals.
LEMMA RecoverCopies ==
  ASSUME TypeOK, CopyInv, OneThreadPerDevice, NEW t \in Thread,
         RecoverStep(t, RecoverTargets(t)), UNCHANGED <<evoVars, wire>>
  PROVE  CopyInv'
<1>0. /\ ThreadStep(t) /\ Owner[t] \in Peer /\ ThreadCopies(t)
      /\ PendIsNew /\ SecretsAreNoRolls
      /\ frame[t] \in Frame /\ t \in DOMAIN pc /\ t \in DOMAIN frame
  BY CallersAssumption DEF ThreadStep, CopyInv, TypeOK, FfiTypeOK
<1>1. SecretsAreNoRolls'
  BY <1>0 DEF SecretsAreNoRolls, evoVars
<1>2. ASSUME UNCHANGED <<rootCurr, rootPend>>, ThreadCopies(t)'
      PROVE  CopyInv'
  <2>1. PendIsNew'
    BY <1>0, <1>2 DEF PendIsNew
  <2>2. QED
    BY <1>0, <1>1, <1>2, <2>1, CopyKeeps
<1>3. ASSUME NEW target \in RecoverTargets(t), RecoverDeclined(t, target)
      PROVE  CopyInv'
  BY <1>0, <1>2, <1>3 DEF RecoverDeclined, rootVars, ffiVars, ThreadCopies
<1>4. ASSUME NEW target \in RecoverTargets(t), RecoverAfterLoss(t, target)
      PROVE  CopyInv'
  <2>1. /\ pc'[t] = "roll" /\ frame'[t].msg = {}
        /\ UNCHANGED <<rootCurr, rootPend>>
    BY <1>0, <1>4 DEF RecoverAfterLoss, Continue, NoFrame, rootVars
  <2>2. QED
    BY <1>2, <2>1 DEF ThreadCopies, HoldsRoot, HoldsSecret
<1>5. CASE RollUntilTarget(t)
  <2>1. /\ rootCurr' = [rootCurr EXCEPT
                           ![Owner[t]] = Derive(rootCurr[Owner[t]], EpochRoll)]
        /\ UNCHANGED rootPend
        /\ pc'[t] \in {"roll", "idle"} /\ frame'[t].msg \subseteq frame[t].msg
    <3>1. /\ pc'[t] \in {"roll", "idle"}
          /\ frame'[t] \in {NoFrame, [frame[t] EXCEPT !.num = @ - 1]}
      BY <1>0, <1>5 DEF RollUntilTarget, Continue, Return
    <3>2. QED
      BY <1>0, <1>5, <3>1 DEF RollUntilTarget, RollEpochForward, Frame, NoFrame
  <2>2. LET new == Derive(rootCurr[Owner[t]], EpochRoll)
        IN  /\ rootCurr'[Owner[t]] = new
            /\ new[Len(new)] = EpochRoll
    BY <1>0, <2>1, DeriveAppends DEF TypeOK, RootTypeOK, EpochRoll
  <2>3. PendIsNew'
    <3>1. ASSUME NEW p \in Peer, NEW key \in rootPend[p]
          PROVE  key # rootCurr'[p]
      <4>1. CASE p = Owner[t]
        BY <1>0, <2>2, <4>1 DEF PendIsNew
      <4>2. CASE p # Owner[t]
        BY <1>0, <2>1, <4>2 DEF PendIsNew, TypeOK, RootTypeOK
      <4>3. QED
        BY <4>1, <4>2
    <3>2. QED
      BY <1>0, <2>1, <3>1 DEF PendIsNew
  <2>4. ThreadCopies(t)'
    BY <1>0, <2>1 DEF ThreadCopies, HoldsRoot, HoldsSecret
  <2>5. QED
    BY <1>0, <1>1, <2>3, <2>4, CopyKeeps
<1>6. QED
  BY <1>3, <1>4, <1>5 DEF RecoverStep

\* On a device with one thread, what a thread has copied of the root is still
\* the root, and what is pending is not (evolution.rs:96-125,
\* message_cipher.rs:96).
THEOREM CopyInvariant ==
  ASSUME OneThreadPerDevice
  PROVE  Spec => [](TypeOK /\ CopyInv)
<1>1. Init => CopyInv
  <2> SUFFICES ASSUME Init PROVE CopyInv
    OBVIOUS
  <2>1. PendIsNew
    BY DEF Init, InitRootState, PendIsNew
  <2>2. SecretsAreNoRolls
    BY DEF Init, InitEvolution, SecretsAreNoRolls
  <2>3. \A t \in Thread : ThreadCopies(t)
    BY DEF Init, InitFfi, NoFrame, ThreadCopies, HoldsRoot, HoldsSecret
  <2>4. QED
    BY <2>1, <2>2, <2>3 DEF CopyInv
<1>2. TypeOK /\ CopyInv /\ [Next]_vars => CopyInv'
  <2> SUFFICES ASSUME TypeOK, CopyInv, [Next]_vars PROVE CopyInv'
    OBVIOUS
  <2>1. ASSUME NEW t \in Thread, ThreadStep(t) PROVE CopyInv'
    BY <2>1, EvolutionCopies, CipherCopies, RecoverCopies DEF ThreadStep
  <2>2. CASE UNCHANGED vars
    BY <2>2 DEF vars, rootVars, ffiVars, evoVars, CopyInv, PendIsNew,
       SecretsAreNoRolls, ThreadCopies
  <2>3. QED
    BY <2>1, <2>2 DEF Next
<1>3. QED
  BY <1>1, <1>2, TypeCorrect, PTL DEF Spec

\* On a device with one thread, every new epoch has a new root, whether it is
\* committed or rolled to, and however rolls and evolutions mix (README.md:23).
THEOREM FreshRootHolds ==
  ASSUME OneThreadPerDevice
  PROVE  Spec => FreshRoot
<1>1. ASSUME TypeOK, CopyInv, [Next]_vars
      PROVE  [\A p \in Peer : epoch'[p] # epoch[p]
                                  => rootCurr'[p] # rootCurr[p]]_vars
  <2>1. SUFFICES ASSUME Next, NEW p \in Peer, epoch'[p] # epoch[p]
                 PROVE  rootCurr'[p] # rootCurr[p]
    BY <1>1
  <2>2. PICK t \in Thread : ThreadStep(t)
    BY <2>1 DEF Next
  <2>3. p = Owner[t]
    BY <1>1, <2>1, <2>2, StepIsLocal
  <2>4. PromotePending(p) \/ RollEpochForward(p)
    <3>1. CASE EvolutionStep(t)
      BY <2>1, <2>3, <3>1 DEF EvolutionStep, GenerateBobKeypair,
         SetPeerPublicKey, SetPeerPkHash, StartEvolution, StartRefused,
         StartEncapsulate, StartSetPend, StartSetCipher, GetKemCipher,
         ApplyRefused, ApplyPeerKem, ReceiveKem, ApplyReadCurr, ApplySetPend,
         SetRootStatePend, CommitEvolution, NothingPending, rootVars
    <3>2. CASE CipherStep(t)
      BY <2>1, <2>3, <3>2 DEF CipherStep, SendNextSeq, SendReadEpoch,
         SendEncrypt, DecryptReadCurr, DecryptOpened, DecryptSlowPath,
         DecryptFails, DecryptOpenedByPend, DecryptCommit, NothingPending,
         rootVars
    <3>3. CASE RecoverStep(t, RecoverTargets(t))
      BY <2>1, <2>3, <3>3 DEF RecoverStep, RecoverDeclined, RecoverAfterLoss,
         RollUntilTarget, rootVars
    <3>4. QED
      BY <2>2, <3>1, <3>2, <3>3 DEF ThreadStep
  <2>5. CASE PromotePending(p)
    BY <1>1, <2>5 DEF PromotePending, CopyInv, PendIsNew, TypeOK, RootTypeOK
  <2>6. CASE RollEpochForward(p)
    <3>1. rootCurr[p] \in RootKey /\ EpochRoll \in Int
      BY <1>1 DEF TypeOK, RootTypeOK, EpochRoll
    <3>2. rootCurr'[p] = Derive(rootCurr[p], EpochRoll)
      BY <1>1, <2>6 DEF RollEpochForward, TypeOK, RootTypeOK
    <3>3. QED
      BY <3>1, <3>2, DeriveAppends
  <2>7. QED
    BY <2>4, <2>5, <2>6
<1>2. QED
  BY <1>1, CopyInvariant, PTL DEF Spec, FreshRoot

\* On a device with one thread, try_decrypt_with_evolution answers None only if
\* neither root of the device opens the message (message_cipher.rs:90).
THEOREM NoneOnlyIfBothKeysFailHolds ==
  ASSUME OneThreadPerDevice
  PROVE  Spec => NoneOnlyIfBothKeysFail
<1>1. ASSUME TypeOK, CopyInv, [Next]_vars
      PROVE  [\A t \in Thread : \A m \in frame[t].msg :
                 /\ pc[t] \in {"dec_epoch", "dec_pend"} /\ pc'[t] = "idle"
                 /\ ~Opens(m, frame[t].root)
                 => /\ ~Opens(m, rootCurr[Owner[t]])
                    /\ m.epoch = epoch[Owner[t]] + 1 =>
                           \A key \in rootPend[Owner[t]] : ~Opens(m, key)]_vars
  <2>1. SUFFICES ASSUME Next, NEW t \in Thread, NEW m \in frame[t].msg,
                        pc[t] \in {"dec_epoch", "dec_pend"}, pc'[t] = "idle",
                        ~Opens(m, frame[t].root)
                 PROVE  /\ ~Opens(m, rootCurr[Owner[t]])
                        /\ m.epoch = epoch[Owner[t]] + 1 =>
                               \A key \in rootPend[Owner[t]] : ~Opens(m, key)
    BY <1>1
  <2>2. PICK u \in Thread : ThreadStep(u)
    BY <2>1 DEF Next
  <2>3. u = t
    BY <1>1, <2>1, <2>2, StepIsLocal
  <2>4. ThreadCopies(t) /\ pc \in [Thread -> Label]
    BY <1>1 DEF CopyInv, TypeOK, FfiTypeOK
  <2>5. frame[t].root = rootCurr[Owner[t]] /\ \A n \in frame[t].msg : n = m
    BY <2>1, <2>4 DEF ThreadCopies, HoldsRoot
  <2>6. CipherStep(t)
    <3>1. ~EvolutionStep(t)
      BY <2>1 DEF EvolutionStep, GenerateBobKeypair,
         SetPeerPublicKey, SetPeerPkHash, StartEvolution, StartRefused,
         StartEncapsulate, StartSetPend, StartSetCipher, GetKemCipher,
         ApplyRefused, ApplyPeerKem, ReceiveKem, ApplyReadCurr, ApplySetPend,
         CommitEvolution, Begin
    <3>2. ~RecoverStep(t, RecoverTargets(t))
      BY <2>1 DEF RecoverStep, RollUntilTarget
    <3>3. QED
      BY <2>2, <2>3, <3>1, <3>2 DEF ThreadStep
  <2>7. DecryptFails(t)
    <3>1. ~DecryptOpened(t)
      BY <2>1, <2>5 DEF DecryptOpened
    <3>2. ~(DecryptSlowPath(t) \/ DecryptOpenedByPend(t))
      BY <2>1, <2>4 DEF DecryptSlowPath, DecryptOpenedByPend, Continue
    <3>3. QED
      BY <2>1, <2>6, <3>1, <3>2 DEF CipherStep, SendNextSeq, SendReadEpoch,
         SendEncrypt, DecryptReadCurr, DecryptCommit, Begin
  <2>8. QED
    BY <2>1, <2>5, <2>7 DEF DecryptFails, OneAhead
<1>2. QED
  BY <1>1, CopyInvariant, PTL DEF Spec, NoneOnlyIfBothKeysFail

----------------------------------------------------------------------------
(* Without evolutions the root of an epoch is a matter of counting: any    *)
(* threads of either device may roll, recover, commit and decrypt.         *)

NoEvolutions == \A t \in Thread : Calls[t] \cap {"start", "apply"} = {}

\* RootState_init, rolled e times.
RolledRoot(e) == [i \in 1 .. e |-> EpochRoll]

RolledInv ==
    /\ \A p \in Peer : rootPend[p] = {} /\ rootCurr[p] = RolledRoot(epoch[p])
    /\ \A t \in Thread : pc[t] \notin {"start_pk", "start_pend", "start_cipher",
                                       "apply_curr", "apply_pend"}

\* A roll and its epoch change together (root_state.rs:81-101).
LEMMA RollsCount ==
  ASSUME NEW e \in Nat
  PROVE  Derive(RolledRoot(e), EpochRoll) = RolledRoot(e + 1)
  BY DEF Derive, RolledRoot, EpochRoll

\* A step leaves roots, epochs and pending roots alone, or is a roll.
LEMMA RolledStep ==
  ASSUME TypeOK, RolledInv, NoEvolutions, NEW t \in Thread, ThreadStep(t)
  PROVE  RolledInv'
<1> DEFINE Evolving == {"start_pk", "start_pend", "start_cipher",
                        "apply_curr", "apply_pend"}
<1>0. /\ Owner[t] \in Peer /\ pc[t] \notin Evolving
      /\ "start" \notin Calls[t] /\ "apply" \notin Calls[t]
      /\ t \in DOMAIN pc
  BY CallersAssumption DEF RolledInv, NoEvolutions, TypeOK, FfiTypeOK
<1>1. ASSUME NEW u \in Thread, u # t PROVE pc'[u] \notin Evolving
  BY <1>1, StepIsLocal DEF RolledInv
<1>2. ASSUME UNCHANGED <<rootCurr, rootPend, epoch>>, pc'[t] \notin Evolving
      PROVE  RolledInv'
  BY <1>1, <1>2 DEF RolledInv
<1> USE DEF rootVars, ffiVars, Begin
<1>3. CASE EvolutionStep(t)
  <2>1. CASE GenerateBobKeypair(t) \/ GetKemCipher(t)
    BY <1>0, <1>2, <2>1 DEF GenerateBobKeypair, GetKemCipher
  <2>2. CASE SetPeerPublicKey(t) \/ SetPeerPkHash(t)
    BY <1>0, <1>2, <2>2 DEF SetPeerPublicKey, SetPeerPkHash, Continue, Return
  <2>3. CASE CommitEvolution(t)
    <3>1. NothingPending(Owner[t])
      BY <1>0, <2>3 DEF CommitEvolution, PromotePending, RolledInv
    <3> QED
      BY <1>0, <1>2, <2>3, <3>1 DEF CommitEvolution, NothingPending
  <2>4. ~(StartEvolution(t) \/ StartRefused(t) \/ StartEncapsulate(t)
          \/ StartSetPend(t) \/ StartSetCipher(t))
    BY <1>0 DEF StartEvolution, StartRefused, StartEncapsulate, StartSetPend,
       StartSetCipher
  <2>5. /\ ~(ApplyReadCurr(t) \/ ApplySetPend(t))
        /\ \A ct \in kemWire : ~(ApplyRefused(t, ct) \/ ApplyPeerKem(t, ct))
    BY <1>0 DEF ApplyRefused, ApplyPeerKem, ReceiveKem, ApplyReadCurr,
       ApplySetPend
  <2> QED  BY <1>3, <2>1, <2>2, <2>3, <2>4, <2>5 DEF EvolutionStep
<1>4. CASE CipherStep(t)
  <2>1. CASE DecryptCommit(t)
    <3>1. NothingPending(Owner[t])
      BY <1>0, <2>1 DEF DecryptCommit, PromotePending, RolledInv
    <3> QED
      BY <1>0, <1>2, <2>1, <3>1 DEF DecryptCommit, NothingPending, Return
  <2>2. CASE SendNextSeq(t) \/ SendReadEpoch(t) \/ SendEncrypt(t)
    BY <1>0, <1>2, <2>2 DEF SendNextSeq, SendReadEpoch, SendEncrypt, Continue,
       Return
  <2>3. ASSUME NEW m \in wire, DecryptReadCurr(t, m) PROVE RolledInv'
    BY <1>0, <1>2, <2>3 DEF DecryptReadCurr, Continue
  <2>4. CASE \/ DecryptOpened(t) \/ DecryptSlowPath(t) \/ DecryptFails(t)
             \/ DecryptOpenedByPend(t)
    BY <1>0, <1>2, <2>4 DEF DecryptOpened, DecryptSlowPath, DecryptFails,
       DecryptOpenedByPend, Continue, Return
  <2> QED  BY <1>4, <2>1, <2>2, <2>3, <2>4 DEF CipherStep
<1>5. CASE RecoverStep(t, RecoverTargets(t))
  <2>1. CASE RollUntilTarget(t)
    <3>1. pc'[t] \notin Evolving
      BY <1>0, <2>1 DEF RollUntilTarget, Continue, Return
    <3>2. RollEpochForward(Owner[t])
      BY <2>1 DEF RollUntilTarget
    <3>3. ASSUME NEW p \in Peer
          PROVE  rootPend'[p] = {} /\ rootCurr'[p] = RolledRoot(epoch'[p])
      <4>1. /\ rootPend[p] = {} /\ rootCurr[p] = RolledRoot(epoch[p])
            /\ epoch[p] \in Nat
        BY DEF RolledInv, TypeOK, RootTypeOK
      <4>2. CASE p = Owner[t]
        <5>1. /\ rootCurr'[p] = Derive(rootCurr[p], EpochRoll)
              /\ epoch'[p] = epoch[p] + 1 /\ rootPend' = rootPend
          BY <3>2, <4>2 DEF RollEpochForward, TypeOK, RootTypeOK
        <5> QED  BY <4>1, <5>1, RollsCount
      <4>3. CASE p # Owner[t]
        BY <3>2, <4>1, <4>3 DEF RollEpochForward, TypeOK, RootTypeOK
      <4> QED  BY <4>2, <4>3
    <3> QED  BY <1>1, <3>1, <3>3 DEF RolledInv
  <2>2. ASSUME NEW target \in RecoverTargets(t), RecoverDeclined(t, target)
        PROVE  RolledInv'
    BY <1>0, <1>2, <2>2 DEF RecoverDeclined
  <2>3. ASSUME NEW target \in RecoverTargets(t), RecoverAfterLoss(t, target)
        PROVE  RolledInv'
    BY <1>0, <1>2, <2>3 DEF RecoverAfterLoss, Continue
  <2> QED  BY <1>5, <2>1, <2>2, <2>3 DEF RecoverStep
<1> QED  BY <1>3, <1>4, <1>5 DEF ThreadStep

\* If nobody starts or applies an evolution, two devices in the same epoch hold
\* the same root, whoever rolled or recovered how often and with how many
\* threads at once: what recover_after_loss relies on (anti_dos.rs:9-21).
THEOREM AgreementByRolls ==
  ASSUME NoEvolutions
  PROVE  Spec => []Agreement
<1>1. Init => RolledInv
  <2> SUFFICES ASSUME Init PROVE RolledInv
    OBVIOUS
  <2>1. RolledRoot(0) = << >>
    BY DEF RolledRoot
  <2> QED
    BY <2>1 DEF Init, InitRootState, InitFfi, RolledInv, RootInit
<1>2. TypeOK /\ RolledInv /\ [Next]_vars => RolledInv'
  <2> SUFFICES ASSUME TypeOK, RolledInv, [Next]_vars PROVE RolledInv'
    OBVIOUS
  <2>1. CASE UNCHANGED vars
    BY <2>1 DEF vars, rootVars, ffiVars, RolledInv
  <2> QED  BY <2>1, RolledStep DEF Next
<1>3. RolledInv => Agreement
  BY DEF RolledInv, Agreement
<1> QED  BY <1>1, <1>2, <1>3, TypeCorrect, PTL DEF Spec
============================================================================
