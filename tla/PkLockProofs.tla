---------------------------- MODULE PkLockProofs ----------------------------
(***************************************************************************)
(* The mutex of the peer's public key, and the ciphertext that is made     *)
(* under it, for any number of threads.                                    *)
(***************************************************************************)
EXTENDS SessionProofs

USE DEF Step, EpochRoll, RootInit

\* Everything but set_peer_public_key and start_evolution leaves the mutex,
\* what it guards and the ciphertext alone.
LEMMA OutsidePkLock ==
  ASSUME TypeOK, NEW t \in Thread, ThreadStep(t),
         ~(SetPeerPublicKey(t) \/ SetPeerPkHash(t) \/ StartEncapsulate(t)
              \/ StartSetPend(t) \/ StartSetCipher(t))
  PROVE  /\ UNCHANGED <<pkVars, kemCipher>>
         /\ ~HoldsPkLock(t) /\ ~HoldsPkLock(t)'
<1> USE DEF TypeOK, FfiTypeOK, HoldsPkLock, evoVars, ffiVars, pkVars, Begin
<1>1. CASE EvolutionStep(t) /\ UNCHANGED wire
  <2>1. CASE GenerateBobKeypair(t) \/ GetKemCipher(t) \/ CommitEvolution(t)
    BY <2>1 DEF GenerateBobKeypair, GetKemCipher, CommitEvolution
  <2>2. CASE StartEvolution(t) \/ StartRefused(t)
    BY <2>2 DEF StartEvolution, StartRefused, Continue, Return
  <2>3. CASE \E ct \in kemWire : ApplyRefused(t, ct) \/ ApplyPeerKem(t, ct)
    BY <2>3 DEF ReceiveKem, ApplyRefused, ApplyPeerKem, Continue
  <2>4. CASE ApplyReadCurr(t) \/ ApplySetPend(t)
    BY <2>4 DEF ApplyReadCurr, ApplySetPend, Continue, Return
  <2>5. QED
    BY <1>1, <2>1, <2>2, <2>3, <2>4 DEF EvolutionStep
<1>2. CASE CipherStep(t) /\ UNCHANGED evoVars
  BY <1>2 DEF CipherStep, SendNextSeq, SendReadEpoch, SendEncrypt,
     DecryptReadCurr, DecryptOpened, DecryptSlowPath, DecryptFails,
     DecryptOpenedByPend, DecryptCommit, Continue, Return
<1>3. CASE RecoverStep(t, RecoverTargets(t)) /\ UNCHANGED <<evoVars, wire>>
  BY <1>3 DEF RecoverStep, RecoverDeclined, RecoverAfterLoss, RollUntilTarget,
     Continue, Return
<1>4. QED
  BY <1>1, <1>2, <1>3 DEF ThreadStep

\* The holder of the mutex is unique, and key and hash agree whenever it is
\* free.
THEOREM PkLockInvariant == Spec => []PkLockInv
<1>1. Init => PkLockInv
  BY DEF Init, InitFfi, InitEvolution, PkLockInv, HoldsPkLock, PkSwapped
<1>2. TypeOK /\ PkLockInv /\ [Next]_vars => PkLockInv'
  <2> SUFFICES ASSUME TypeOK, PkLockInv, [Next]_vars
               PROVE  PkLockInv'
    OBVIOUS
  <2>1. CASE UNCHANGED vars
    BY <2>1 DEF vars, ffiVars, evoVars, PkLockInv, HoldsPkLock, PkSwapped
  <2>2. ASSUME NEW t \in Thread, ThreadStep(t)
        PROVE  PkLockInv'
    <3>1. /\ Owner[t] \in Peer
          /\ \A u \in Thread : Owner[u] \in Peer
          /\ \A u \in Thread \ {t} : pc'[u] = pc[u]
      BY <2>2, StepIsLocal, CallersAssumption
    <3> USE <3>1 DEF TypeOK, FfiTypeOK, EvolutionTypeOK, PkLockInv,
                     HoldsPkLock, PkSwapped
    <3>2. CASE SetPeerPublicKey(t)
      <4>0. pkLock[Owner[t]] = {}
        BY <3>2 DEF SetPeerPublicKey
      <4>1. /\ HoldsPkLock(t)' /\ pkLock'[Owner[t]] = {t}
            /\ \A p \in Peer \ {Owner[t]} : pkLock'[p] = pkLock[p]
        BY <3>2 DEF SetPeerPublicKey, Continue
      <4> HIDE DEF TypeOK
      <4>2. \A u \in Thread : Owner[u] = Owner[t] => ~HoldsPkLock(u)
        BY <4>0
      <4>3. \A u \in Thread : HoldsPkLock(u)' => pkLock'[Owner[u]] = {u}
        <5>1. ASSUME NEW u \in Thread \ {t}, HoldsPkLock(u)'
              PROVE  pkLock'[Owner[u]] = {u}
          <6>1. HoldsPkLock(u) /\ pkLock[Owner[u]] = {u}
            BY <5>1
          <6>2. QED
            BY <4>2, <4>1, <6>1
        <5>2. QED
          BY <4>1, <5>1
      <4>4. \A p \in Peer :
               \A u \in pkLock'[p] : Owner[u] = p /\ HoldsPkLock(u)'
        <5>1. ASSUME NEW p \in Peer \ {Owner[t]}, NEW u \in pkLock'[p]
              PROVE  Owner[u] = p /\ HoldsPkLock(u)'
          <6>1. u \in pkLock[p] /\ u \in Thread
            BY <4>1, <5>1 DEF TypeOK
          <6>2. Owner[u] = p /\ HoldsPkLock(u) /\ u # t
            BY <6>1
          <6>3. QED
            BY <6>1, <6>2
        <5>2. QED
          BY <4>1, <5>1
      <4>5. \A p \in Peer :
               PkSwapped(p)' => \E u \in pkLock'[p] : pc'[u] = "set_pk_hash"
        BY <3>2, <4>2, <4>1 DEF SetPeerPublicKey, Continue, TypeOK
      <4>6. QED
        BY <4>3, <4>4, <4>5
    <3>3. CASE SetPeerPkHash(t)
      <4>1. /\ ~HoldsPkLock(t)' /\ HoldsPkLock(t)
            /\ pkLock'[Owner[t]] = {} /\ ~PkSwapped(Owner[t])'
        BY <3>3 DEF SetPeerPkHash, Return
      <4>2. \A p \in Peer \ {Owner[t]} : pkLock'[p] = pkLock[p]
        BY <3>3 DEF SetPeerPkHash
      <4>3. \A p \in Peer \ {Owner[t]} : PkSwapped(p)' => PkSwapped(p)
        BY <3>3 DEF SetPeerPkHash
      <4>4. \A p \in Peer \ {Owner[t]} :
               \A u \in pkLock[p] : u \in Thread /\ pc'[u] = pc[u]
        OBVIOUS
      <4> HIDE DEF TypeOK
      <4>5. \A u \in Thread : HoldsPkLock(u)' =>
               pkLock'[Owner[u]] = {u}
        <5>1. ASSUME NEW u \in Thread, HoldsPkLock(u)'
              PROVE  pkLock'[Owner[u]] = {u}
          <6>1. u # t /\ HoldsPkLock(u) /\ pkLock[Owner[u]] = {u}
            BY <4>1, <5>1
          <6>2. Owner[u] # Owner[t]
            BY <4>1, <6>1
          <6>3. QED
            BY <4>2, <6>1, <6>2
        <5>2. QED
          BY <5>1
      <4>6. \A p \in Peer :
               \A u \in pkLock'[p] : Owner[u] = p /\ HoldsPkLock(u)'
        <5>1. ASSUME NEW p \in Peer \ {Owner[t]}, NEW u \in pkLock[p]
              PROVE  Owner[u] = p /\ HoldsPkLock(u)'
          BY <4>4, <5>1
        <5>2. QED
          BY <4>1, <4>2, <5>1
      <4>7. \A p \in Peer :
               PkSwapped(p)' => \E u \in pkLock'[p] : pc'[u] = "set_pk_hash"
        <5>1. ASSUME NEW p \in Peer \ {Owner[t]}, PkSwapped(p)'
              PROVE  \E u \in pkLock'[p] : pc'[u] = "set_pk_hash"
          <6>1. PICK u \in pkLock[p] : pc[u] = "set_pk_hash"
            BY <4>3, <5>1
          <6>2. QED
            BY <4>2, <4>4, <6>1
        <5>2. QED
          BY <4>1, <5>1
      <4>8. QED
        BY <4>5, <4>6, <4>7
    <3>4. CASE StartEncapsulate(t)
      <4>0. pkLock[Owner[t]] = {}
        BY <3>4 DEF StartEncapsulate
      <4>1. /\ HoldsPkLock(t)' /\ pkLock'[Owner[t]] = {t}
            /\ \A p \in Peer \ {Owner[t]} : pkLock'[p] = pkLock[p]
        BY <3>4 DEF StartEncapsulate, Continue
      <4> HIDE DEF TypeOK
      <4>2. \A u \in Thread : Owner[u] = Owner[t] => ~HoldsPkLock(u)
        BY <4>0
      <4>3. \A u \in Thread : HoldsPkLock(u)' => pkLock'[Owner[u]] = {u}
        <5>1. ASSUME NEW u \in Thread \ {t}, HoldsPkLock(u)'
              PROVE  pkLock'[Owner[u]] = {u}
          <6>1. HoldsPkLock(u) /\ pkLock[Owner[u]] = {u}
            BY <5>1
          <6>2. QED
            BY <4>2, <4>1, <6>1
        <5>2. QED
          BY <4>1, <5>1
      <4>4. \A p \in Peer :
               \A u \in pkLock'[p] : Owner[u] = p /\ HoldsPkLock(u)'
        <5>1. ASSUME NEW p \in Peer \ {Owner[t]}, NEW u \in pkLock'[p]
              PROVE  Owner[u] = p /\ HoldsPkLock(u)'
          <6>1. u \in pkLock[p] /\ u \in Thread
            BY <4>1, <5>1 DEF TypeOK
          <6>2. Owner[u] = p /\ HoldsPkLock(u) /\ u # t
            BY <6>1
          <6>3. QED
            BY <6>1, <6>2
        <5>2. QED
          BY <4>1, <5>1
      <4>5. \A p \in Peer :
               PkSwapped(p)' => \E u \in pkLock'[p] : pc'[u] = "set_pk_hash"
        BY <3>4, <4>2, <4>1 DEF StartEncapsulate, Continue, TypeOK
      <4>6. QED
        BY <4>3, <4>4, <4>5
    <3>5. CASE StartSetPend(t)
      BY <3>5 DEF StartSetPend, Continue, evoVars
    <3>6. CASE StartSetCipher(t)
      BY <3>6 DEF StartSetCipher, Return
    <3>7. CASE ~(SetPeerPublicKey(t) \/ SetPeerPkHash(t)
                   \/ StartEncapsulate(t) \/ StartSetPend(t)
                   \/ StartSetCipher(t))
      <4>1. /\ UNCHANGED <<pkVars, kemCipher>>
            /\ ~HoldsPkLock(t) /\ ~HoldsPkLock(t)'
        BY <2>2, <3>7, OutsidePkLock
      <4> HIDE DEF TypeOK
      <4>2. \A u \in Thread : HoldsPkLock(u)' => HoldsPkLock(u) /\ u # t
        BY <4>1
      <4>3. \A p \in Peer : \A u \in pkLock[p] : u \in Thread \ {t}
        BY <4>1 DEF TypeOK
      <4>4. QED
        BY <4>1, <4>2, <4>3 DEF pkVars
    <3>8. QED
      BY <3>2, <3>3, <3>4, <3>5, <3>6, <3>7
  <2>3. QED
    BY <2>1, <2>2 DEF Next
<1>3. QED
  BY <1>1, <1>2, TypeCorrect, PTL DEF Spec

\* Only start_evolution sets the pending root, where nobody applies a peer's
\* ciphertext.
LEMMA OnlyStartSetsPend ==
  ASSUME TypeOK, NoApply, NEW t \in Thread, ThreadStep(t), ~StartSetPend(t),
         pc[t] \notin {"apply_curr", "apply_pend"}
  PROVE  /\ pc'[t] \notin {"apply_curr", "apply_pend"}
         /\ rootPend'[Owner[t]] \in {rootPend[Owner[t]], {}}
<1> USE CallersAssumption
    DEF TypeOK, RootTypeOK, FfiTypeOK, rootVars, ffiVars, Begin, NoApply
<1>1. CASE EvolutionStep(t) /\ UNCHANGED wire
  <2>1. CASE GenerateBobKeypair(t) \/ GetKemCipher(t)
    BY <2>1 DEF GenerateBobKeypair, GetKemCipher
  <2>2. CASE StartEvolution(t) \/ StartRefused(t) \/ StartEncapsulate(t)
    BY <2>2 DEF StartEvolution, StartRefused, StartEncapsulate, Continue, Return
  <2>3. CASE SetPeerPublicKey(t) \/ SetPeerPkHash(t) \/ StartSetCipher(t)
    BY <2>3 DEF SetPeerPublicKey, SetPeerPkHash, StartSetCipher, Continue,
                Return
  <2>4. CASE CommitEvolution(t)
    BY <2>4 DEF CommitEvolution, PromotePending, NothingPending
  <2>5. QED
    BY <1>1, <2>1, <2>2, <2>3, <2>4 DEF EvolutionStep, ApplyRefused,
       ApplyPeerKem, ReceiveKem, ApplyReadCurr, ApplySetPend
<1>2. CASE CipherStep(t) /\ UNCHANGED evoVars
  BY <1>2 DEF CipherStep, SendNextSeq, SendReadEpoch, SendEncrypt,
     DecryptReadCurr, DecryptOpened, DecryptSlowPath, DecryptFails,
     DecryptOpenedByPend, DecryptCommit, PromotePending, NothingPending,
     Continue, Return
<1>3. CASE RecoverStep(t, RecoverTargets(t)) /\ UNCHANGED <<evoVars, wire>>
  <2>1. CASE \E n \in RecoverTargets(t) :
                RecoverDeclined(t, n) \/ RecoverAfterLoss(t, n)
    BY <2>1 DEF RecoverDeclined, RecoverAfterLoss, Continue
  <2>2. CASE RollUntilTarget(t)
    <3>1. pc'[t] \in {"roll", "idle"}
      BY <2>2 DEF RollUntilTarget, Continue, Return
    <3>2. QED
      BY <2>2, <3>1 DEF RollUntilTarget, RollEpochForward
  <2>3. QED
    BY <1>3, <2>1, <2>2 DEF RecoverStep
<1>4. QED
  BY <1>1, <1>2, <1>3 DEF ThreadStep

\* Two of the three parts of CipherInv survive a step that sets no pending
\* root.
LEMMA CipherInvStep ==
  ASSUME TypeOK, NoApply, CipherInv, NEW t \in Thread, ThreadStep(t),
         ~StartSetPend(t), pc'[t] # "start_cipher",
         \A p \in Peer : (\A u \in pkLock'[p] : pc'[u] # "start_cipher") =>
             \A k \in rootPend[p] : \E ct \in kemCipher'[p] : ct.ss = k[Len(k)]
  PROVE  CipherInv'
<1>1. /\ pc'[t] \notin {"apply_curr", "apply_pend"}
      /\ rootPend'[Owner[t]] \in {rootPend[Owner[t]], {}}
  BY OnlyStartSetsPend DEF CipherInv
<1>2. /\ \A u \in Thread \ {t} : pc'[u] = pc[u] /\ frame'[u] = frame[u]
      /\ \A p \in Peer : \A k \in rootPend'[p] : k \in rootPend[p]
  BY <1>1, StepIsLocal
<1>3. \A u \in Thread : pc'[u] \notin {"apply_curr", "apply_pend"}
  BY <1>1, <1>2 DEF CipherInv
<1>4. \A u \in Thread : pc'[u] = "start_cipher" =>
         \A k \in rootPend'[Owner[u]] : k[Len(k)] = frame'[u].num
  <2> SUFFICES ASSUME NEW u \in Thread \ {t}, pc[u] = "start_cipher",
                      NEW k \in rootPend[Owner[u]]
               PROVE  k[Len(k)] = frame[u].num
    <3>1. \A u \in Thread : pc'[u] = "start_cipher" =>
             u # t /\ pc[u] = "start_cipher" /\ frame'[u] = frame[u]
      BY <1>2
    <3>2. \A u \in Thread : Owner[u] \in Peer
      BY CallersAssumption
    <3>3. QED
      BY <1>2, <3>1, <3>2
  <2>1. QED
    BY DEF CipherInv
<1>5. QED
  BY <1>2, <1>3, <1>4 DEF CipherInv

\* Inside and outside the mutex, the pending root and the ciphertext belong
\* to the same encapsulation.
THEOREM CipherInvariant ==
  ASSUME NoApply
  PROVE  Spec => []CipherInv
<1>1. Init => CipherInv
  BY DEF Init, InitRootState, InitFfi, CipherInv
<1>2. TypeOK /\ PkLockInv /\ CipherInv /\ [Next]_vars => CipherInv'
  <2> SUFFICES ASSUME TypeOK, PkLockInv, CipherInv, [Next]_vars
               PROVE  CipherInv'
    OBVIOUS
  <2>1. CASE UNCHANGED vars
    BY <2>1 DEF vars, ffiVars, rootVars, evoVars, CipherInv
  <2>2. ASSUME NEW t \in Thread, ThreadStep(t)
        PROVE  CipherInv'
    <3>1. /\ Owner[t] \in Peer
          /\ \A u \in Thread : Owner[u] \in Peer
          /\ \A u \in Thread \ {t} : pc'[u] = pc[u] /\ frame'[u] = frame[u]
          /\ \A q \in Peer \ {Owner[t]} : rootPend'[q] = rootPend[q]
      BY <2>2, StepIsLocal, CallersAssumption
    <3>0. \A p \in Peer \ {Owner[t]} :
             \A u \in pkLock[p] : u \in Thread \ {t}
      BY DEF PkLockInv, TypeOK, EvolutionTypeOK
    <3>2. CASE StartSetPend(t)
      <4> DEFINE key == Append(frame[t].root, frame[t].num)
      <4>1. key[Len(key)] = frame[t].num
        BY DEF TypeOK, FfiTypeOK, Frame, RootKey
      <4>2. /\ rootPend'[Owner[t]] = {key} /\ pc'[t] = "start_cipher"
            /\ frame'[t] = frame[t] /\ UNCHANGED <<pkLock, kemCipher>>
        <5>1. rootPend'[Owner[t]] = {key}
          <6>1. rootPend' = [rootPend EXCEPT ![Owner[t]] = {key}]
            BY <3>2 DEF StartSetPend, SetRootStatePend, Derive
          <6>2. QED
            BY <3>1, <6>1 DEF TypeOK, RootTypeOK
        <5>2. pc'[t] = "start_cipher" /\ frame'[t] = frame[t]
          BY <3>2 DEF StartSetPend, Continue, TypeOK, FfiTypeOK
        <5>3. UNCHANGED <<pkLock, kemCipher>>
          BY <3>2 DEF StartSetPend, evoVars
        <5>4. QED
          BY <5>1, <5>2, <5>3
      <4>3. pkLock[Owner[t]] = {t}
        BY <3>2 DEF StartSetPend, PkLockInv, HoldsPkLock
      <4>4. \A u \in Thread \ {t} : Owner[u] = Owner[t] => pc[u] # "start_cipher"
        BY <4>3 DEF PkLockInv, HoldsPkLock
      <4> HIDE DEF key
      <4>5. \A u \in Thread : pc'[u] \notin {"apply_curr", "apply_pend"}
        BY <3>1, <4>2 DEF CipherInv
      <4>6. \A u \in Thread : pc'[u] = "start_cipher" =>
               \A k \in rootPend'[Owner[u]] : k[Len(k)] = frame'[u].num
        <5>1. ASSUME NEW u \in Thread \ {t}, pc'[u] = "start_cipher"
              PROVE  \A k \in rootPend'[Owner[u]] : k[Len(k)] = frame'[u].num
          <6>1. Owner[u] \in Peer \ {Owner[t]} /\ pc[u] = "start_cipher"
            BY <3>1, <4>4, <5>1
          <6>2. QED
            BY <3>1, <6>1 DEF CipherInv
        <5>2. QED
          BY <4>1, <4>2, <5>1
      <4>7. \A p \in Peer :
               (\A u \in pkLock'[p] : pc'[u] # "start_cipher") =>
                   \A k \in rootPend'[p] :
                       \E ct \in kemCipher'[p] : ct.ss = k[Len(k)]
        <5> SUFFICES ASSUME NEW p \in Peer \ {Owner[t]},
                            \A u \in pkLock'[p] : pc'[u] # "start_cipher"
                     PROVE  \A k \in rootPend'[p] :
                               \E ct \in kemCipher'[p] : ct.ss = k[Len(k)]
          BY <4>2, <4>3
        <5>1. \A u \in pkLock[p] : u \in Thread \ {t}
          BY DEF PkLockInv, TypeOK, EvolutionTypeOK
        <5>2. \A u \in pkLock[p] : pc[u] # "start_cipher"
          BY <3>1, <4>2, <5>1
        <5>3. QED
          BY <3>1, <4>2, <5>2 DEF CipherInv
      <4>8. QED
        BY <4>5, <4>6, <4>7 DEF CipherInv
    <3>3. CASE StartSetCipher(t)
      <4>1. /\ \A k \in rootPend[Owner[t]] : k[Len(k)] = frame[t].num
            /\ pkLock[Owner[t]] = {t}
        BY <3>3 DEF StartSetCipher, CipherInv, PkLockInv, HoldsPkLock
      <4>2. /\ pc'[t] = "idle" /\ UNCHANGED rootPend
            /\ \A p \in Peer \ {Owner[t]} : /\ pkLock'[p] = pkLock[p]
                                            /\ kemCipher'[p] = kemCipher[p]
            /\ \E ct \in kemCipher'[Owner[t]] : ct.ss = frame[t].num
        <5>1. PICK pk \in peerPk[Owner[t]] :
                 kemCipher' = [kemCipher EXCEPT
                     ![Owner[t]] = {[to |-> pk, ss |-> frame[t].num]}]
          BY <3>3 DEF StartSetCipher
        <5>2. kemCipher'[Owner[t]] = {[to |-> pk, ss |-> frame[t].num]}
          BY <3>1, <5>1 DEF TypeOK, EvolutionTypeOK
        <5>3. QED
          BY <3>1, <3>3, <5>1, <5>2 DEF StartSetCipher, Return, rootVars,
             TypeOK, FfiTypeOK, EvolutionTypeOK
      <4>3. \A p \in Peer : (\A u \in pkLock'[p] : pc'[u] # "start_cipher") =>
               \A k \in rootPend[p] :
                   \E ct \in kemCipher'[p] : ct.ss = k[Len(k)]
        <5>1. \A k \in rootPend[Owner[t]] :
                 \E ct \in kemCipher'[Owner[t]] : ct.ss = k[Len(k)]
          BY <4>1, <4>2
        <5>2. ASSUME NEW p \in Peer \ {Owner[t]},
                     \A u \in pkLock'[p] : pc'[u] # "start_cipher"
              PROVE  \A k \in rootPend[p] :
                        \E ct \in kemCipher'[p] : ct.ss = k[Len(k)]
          <6>1. \A u \in pkLock[p] : u \in Thread \ {t}
            BY DEF PkLockInv, TypeOK, EvolutionTypeOK
          <6>2. \A u \in pkLock[p] : pc[u] # "start_cipher"
            BY <3>1, <4>2, <5>2, <6>1
          <6>3. QED
            BY <4>2, <6>2 DEF CipherInv
        <5>3. QED
          BY <5>1, <5>2
      <4>4. QED
        BY <2>2, <3>3, <4>2, <4>3, CipherInvStep
           DEF StartSetCipher, StartSetPend
    <3>4. CASE \/ SetPeerPublicKey(t) \/ SetPeerPkHash(t)
               \/ StartEncapsulate(t)
      <4>1. /\ pc[t] \notin {"start_cipher", "start_pend"}
            /\ pc'[t] # "start_cipher"
            /\ UNCHANGED kemCipher
            /\ \A p \in Peer \ {Owner[t]} : pkLock'[p] = pkLock[p]
            /\ pkLock[Owner[t]] \subseteq {t}
        BY <3>1, <3>4 DEF SetPeerPublicKey, SetPeerPkHash, StartEncapsulate,
             Begin, Continue, Return, TypeOK, FfiTypeOK,
             EvolutionTypeOK, PkLockInv, HoldsPkLock
      <4>2. \A p \in Peer : (\A u \in pkLock'[p] : pc'[u] # "start_cipher") =>
               \A k \in rootPend[p] :
                   \E ct \in kemCipher'[p] : ct.ss = k[Len(k)]
        BY <3>0, <3>1, <4>1 DEF CipherInv
      <4>3. QED
        BY <2>2, <4>1, <4>2, CipherInvStep DEF StartSetPend
    <3>5. CASE ~(SetPeerPublicKey(t) \/ SetPeerPkHash(t)
                   \/ StartEncapsulate(t) \/ StartSetPend(t)
                   \/ StartSetCipher(t))
      <4>1. /\ UNCHANGED <<pkLock, kemCipher>>
            /\ pc[t] # "start_cipher" /\ pc'[t] # "start_cipher"
        BY <2>2, <3>5, OutsidePkLock DEF pkVars, HoldsPkLock
      <4>2. \A p \in Peer : (\A u \in pkLock'[p] : pc'[u] # "start_cipher") =>
               \A k \in rootPend[p] :
                   \E ct \in kemCipher'[p] : ct.ss = k[Len(k)]
        <5>1. \A u \in Thread : pc'[u] = "start_cipher" <=> pc[u] = "start_cipher"
          BY <3>1, <4>1
        <5>2. QED
          BY <4>1, <5>1 DEF CipherInv, TypeOK, EvolutionTypeOK
      <4>3. QED
        BY <2>2, <3>5, <4>1, <4>2, CipherInvStep
    <3>6. QED
      BY <3>2, <3>3, <3>4, <3>5
  <2>3. QED
    BY <2>1, <2>2 DEF Next
<1>3. QED
  BY <1>1, <1>2, PkLockInvariant, TypeCorrect, PTL DEF Spec

\* Whenever the mutex is free, the ciphertext get_kem_cipher hands out and the
\* pending root come from the same start_evolution, for any number of threads
\* that start evolutions, commit, roll and decrypt on the device.
THEOREM CipherMatchesPendHolds ==
  ASSUME NoApply
  PROVE  Spec => []CipherMatchesPend
<1>1. CipherInv => CipherMatchesPend
  BY DEF CipherInv, CipherMatchesPend
<1>2. QED
  BY <1>1, CipherInvariant, PTL
============================================================================
