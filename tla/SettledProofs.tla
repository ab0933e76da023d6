--------------------------- MODULE SettledProofs ---------------------------
(***************************************************************************)
(* Evolutions one at a time (EvolutionsSettle): the devices stay in step,  *)
(* for any number of threads on the device that follows.                   *)
(***************************************************************************)
EXTENDS SessionProofs

\* The lists of derivation steps differ when their last steps do.
LEMMA DeriveInjective ==
  ASSUME NEW k \in RootKey, NEW x \in Int, NEW y \in Int,
         Derive(k, x) = Derive(k, y)
  PROVE  x = y
<1>1. Derive(k, x)[Len(k) + 1] = x /\ Derive(k, y)[Len(k) + 1] = y
  BY DEF Derive, RootKey, Step
<1>2. QED
  BY <1>1

\* There is at most one follower.
LEMMA OneFollower ==
  ASSUME NEW p \in Follower, NEW q \in Follower
  PROVE  p = q
  BY PairAssumption DEF Follower

\* Under the discipline a thread takes these steps and no other.
LEMMA SettledSteps ==
  ASSUME EvolutionsSettle, InStepInv, NEW t \in Thread, ThreadStep(t)
  PROVE  \/ /\ \/ /\ Owner[t] # Bob
                  /\ \/ StartEvolution(t) \/ StartRefused(t)
                     \/ StartEncapsulate(t) \/ StartSetPend(t)
                     \/ StartSetCipher(t)
               \/ GetKemCipher(t)
               \/ /\ Owner[t] = Bob
                  /\ \/ \E ct \in kemWire :
                           ApplyRefused(t, ct) \/ ApplyPeerKem(t, ct)
                     \/ ApplyReadCurr(t) \/ ApplySetPend(t)
                     \/ CommitEvolution(t)
            /\ UNCHANGED wire
         \/ CipherStep(t) /\ UNCHANGED evoVars
<1>1. /\ {"recover", "roll_to", "keypair", "set_pk"} \cap Calls[t] = {}
      /\ Owner[t] = Bob => "start" \notin Calls[t]
      /\ Owner[t] # Bob => "apply" \notin Calls[t] /\ "commit" \notin Calls[t]
  BY DEF EvolutionsSettle
<1>2. /\ pc[t] \notin {"roll", "set_pk_hash"}
      /\ Owner[t] = Bob => pc[t] \notin Starting
      /\ Owner[t] # Bob => pc[t] \notin Applying
  BY DEF InStepInv, SettledThread, AnyThread, BobThread, FollowerThread
<1>3. ~RecoverStep(t, RecoverTargets(t))
  BY <1>1, <1>2 DEF RecoverStep, RecoverTargets, RollUntilTarget
<1>4. CASE EvolutionStep(t) /\ UNCHANGED wire
  <2>1. ~(GenerateBobKeypair(t) \/ SetPeerPublicKey(t) \/ SetPeerPkHash(t))
    BY <1>1, <1>2 DEF GenerateBobKeypair, SetPeerPublicKey, SetPeerPkHash, Begin
  <2>2. StartEvolution(t) \/ StartRefused(t) \/ StartEncapsulate(t)
           \/ StartSetPend(t) \/ StartSetCipher(t) => Owner[t] # Bob
    BY <1>1, <1>2 DEF StartEvolution, StartRefused, StartEncapsulate,
       StartSetPend, StartSetCipher, Begin, Starting
  <2>3. ASSUME NEW ct \in kemWire,
               ApplyRefused(t, ct) \/ ApplyPeerKem(t, ct)
        PROVE  Owner[t] = Bob
    BY <1>1, <2>3 DEF ApplyRefused, ApplyPeerKem, ReceiveKem, Begin
  <2>4. ApplyReadCurr(t) \/ ApplySetPend(t) \/ CommitEvolution(t)
           => Owner[t] = Bob
    BY <1>1, <1>2 DEF ApplyReadCurr, ApplySetPend, CommitEvolution, Begin,
       Applying
  <2>5. QED
    BY <1>4, <2>1, <2>2, <2>3, <2>4 DEF EvolutionStep
<1>5. QED
  BY <1>3, <1>4 DEF ThreadStep

----------------------------------------------------------------------------
(* Steps that take no part in an evolution.                                *)

\* What holds of any thread still holds of one that does not move.
LEMMA AnyThreadKept ==
  ASSUME NEW u \in Thread, AnyThread(u), UNCHANGED <<epoch, wire>>,
         pc'[u] = pc[u], frame'[u] = frame[u]
  PROVE  AnyThread(u)'
  BY DEF AnyThread

\* A step that changes no root, no epoch and no open offer, and by which the
\* thread enters no new stage of an evolution.
LEMMA NeutralStep ==
  ASSUME TypeOK, InStepInv, NEW t \in Thread, ThreadStep(t),
         UNCHANGED <<rootCurr, rootPend, epoch>>,
         \A p \in Follower : Unapplied(p)' = Unapplied(p),
         WireKnows', OneKeypair', SettledThread(t)',
         pc'[t] \in Starting => pc[t] \in Starting,
         pc'[t] \in Applying => pc[t] \in Applying,
         pc'[t] \in Committing => pc[t] \in Committing
  PROVE  InStepInv'
<1>1. /\ wire \subseteq wire'
      /\ \A u \in Thread \ {t} : pc'[u] = pc[u] /\ frame'[u] = frame[u]
  BY StepIsLocal
<1>2. \A u \in Thread :
         /\ pc'[u] \in Starting => pc[u] \in Starting
         /\ pc'[u] \in Applying => pc[u] \in Applying
         /\ pc'[u] \in Committing => pc[u] \in Committing
  BY <1>1
<1>3. \A p \in Follower :
         /\ Level(p)' <=> Level(p)
         /\ \A x : Offers(p, x)' <=> Offers(p, x)
         /\ BobAtRest(p) => BobAtRest(p)'
         /\ Behind(p) => Behind(p)'
  BY <1>2 DEF Level, Offers, BobAtRest, Behind
<1>4. \A p \in Follower : EvolutionPhase(p)'
  BY <1>3 DEF InStepInv, EvolutionPhase
<1>5. ASSUME NEW u \in Thread \ {t} PROVE SettledThread(u)'
  <2>1. SettledThread(u)
    BY DEF InStepInv
  <2>2. AnyThread(u)'
    BY <1>1, <2>1 DEF SettledThread, AnyThread
  <2>3. CASE Owner[u] = Bob
    BY <1>1, <1>3, <2>1, <2>2, <2>3 DEF SettledThread, BobThread
  <2>4. CASE Owner[u] # Bob
    <3>1. Owner[u] \in Follower
      BY <2>4, CallersAssumption DEF Follower
    <3>2. FollowerThread(u)'
      BY <1>1, <1>2, <1>3, <2>1, <2>4, <3>1
         DEF SettledThread, FollowerThread, Level, Offers
    <3>3. QED
      BY <2>2, <2>4, <3>2 DEF SettledThread
  <2>5. QED
    BY <2>3, <2>4
<1>6. QED
  BY <1>4, <1>5 DEF InStepInv

----------------------------------------------------------------------------
(* The steps of an evolution, in their order.                              *)

\* A follower with nothing pending has no evolution under way.
LEMMA NothingOffered ==
  ASSUME InStepInv, NEW p \in Follower, rootPend[p] = {}
  PROVE  Level(p) /\ BobAtRest(p)
<1>1. EvolutionPhase(p)
  BY DEF InStepInv
<1>2. Level(p)
  BY <1>1 DEF EvolutionPhase, Behind
<1>3. rootPend[Bob] = {} /\ Unapplied(p) = {}
  BY <1>1 DEF EvolutionPhase, Offers
<1>4. ASSUME NEW t \in Thread, Owner[t] = Bob, pc[t] \in Applying
      PROVE  FALSE
  BY <1>4 DEF InStepInv, SettledThread, BobThread, Offers
<1>5. QED
  BY <1>2, <1>3, <1>4 DEF BobAtRest

\* start_evolution begins: nothing is pending and no other call is in flight.
LEMMA StartSettled ==
  ASSUME TypeOK, EvolutionsSettle, InStepInv, NEW t \in Thread,
         ThreadStep(t), Owner[t] \in Follower, StartEvolution(t),
         UNCHANGED wire
  PROVE  InStepInv'
<1> DEFINE p == Owner[t]
<1>1. /\ rootPend[p] = {} /\ Alone(t) /\ pc'[t] = "start_pk"
      /\ frame'[t].root = rootCurr[p] /\ frame'[t].msg = {}
      /\ UNCHANGED <<rootVars, evoVars>>
  BY DEF StartEvolution, EvolutionsSettle, Continue, TypeOK, FfiTypeOK, NoFrame
<1>2. Level(p) /\ BobAtRest(p)
  BY <1>1, NothingOffered
<1>3. \A u \in Thread \ {t} : pc'[u] = pc[u] /\ frame'[u] = frame[u]
  BY StepIsLocal
<1>4. /\ \A q \in Follower : q = p
      /\ p # Bob /\ \A u \in Thread : Owner[u] # Bob => Owner[u] = p
  BY OneFollower, CallersAssumption DEF Follower
<1>5. /\ Level(p)' /\ BobAtRest(p)' /\ Unapplied(p)' = Unapplied(p)
      /\ rootPend' = rootPend
  BY <1>1, <1>2, <1>3, <1>4
     DEF Level, BobAtRest, Unapplied, rootVars, evoVars
<1>6. EvolutionPhase(p)'
  BY <1>5 DEF EvolutionPhase, BobAtRest
<1>7. SettledThread(t)'
  <2>1. AnyThread(t)'
    BY <1>1 DEF AnyThread
  <2>2. \A u \in Thread \ {t} : Owner[u] = p => pc'[u] = "idle"
    BY <1>1, <1>3 DEF Alone
  <2>3. FollowerThread(t)'
    BY <1>1, <1>5, <2>2
       DEF FollowerThread, Starting, Applying, Committing, rootVars
  <2>4. QED
    BY <1>4, <2>1, <2>3 DEF SettledThread
<1>8. ASSUME NEW u \in Thread \ {t} PROVE SettledThread(u)'
  <2>1. SettledThread(u) /\ AnyThread(u)'
    BY <1>1, <1>3 DEF InStepInv, SettledThread, AnyThread, rootVars
  <2>2. CASE Owner[u] = Bob
    <3>1. pc[u] \notin Applying
      BY <1>2, <2>2 DEF BobAtRest
    <3>2. QED
      BY <1>1, <1>3, <2>1, <2>2, <3>1
         DEF SettledThread, BobThread, rootVars, Applying
  <2>3. CASE Owner[u] # Bob
    <3>1. pc'[u] = "idle"
      BY <1>1, <1>3, <1>4, <2>3 DEF Alone
    <3>2. QED
      BY <2>1, <2>3, <3>1
         DEF SettledThread, FollowerThread, Starting, Applying, Committing
  <2>4. QED
    BY <2>2, <2>3
<1>9. WireKnows' /\ OneKeypair'
  BY <1>1 DEF InStepInv, WireKnows, OneKeypair, rootVars, evoVars
<1>10. QED
  BY <1>4, <1>6, <1>7, <1>8, <1>9 DEF InStepInv

\* RootState_pend is set: Bob has not heard of it yet.
LEMMA StartPendSettled ==
  ASSUME TypeOK, InStepInv, NEW t \in Thread, ThreadStep(t),
         Owner[t] \in Follower, StartSetPend(t), UNCHANGED wire
  PROVE  InStepInv'
<1> DEFINE p == Owner[t]
<1>0. p \in Peer /\ p # Bob /\ Bob \in Peer
  BY PairAssumption DEF Follower
<1>1. /\ pc[t] = "start_pend" /\ pc'[t] = "start_cipher"
      /\ frame' = frame
      /\ rootPend' = [rootPend EXCEPT ![p] = {Derive(frame[t].root, frame[t].num)}]
      /\ UNCHANGED <<rootCurr, epoch, evoVars>>
  BY DEF StartSetPend, SetRootStatePend, Continue, TypeOK, FfiTypeOK
<1>2. /\ SettledThread(t) /\ FollowerThread(t)
      /\ BobAtRest(p) /\ frame[t].root = rootCurr[p]
      /\ \A u \in Thread \ {t} : Owner[u] = p =>
             pc[u] \notin Starting \cup Committing
  BY <1>0, <1>1 DEF InStepInv, SettledThread, FollowerThread, Starting
<1>3. \A u \in Thread \ {t} : pc'[u] = pc[u]
  BY StepIsLocal
<1>4. /\ \A q \in Follower : q = p
      /\ \A u \in Thread : Owner[u] # Bob => Owner[u] = p
  BY OneFollower, CallersAssumption DEF Follower
<1>5. Level(p)
  BY <1>1 DEF InStepInv, EvolutionPhase, Behind, Starting
<1>6. /\ rootPend'[p] = {Derive(rootCurr[p], frame[t].num)}
      /\ rootPend'[Bob] = rootPend[Bob]
  BY <1>0, <1>1, <1>2 DEF TypeOK, RootTypeOK
<1>7. Level(p)' /\ BobAtRest(p)' /\ Offers(p, frame[t].num)'
  BY <1>0, <1>1, <1>2, <1>3, <1>5, <1>6
     DEF Level, BobAtRest, Unapplied, Offers, evoVars
<1>8. EvolutionPhase(p)'
  BY <1>7 DEF EvolutionPhase, BobAtRest
<1>9. SettledThread(t)'
  <2>1. AnyThread(t)'
    BY <1>1, <1>2 DEF SettledThread, AnyThread
  <2>2. FollowerThread(t)'
    BY <1>1, <1>2, <1>3, <1>7
       DEF FollowerThread, Starting, Applying, Committing
  <2>3. QED
    BY <1>0, <2>1, <2>2 DEF SettledThread
<1>10. ASSUME NEW u \in Thread \ {t} PROVE SettledThread(u)'
  <2>1. SettledThread(u) /\ AnyThread(u)'
    BY <1>1, <1>3 DEF InStepInv, SettledThread, AnyThread
  <2>2. CASE Owner[u] = Bob
    BY <1>1, <1>2, <1>3, <2>1, <2>2
       DEF SettledThread, BobThread, BobAtRest, Applying
  <2>3. CASE Owner[u] # Bob
    BY <1>2, <1>3, <1>4, <2>1, <2>3 DEF SettledThread, FollowerThread
  <2>4. QED
    BY <2>2, <2>3
<1>11. WireKnows' /\ OneKeypair'
  <2>1. WireKnows'
    BY <1>1 DEF InStepInv, WireKnows
  <2>2. OneKeypair'
    BY <1>1 DEF InStepInv, OneKeypair, evoVars
  <2>3. QED
    BY <2>1, <2>2
<1>12. QED
  BY <1>4, <1>8, <1>9, <1>10, <1>11 DEF InStepInv

\* The ciphertext becomes available: the offer.
LEMMA StartCipherSettled ==
  ASSUME TypeOK, InStepInv, NEW t \in Thread, ThreadStep(t),
         Owner[t] \in Follower, StartSetCipher(t), UNCHANGED wire
  PROVE  InStepInv'
<1> PICK secret : secret = frame[t].num
  OBVIOUS
<1> DEFINE p == Owner[t]
           ct == [to |-> 1, ss |-> secret]
<1>0. p \in Peer /\ p # Bob /\ Bob \in Peer
  BY PairAssumption DEF Follower
<1>1. /\ pc[t] = "start_cipher" /\ pc'[t] = "idle" /\ frame'[t].msg = {}
      /\ kemCipher' = [kemCipher EXCEPT ![p] = {ct}]
      /\ UNCHANGED <<rootVars, ownKey, peerPk, kemWire, applied>>
  <2>1. peerPk[p] = {1}
    BY DEF InStepInv, OneKeypair
  <2>2. QED
    BY <2>1 DEF StartSetCipher, Return, NoFrame, TypeOK, FfiTypeOK, wireVars
<1>2. /\ SettledThread(t) /\ BobAtRest(p) /\ Offers(p, secret)
      /\ \A u \in Thread \ {t} : Owner[u] = p =>
             pc[u] \notin Starting \cup Committing
  BY <1>0, <1>1 DEF InStepInv, SettledThread, FollowerThread, Starting
<1>3. \A u \in Thread \ {t} : pc'[u] = pc[u] /\ frame'[u] = frame[u]
  BY StepIsLocal
<1>4. /\ \A q \in Follower : q = p
      /\ \A u \in Thread : Owner[u] # Bob => Owner[u] = p
  BY OneFollower, CallersAssumption DEF Follower
<1>5. /\ kemCipher'[p] = {ct}
      /\ \A q \in Peer \ {p} : kemCipher'[q] = kemCipher[q]
  BY <1>0, <1>1 DEF TypeOK, EvolutionTypeOK
<1>6. Offers(p, secret)' /\ rootPend'[Bob] = {}
  BY <1>1, <1>2 DEF Offers, Level, BobAtRest, rootVars
<1>7. EvolutionPhase(p)'
  <2>1. Unapplied(p)' \subseteq {ct}
    BY <1>1, <1>2, <1>5 DEF BobAtRest, Unapplied
  <2>2. \A c \in Unapplied(p)' : Offers(p, c.ss)'
    BY <1>6, <2>1
  <2>3. Level(p)' /\ rootPend'[Bob] = {}
    BY <1>6 DEF Offers
  <2>4. QED
    BY <2>2, <2>3 DEF EvolutionPhase
<1>8. SettledThread(t)'
  <2>1. AnyThread(t)'
    BY <1>1 DEF AnyThread
  <2>2. FollowerThread(t)'
    BY <1>1 DEF FollowerThread, Starting, Applying, Committing
  <2>3. QED
    BY <1>0, <2>1, <2>2 DEF SettledThread
<1>9. ASSUME NEW u \in Thread \ {t} PROVE SettledThread(u)'
  <2>1. SettledThread(u) /\ AnyThread(u)'
    <3>1. UNCHANGED epoch
      BY <1>1 DEF rootVars
    <3>2. QED
      BY <1>3, <3>1 DEF InStepInv, SettledThread, AnyThread
  <2>2. CASE Owner[u] = Bob
    BY <1>1, <1>2, <1>3, <2>1, <2>2
       DEF SettledThread, BobThread, BobAtRest, Applying, rootVars
  <2>3. CASE Owner[u] # Bob
    BY <1>2, <1>3, <1>4, <2>1, <2>3 DEF SettledThread, FollowerThread
  <2>4. QED
    BY <2>2, <2>3
<1>10. WireKnows'
  BY <1>1 DEF InStepInv, WireKnows, rootVars
<1>11. OneKeypair'
  <2>1. OneKeypair
    BY DEF InStepInv
  <2>2. ct.to = 1
    OBVIOUS
  <2> HIDE DEF ct
  <2>3. QED
    BY <1>0, <1>1, <1>5, <2>1, <2>2 DEF OneKeypair
<1>12. QED
  BY <1>4, <1>7, <1>8, <1>9, <1>10, <1>11 DEF InStepInv

\* apply_peer_kem takes the offer: there is one, and it is the peer's.
LEMMA ApplySettled ==
  ASSUME TypeOK, EvolutionsSettle, InStepInv, NEW t \in Thread,
         ThreadStep(t), Owner[t] = Bob, NEW ct \in kemWire,
         ApplyPeerKem(t, ct), UNCHANGED wire
  PROVE  InStepInv'
<1>0. ct \in KemCipher /\ ct.to = 1 /\ Bob \in Peer
  BY PairAssumption DEF InStepInv, OneKeypair, TypeOK, EvolutionTypeOK
<1>1. /\ ct \notin applied[Bob]
      /\ applied' = [applied EXCEPT ![Bob] = @ \cup {ct}]
      /\ pc'[t] = "apply_curr" /\ frame'[t].msg = {}
      /\ frame'[t].num = Decapsulate(ct, ownKey[Bob])
      /\ UNCHANGED <<rootVars, ownKey, peerPk, kemCipher, kemWire>>
  BY DEF ApplyPeerKem, ReceiveKem, EvolutionsSettle, Continue, NoFrame,
         TypeOK, FfiTypeOK, pkVars
<1>2. frame'[t].num = ct.ss
  BY <1>0, <1>1 DEF Decapsulate, InStepInv, OneKeypair
<1>3. \A u \in Thread \ {t} :
         Owner[u] # Bob /\ pc'[u] = pc[u] /\ frame'[u] = frame[u]
  BY StepIsLocal DEF EvolutionsSettle
<1>4. applied'[Bob] = applied[Bob] \cup {ct}
  BY <1>0, <1>1 DEF TypeOK, EvolutionTypeOK
<1>5. ASSUME NEW p \in Follower
      PROVE  /\ Offers(p, ct.ss)' /\ Unapplied(p)' = {}
             /\ ~BobAtRest(p) /\ rootPend'[Bob] = {}
  <2>1. ct \in Unapplied(p) /\ p \in Peer
    BY <1>1 DEF Unapplied, Follower
  <2>2. \A c \in Unapplied(p) : Offers(p, c.ss) /\ rootPend[Bob] = {}
    BY DEF InStepInv, EvolutionPhase
  <2>3. ASSUME NEW c \in Unapplied(p)
        PROVE  c = ct
    <3>1. c \in KemCipher /\ c.to = 1
      BY <2>1 DEF Unapplied, InStepInv, OneKeypair, TypeOK, EvolutionTypeOK
    <3>2. Derive(rootCurr[p], c.ss) = Derive(rootCurr[p], ct.ss)
      BY <2>1, <2>2 DEF Offers
    <3>3. c.ss = ct.ss
      BY <1>0, <2>1, <3>1, <3>2, DeriveInjective
         DEF KemCipher, TypeOK, RootTypeOK
    <3>4. QED
      BY <1>0, <3>1, <3>3 DEF KemCipher
  <2>4. Unapplied(p)' = {}
    BY <1>1, <1>4, <2>3 DEF Unapplied
  <2>5. QED
    BY <1>1, <2>1, <2>2, <2>4 DEF Offers, Level, BobAtRest, rootVars
<1>6. \A p \in Follower : EvolutionPhase(p)'
  BY <1>5 DEF EvolutionPhase, Offers
<1>7. SettledThread(t)'
  BY <1>1, <1>2, <1>5 DEF SettledThread, AnyThread, BobThread, Starting,
     Applying, Committing
<1>8. ASSUME NEW u \in Thread \ {t} PROVE SettledThread(u)'
  <2>1. SettledThread(u) /\ AnyThread(u)' /\ Owner[u] \in Follower
    <3>1. SettledThread(u) /\ AnyThread(u) /\ Owner[u] \in Follower
      BY <1>3, CallersAssumption DEF InStepInv, SettledThread, Follower
    <3>2. UNCHANGED <<epoch, wire>>
      BY <1>1 DEF rootVars
    <3>3. QED
      BY <1>3, <3>1, <3>2, AnyThreadKept
  <2>2. QED
    BY <1>3, <1>5, <2>1 DEF SettledThread, FollowerThread
<1>9. WireKnows' /\ OneKeypair'
  <2>1. WireKnows'
    BY <1>1 DEF InStepInv, WireKnows, rootVars
  <2>2. OneKeypair'
    BY <1>1 DEF InStepInv, OneKeypair
  <2>3. QED
    BY <2>1, <2>2
<1>10. QED
  BY <1>6, <1>7, <1>8, <1>9 DEF InStepInv

\* ... and derives the root the peer has pending.
LEMMA ApplyPendSettled ==
  ASSUME TypeOK, EvolutionsSettle, InStepInv, NEW t \in Thread,
         ThreadStep(t), Owner[t] = Bob, ApplySetPend(t), UNCHANGED wire
  PROVE  InStepInv'
<1>0. Bob \in Peer
  BY PairAssumption
<1>1. /\ pc[t] = "apply_pend" /\ pc'[t] = "idle" /\ frame'[t].msg = {}
      /\ rootPend' = [rootPend EXCEPT
                          ![Bob] = {Derive(frame[t].root, frame[t].num)}]
      /\ UNCHANGED <<rootCurr, epoch, evoVars>>
  BY DEF ApplySetPend, SetRootStatePend, Return, NoFrame, TypeOK, FfiTypeOK
<1>2. /\ SettledThread(t) /\ frame[t].root = rootCurr[Bob]
      /\ \A p \in Follower : Offers(p, frame[t].num) /\ Unapplied(p) = {}
  BY <1>1 DEF InStepInv, SettledThread, BobThread, Applying
<1>3. \A u \in Thread \ {t} :
         Owner[u] # Bob /\ pc'[u] = pc[u] /\ frame'[u] = frame[u]
  BY StepIsLocal DEF EvolutionsSettle
<1>4. rootPend'[Bob] = {Derive(rootCurr[Bob], frame[t].num)}
  BY <1>0, <1>1, <1>2 DEF TypeOK, RootTypeOK
<1>5. ASSUME NEW p \in Follower
      PROVE  EvolutionPhase(p)' /\ ~BobAtRest(p)
  <2>1. p \in Peer \ {Bob} /\ rootPend'[p] = rootPend[p]
    BY <1>1 DEF Follower, TypeOK, RootTypeOK
  <2>2. Level(p)' /\ rootPend'[p] = rootPend'[Bob] /\ Unapplied(p)' = {}
    BY <1>1, <1>2, <1>4, <2>1 DEF Offers, Level, Unapplied, evoVars
  <2>3. ~BobAtRest(p)
    BY <1>1 DEF BobAtRest, Applying
  <2>4. QED
    BY <1>4, <2>2, <2>3 DEF EvolutionPhase
<1>6. SettledThread(t)'
  BY <1>1 DEF SettledThread, AnyThread, BobThread, Starting, Applying,
     Committing
<1>7. ASSUME NEW u \in Thread \ {t} PROVE SettledThread(u)'
  <2>1. SettledThread(u) /\ AnyThread(u)' /\ Owner[u] \in Follower
    <3>1. SettledThread(u) /\ AnyThread(u) /\ Owner[u] \in Follower
      BY <1>3, CallersAssumption DEF InStepInv, SettledThread, Follower
    <3>2. QED
      BY <1>1, <1>3, <3>1, AnyThreadKept
  <2>2. QED
    BY <1>3, <1>5, <2>1 DEF SettledThread, FollowerThread
<1>8. WireKnows' /\ OneKeypair'
  <2>1. WireKnows'
    BY <1>1 DEF InStepInv, WireKnows
  <2>2. OneKeypair'
    BY <1>1 DEF InStepInv, OneKeypair, evoVars
  <2>3. QED
    BY <2>1, <2>2
<1>9. QED
  BY <1>5, <1>6, <1>7, <1>8 DEF InStepInv

\* Bob commits: the peer is behind, with Bob's root pending.
LEMMA CommitSettled ==
  ASSUME TypeOK, EvolutionsSettle, InStepInv, NEW t \in Thread,
         ThreadStep(t), Owner[t] = Bob, CommitEvolution(t),
         PromotePending(Bob), UNCHANGED wire
  PROVE  InStepInv'
<1>0. Bob \in Peer /\ epoch[Bob] \in Nat
  BY PairAssumption DEF TypeOK, RootTypeOK
<1>1. PICK key \in rootPend[Bob] :
         /\ rootCurr' = [rootCurr EXCEPT ![Bob] = key]
         /\ rootPend' = [rootPend EXCEPT ![Bob] = {}]
         /\ epoch' = [epoch EXCEPT ![Bob] = @ + 1]
  BY DEF PromotePending
<1>2. /\ rootCurr'[Bob] = key /\ rootPend'[Bob] = {}
      /\ epoch'[Bob] = epoch[Bob] + 1
      /\ \A p \in Follower : /\ p \in Peer
                             /\ rootCurr'[p] = rootCurr[p]
                             /\ rootPend'[p] = rootPend[p]
                             /\ epoch'[p] = epoch[p]
  BY <1>0, <1>1 DEF TypeOK, RootTypeOK, Follower
<1>3. pc[t] = "idle" /\ UNCHANGED <<ffiVars, evoVars>>
  BY DEF CommitEvolution, Begin
<1>4. \A u \in Thread \ {t} : Owner[u] \in Follower
  BY CallersAssumption DEF EvolutionsSettle, Follower
<1>5. ASSUME NEW p \in Follower
      PROVE  /\ Level(p) /\ rootPend[p] = {key} /\ Unapplied(p) = {}
             /\ ~BobAtRest(p)
  BY <1>1 DEF InStepInv, EvolutionPhase, BobAtRest
<1>6. ASSUME NEW u \in Thread, Owner[u] \in Follower
      PROVE  pc[u] \notin Starting \cup Committing \cup Applying
  BY <1>5, <1>6 DEF InStepInv, SettledThread, FollowerThread, Follower
<1>7. ASSUME NEW p \in Follower
      PROVE  EvolutionPhase(p)'
  <2>1. Unapplied(p)' = {}
    BY <1>3, <1>5 DEF Unapplied, evoVars
  <2>2. \A u \in Thread : Owner[u] = Bob => pc'[u] \notin Applying
    BY <1>3, <1>4 DEF ffiVars, Applying, Follower
  <2>3. \A u \in Thread : Owner[u] = p => pc'[u] \notin Starting
    BY <1>3, <1>6 DEF ffiVars
  <2>4. BobAtRest(p)'
    BY <1>2, <2>1, <2>2 DEF BobAtRest
  <2>5. Behind(p)'
    BY <1>2, <1>5, <2>3, <2>4 DEF Behind, Level
  <2>6. QED
    BY <1>2, <2>1, <2>5 DEF EvolutionPhase
<1>8. ASSUME NEW u \in Thread PROVE SettledThread(u)'
  <2>1. SettledThread(u) /\ pc'[u] = pc[u] /\ frame'[u] = frame[u]
    BY <1>3 DEF InStepInv, ffiVars
  <2>2. CASE u = t
    <3>1. AnyThread(u)' /\ BobThread(u)'
      BY <1>3, <2>1, <2>2 DEF SettledThread, AnyThread, BobThread, Starting,
         Applying, Committing
    <3>2. QED
      BY <2>2, <3>1 DEF SettledThread
  <2>3. CASE u # t
    <3>1. Owner[u] \in Follower
      BY <1>4, <2>3
    <3>2. AnyThread(u)'
      BY <1>2, <2>1, <3>1 DEF SettledThread, AnyThread
    <3>3. FollowerThread(u)'
      BY <1>6, <2>1, <3>1 DEF FollowerThread
    <3>4. QED
      BY <3>1, <3>2, <3>3 DEF SettledThread, Follower
  <2>4. QED
    BY <2>2, <2>3
<1>9. WireKnows'
  <2>1. \A m \in wire : m.epoch <= epoch[Bob] /\ m.epoch \in Nat
    BY DEF InStepInv, WireKnows, TypeOK, CipherTypeOK, Message
  <2>2. \A m \in wire : m.epoch < epoch'[Bob] /\ m.epoch # epoch'[Bob]
    BY <1>0, <1>2, <2>1
  <2>3. \A m \in wire : m.epoch <= epoch'[Bob]
    BY <1>0, <1>2, <2>1
  <2>4. QED
    BY <2>2, <2>3 DEF WireKnows
<1>10. OneKeypair'
  BY <1>3 DEF InStepInv, OneKeypair, evoVars
<1>11. QED
  BY <1>7, <1>8, <1>9, <1>10 DEF InStepInv

\* A message is one epoch ahead: it shows the root Bob has now.
LEMMA SlowPathSettled ==
  ASSUME TypeOK, InStepInv, NEW t \in Thread, ThreadStep(t),
         DecryptSlowPath(t), UNCHANGED evoVars
  PROVE  InStepInv'
<1> DEFINE p == Owner[t]
<1>0. p \in Peer /\ epoch[p] \in Nat /\ epoch[Bob] \in Nat
  BY CallersAssumption, PairAssumption DEF TypeOK, RootTypeOK
<1>1. /\ pc'[t] = "dec_pend" /\ frame' = frame
      /\ UNCHANGED <<rootVars, wire>>
  BY DEF DecryptSlowPath, Continue, TypeOK, FfiTypeOK
<1>2. SettledThread(t) /\ AnyThread(t)
  BY DEF InStepInv, SettledThread
<1>3. PICK m \in frame[t].msg : m.epoch = epoch[p] + 1
  BY DEF DecryptSlowPath, OneAhead
<1>4. /\ m.epoch <= epoch[Bob] /\ m.from # p /\ m.from \in Peer
      /\ m.from = Bob /\ m.epoch = epoch[Bob] => m.root = rootCurr[Bob]
      /\ \A n \in frame[t].msg : n = m
  BY <1>2, <1>3
     DEF AnyThread, InStepInv, WireKnows, TypeOK, CipherTypeOK, Message
<1>5. p \in Follower /\ m.from = Bob
  <2>1. p # Bob
    BY <1>0, <1>3, <1>4
  <2>2. QED
    BY <1>0, <1>4, <2>1, PairAssumption DEF Follower
<1>6. Behind(p) /\ ~Level(p)
  BY <1>0, <1>3, <1>4, <1>5 DEF InStepInv, EvolutionPhase, Level
<1>7. m.epoch = epoch[Bob] /\ m.root = rootCurr[Bob]
  BY <1>3, <1>4, <1>5, <1>6 DEF Behind
<1>8. \A u \in Thread \ {t} : pc'[u] = pc[u]
  BY StepIsLocal
<1>9. /\ \A q \in Follower : q = p
      /\ \A u \in Thread : Owner[u] # Bob => Owner[u] = p
  BY <1>5, OneFollower, CallersAssumption DEF Follower
<1>10. UNCHANGED <<rootCurr, rootPend, epoch, kemCipher, kemWire, applied>>
  BY <1>1 DEF rootVars, evoVars
<1>11. Unapplied(p)' = Unapplied(p) /\ (Level(p)' <=> Level(p))
  BY <1>10 DEF Unapplied, Level
<1>12. BobAtRest(p)'
  BY <1>5, <1>6, <1>8, <1>10, <1>11 DEF BobAtRest, Behind, Follower
<1>13. \A u \in Thread : Owner[u] = p =>
           pc[u] \notin Starting /\ pc'[u] \notin Starting
  BY <1>1, <1>6, <1>8 DEF Behind, Starting
<1>14. EvolutionPhase(p)'
  BY <1>6, <1>10, <1>12, <1>13 DEF EvolutionPhase, Behind, BobAtRest
<1>15. SettledThread(t)'
  <2>1. AnyThread(t)'
    BY <1>1, <1>2 DEF AnyThread
  <2>2. FollowerThread(t)'
    BY <1>1, <1>4, <1>6, <1>7, <1>10, <1>11, <1>12
       DEF FollowerThread, Starting, Applying, Committing
  <2>3. QED
    BY <1>5, <2>1, <2>2 DEF SettledThread, Follower
<1>16. ASSUME NEW u \in Thread \ {t} PROVE SettledThread(u)'
  <2>1. SettledThread(u) /\ AnyThread(u)' /\ frame'[u] = frame[u]
    BY <1>1, <1>8, <1>10 DEF InStepInv, SettledThread, AnyThread
  <2>2. CASE Owner[u] = Bob
    <3>1. pc[u] \notin Applying
      BY <1>6, <2>2 DEF Behind, BobAtRest
    <3>2. QED
      BY <1>8, <1>10, <2>1, <2>2, <3>1
         DEF SettledThread, BobThread, Applying
  <2>3. CASE Owner[u] # Bob
    BY <1>8, <1>9, <1>10, <1>11, <1>12, <1>13, <2>1, <2>3
       DEF SettledThread, FollowerThread
  <2>4. QED
    BY <2>2, <2>3
<1>17. WireKnows' /\ OneKeypair'
  BY <1>1, <1>10 DEF InStepInv, WireKnows, OneKeypair, evoVars
<1>18. QED
  BY <1>9, <1>14, <1>15, <1>16, <1>17 DEF InStepInv

\* The auto-commit promotes Bob's root and brings the peer level; the other
\* threads that were about to commit it find nothing pending.
LEMMA AutoCommitSettled ==
  ASSUME TypeOK, InStepInv, NEW t \in Thread, ThreadStep(t),
         DecryptCommit(t), PromotePending(Owner[t]), UNCHANGED evoVars
  PROVE  InStepInv' /\ Level(Owner[t])'
<1> DEFINE p == Owner[t]
<1>0. pc[t] = "dec_commit" /\ UNCHANGED wire
  BY DEF DecryptCommit
<1>1. p \in Follower /\ SettledThread(t) /\ BobAtRest(p)
      /\ (Level(p) => rootPend[p] = {})
  BY <1>0, CallersAssumption
     DEF InStepInv, SettledThread, BobThread, FollowerThread, Committing,
         Follower
<1>2. p \in Peer /\ p # Bob /\ Bob \in Peer
  BY <1>1, PairAssumption DEF Follower
<1>3. PICK key \in rootPend[p] :
         /\ rootCurr' = [rootCurr EXCEPT ![p] = key]
         /\ rootPend' = [rootPend EXCEPT ![p] = {}]
         /\ epoch' = [epoch EXCEPT ![p] = @ + 1]
  BY DEF PromotePending
<1>4. Behind(p) /\ key = rootCurr[Bob]
  <2>1. Level(p) \/ Behind(p)
    BY <1>1 DEF InStepInv, EvolutionPhase
  <2>2. Behind(p)
    BY <1>1, <1>3, <2>1
  <2>3. QED
    BY <1>3, <2>2 DEF Behind
<1>5. /\ rootCurr'[p] = rootCurr[Bob] /\ rootPend'[p] = {}
      /\ epoch'[p] = epoch[Bob] /\ epoch[p] <= epoch'[p]
      /\ rootCurr'[Bob] = rootCurr[Bob] /\ rootPend'[Bob] = {}
      /\ epoch'[Bob] = epoch[Bob]
  <2>1. /\ epoch[Bob] = epoch[p] + 1 /\ epoch[p] \in Nat
        /\ rootPend[Bob] = {}
    BY <1>1, <1>2, <1>4 DEF Behind, BobAtRest, TypeOK, RootTypeOK
  <2>2. /\ rootCurr'[p] = key /\ rootPend'[p] = {}
        /\ epoch'[p] = epoch[p] + 1
        /\ rootCurr'[Bob] = rootCurr[Bob] /\ rootPend'[Bob] = rootPend[Bob]
        /\ epoch'[Bob] = epoch[Bob]
    BY <1>2, <1>3 DEF TypeOK, RootTypeOK
  <2>3. epoch[p] <= epoch[p] + 1
    BY ONLY <2>1
  <2>4. QED
    BY ONLY <1>4, <2>1, <2>2, <2>3
<1>6. /\ pc'[t] = "idle" /\ frame'[t].msg = {}
      /\ \A u \in Thread \ {t} : pc'[u] = pc[u] /\ frame'[u] = frame[u]
  BY StepIsLocal DEF DecryptCommit, Return, NoFrame, TypeOK, FfiTypeOK
<1>7. /\ \A q \in Follower : q = p
      /\ \A u \in Thread : Owner[u] # Bob => Owner[u] = p
  BY <1>1, OneFollower, CallersAssumption DEF Follower
<1>8. Level(p)' /\ Unapplied(p)' = {}
  BY <1>1, <1>5 DEF Level, Unapplied, BobAtRest, evoVars
<1>9. BobAtRest(p)'
  BY <1>1, <1>2, <1>5, <1>6, <1>8 DEF BobAtRest
<1>10. EvolutionPhase(p)'
  BY <1>5, <1>8 DEF EvolutionPhase
<1>11. SettledThread(t)'
  <2>1. AnyThread(t)'
    BY <1>6 DEF AnyThread
  <2>2. FollowerThread(t)'
    BY <1>6 DEF FollowerThread, Starting, Applying, Committing
  <2>3. QED
    BY <1>2, <2>1, <2>2 DEF SettledThread
<1>12. ASSUME NEW u \in Thread \ {t} PROVE SettledThread(u)'
  <2>1. SettledThread(u) /\ AnyThread(u)
    BY DEF InStepInv, SettledThread
  <2>2. CASE Owner[u] = Bob
    <3>1. pc[u] \notin Applying
      BY <1>1, <2>2 DEF BobAtRest
    <3>2. AnyThread(u)'
      BY <1>0, <1>5, <1>6, <2>1, <2>2 DEF AnyThread
    <3>3. QED
      BY <1>5, <1>6, <2>1, <2>2, <3>1, <3>2
         DEF SettledThread, BobThread, Applying
  <2>3. CASE Owner[u] # Bob
    <3>1. Owner[u] = p
      BY <1>7, <2>3
    <3>2. AnyThread(u)'
      <4>1. /\ frame[u].epoch \in Nat /\ epoch[p] \in Nat
            /\ epoch'[p] \in Nat
        BY <1>2, <1>5 DEF TypeOK, RootTypeOK, FfiTypeOK, Frame
      <4>2. pc'[u] = "send_key" => frame'[u].epoch <= epoch'[Owner[u]]
        <5>1. pc'[u] = "send_key" => frame[u].epoch <= epoch[p]
          BY <1>6, <2>1, <3>1 DEF AnyThread
        <5>2. frame[u].epoch <= epoch[p] => frame[u].epoch <= epoch'[p]
          BY <1>5, <4>1
        <5>3. QED
          BY <1>6, <3>1, <5>1, <5>2
      <4>3. QED
        BY <1>0, <1>6, <2>1, <4>2 DEF AnyThread
    <3>3. pc[u] \notin Starting
      BY <1>4, <3>1 DEF Behind
    <3>4. FollowerThread(u)'
      BY <1>5, <1>6, <1>9, <2>1, <2>3, <3>1, <3>3
         DEF SettledThread, FollowerThread
    <3>5. QED
      BY <2>3, <3>2, <3>4 DEF SettledThread
  <2>4. QED
    BY <2>2, <2>3
<1>13. WireKnows' /\ OneKeypair'
  <2>1. WireKnows'
    BY <1>0, <1>5 DEF InStepInv, WireKnows
  <2>2. OneKeypair'
    BY DEF InStepInv, OneKeypair, evoVars
  <2>3. QED
    BY <2>1, <2>2
<1>14. QED
  BY <1>7, <1>8, <1>10, <1>11, <1>12, <1>13 DEF InStepInv

----------------------------------------------------------------------------
(* All steps together.                                                     *)

\* Steps of start_evolution and apply_peer_kem between their first and their
\* last, and calls that end without effect.
LEMMA EvolutionNeutral ==
  ASSUME TypeOK, InStepInv, NEW t \in Thread, ThreadStep(t), UNCHANGED wire,
         \/ /\ Owner[t] # Bob
            /\ StartRefused(t) \/ StartEncapsulate(t)
         \/ GetKemCipher(t)
         \/ Owner[t] = Bob /\ ApplyReadCurr(t)
         \/ Owner[t] = Bob /\ CommitEvolution(t) /\ NothingPending(Bob)
  PROVE  InStepInv'
<1>0. /\ Owner[t] \in Peer /\ Bob \in Peer
      /\ SettledThread(t) /\ AnyThread(t) /\ OneKeypair /\ WireKnows
  BY CallersAssumption, PairAssumption DEF InStepInv, SettledThread
<1> USE DEF TypeOK, FfiTypeOK, Starting, Applying, Committing
<1>1. ASSUME UNCHANGED <<rootVars, ownKey, peerPk, kemCipher, kemWire, applied>>,
             SettledThread(t)',
             \/ pc'[t] = pc[t] \/ pc'[t] = "idle"
             \/ pc[t] \in Starting /\ pc'[t] \in Starting
             \/ pc[t] \in Applying /\ pc'[t] \in Applying
      PROVE  InStepInv'
  <2>1. \A p \in Follower : Unapplied(p)' = Unapplied(p)
    BY <1>1 DEF Unapplied
  <2>2. WireKnows'
    BY <1>0, <1>1 DEF WireKnows, rootVars
  <2>3. OneKeypair'
    BY <1>0, <1>1 DEF OneKeypair
  <2>4. UNCHANGED <<rootCurr, rootPend, epoch>>
    BY <1>1 DEF rootVars
  <2>5. QED
    BY <1>1, <2>1, <2>2, <2>3, <2>4, NeutralStep
<1>2. pc'[t] = "idle" /\ frame'[t].msg \subseteq frame[t].msg
         => SettledThread(t)'
  <2> SUFFICES ASSUME pc'[t] = "idle", frame'[t].msg \subseteq frame[t].msg
               PROVE  SettledThread(t)'
    OBVIOUS
  <2>1. AnyThread(t)'
    BY <1>0 DEF AnyThread
  <2>2. BobThread(t)' /\ FollowerThread(t)'
    BY DEF BobThread, FollowerThread
  <2>3. QED
    BY <2>1, <2>2 DEF SettledThread
<1>3. NoFrame.msg = {}
  BY DEF NoFrame
<1>4. CASE StartRefused(t)
  BY <1>1, <1>2, <1>3, <1>4 DEF StartRefused, Return, evoVars
<1>5. CASE Owner[t] # Bob /\ StartEncapsulate(t)
  <2>1. /\ pc[t] = "start_pk" /\ pc'[t] = "start_pend"
        /\ frame'[t] = [frame[t] EXCEPT !.num = secrets + 1]
        /\ frame[t] \in Frame
        /\ UNCHANGED <<rootVars, ownKey, peerPk, kemCipher, kemWire, applied>>
    BY <1>5 DEF StartEncapsulate, Continue, wireVars
  <2>2. frame'[t].root = frame[t].root /\ frame'[t].msg = frame[t].msg
    BY <2>1 DEF Frame
  <2>3. /\ \A u \in Thread \ {t} : pc'[u] = pc[u]
        /\ UNCHANGED <<rootCurr, rootPend, epoch>>
    BY <2>1, StepIsLocal DEF rootVars
  <2>4. FollowerThread(t)
    BY <1>0, <1>5 DEF SettledThread
  <2>5. BobAtRest(Owner[t])'
    <3>1. BobAtRest(Owner[t])
      BY <2>1, <2>4 DEF FollowerThread
    <3>2. QED
      BY <2>1, <2>3, <3>1 DEF BobAtRest, Unapplied
  <2>6. FollowerThread(t)'
    BY <2>1, <2>2, <2>3, <2>4, <2>5 DEF FollowerThread
  <2>7. AnyThread(t)'
    BY <1>0, <2>1, <2>2 DEF AnyThread
  <2>8. QED
    BY <1>1, <1>5, <2>1, <2>6, <2>7 DEF SettledThread
<1>6. CASE GetKemCipher(t)
  <2>1. /\ pc[t] = "idle" /\ kemWire' = kemWire \cup kemCipher[Owner[t]]
        /\ UNCHANGED <<rootCurr, rootPend, epoch, pc, frame, ownKey, peerPk,
                       kemCipher, applied>>
    BY <1>6 DEF GetKemCipher, Begin, rootVars, ffiVars, pkVars
  <2>2. Owner[t] \in Follower \/ kemCipher[Owner[t]] = {}
    BY <1>0 DEF OneKeypair, Follower
  <2>3. \A p \in Follower : Unapplied(p)' = Unapplied(p)
    BY <2>1, <2>2, OneFollower DEF Unapplied
  <2>4. OneKeypair'
    <3>1. \A ct \in kemWire' : ct.to = 1
      BY <1>0, <2>1 DEF OneKeypair
    <3>2. UNCHANGED <<ownKey, peerPk, kemCipher>>
      BY <2>1
    <3>3. QED
      BY ONLY <1>0, <3>1, <3>2 DEF OneKeypair
  <2>5. WireKnows'
    BY <1>0, <2>1 DEF WireKnows
  <2>6. QED
    BY <1>2, <2>1, <2>3, <2>4, <2>5, NeutralStep
<1>7. CASE Owner[t] = Bob /\ ApplyReadCurr(t)
  <2>1. /\ pc[t] = "apply_curr" /\ pc'[t] = "apply_pend"
        /\ frame'[t] = [frame[t] EXCEPT !.root = rootCurr[Bob]]
        /\ frame[t] \in Frame
        /\ UNCHANGED <<rootVars, ownKey, peerPk, kemCipher, kemWire, applied>>
    BY <1>7 DEF ApplyReadCurr, Continue, evoVars
  <2>2. /\ frame'[t].root = rootCurr[Bob] /\ frame'[t].num = frame[t].num
        /\ frame'[t].msg = frame[t].msg
    BY <2>1 DEF Frame
  <2>3. UNCHANGED <<rootCurr, rootPend, epoch>>
    BY <2>1 DEF rootVars
  <2>4. BobThread(t)
    BY <1>0, <1>7 DEF SettledThread
  <2>5. \A p \in Follower : /\ Offers(p, frame[t].num)'
                            /\ Unapplied(p)' = {}
    BY <2>1, <2>2, <2>3, <2>4 DEF BobThread, Offers, Level, Unapplied
  <2>6. BobThread(t)'
    BY <2>1, <2>2, <2>3, <2>5 DEF BobThread
  <2>7. AnyThread(t)'
    BY <1>0, <2>1, <2>2 DEF AnyThread
  <2>8. QED
    BY <1>1, <1>7, <2>1, <2>6, <2>7 DEF SettledThread
<1>8. CASE Owner[t] = Bob /\ CommitEvolution(t) /\ NothingPending(Bob)
  BY <1>1, <1>2, <1>8
     DEF CommitEvolution, NothingPending, Begin, ffiVars, evoVars
<1>9. QED
  BY <1>4, <1>5, <1>6, <1>7, <1>8

\* Sending and decrypting, up to the commit.
LEMMA CipherNeutral ==
  ASSUME TypeOK, InStepInv, NEW t \in Thread, ThreadStep(t),
         UNCHANGED evoVars,
         \/ SendNextSeq(t) \/ SendReadEpoch(t) \/ SendEncrypt(t)
         \/ \E m \in wire : DecryptReadCurr(t, m)
         \/ DecryptOpened(t) \/ DecryptFails(t) \/ DecryptOpenedByPend(t)
         \/ DecryptCommit(t) /\ NothingPending(Owner[t])
  PROVE  InStepInv'
<1>0. /\ Owner[t] \in Peer /\ Bob \in Peer
      /\ SettledThread(t) /\ AnyThread(t) /\ OneKeypair /\ WireKnows
  BY CallersAssumption, PairAssumption DEF InStepInv, SettledThread
<1>1. /\ \A p \in Follower : Unapplied(p)' = Unapplied(p)
      /\ OneKeypair'
  BY <1>0 DEF Unapplied, OneKeypair, evoVars
<1> USE DEF TypeOK, FfiTypeOK, Starting, Applying, Committing
<1>2. ASSUME UNCHANGED <<rootCurr, rootPend, epoch>>, WireKnows',
             AnyThread(t)', pc'[t] \notin Starting \cup Applying \cup Committing,
             Owner[t] = Bob /\ pc'[t] = "send_key"
                 => frame'[t].epoch = epoch'[Bob]
      PROVE  InStepInv'
  <2>1. BobThread(t)' \/ Owner[t] # Bob
    BY <1>2 DEF BobThread
  <2>2. FollowerThread(t)'
    BY <1>2 DEF FollowerThread
  <2>3. QED
    BY <1>1, <1>2, <2>1, <2>2, NeutralStep DEF SettledThread
<1>3. UNCHANGED <<epoch, rootCurr, wire>> => WireKnows'
  BY <1>0 DEF WireKnows
<1>4. CASE SendNextSeq(t)
  BY <1>2, <1>3, <1>4 DEF SendNextSeq, Continue, NoFrame, AnyThread
<1>5. CASE SendReadEpoch(t)
  <2>1. /\ pc'[t] = "send_key" /\ UNCHANGED <<rootVars, wire>>
        /\ frame'[t] = [frame[t] EXCEPT !.epoch = epoch[Owner[t]]]
        /\ frame[t] \in Frame
    BY <1>5 DEF SendReadEpoch, Continue
  <2>2. /\ frame'[t].epoch = epoch[Owner[t]] /\ frame'[t].msg = frame[t].msg
        /\ UNCHANGED <<rootCurr, rootPend, epoch>>
    BY <2>1 DEF Frame, rootVars
  <2>3. epoch[Owner[t]] \in Nat
    BY <1>0 DEF RootTypeOK
  <2>4. AnyThread(t)'
    BY <1>0, <2>1, <2>2, <2>3 DEF AnyThread
  <2>5. QED
    BY <1>2, <1>3, <2>1, <2>2, <2>4
<1>6. CASE SendEncrypt(t)
  <2> DEFINE sent == [from |-> Owner[t], root |-> rootCurr[Owner[t]],
                      epoch |-> frame[t].epoch, seq |-> frame[t].num,
                      id |-> Cardinality(wire)]
  <2>1. /\ pc[t] = "send_key" /\ pc'[t] = "idle" /\ frame'[t].msg = {}
        /\ wire' = wire \cup {sent}
        /\ UNCHANGED <<rootCurr, rootPend, epoch>>
    BY <1>6 DEF SendEncrypt, Return, NoFrame, rootVars
  <2>2. /\ sent.from = Owner[t] /\ sent.root = rootCurr[Owner[t]]
        /\ sent.epoch = frame[t].epoch
    OBVIOUS
  <2> HIDE DEF sent
  <2>3. sent.epoch <= epoch[Bob]
    <3>1. sent.epoch <= epoch[Owner[t]] /\ sent.epoch \in Nat
      BY <1>0, <2>1, <2>2 DEF AnyThread, Frame
    <3>2. epoch[Owner[t]] \in Nat /\ epoch[Bob] \in Nat
      BY <1>0 DEF RootTypeOK
    <3>3. Owner[t] # Bob =>
             \/ epoch[Owner[t]] = epoch[Bob]
             \/ epoch[Bob] = epoch[Owner[t]] + 1
      BY <1>0 DEF InStepInv, EvolutionPhase, Level, Behind, Follower
    <3>4. QED
      BY <3>1, <3>2, <3>3
  <2>4. WireKnows'
    BY <1>0, <2>1, <2>2, <2>3 DEF WireKnows
  <2>5. AnyThread(t)'
    BY <2>1 DEF AnyThread
  <2>6. QED
    BY <1>2, <2>1, <2>4, <2>5
<1>7. ASSUME NEW m \in wire, DecryptReadCurr(t, m)
      PROVE  InStepInv'
  <2>1. /\ pc'[t] = "dec_epoch" /\ frame'[t].msg = {m} /\ m.from # Owner[t]
        /\ UNCHANGED <<rootCurr, rootPend, epoch, wire>>
    BY <1>7 DEF DecryptReadCurr, Continue, NoFrame, rootVars
  <2>2. AnyThread(t)'
    <3>1. m \in wire' /\ pc'[t] \notin {"roll", "set_pk_hash", "send_key"}
      BY <2>1
    <3>2. QED
      BY ONLY <2>1, <3>1 DEF AnyThread
  <2>3. QED
    BY <1>2, <1>3, <2>1, <2>2
<1>8. CASE \/ DecryptOpened(t) \/ DecryptFails(t)
           \/ DecryptCommit(t) /\ NothingPending(Owner[t])
  <2>1. Return(t) /\ UNCHANGED <<rootVars, wire>>
    BY <1>8 DEF DecryptOpened, DecryptFails, DecryptCommit, NothingPending
  <2>2. /\ pc'[t] = "idle" /\ frame'[t].msg = {}
        /\ UNCHANGED <<rootCurr, rootPend, epoch, wire>>
    BY <2>1 DEF Return, NoFrame, rootVars
  <2>3. AnyThread(t)'
    BY <2>2 DEF AnyThread
  <2>4. QED
    BY <1>2, <1>3, <2>2, <2>3
<1>9. CASE DecryptOpenedByPend(t)
  <2>1. /\ pc[t] = "dec_pend" /\ pc'[t] = "dec_commit" /\ frame' = frame
        /\ UNCHANGED <<rootCurr, rootPend, epoch, wire>>
    BY <1>9 DEF DecryptOpenedByPend, Continue, rootVars
  <2>2. AnyThread(t)'
    BY <1>0, <2>1 DEF AnyThread
  <2>3. Owner[t] # Bob /\ FollowerThread(t)
    BY <1>0, <2>1 DEF SettledThread, BobThread
  <2>4. \A u \in Thread \ {t} : pc'[u] = pc[u]
    BY StepIsLocal
  <2>5. Owner[t] \in Follower /\ BobAtRest(Owner[t])
    BY <1>0, <2>1, <2>3 DEF FollowerThread, Follower
  <2>6. BobAtRest(Owner[t])'
    BY <1>1, <2>1, <2>4, <2>5 DEF BobAtRest
  <2>7. FollowerThread(t)'
    BY <2>1, <2>3, <2>6 DEF FollowerThread, Level
  <2>8. QED
    BY <1>1, <1>3, <2>1, <2>2, <2>3, <2>7, NeutralStep DEF SettledThread
<1>10. QED
  BY <1>4, <1>5, <1>6, <1>7, <1>8, <1>9

\* Every step keeps the invariant.
LEMMA SettledStep ==
  ASSUME TypeOK, EvolutionsSettle, InStepInv, NEW t \in Thread, ThreadStep(t)
  PROVE  InStepInv'
<1>0. Owner[t] # Bob => Owner[t] \in Follower
  BY CallersAssumption DEF Follower
<1>1. CASE /\ UNCHANGED wire /\ Owner[t] # Bob
           /\ \/ StartEvolution(t) \/ StartRefused(t) \/ StartEncapsulate(t)
              \/ StartSetPend(t) \/ StartSetCipher(t)
  BY <1>0, <1>1, StartSettled, StartPendSettled, StartCipherSettled,
     EvolutionNeutral
<1>2. CASE UNCHANGED wire /\ GetKemCipher(t)
  BY <1>2, EvolutionNeutral
<1>3. ASSUME UNCHANGED wire, Owner[t] = Bob, NEW ct \in kemWire,
             ApplyRefused(t, ct) \/ ApplyPeerKem(t, ct)
      PROVE  InStepInv'
  <2>1. ct.to \in ownKey[Bob]
    BY DEF InStepInv, OneKeypair
  <2>2. QED
    BY <1>3, <2>1, ApplySettled DEF ApplyRefused
<1>4. CASE /\ UNCHANGED wire /\ Owner[t] = Bob
           /\ ApplyReadCurr(t) \/ ApplySetPend(t) \/ CommitEvolution(t)
  <2>1. CommitEvolution(t) => PromotePending(Bob) \/ NothingPending(Bob)
    BY <1>4 DEF CommitEvolution
  <2>2. QED
    BY <1>4, <2>1, ApplyPendSettled, CommitSettled, EvolutionNeutral
<1>5. CASE CipherStep(t) /\ UNCHANGED evoVars
  <2>1. DecryptCommit(t) =>
           PromotePending(Owner[t]) \/ NothingPending(Owner[t])
    BY DEF DecryptCommit
  <2>2. QED
    BY <1>5, <2>1, CipherNeutral, SlowPathSettled, AutoCommitSettled
       DEF CipherStep
<1>6. QED
  BY <1>1, <1>2, <1>3, <1>4, <1>5, SettledSteps

----------------------------------------------------------------------------
(* The theorems.                                                           *)

\* Evolutions that are started one at a time never overlap: what is pending on
\* the two devices, the ciphertexts still to be applied and what every thread
\* of the peer has copied belong to one evolution (evolution.rs:95-175,
\* message_cipher.rs:91-120).
THEOREM InStepInvariant ==
  ASSUME EvolutionsSettle
  PROVE  Spec => [](TypeOK /\ InStepInv)
<1>1. Init => InStepInv
  <2> SUFFICES ASSUME Init PROVE InStepInv
    OBVIOUS
  <2>1. /\ \A p \in Peer : /\ epoch[p] = 0 /\ rootCurr[p] = RootInit
                           /\ rootPend[p] = {} /\ kemCipher[p] = {}
        /\ wire = {} /\ kemWire = {} /\ Bob \in Peer
        /\ ownKey[Bob] = {1} /\ \A p \in Follower : peerPk[p] = {1}
    BY PairAssumption DEF Init, InitRootState, InitCipher, InitEvolution,
       Follower
  <2>2. \A t \in Thread : pc[t] = "idle" /\ frame[t].msg = {}
    BY DEF Init, InitFfi, NoFrame
  <2>3. \A p \in Follower : EvolutionPhase(p)
    BY <2>1 DEF EvolutionPhase, Level, Unapplied, Follower
  <2>4. \A t \in Thread : SettledThread(t)
    BY <2>2 DEF SettledThread, AnyThread, BobThread, FollowerThread, Starting,
       Applying, Committing
  <2>5. WireKnows /\ OneKeypair
    <3>1. WireKnows
      BY <2>1 DEF WireKnows
    <3>2. OneKeypair
      BY <2>1 DEF OneKeypair, Follower
    <3>3. QED
      BY <3>1, <3>2
  <2>6. QED
    BY <2>3, <2>4, <2>5 DEF InStepInv
<1>2. TypeOK /\ InStepInv /\ [Next]_vars => InStepInv'
  <2> SUFFICES ASSUME TypeOK, InStepInv, [Next]_vars PROVE InStepInv'
    OBVIOUS
  <2>1. CASE Next
    BY <2>1, SettledStep DEF Next
  <2>2. CASE UNCHANGED vars
    <3>1. \A p : /\ Level(p)' <=> Level(p)
                 /\ Unapplied(p)' = Unapplied(p)
                 /\ \A x : Offers(p, x)' <=> Offers(p, x)
                 /\ BobAtRest(p)' <=> BobAtRest(p)
                 /\ Behind(p)' <=> Behind(p)
      BY <2>2 DEF vars, rootVars, ffiVars, evoVars, Level, Unapplied, Offers,
         BobAtRest, Behind
    <3>2. \A p \in Follower : EvolutionPhase(p)'
      BY <2>2, <3>1 DEF vars, rootVars, InStepInv, EvolutionPhase
    <3>3. \A t \in Thread : SettledThread(t)'
      <4>1. UNCHANGED <<pc, frame, epoch, rootCurr, rootPend, wire>>
        BY <2>2 DEF vars, rootVars, ffiVars
      <4>2. ASSUME NEW t \in Thread PROVE SettledThread(t)'
        <5>1. SettledThread(t)
          BY DEF InStepInv
        <5>2. AnyThread(t) => AnyThread(t)'
          BY <4>1 DEF AnyThread
        <5>3. BobThread(t) => BobThread(t)'
          BY <3>1, <4>1 DEF BobThread, Offers, Level
        <5>4. FollowerThread(t) => FollowerThread(t)'
          BY <3>1, <4>1 DEF FollowerThread, Offers, Level
        <5>5. QED
          BY <5>1, <5>2, <5>3, <5>4 DEF SettledThread
      <4>3. QED
        BY <4>2
    <3>4. WireKnows' /\ OneKeypair'
      BY <2>2 DEF vars, rootVars, evoVars, InStepInv, WireKnows, OneKeypair
    <3>5. QED
      BY <3>2, <3>3, <3>4 DEF InStepInv
  <2>3. QED
    BY <2>1, <2>2
<1>3. QED
  BY <1>1, <1>2, TypeCorrect, PTL DEF Spec

\* The devices are never more than one epoch apart, and the one behind has the
\* other's root pending: the next message brings it level, whichever of its
\* threads decrypts it (README.md:23).
THEOREM InStepHolds ==
  ASSUME EvolutionsSettle
  PROVE  Spec => []InStep
<1>1. InStepInv => InStep
  <2> SUFFICES ASSUME InStepInv, NEW p \in Peer, NEW q \in Peer
               PROVE  \/ epoch[p] = epoch[q]
                      \/ /\ epoch[p] = epoch[q] + 1
                         /\ rootPend[q] = {rootCurr[p]}
                      \/ /\ epoch[q] = epoch[p] + 1
                         /\ rootPend[p] = {rootCurr[q]}
    BY DEF InStep
  <2>1. \A r \in Follower : \/ epoch[r] = epoch[Bob]
                            \/ /\ epoch[Bob] = epoch[r] + 1
                               /\ rootPend[r] = {rootCurr[Bob]}
    BY DEF InStepInv, EvolutionPhase, Level, Behind
  <2>2. CASE p \in Follower /\ q \in Follower
    BY <2>2, OneFollower
  <2>3. CASE p = Bob \/ q = Bob
    BY <2>1, <2>3 DEF Follower
  <2>4. QED
    BY <2>2, <2>3 DEF Follower
<1>2. QED
  BY <1>1, InStepInvariant, PTL

\* Devices in the same epoch hold the same root, with any number of threads on
\* the device that follows (AgreementHolds allows it one).
THEOREM AgreementWhenSettled ==
  ASSUME EvolutionsSettle
  PROVE  Spec => []Agreement
<1>1. TypeOK /\ InStepInv => Agreement
  <2> SUFFICES ASSUME TypeOK, InStepInv, NEW p \in Peer, NEW q \in Peer,
                      epoch[p] = epoch[q]
               PROVE  rootCurr[p] = rootCurr[q]
    BY DEF Agreement
  <2>1. ASSUME NEW r \in Follower, epoch[r] = epoch[Bob]
        PROVE  rootCurr[r] = rootCurr[Bob]
    <3>1. epoch[r] \in Nat
      BY DEF TypeOK, RootTypeOK, Follower
    <3>2. Level(r) \/ Behind(r)
      BY DEF InStepInv, EvolutionPhase
    <3>3. ~Behind(r)
      BY <2>1, <3>1 DEF Behind
    <3>4. QED
      BY <3>2, <3>3 DEF Level
  <2>2. CASE p \in Follower /\ q \in Follower
    BY <2>2, OneFollower
  <2>3. CASE p = Bob \/ q = Bob
    BY <2>1, <2>3 DEF Follower
  <2>4. QED
    BY <2>2, <2>3 DEF Follower
<1>2. QED
  BY <1>1, InStepInvariant, PTL

\* A message opened with the pending root leaves the device on the root and in
\* the epoch of its sender, also for a thread that finds the root committed by
\* another thread in the meantime (message_cipher.rs:87-88).
THEOREM AutoCommitWhenSettled ==
  ASSUME EvolutionsSettle
  PROVE  Spec => AutoCommitLandsOnSender
<1>1. ASSUME TypeOK, InStepInv, [Next]_vars
      PROVE  [\A t \in Thread : \A m \in frame[t].msg :
                 pc[t] = "dec_commit" /\ pc'[t] = "idle"
                 => rootCurr'[Owner[t]] = m.root
                        /\ epoch'[Owner[t]] = m.epoch]_vars
  <2>1. SUFFICES ASSUME Next, NEW t \in Thread, NEW m \in frame[t].msg,
                        pc[t] = "dec_commit", pc'[t] = "idle"
                 PROVE  /\ rootCurr'[Owner[t]] = m.root
                        /\ epoch'[Owner[t]] = m.epoch
    BY <1>1
  <2>2. PICK u \in Thread : ThreadStep(u)
    BY <2>1 DEF Next
  <2>3. u = t
    BY <1>1, <2>1, <2>2, StepIsLocal
  <2>4. DecryptCommit(t) /\ UNCHANGED evoVars
    <3>1. CipherStep(t) /\ UNCHANGED evoVars
      BY <1>1, <2>1, <2>2, <2>3, SettledSteps
         DEF StartEvolution, StartRefused, StartEncapsulate, StartSetPend,
             StartSetCipher, GetKemCipher, ApplyRefused, ApplyPeerKem,
             ReceiveKem, ApplyReadCurr, ApplySetPend, CommitEvolution, Begin
    <3>2. QED
      BY <2>1, <3>1 DEF CipherStep, SendNextSeq, SendReadEpoch, SendEncrypt,
         DecryptReadCurr, DecryptOpened, DecryptSlowPath, DecryptFails,
         DecryptOpenedByPend, Begin
  <2>5. /\ Owner[t] \in Follower
        /\ m.epoch = epoch[Bob] /\ m.root = rootCurr[Bob]
    BY <1>1, <2>1, CallersAssumption
       DEF InStepInv, SettledThread, BobThread, FollowerThread, Committing,
           Follower
  <2>6. epoch'[Bob] = epoch[Bob] /\ rootCurr'[Bob] = rootCurr[Bob]
    BY <1>1, <2>2, <2>3, <2>5, StepIsLocal, PairAssumption DEF Follower
  <2>7. Level(Owner[t])'
    <3>1. CASE PromotePending(Owner[t])
      BY <1>1, <2>2, <2>3, <2>4, <3>1, AutoCommitSettled
    <3>2. CASE NothingPending(Owner[t])
      <4>1. Level(Owner[t])
        BY <1>1, <2>5, <3>2, NothingOffered DEF NothingPending
      <4>2. QED
        BY <3>2, <4>1 DEF NothingPending, rootVars, Level
    <3>3. QED
      BY <2>4, <3>1, <3>2 DEF DecryptCommit
  <2>8. QED
    BY <2>5, <2>6, <2>7 DEF Level
<1>2. QED
  BY <1>1, InStepInvariant, PTL DEF Spec, AutoCommitLandsOnSender
============================================================================
