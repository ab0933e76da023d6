------------------------------ MODULE Session ------------------------------
(***************************************************************************)
(* Two paired devices, the threads of their hosts, and the relay between   *)
(* them: root_state.rs, evolution.rs, message_cipher.rs and anti_dos.rs    *)
(* composed.  Which calls a thread makes is a parameter (Calls), because   *)
(* the library leaves the calling discipline to the host.                  *)
(***************************************************************************)
EXTENDS Evolution, MessageCipher, AntiDos

CONSTANT Bob                 \* the device that generated the KEM keypair

ASSUME PairAssumption ==
    Bob \in Peer /\ \A p, q \in Peer \ {Bob} : p = q

vars == <<rootVars, ffiVars, evoVars, wire>>

TypeOK == RootTypeOK /\ FfiTypeOK /\ EvolutionTypeOK /\ CipherTypeOK

Init == InitRootState /\ InitFfi /\ InitEvolution(Bob) /\ InitCipher

\* Epochs seen in the headers of the peer's packets.
HeaderEpochs(p) == {m.epoch : m \in {n \in wire : n.from # p}}

\* The target of recover_after_loss: a header's epoch ("recover"), or one the
\* host picks ("roll_to").
RecoverTargets(t) ==
    (IF "recover" \in Calls[t] THEN HeaderEpochs(Owner[t]) ELSE {})
        \cup (IF "roll_to" \in Calls[t] THEN 1 .. MaxEpoch ELSE {})

ThreadStep(t) ==
    \/ EvolutionStep(t) /\ UNCHANGED wire
    \/ CipherStep(t) /\ UNCHANGED evoVars
    \/ RecoverStep(t, RecoverTargets(t)) /\ UNCHANGED <<evoVars, wire>>

Next == \E t \in Thread : ThreadStep(t)

Spec == Init /\ [][Next]_vars

----------------------------------------------------------------------------
(* Safety.                                                                 *)

\* Two devices in the same epoch hold the same root: what try_decrypt's
\* auto-commit is for (message_cipher.rs:87) and what the epoch in a header
\* is taken to mean (anti_dos.rs:9).
Agreement ==
    \A p, q \in Peer : epoch[p] = epoch[q] => rootCurr[p] = rootCurr[q]

\* Why: no device and no message on the wire is ahead of Bob, and one that
\* shows Bob's epoch was made with Bob's root.  Inductive together with what
\* the threads know (NeverAheadInv), when every device runs one thread and
\* all but Bob change epoch only through try_decrypt_with_evolution.
NotAheadOfBob(e, root) ==
    \/ e < epoch[Bob]
    \/ e = epoch[Bob] /\ root = rootCurr[Bob]

NeverAhead ==
    /\ \A p \in Peer : NotAheadOfBob(epoch[p], rootCurr[p])
    /\ \A m \in wire : NotAheadOfBob(m.epoch, m.root)

SinglePend == \A p \in Peer : \A k, l \in rootPend[p] : k = l

ThreadKnows(t) ==
    /\ frame[t].msg \subseteq wire
    /\ \A m, n \in frame[t].msg : m = n
    /\ pc[t] = "send_key" => frame[t].epoch = epoch[Owner[t]]
    /\ pc[t] = "roll" => Owner[t] = Bob
    /\ pc[t] = "dec_pend" =>
           \A m \in frame[t].msg : m.epoch = epoch[Owner[t]] + 1
    /\ pc[t] = "dec_commit" =>
           \E m \in frame[t].msg : /\ m.epoch = epoch[Owner[t]] + 1
                                   /\ m.root \in rootPend[Owner[t]]

NeverAheadInv ==
    NeverAhead /\ SinglePend /\ \A t \in Thread : ThreadKnows(t)

\* The calling discipline NeverAheadInv rests on.
FollowersOnlyAutoCommit ==
    /\ \A t, u \in Thread : Owner[t] = Owner[u] => t = u
    /\ \A t \in Thread : Owner[t] # Bob =>
           Calls[t] \cap {"commit", "recover", "roll_to"} = {}

\* A device is at most one epoch behind, and then what it has pending is the
\* root its peer has already committed: the next message brings it level.
InStep ==
    \A p, q \in Peer :
        \/ epoch[p] = epoch[q]
        \/ epoch[p] = epoch[q] + 1 /\ rootPend[q] = {rootCurr[p]}
        \/ epoch[q] = epoch[p] + 1 /\ rootPend[p] = {rootCurr[q]}

\* The calling discipline InStep rests on: an evolution is started only when
\* the last one is settled and its ciphertext is applied once; Bob makes one
\* call at a time; the peer has any number of threads, and changes epoch only
\* through try_decrypt_with_evolution; nobody replaces a KEM key.
EvolutionsSettle ==
    /\ SettledStart /\ DedupKem
    /\ \A t, u \in Thread : Owner[t] = Bob /\ Owner[u] = Bob => t = u
    /\ \A t \in Thread :
           Calls[t] \subseteq
               IF Owner[t] = Bob
               THEN {"get_kem", "apply", "commit", "send", "decrypt"}
               ELSE {"start", "get_kem", "send", "decrypt"}

\* Why: an evolution is first the peer's alone, then offered to Bob, then
\* Bob's too, then committed by Bob and last by the peer; no thread carries
\* anything of one evolution over into the next.
Follower == Peer \ {Bob}
Starting == {"start_pk", "start_pend", "start_cipher"}
Applying == {"apply_curr", "apply_pend"}
Committing == {"dec_pend", "dec_commit"}

\* Ciphertexts of p that are still to be applied.
Unapplied(p) == (kemWire \cup kemCipher[p]) \ applied[Bob]

\* Bob has no part in an evolution.
BobAtRest(p) ==
    /\ rootPend[Bob] = {} /\ Unapplied(p) = {}
    /\ \A t \in Thread : Owner[t] = Bob => pc[t] \notin Applying

Level(p) == epoch[p] = epoch[Bob] /\ rootCurr[p] = rootCurr[Bob]

\* p has the evolution with this secret pending.
Offers(p, secret) ==
    Level(p) /\ rootPend[p] = {Derive(rootCurr[p], secret)}

Behind(p) ==
    /\ epoch[Bob] = epoch[p] + 1 /\ rootPend[p] = {rootCurr[Bob]}
    /\ BobAtRest(p)
    /\ \A t \in Thread : Owner[t] = p => pc[t] \notin Starting

EvolutionPhase(p) ==
    /\ Level(p) \/ Behind(p)
    /\ \A ct \in Unapplied(p) : Offers(p, ct.ss)
    /\ \A key \in rootPend[Bob] :
           Level(p) /\ rootPend[p] = {key} /\ Unapplied(p) = {}

FollowerThread(t) == LET p == Owner[t] IN
    /\ pc[t] \notin Applying
    /\ pc[t] \in Starting =>
           /\ BobAtRest(p) /\ frame[t].root = rootCurr[p]
           /\ \A u \in Thread \ {t} : Owner[u] = p =>
                  pc[u] \notin Starting \cup Committing
           /\ IF pc[t] = "start_cipher" THEN Offers(p, frame[t].num)
                                        ELSE rootPend[p] = {}
    /\ pc[t] \in Committing =>
           /\ BobAtRest(p)
           /\ Level(p) => rootPend[p] = {}
           /\ \A m \in frame[t].msg :
                  m.epoch = epoch[Bob] /\ m.root = rootCurr[Bob]

BobThread(t) ==
    /\ pc[t] \notin Starting \cup Committing
    /\ pc[t] \in Applying => \A p \in Follower :
           Offers(p, frame[t].num) /\ Unapplied(p) = {}
    /\ pc[t] = "apply_pend" => frame[t].root = rootCurr[Bob]
    /\ pc[t] = "send_key" => frame[t].epoch = epoch[Bob]

AnyThread(t) ==
    /\ pc[t] \notin {"roll", "set_pk_hash"}
    /\ frame[t].msg \subseteq wire
    /\ \A m, n \in frame[t].msg : m.from # Owner[t] /\ m = n
    /\ pc[t] = "send_key" => frame[t].epoch <= epoch[Owner[t]]

SettledThread(t) ==
    AnyThread(t) /\ IF Owner[t] = Bob THEN BobThread(t) ELSE FollowerThread(t)

WireKnows ==
    \A m \in wire :
        /\ m.epoch <= epoch[Bob]
        /\ m.from = Bob /\ m.epoch = epoch[Bob] => m.root = rootCurr[Bob]

OneKeypair ==
    /\ ownKey[Bob] = {1} /\ kemCipher[Bob] = {}
    /\ \A p \in Follower : peerPk[p] = {1}
    /\ \A ct \in kemWire : ct.to = 1
    /\ \A p \in Peer : \A ct \in kemCipher[p] : ct.to = 1

InStepInv ==
    /\ WireKnows /\ OneKeypair
    /\ \A p \in Follower : EvolutionPhase(p)
    /\ \A t \in Thread : SettledThread(t)

\* No two messages share root, epoch and sequence number, and so none share a
\* key, whoever sent them (message_cipher.rs:14, "msg_seq is globally unique per
\* epoch").
KeysNeverRepeat ==
    \A m, n \in wire :
        m.root = n.root /\ m.epoch = n.epoch /\ m.seq = n.seq => m.id = n.id

\* Outside start_evolution, the ciphertext get_kem_cipher hands out carries
\* the secret from which RootState_pend was derived, whichever of several
\* concurrent start_evolution calls came last (evolution.rs:97, 121-124).
CipherMatchesPend ==
    \A p \in Peer : pkLock[p] = {} =>
        \A key \in rootPend[p] :
            \E ct \in kemCipher[p] : ct.ss = key[Len(key)]

\* Why: a thread between taking and releasing the bob_public_key mutex is its
\* only holder, and only set_peer_public_key has key and hash differ.
HoldsPkLock(t) == pc[t] \in {"set_pk_hash", "start_pend", "start_cipher"}

PkLockInv ==
    /\ \A t \in Thread : HoldsPkLock(t) => pkLock[Owner[t]] = {t}
    /\ \A p \in Peer : \A t \in pkLock[p] : Owner[t] = p /\ HoldsPkLock(t)
    /\ \A p \in Peer :
           PkSwapped(p) => \E t \in pkLock[p] : pc[t] = "set_pk_hash"

\* A host whose device only starts evolutions never calls apply_peer_kem.
NoApply == \A t \in Thread : "apply" \notin Calls[t]

\* What start_evolution has written while it still holds the mutex.
CipherInv ==
    /\ \A t \in Thread : pc[t] \notin {"apply_curr", "apply_pend"}
    /\ \A t \in Thread : pc[t] = "start_cipher" =>
           \A key \in rootPend[Owner[t]] : key[Len(key)] = frame[t].num
    /\ \A p \in Peer :
           (\A t \in pkLock[p] : pc[t] # "start_cipher") =>
               \A key \in rootPend[p] :
                   \E ct \in kemCipher[p] : ct.ss = key[Len(key)]

----------------------------------------------------------------------------
(* Action properties.                                                      *)

\* A new epoch has a new root (README.md:23, "replaces RootState_curr with
\* fresh PQ-derived material").
FreshRoot ==
    [][\A p \in Peer : epoch'[p] # epoch[p] => rootCurr'[p] # rootCurr[p]]_vars

\* try_decrypt_with_evolution answers None only if neither root of the device
\* opens the message (message_cipher.rs:90, "None if both keys fail").
NoneOnlyIfBothKeysFail ==
    [][\A t \in Thread : \A m \in frame[t].msg :
          /\ pc[t] \in {"dec_epoch", "dec_pend"} /\ pc'[t] = "idle"
          /\ ~Opens(m, frame[t].root)
          => /\ ~Opens(m, rootCurr[Owner[t]])
             /\ m.epoch = epoch[Owner[t]] + 1 =>
                    \A key \in rootPend[Owner[t]] : ~Opens(m, key)]_vars

\* Once try_decrypt_with_evolution has opened a message with the pending root,
\* it leaves the device on the root and in the epoch of the sender
\* (message_cipher.rs:87-88, "both sides converge on the same RootState").
AutoCommitLandsOnSender ==
    [][\A t \in Thread : \A m \in frame[t].msg :
          pc[t] = "dec_commit" /\ pc'[t] = "idle"
          => rootCurr'[Owner[t]] = m.root /\ epoch'[Owner[t]] = m.epoch]_vars

\* recover_after_loss leaves the device in the target epoch (anti_dos.rs:21).
RecoverLandsOnTarget ==
    [][\A t \in Thread :
          pc[t] = "roll" /\ pc'[t] = "idle"
          => epoch'[Owner[t]] = frame[t].epoch]_vars

----------------------------------------------------------------------------
(* Liveness.  Threads inside a call are scheduled; a host that keeps being *)
(* idle keeps sending; a message that stays undelivered is delivered.      *)

DeliverNewer(t) ==
    \E m \in wire : m.epoch > epoch[Owner[t]] /\ DecryptReadCurr(t, m)

FairSpec ==
    /\ Spec
    /\ \A t \in Thread :
          /\ WF_vars(pc[t] # "idle" /\ ThreadStep(t))
          /\ SF_vars(SendNextSeq(t) /\ UNCHANGED evoVars)
          /\ SF_vars(DeliverNewer(t) /\ UNCHANGED evoVars)

\* When Bob has committed an epoch, the other device reaches it, by messages
\* alone (README.md:23, "both peers converge without an extra round-trip").
Converges ==
    \A n \in 1 .. MaxEpoch :
        epoch[Bob] >= n ~> \A p \in Peer : epoch[p] >= n
============================================================================
