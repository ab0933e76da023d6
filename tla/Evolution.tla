----------------------------- MODULE Evolution -----------------------------
(***************************************************************************)
(* evolution.rs: ML-KEM evolution of the root key.  One side (Alice)       *)
(* encapsulates to the peer's public key and derives RootState_pend; the   *)
(* host carries the ciphertext to the other side (Bob), whose              *)
(* apply_peer_kem derives the same RootState_pend.                         *)
(*                                                                         *)
(* Keypairs are numbered from 1; 0 is a public key of the wrong length,    *)
(* which set_peer_public_key stores and encapsulate refuses.               *)
(***************************************************************************)
EXTENDS Ffi

CONSTANTS
    MaxSecret,               \* bound: encapsulations in a behaviour
    MaxKeypair,              \* bound: keypairs generated in a behaviour
    MaxEpoch,                \* bound: commit_evolution is not called beyond it
    SettledStart,            \* the host starts an evolution only when nothing
                             \* is pending and no other call is in flight
    DedupKem                 \* the host applies a KEM ciphertext only once

VARIABLES
    ownKey,                  \* bob_keys: {} or {keypair}
    peerPk,                  \* bob_public_key: {} or {public key}
    pkHash,                  \* peer_pk_hash: {} (all zero) or {hashed key}
    pkLock,                  \* the bob_public_key mutex: {} or {holder}
    kemCipher,               \* evo_state.kem_cipher: {} or {ciphertext}
    secrets,                 \* number of secrets encapsulated so far
    keypairs,                \* number of keypairs generated so far
    kemWire,                 \* KEM ciphertexts the host has sent
    applied                  \* KEM ciphertexts handed to apply_peer_kem

evoVars == <<ownKey, peerPk, pkHash, pkLock, kemCipher, secrets, keypairs,
             kemWire, applied>>
pkVars == <<peerPk, pkHash, pkLock>>
wireVars == <<kemWire, applied>>

ASSUME EvolutionAssumption ==
    /\ MaxSecret \in Nat /\ MaxKeypair \in Nat /\ MaxEpoch \in Nat
    /\ SettledStart \in BOOLEAN /\ DedupKem \in BOOLEAN

KemCipher == [to : Nat, ss : Int]

EvolutionTypeOK ==
    /\ ownKey \in [Peer -> SUBSET Nat]
    /\ peerPk \in [Peer -> SUBSET Nat]
    /\ pkHash \in [Peer -> SUBSET Nat]
    /\ pkLock \in [Peer -> SUBSET Thread]
    /\ kemCipher \in [Peer -> SUBSET KemCipher]
    /\ secrets \in Nat
    /\ keypairs \in Nat
    /\ kemWire \in SUBSET KemCipher
    /\ applied \in [Peer -> SUBSET KemCipher]

\* After the handshake: `bob` has generated keypair 1 and every other device
\* has been given its public key.
InitEvolution(bob) ==
    /\ ownKey = [p \in Peer |-> IF p = bob THEN {1} ELSE {}]
    /\ peerPk = [p \in Peer |-> IF p = bob THEN {} ELSE {1}]
    /\ pkHash = peerPk
    /\ pkLock = [p \in Peer |-> {}]
    /\ kemCipher = [p \in Peer |-> {}]
    /\ secrets = 0
    /\ keypairs = 1
    /\ kemWire = {}
    /\ applied = [p \in Peer |-> {}]

----------------------------------------------------------------------------
\* generate_bob_keypair: a new keypair replaces the old one.
GenerateBobKeypair(t) ==
    /\ Begin(t, "keypair") /\ keypairs < MaxKeypair
    /\ keypairs' = keypairs + 1
    /\ ownKey' = [ownKey EXCEPT ![Owner[t]] = {keypairs + 1}]
    /\ UNCHANGED <<rootVars, ffiVars, pkVars, kemCipher, secrets, wireVars>>

SetPeerPublicKeyUnlocked(t) ==
    /\ Begin(t, "set_pk") /\ pkLock[Owner[t]] = {}
    /\ \E pk \in 0 .. keypairs : peerPk' = [peerPk EXCEPT ![Owner[t]] = {pk}]
    /\ Continue(t, "set_pk_hash", NoFrame)
    /\ UNCHANGED <<rootVars, ownKey, pkHash, pkLock, kemCipher, secrets,
                   keypairs, wireVars>>

\* set_peer_public_key writes the key under its mutex, keeps the mutex ...
SetPeerPublicKey(t) ==
    /\ Begin(t, "set_pk") /\ pkLock[Owner[t]] = {}
    /\ \E pk \in 0 .. keypairs : peerPk' = [peerPk EXCEPT ![Owner[t]] = {pk}]
    /\ pkLock' = [pkLock EXCEPT ![Owner[t]] = {t}]
    /\ Continue(t, "set_pk_hash", NoFrame)
    /\ UNCHANGED <<rootVars, ownKey, pkHash, kemCipher, secrets, keypairs,
                   wireVars>>

\* ... and writes the hash before it releases it.
SetPeerPkHash(t) ==
    /\ pc[t] = "set_pk_hash"
    /\ pkHash' = [pkHash EXCEPT ![Owner[t]] = peerPk[Owner[t]]]
    /\ pkLock' = [pkLock EXCEPT ![Owner[t]] = {}]
    /\ Return(t)
    /\ UNCHANGED <<rootVars, ownKey, peerPk, kemCipher, secrets, keypairs,
                   wireVars>>

----------------------------------------------------------------------------
\* start_evolution copies RootState_curr before it takes the mutex.
StartEvolution(t) ==
    /\ Begin(t, "start") /\ secrets < MaxSecret
    /\ SettledStart => rootPend[Owner[t]] = {} /\ Alone(t)
    /\ Continue(t, "start_pk", [NoFrame EXCEPT !.root = rootCurr[Owner[t]]])
    /\ UNCHANGED <<rootVars, evoVars>>

PkSwapped(p) == pkHash[p] # {} /\ pkHash[p] # peerPk[p]

\* No public key (2), a public key that does not match its hash (5), or one
\* that encapsulate refuses (1): the call returns.
StartRefused(t) ==
    /\ pc[t] = "start_pk" /\ pkLock[Owner[t]] = {}
    /\ \/ peerPk[Owner[t]] = {}
       \/ PkSwapped(Owner[t])
       \/ peerPk[Owner[t]] = {0}
    /\ Return(t)
    /\ UNCHANGED <<rootVars, evoVars>>

StartEncapsulateUnlocked(t) ==
    /\ pc[t] = "start_pk" /\ pkLock[Owner[t]] = {}
    /\ peerPk[Owner[t]] \notin {{}, {0}}
    /\ secrets' = secrets + 1
    /\ Continue(t, "start_pend", [frame[t] EXCEPT !.num = secrets + 1])
    /\ UNCHANGED <<rootVars, ownKey, pkVars, kemCipher, keypairs, wireVars>>

\* Otherwise a fresh shared secret is encapsulated, the mutex still held.
StartEncapsulate(t) ==
    /\ pc[t] = "start_pk" /\ pkLock[Owner[t]] = {}
    /\ peerPk[Owner[t]] \notin {{}, {0}}
    /\ ~PkSwapped(Owner[t])
    /\ pkLock' = [pkLock EXCEPT ![Owner[t]] = {t}]
    /\ secrets' = secrets + 1
    /\ Continue(t, "start_pend", [frame[t] EXCEPT !.num = secrets + 1])
    /\ UNCHANGED <<rootVars, ownKey, peerPk, pkHash, kemCipher, keypairs,
                   wireVars>>

\* RootState_pend is derived from the copy of RootState_curr.
StartSetPend(t) ==
    /\ pc[t] = "start_pend"
    /\ SetRootStatePend(Owner[t], Derive(frame[t].root, frame[t].num))
    /\ Continue(t, "start_cipher", frame[t])
    /\ UNCHANGED evoVars

\* The ciphertext becomes available to get_kem_cipher; the mutex is released.
StartSetCipher(t) ==
    /\ pc[t] = "start_cipher"
    /\ \E pk \in peerPk[Owner[t]] :
           kemCipher' = [kemCipher EXCEPT
                            ![Owner[t]] = {[to |-> pk, ss |-> frame[t].num]}]
    /\ pkLock' = [pkLock EXCEPT ![Owner[t]] = {}]
    /\ Return(t)
    /\ UNCHANGED <<rootVars, ownKey, peerPk, pkHash, secrets, keypairs,
                   wireVars>>

----------------------------------------------------------------------------
\* get_kem_cipher: the host sends the ciphertext it reads, if there is one.
GetKemCipher(t) ==
    /\ Begin(t, "get_kem")
    /\ kemWire' = kemWire \cup kemCipher[Owner[t]]
    /\ UNCHANGED <<rootVars, ffiVars, ownKey, pkVars, kemCipher, secrets,
                   keypairs, applied>>

\* The host hands a received ciphertext to apply_peer_kem.
ReceiveKem(t, ct) ==
    /\ Begin(t, "apply")
    /\ DedupKem => ct \notin applied[Owner[t]]
    /\ applied' = [applied EXCEPT ![Owner[t]] = @ \cup {ct}]
    /\ UNCHANGED <<rootVars, ownKey, pkVars, kemCipher, secrets, keypairs,
                   kemWire>>

\* The secret decapsulate (external) answers: with the wrong key, one that
\* nobody else derives.
Decapsulate(ct, sk) == IF ct.to \in sk THEN ct.ss ELSE -ct.ss

\* No keypair (3), or decapsulate refuses a ciphertext for another key (2).
ApplyRefused(t, ct) ==
    /\ ReceiveKem(t, ct)
    /\ ct.to \notin ownKey[Owner[t]]
    /\ UNCHANGED ffiVars

ApplyPeerKem(t, ct) ==
    /\ ReceiveKem(t, ct)
    /\ ownKey[Owner[t]] # {}
    /\ Continue(t, "apply_curr",
           [NoFrame EXCEPT !.num = Decapsulate(ct, ownKey[Owner[t]])])

\* RootState_curr is copied ...
ApplyReadCurr(t) ==
    /\ pc[t] = "apply_curr"
    /\ Continue(t, "apply_pend",
                [frame[t] EXCEPT !.root = rootCurr[Owner[t]]])
    /\ UNCHANGED <<rootVars, evoVars>>

\* ... and RootState_pend derived from the copy.
ApplySetPend(t) ==
    /\ pc[t] = "apply_pend"
    /\ SetRootStatePend(Owner[t], Derive(frame[t].root, frame[t].num))
    /\ Return(t)
    /\ UNCHANGED evoVars

\* commit_evolution called by the host.
CommitEvolution(t) ==
    /\ Begin(t, "commit") /\ epoch[Owner[t]] < MaxEpoch
    /\ PromotePending(Owner[t]) \/ NothingPending(Owner[t])
    /\ UNCHANGED <<ffiVars, evoVars>>

EvolutionStep(t) ==
    \/ GenerateBobKeypair(t) \/ SetPeerPublicKey(t) \/ SetPeerPkHash(t)
    \/ StartEvolution(t) \/ StartRefused(t) \/ StartEncapsulate(t)
    \/ StartSetPend(t) \/ StartSetCipher(t)
    \/ GetKemCipher(t)
    \/ \E ct \in kemWire : ApplyRefused(t, ct) \/ ApplyPeerKem(t, ct)
    \/ ApplyReadCurr(t) \/ ApplySetPend(t) \/ CommitEvolution(t)
============================================================================
