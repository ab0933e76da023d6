----------------------------- MODULE InitModule -----------------------------
(***************************************************************************)
(* init_module.rs: pairing.  A device makes RootState_init of the two      *)
(* entropy streams, and hashes the root state and Bob's public key into    *)
(* the ID stamp that it keeps in block 994 of its vault.  Threads of the   *)
(* host may be in these calls at the same time; a step is one critical     *)
(* section.  The hashes are ideal: a root is the bytes it was made of, a   *)
(* stamp the root and the key.                                             *)
(***************************************************************************)
EXTENDS Naturals, Sequences, FiniteSetsExt

CONSTANTS
    Pairer,                  \* the threads of the host
    PublicKey,               \* public keys, "" the empty one among them
    Entropy,                 \* entropy streams: sequences of bytes
    MinEntropy,              \* 64
    MaxPairings              \* bound on the pairings

ASSUME PairingAssumption ==
    /\ Entropy \subseteq Seq(Nat)
    /\ MinEntropy \in Nat \ {0} /\ MaxPairings \in Nat

\* The key and the root carry the number of the pairing they came with, 0 if
\* none did since the process started.
VARIABLES
    bobPk,                   \* bob_pk_store: [pk, pairing]
    root,                    \* ROOT_STATE_CURR: [bytes, pairing]
    epochZero,               \* whether EPOCH_ID is 0
    call,                    \* how far the call of each thread is
    stamp,                   \* block 994: {} or {[root, pk]}
    given                    \* what the pairings so far were given

initVars == <<bobPk, root, epochZero, call, stamp, given>>

NoKey == ""
NoPk == [pk |-> NoKey, pairing |-> 0]
ZeroRoot == [bytes |-> << >>, pairing |-> 0]
IdleCall == [at |-> "idle"]

PairingInit ==
    /\ bobPk = NoPk /\ root = ZeroRoot /\ epochZero = TRUE
    /\ call = [t \in Pairer |-> IdleCall]
    /\ stamp = {} /\ given = << >>

----------------------------------------------------------------------------
Shorter(s, t) == Min({Len(s), Len(t)})

OddEvenInterleave(alice, bob) ==
    [i \in 1 .. 2 * Shorter(alice, bob) |->
        IF i % 2 = 1 THEN alice[(i + 1) \div 2] ELSE bob[i \div 2]]

EntropyReject(data) ==
    \/ Len(data) < MinEntropy
    \/ \A i \in DOMAIN data : data[i] = 0
    \/ \A i \in DOMAIN data : data[i] = data[1]

\* Code 0 of initialise_root_state; the other codes change nothing.
Accepted(alice, bob, pk) ==
    /\ ~EntropyReject(alice) /\ ~EntropyReject(bob)
    /\ Len(OddEvenInterleave(alice, bob)) >= MinEntropy
    /\ pk # NoKey

CallGoes(t, to) == call' = [call EXCEPT ![t] = to]

InitialiseKeepsKey(t, alice, bob, pk) ==
    /\ call[t] = IdleCall /\ Len(given) < MaxPairings
    /\ Accepted(alice, bob, pk)
    /\ given' = Append(given, [alice |-> alice, bob |-> bob, pk |-> pk])
    /\ bobPk' = IF bobPk = NoPk THEN [pk |-> pk, pairing |-> Len(given) + 1]
                                ELSE bobPk
    /\ CallGoes(t, [at |-> "root", pairing |-> Len(given) + 1])
    /\ UNCHANGED <<root, epochZero, stamp>>

\* store_bob_public_key; the pairing begins.
InitialiseRootState(t, alice, bob, pk) ==
    /\ call[t] = IdleCall /\ Len(given) < MaxPairings
    /\ Accepted(alice, bob, pk)
    /\ given' = Append(given, [alice |-> alice, bob |-> bob, pk |-> pk])
    /\ bobPk' = [pk |-> pk, pairing |-> Len(given) + 1]
    /\ CallGoes(t, [at |-> "root", pairing |-> Len(given) + 1])
    /\ UNCHANGED <<root, epochZero, stamp>>

RootOf(p) == OddEvenInterleave(p.alice, p.bob)

SetRootStateCurr(t) ==
    /\ call[t].at = "root"
    /\ root' = [bytes |-> RootOf(given[call[t].pairing]),
                pairing |-> call[t].pairing]
    /\ CallGoes(t, [at |-> "epoch"])
    /\ UNCHANGED <<bobPk, epochZero, stamp, given>>

SetEpochId(t) ==
    /\ call[t].at = "epoch"
    /\ epochZero' = TRUE
    /\ CallGoes(t, IdleCall)
    /\ UNCHANGED <<bobPk, root, stamp, given>>

Refused ==
    {p \in Entropy \X Entropy \X PublicKey : ~Accepted(p[1], p[2], p[3])}

InitialiseRefused == Refused # {} /\ UNCHANGED initVars

\* generate_id_stamp_from_curr: the root is read under one lock, ...
GenerateIdStamp(t) ==
    /\ call[t] = IdleCall
    /\ CallGoes(t, [at |-> "pk", root |-> root])
    /\ UNCHANGED <<bobPk, root, epochZero, stamp, given>>

ComputeIdStamp(rootState, pk) == [root |-> rootState, pk |-> pk]

\* ... the key under another.
ReadBobPk(t) ==
    /\ call[t].at = "pk"
    /\ CallGoes(t, [at |-> "persist",
                    stamp |-> ComputeIdStamp(call[t].root, bobPk)])
    /\ UNCHANGED <<bobPk, root, epochZero, stamp, given>>

PersistIdStamp(t) ==
    /\ call[t].at = "persist"
    /\ stamp' = {call[t].stamp}
    /\ CallGoes(t, IdleCall)
    /\ UNCHANGED <<bobPk, root, epochZero, given>>

\* The write of the block fails: it may hold no stamp any more.
PersistFails(t) ==
    /\ call[t].at = "persist"
    /\ stamp' \in {stamp, {}}
    /\ CallGoes(t, IdleCall)
    /\ UNCHANGED <<bobPk, root, epochZero, given>>

LoadIdStamp == stamp # {} /\ UNCHANGED initVars

\* The session moves on, paired or not; once, until EPOCH_ID is 0 again.
EpochChanges ==
    /\ epochZero
    /\ root' = [root EXCEPT !.bytes = Append(@, 2)]
    /\ epochZero' = FALSE
    /\ UNCHANGED <<bobPk, call, stamp, given>>

\* The root state and the key live in memory only.
ProcessRestarts ==
    /\ bobPk' = NoPk /\ root' = ZeroRoot /\ epochZero' = TRUE
    /\ call' = [t \in Pairer |-> IdleCall]
    /\ UNCHANGED <<stamp, given>>

PairingStep(t) ==
    \/ \E alice, bob \in Entropy, pk \in PublicKey :
           InitialiseRootState(t, alice, bob, pk)
    \/ SetRootStateCurr(t) \/ SetEpochId(t)
    \/ GenerateIdStamp(t) \/ ReadBobPk(t)
    \/ PersistIdStamp(t) \/ PersistFails(t)

PairingNext ==
    \/ \E t \in Pairer : PairingStep(t)
    \/ InitialiseRefused \/ LoadIdStamp \/ EpochChanges \/ ProcessRestarts

PairingSpec == PairingInit /\ [][PairingNext]_initVars

----------------------------------------------------------------------------
(* Properties.                                                             *)

\* A stamp never binds a root to the key of an earlier pairing, nor to none,
\* however the threads' pairings and stamps overlap: the key is stored before
\* the root and read after it (init_module.rs:108-115, 129-130).
StampKeyNotStale ==
    \A s \in stamp : s.root.pairing <= s.pk.pairing

\* The stamp of a device that was paired since the process started is made of
\* that pairing's initial root and key (init_module.rs:12,
\* "SHA-256(prefix || RootState_init || bob_pk)").
StampIsOfPairing ==
    \A s \in stamp : s.root.pairing # 0 =>
        /\ s.root.bytes = RootOf(given[s.root.pairing])
        /\ s.pk.pairing = s.root.pairing
============================================================================
