--------------------------- MODULE MessageCipher ---------------------------
(***************************************************************************)
(* message_cipher.rs: sealing a message under a key derived from           *)
(* (RootState_curr, EpochID, msg_seq), and the decrypt path that commits a *)
(* pending evolution when the peer is found to be one epoch ahead.         *)
(*                                                                         *)
(* AES-GCM (external) opens a ciphertext exactly under the key it was      *)
(* sealed with; epoch and seq of that key come from the header, so the     *)
(* root alone decides.  The wire is the set of ciphertexts ever sent: the  *)
(* relay may lose, repeat and reorder them.                                *)
(***************************************************************************)
EXTENDS Ffi, FiniteSets

CONSTANT MaxSeq              \* bound: sequence numbers used in an epoch

VARIABLE wire                \* messages sent by either device

ASSUME MaxSeqAssumption == MaxSeq \in Nat

CipherTypeOK == wire \in SUBSET Message /\ IsFiniteSet(wire)
InitCipher == wire = {}

Opens(m, root) == m.root = root

HeaderSameEpoch(m, p) == m.epoch = epoch[p]

\* The header says that the peer is ahead by one epoch.
OneAhead(m, p) == m.epoch = epoch[p] + 1

----------------------------------------------------------------------------
\* The host's send, in the order of the module's protocol: next_msg_seq ...
SendNextSeq(t) ==
    /\ Begin(t, "send") /\ msgCounter[Owner[t]] <= MaxSeq
    /\ msgCounter' = [msgCounter EXCEPT ![Owner[t]] = @ + 1]
    /\ Continue(t, "send_epoch",
                [NoFrame EXCEPT !.num = msgCounter[Owner[t]]])
    /\ UNCHANGED <<rootCurr, rootPend, epoch, wire>>

\* ... get_epoch_id ...
SendReadEpoch(t) ==
    /\ pc[t] = "send_epoch"
    /\ Continue(t, "send_key", [frame[t] EXCEPT !.epoch = epoch[Owner[t]]])
    /\ UNCHANGED <<rootVars, wire>>

\* ... derive_message_key, which copies RootState_curr, and encrypt.
SendEncrypt(t) ==
    /\ pc[t] = "send_key"
    /\ wire' = wire \cup {[from |-> Owner[t], root |-> rootCurr[Owner[t]],
                           epoch |-> frame[t].epoch, seq |-> frame[t].num,
                           id |-> Cardinality(wire)]}
    /\ Return(t)
    /\ UNCHANGED rootVars

----------------------------------------------------------------------------
\* try_decrypt_with_evolution copies RootState_curr ...
DecryptReadCurr(t, m) ==
    /\ Begin(t, "decrypt") /\ m.from # Owner[t]
    /\ Continue(t, "dec_epoch",
                [NoFrame EXCEPT !.root = rootCurr[Owner[t]], !.msg = {m}])
    /\ UNCHANGED <<rootVars, wire>>

\* ... then EpochID.  Fast path: the current root opens the message.
DecryptOpened(t) ==
    /\ pc[t] = "dec_epoch"
    /\ \E m \in frame[t].msg : Opens(m, frame[t].root)
    /\ Return(t)
    /\ UNCHANGED <<rootVars, wire>>

\* Slow path: it does not, and the header is one epoch ahead.
DecryptSlowPath(t) ==
    /\ pc[t] = "dec_epoch"
    /\ \E m \in frame[t].msg :
           ~Opens(m, frame[t].root) /\ OneAhead(m, Owner[t])
    /\ Continue(t, "dec_pend", frame[t])
    /\ UNCHANGED <<rootVars, wire>>

DecryptPendUnchecked(t) ==
    /\ pc[t] = "dec_pend" /\ rootPend[Owner[t]] # {}
    /\ Continue(t, "dec_commit", frame[t])
    /\ UNCHANGED <<rootVars, wire>>

\* The pending root opens the message: commit next.
DecryptOpenedByPend(t) ==
    /\ pc[t] = "dec_pend"
    /\ \E m \in frame[t].msg, key \in rootPend[Owner[t]] : Opens(m, key)
    /\ Continue(t, "dec_commit", frame[t])
    /\ UNCHANGED <<rootVars, wire>>

\* None: the fast path failed and there is no slow path, or it failed too.
DecryptFails(t) ==
    /\ \/ /\ pc[t] = "dec_epoch"
          /\ \E m \in frame[t].msg :
                 ~Opens(m, frame[t].root) /\ ~OneAhead(m, Owner[t])
       \/ /\ pc[t] = "dec_pend"
          /\ \A m \in frame[t].msg, key \in rootPend[Owner[t]] : ~Opens(m, key)
    /\ Return(t)
    /\ UNCHANGED <<rootVars, wire>>

\* commit_evolution promotes what is pending now, if anything still is.
DecryptCommit(t) ==
    /\ pc[t] = "dec_commit"
    /\ PromotePending(Owner[t]) \/ NothingPending(Owner[t])
    /\ Return(t)
    /\ UNCHANGED wire

CipherStep(t) ==
    \/ SendNextSeq(t) \/ SendReadEpoch(t) \/ SendEncrypt(t)
    \/ \E m \in wire : DecryptReadCurr(t, m)
    \/ DecryptOpened(t) \/ DecryptSlowPath(t) \/ DecryptFails(t)
    \/ DecryptOpenedByPend(t) \/ DecryptCommit(t)
============================================================================
