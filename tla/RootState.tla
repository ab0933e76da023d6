----------------------------- MODULE RootState -----------------------------
(***************************************************************************)
(* root_state.rs: the three globals every key of a device derives from,    *)
(* each behind a mutex of its own, and the MSG_COUNTER that is reset with  *)
(* them.  The operators below are the critical sections of the module:     *)
(* what one thread does between taking its locks and releasing them.       *)
(*                                                                         *)
(* A root key is the list of derivation steps that lead to it from         *)
(* RootState_init, the empty list; HKDF is thus an injective function, as  *)
(* the code takes it to be.                                                *)
(***************************************************************************)
EXTENDS Integers, Sequences

CONSTANT Peer                \* the two devices of a pairing

VARIABLES
    rootCurr,                \* ROOT_STATE_CURR of each device
    rootPend,                \* ROOT_STATE_PEND: {} is None, {k} is Some(k)
    epoch,                   \* EPOCH_ID
    msgCounter               \* MSG_COUNTER of message_cipher.rs

rootVars == <<rootCurr, rootPend, epoch, msgCounter>>

\* A derivation step: the epoch roll of HKDF, or the KEM shared secret used as
\* salt (positive), or what decapsulating with the wrong secret key yields
\* (negative).
Step == Int
EpochRoll == 0
RootKey == Seq(Step)
RootInit == << >>

RootTypeOK ==
    /\ rootCurr \in [Peer -> RootKey]
    /\ rootPend \in [Peer -> SUBSET RootKey]
    /\ epoch \in [Peer -> Nat]
    /\ msgCounter \in [Peer -> Nat \ {0}]    \* 0 is the error sentinel

\* The devices after the pairing handshake: both hold RootState_init.
InitRootState ==
    /\ rootCurr = [p \in Peer |-> RootInit]
    /\ rootPend = [p \in Peer |-> {}]
    /\ epoch = [p \in Peer |-> 0]
    /\ msgCounter = [p \in Peer |-> 1]

Derive(root, step) == Append(root, step)

SetRootStatePend(p, key) ==
    /\ rootPend' = [rootPend EXCEPT ![p] = {key}]
    /\ UNCHANGED <<rootCurr, epoch, msgCounter>>

----------------------------------------------------------------------------
\* Plausible bugs of the critical sections, for the sensitivity runs.

CommitCounterFromZero(p) ==
    \E key \in rootPend[p] :
        /\ rootCurr' = [rootCurr EXCEPT ![p] = key]
        /\ rootPend' = [rootPend EXCEPT ![p] = {}]
        /\ epoch' = [epoch EXCEPT ![p] = @ + 1]
        /\ msgCounter' = [msgCounter EXCEPT ![p] = 0]

CommitKeepsPend(p) ==
    \E key \in rootPend[p] :
        /\ rootCurr' = [rootCurr EXCEPT ![p] = key]
        /\ epoch' = [epoch EXCEPT ![p] = @ + 1]
        /\ msgCounter' = [msgCounter EXCEPT ![p] = 1]
        /\ UNCHANGED rootPend

CommitForgetsEpoch(p) ==
    \E key \in rootPend[p] :
        /\ rootCurr' = [rootCurr EXCEPT ![p] = key]
        /\ rootPend' = [rootPend EXCEPT ![p] = {}]
        /\ msgCounter' = [msgCounter EXCEPT ![p] = 1]
        /\ UNCHANGED epoch

RollKeepsRoot(p) ==
    /\ epoch' = [epoch EXCEPT ![p] = @ + 1]
    /\ msgCounter' = [msgCounter EXCEPT ![p] = 1]
    /\ UNCHANGED <<rootCurr, rootPend>>

----------------------------------------------------------------------------
\* commit_evolution under its three locks: Some(new_key) is promoted ...
PromotePending(p) ==
    \E key \in rootPend[p] :
        /\ rootCurr' = [rootCurr EXCEPT ![p] = key]
        /\ rootPend' = [rootPend EXCEPT ![p] = {}]
        /\ epoch' = [epoch EXCEPT ![p] = @ + 1]
        /\ msgCounter' = [msgCounter EXCEPT ![p] = 1]

\* ... and None is left alone (the call returns 1).
NothingPending(p) ==
    /\ rootPend[p] = {}
    /\ UNCHANGED rootVars

\* roll_epoch_forward under its two locks; ROOT_STATE_PEND is not among them
\* and keeps its value.
RollEpochForward(p) ==
    /\ rootCurr' = [rootCurr EXCEPT ![p] = Derive(@, EpochRoll)]
    /\ epoch' = [epoch EXCEPT ![p] = @ + 1]
    /\ msgCounter' = [msgCounter EXCEPT ![p] = 1]
    /\ UNCHANGED rootPend
============================================================================
