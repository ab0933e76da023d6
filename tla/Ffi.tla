-------------------------------- MODULE Ffi --------------------------------
(***************************************************************************)
(* lib.rs: the extern "C" calls of the host application.  Any thread of    *)
(* the host may be inside any call; a call runs from one critical section  *)
(* to the next, and the steps of different threads interleave.             *)
(***************************************************************************)
EXTENDS RootState

CONSTANTS
    Thread,                  \* threads of the host application
    Owner,                   \* the device each thread runs on
    Calls                    \* the calls each thread makes

VARIABLES
    pc,                      \* "idle", or where in a call the thread is
    frame                    \* the locals of the call

ffiVars == <<pc, frame>>

CallName == {"commit", "start", "get_kem", "apply", "set_pk", "keypair",
             "send", "decrypt", "recover", "roll_to"}

ASSUME CallersAssumption ==
    /\ Owner \in [Thread -> Peer]
    /\ Calls \in [Thread -> SUBSET CallName]

Label == {"idle", "start_pk", "start_pend", "start_cipher", "set_pk_hash",
          "apply_curr", "apply_pend", "send_epoch", "send_key",
          "dec_epoch", "dec_pend", "dec_commit", "roll"}

\* A ciphertext on the wire.  It was sealed under the key derived from
\* `root` for (epoch, seq); the header shows from, epoch and seq.  `id` tells
\* two messages apart.
Message == [from : Peer, root : RootKey, epoch : Nat, seq : Int, id : Nat]

\* root: the copy of RootState_curr; epoch: the copy of EpochID, or the target
\* of a recovery; num: the shared secret, the sequence number, or the rolls
\* left to do; msg: the message being decrypted.
Frame == [root : RootKey, epoch : Nat, num : Int, msg : SUBSET Message]
NoFrame == [root |-> RootInit, epoch |-> 0, num |-> 0, msg |-> {}]

FfiTypeOK ==
    /\ pc \in [Thread -> Label]
    /\ frame \in [Thread -> Frame]

InitFfi ==
    /\ pc = [t \in Thread |-> "idle"]
    /\ frame = [t \in Thread |-> NoFrame]

\* Thread t enters a call.
Begin(t, call) ==
    /\ pc[t] = "idle"
    /\ call \in Calls[t]

\* The call goes on at label l with the locals f.
Continue(t, l, f) ==
    /\ pc' = [pc EXCEPT ![t] = l]
    /\ frame' = [frame EXCEPT ![t] = f]

\* The call returns.
Return(t) ==
    /\ pc' = [pc EXCEPT ![t] = "idle"]
    /\ frame' = [frame EXCEPT ![t] = NoFrame]

\* No other thread is inside a call on this thread's device.
Alone(t) == \A u \in Thread \ {t} : Owner[u] = Owner[t] => pc[u] = "idle"
============================================================================
