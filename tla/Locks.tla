------------------------------- MODULE Locks -------------------------------
(***************************************************************************)
(* The process's mutexes: in which order each call takes them, and what it *)
(* holds while it waits for the next.  A step of a call is the taking of   *)
(* one lock.  What is done under a lock is left out, so a call may return  *)
(* after any of its steps: the early returns of the code are among these.  *)
(* The sender of constant_flow.rs holds the callback's lock while the      *)
(* host's callback runs, and the callback may make a call of its own.      *)
(***************************************************************************)
EXTENDS Naturals, FiniteSets

CONSTANTS
    Caller,                  \* threads of the host and of the engine
    Engine                   \* those that constant_flow.rs spawned

ASSUME LockAssumption == Engine \subseteq Caller

VARIABLES
    step,                    \* the step each thread is at, or Idle
    taken                    \* whether it has the lock of that step

lockVars == <<step, taken>>

\* Step i of a call: it holds these locks and takes that one.
LockStep(call, i, held, lock) ==
    [call |-> call, at |-> i, held |-> held, lock |-> lock]

Idle == LockStep("none", 0, {}, "none")

----------------------------------------------------------------------------
(* Calls that take one lock after another and never two.                   *)

PlainSteps ==
    { LockStep("get_epoch_id", 1, {}, "epoch"),
      LockStep("derive_message_key", 1, {}, "curr"),
      LockStep("generate_bob_keypair", 1, {}, "bob_keys"),
      LockStep("get_kem_cipher", 1, {}, "evo"),
      LockStep("vault_call", 1, {}, "vfs"),
      LockStep("queue_real_message", 1, {}, "queue"),
      LockStep("init_root_state", 1, {}, "bob_pk"),
      LockStep("init_root_state", 2, {}, "curr"),
      LockStep("init_root_state", 3, {}, "epoch"),
      LockStep("generate_id_stamp", 1, {}, "curr"),
      LockStep("generate_id_stamp", 2, {}, "bob_pk"),
      LockStep("generate_id_stamp", 3, {}, "vfs"),
      LockStep("apply_peer_kem", 1, {}, "bob_keys"),
      LockStep("apply_peer_kem", 2, {}, "curr"),
      LockStep("apply_peer_kem", 3, {}, "pend"),
      LockStep("record_counter_observation", 1, {}, "history"),
      LockStep("record_counter_observation", 2, {}, "last_sample") }

(* Calls that take a lock while they hold one.                             *)

SetPeerPublicKeyLocks ==
    { LockStep("set_peer_public_key", 1, {}, "peer_pk"),
      LockStep("set_peer_public_key", 2, {"peer_pk"}, "peer_hash") }

StartEvolutionLocks ==
    { LockStep("start_evolution", 1, {}, "curr"),
      LockStep("start_evolution", 2, {}, "peer_pk"),
      LockStep("start_evolution", 3, {"peer_pk"}, "peer_hash"),
      LockStep("start_evolution", 4, {"peer_pk"}, "pend"),
      LockStep("start_evolution", 5, {"peer_pk"}, "evo") }

CommitLocksBackwards(call, i) ==
    { LockStep(call, i, {}, "epoch"),
      LockStep(call, i + 1, {"epoch"}, "pend"),
      LockStep(call, i + 2, {"epoch", "pend"}, "curr") }

CommitEvolutionLocks(call, i) ==
    { LockStep(call, i, {}, "curr"),
      LockStep(call, i + 1, {"curr"}, "pend"),
      LockStep(call, i + 2, {"curr", "pend"}, "epoch") }

\* The reads, and the commit on the pending key.
DecryptLocks ==
    { LockStep("decrypt_with_auto_commit", 1, {}, "curr"),
      LockStep("decrypt_with_auto_commit", 2, {}, "epoch"),
      LockStep("decrypt_with_auto_commit", 3, {}, "pend") }
    \cup CommitEvolutionLocks("decrypt_with_auto_commit", 4)

\* recover_after_loss holds nothing between its rolls.
RollEpochForwardLocks ==
    { LockStep("roll_epoch_forward", 1, {}, "curr"),
      LockStep("roll_epoch_forward", 2, {"curr"}, "epoch") }

\* What the callback may call.
HostCalls ==
    PlainSteps \cup SetPeerPublicKeyLocks \cup StartEvolutionLocks
    \cup CommitEvolutionLocks("commit_evolution", 1) \cup DecryptLocks
    \cup RollEpochForwardLocks

\* Start and stop of the engine wait for the callback, so it makes no such call.
FlowCalls ==
    { LockStep("start_constant_flow", 1, {}, "callback"),
      LockStep("stop_constant_flow", 1, {}, "callback"),
      LockStep("stop_constant_flow", 2, {}, "queue") }

\* A tick of the engine: the queue, then the callback, then what it calls.
Tick ==
    { LockStep("tick", 1, {}, "queue"),
      LockStep("tick", 2, {}, "callback") }

InCallback == {[s EXCEPT !.held = @ \cup {"callback"}] : s \in HostCalls}

LockSteps == HostCalls \cup FlowCalls \cup Tick \cup InCallback

----------------------------------------------------------------------------
LockInit ==
    step = [t \in Caller |-> Idle] /\ taken = [t \in Caller |-> FALSE]

Holds(t) == step[t].held \cup (IF taken[t] THEN {step[t].lock} ELSE {})

\* The next step: of the same call, or the first one of what the callback calls.
Follows(s, r) ==
    \/ r.call = s.call /\ r.at = s.at + 1
       /\ ("callback" \in r.held <=> "callback" \in s.held)
    \/ s.call = "tick" /\ s.at = 2 /\ r \in InCallback /\ r.at = 1

Goes(t, s) ==
    step' = [step EXCEPT ![t] = s] /\ taken' = [taken EXCEPT ![t] = FALSE]

EnterCall(t, s) ==
    /\ step[t] = Idle /\ s.at = 1
    /\ s \in IF t \in Engine THEN Tick ELSE HostCalls \cup FlowCalls
    /\ Goes(t, s)

\* lock() returns: std::sync::Mutex admits one thread, and not its holder again.
Lock(t) ==
    /\ step[t] # Idle /\ ~taken[t]
    /\ \A u \in Caller : step[t].lock \notin Holds(u)
    /\ taken' = [taken EXCEPT ![t] = TRUE]
    /\ UNCHANGED step

\* Guards that the next step does not keep are dropped on the way.
Proceed(t, s) ==
    /\ taken[t] /\ Follows(step[t], s)
    /\ Goes(t, s)

LeaveCall(t) == taken[t] /\ Goes(t, Idle)

LockNext ==
    \E t \in Caller :
        \/ Lock(t) \/ LeaveCall(t)
        \/ \E s \in LockSteps : EnterCall(t, s) \/ Proceed(t, s)

LockSpec == LockInit /\ [][LockNext]_lockVars

----------------------------------------------------------------------------
(* Properties.                                                             *)

WaitsFor(t, u) ==
    step[t] # Idle /\ ~taken[t] /\ step[t].lock \in Holds(u)

\* No threads wait for one another, or one for itself: not a commit for a roll
\* (root_state.rs:64-66, 86-87), not a start of the evolution for a new peer
\* key (evolution.rs:85-90, 97-123), not the sender inside the callback for the
\* thread that stops it (constant_flow.rs:88, 105-106).
NoCircularWait ==
    \A S \in SUBSET Caller :
        S # {} => \E t \in S : \A u \in S : ~WaitsFor(t, u)
============================================================================
