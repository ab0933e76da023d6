----------------------------- MODULE MCSession -----------------------------
(***************************************************************************)
(* Instances of Session for TLC: who runs which threads, and which calls   *)
(* they make.                                                              *)
(***************************************************************************)
EXTENDS Session

OneThreadEach == [t \in Thread |-> IF t = "a1" THEN "alice" ELSE "bob"]
AllOnBob == [t \in Thread |-> "bob"]
AllOnAlice == [t \in Thread |-> "alice"]
AliceTwoBobOne == [t \in Thread |-> IF t = "b1" THEN "bob" ELSE "alice"]

\* Alice starts evolutions and follows by auto-commit; Bob applies, commits,
\* and rolls epochs of its own accord; both replace their KEM keys meanwhile.
PairCalls == [t \in Thread |->
    IF t = "a1" THEN {"start", "get_kem", "set_pk", "decrypt"}
                ELSE {"keypair", "start", "apply", "commit", "send", "roll_to"}]

\* Three threads of Alice's host.
StartCalls == [t \in Thread |->
    CASE t = "a1" -> {"start", "get_kem"}
      [] t = "a2" -> {"start", "commit"}
      [] t = "a3" -> {"set_pk", "keypair"}]

\* Two threads of Bob's host, one of which ends epochs.
SendRollCalls == [t \in Thread |->
    IF t = "b1" THEN {"send"} ELSE {"send", "roll_to"}]

\* Two threads of Alice's host decrypt.
ReceiveCalls == [t \in Thread |->
    CASE t = "a1" -> {"start", "get_kem", "decrypt"}
      [] t = "a2" -> {"decrypt"}
      [] t = "b1" -> {"apply", "commit", "send"}]

\* One thread each; Bob alone commits of its own accord.
EvolveCalls == [t \in Thread |->
    IF t = "a1" THEN {"start", "get_kem", "decrypt"}
                ELSE {"apply", "commit", "send"}]

\* Alice commits; Bob, who never saw the ciphertext, recovers from headers.
LostKemCalls == [t \in Thread |->
    IF t = "a1" THEN {"start", "commit", "send"} ELSE {"recover"}]
============================================================================
