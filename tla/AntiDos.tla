------------------------------ MODULE AntiDos ------------------------------
(***************************************************************************)
(* anti_dos.rs: recover_after_loss reads EpochID once, computes the gap to *)
(* the target and rolls the root forward that many times.  Each roll is    *)
(* atomic; the loop is not.                                                *)
(***************************************************************************)
EXTENDS Ffi

CONSTANT MaxGap              \* the largest gap recover_after_loss accepts

ASSUME MaxGapAssumption == MaxGap \in Nat

\* target <= e, or a gap beyond MaxGap (u32::MAX): the call returns.
RecoverDeclined(t, target) ==
    /\ \/ target <= epoch[Owner[t]]
       \/ target - epoch[Owner[t]] > MaxGap
    /\ UNCHANGED <<rootVars, ffiVars>>

RecoverOneTooMany(t, target) ==
    /\ target > epoch[Owner[t]]
    /\ target - epoch[Owner[t]] <= MaxGap
    /\ Continue(t, "roll", [NoFrame EXCEPT !.epoch = target,
                               !.num = target - epoch[Owner[t]] + 1])
    /\ UNCHANGED rootVars

\* Otherwise the loop starts with the gap computed now.
RecoverAfterLoss(t, target) ==
    /\ target > epoch[Owner[t]]
    /\ target - epoch[Owner[t]] <= MaxGap
    /\ Continue(t, "roll", [NoFrame EXCEPT !.epoch = target,
                               !.num = target - epoch[Owner[t]]])
    /\ UNCHANGED rootVars

\* One roll per epoch of the gap.
RollUntilTarget(t) ==
    /\ pc[t] = "roll"
    /\ RollEpochForward(Owner[t])
    /\ IF frame[t].num > 1
         THEN Continue(t, "roll", [frame[t] EXCEPT !.num = @ - 1])
         ELSE Return(t)

RecoverStep(t, targets) ==
    \/ \E target \in targets :
           /\ pc[t] = "idle"
           /\ RecoverDeclined(t, target) \/ RecoverAfterLoss(t, target)
    \/ RollUntilTarget(t)
============================================================================
