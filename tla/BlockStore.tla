----------------------------- MODULE BlockStore -----------------------------
(***************************************************************************)
(* What the vault promises its host: a block is handed out to one holder   *)
(* at a time and stays theirs until they give it up.  I/O errors, crashes  *)
(* and restarts do not appear, because they may not change who holds what. *)
(***************************************************************************)
CONSTANT Block

VARIABLES
    held,                    \* blocks that have a holder
    answer                   \* the last answer: {b}, or {} for a refusal

Init == held = {} /\ answer = {}

Allocate(b) == b \notin held /\ held' = held \cup {b} /\ answer' = {b}

Refuse == answer' = {} /\ UNCHANGED held

GiveUp(b) == b \in held /\ held' = held \ {b} /\ UNCHANGED answer

Next == Refuse \/ \E b \in Block : Allocate(b) \/ GiveUp(b)

Spec == Init /\ [][Next]_<<held, answer>>
============================================================================
