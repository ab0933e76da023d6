---------------------------- MODULE TailPadding ----------------------------
(***************************************************************************)
(* tail_padding.rs: noise of a random length behind a payload, and that    *)
(* length, two bytes, behind the noise.  A byte is a digit to base Base.   *)
(***************************************************************************)
EXTENDS Naturals, Sequences

CONSTANTS
    Base,                    \* 256
    MinPad, MaxPad,          \* MIN_PAD, MAX_PAD
    MaxPayload, MaxFrame     \* bounds: lengths of payloads, of what arrives

\* A frame of four bytes has no room for less than MinPad bytes of noise, and
\* a length fits its two bytes.
ASSUME PaddingAssumption ==
    /\ Base \in Nat \ {0, 1} /\ MinPad \in Nat /\ MaxPad \in Nat
    /\ MaxPayload \in Nat /\ MaxFrame \in Nat
    /\ 2 <= MinPad /\ MinPad <= MaxPad /\ MaxPad < Base * Base

VARIABLES
    payload,                 \* what was padded: {d}, or {} if nobody padded it
    arrived,                 \* the frame that arrives
    answered, stripped       \* whether strip_tail_padding has answered, and
                             \* what: {d} or None

padVars == <<payload, arrived, answered, stripped>>

Byte == 0 .. Base - 1
None == {}

PadInit ==
    payload = {} /\ arrived = << >> /\ answered = FALSE /\ stripped = None

----------------------------------------------------------------------------
Pad(d, noise) == d \o noise \o <<Len(noise) % Base, Len(noise) \div Base>>

AddTailPadding(d, noise) ==
    /\ payload' = {d} /\ arrived' = Pad(d, noise)
    /\ answered' = FALSE /\ stripped' = None

\* Anything else that is handed to strip_tail_padding.
Arrive(s) ==
    /\ payload' = {} /\ arrived' = s
    /\ answered' = FALSE /\ stripped' = None

StripAnyLength(s) ==
    LET n == Len(s)
        l == s[n - 1] + Base * s[n]
    IN  IF n < 4 THEN None
        ELSE IF n < 2 + l THEN None
        ELSE {SubSeq(s, 1, n - 2 - l)}

Strip(s) ==
    LET n == Len(s)
        l == s[n - 1] + Base * s[n]
    IN  IF n < 4 THEN None
        ELSE IF l < MinPad \/ l > MaxPad THEN None
        ELSE IF n < 2 + l THEN None
        ELSE {SubSeq(s, 1, n - 2 - l)}

StripTailPadding ==
    /\ answered' = TRUE /\ stripped' = Strip(arrived)
    /\ UNCHANGED <<payload, arrived>>

Bytes(n) == [1 .. n -> Byte]

PadNext ==
    \/ \E n \in 0 .. MaxPayload, l \in MinPad .. MaxPad :
           \E d \in Bytes(n), noise \in Bytes(l) : AddTailPadding(d, noise)
    \/ \E n \in 0 .. MaxFrame : \E s \in Bytes(n) : Arrive(s)
    \/ StripTailPadding

PadSpec == PadInit /\ [][PadNext]_padVars

----------------------------------------------------------------------------
(* Properties.                                                             *)

Heads(s) == {SubSeq(s, 1, n) : n \in 0 .. Len(s)}

\* Every payload that some padding turns into the frame.
Origins(s) ==
    {d \in Heads(s) :
        \E l \in MinPad .. MaxPad : \E noise \in Bytes(l) : s = Pad(d, noise)}

\* strip_tail_padding finds the payload again, whatever the noise happens to
\* look like, and refuses exactly the frames that nobody can have padded; no
\* index leaves the frame (tail_padding.rs:16-40).
StripInverts ==
    answered =>
        /\ stripped = Origins(arrived)
        /\ payload # {} => stripped = payload
============================================================================
