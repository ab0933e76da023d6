----------------------------- MODULE MCProcess -----------------------------
(***************************************************************************)
(* Small instances of the parts of one process: the parts beside the       *)
(* session and the vault, and a session with three threads of one device.  *)
(* They share no state, so a behaviour is one of a part of it.             *)
(***************************************************************************)
EXTENDS MCSession, MCPairing, ConstantFlow, ClockAlign, TailPadding, Locks

VARIABLE part

\* Differences on both sides of zero, counters on both sides of the largest
\* positive signed number of four bits.
Observations == [remote : 5 .. 10, local : {7, 8}]

ProcessVars ==
    <<part, vars, flowVars, clockVars, padVars, initVars, lockVars>>

ProcessInit ==
    /\ part \in {"session", "flow", "clock", "padding", "pairing", "locks"}
    /\ Init /\ FlowInit /\ ClockInit /\ PadInit /\ PairingInit /\ LockInit

SessionPart ==
    /\ part = "session" /\ Next
    /\ UNCHANGED <<part, flowVars, clockVars, padVars, initVars, lockVars>>

FlowPart ==
    /\ part = "flow" /\ FlowNext
    /\ UNCHANGED <<part, vars, clockVars, padVars, initVars, lockVars>>

ClockPart ==
    /\ part = "clock" /\ ClockNext
    /\ UNCHANGED <<part, vars, flowVars, padVars, initVars, lockVars>>

PadPart ==
    /\ part = "padding" /\ PadNext
    /\ UNCHANGED <<part, vars, flowVars, clockVars, initVars, lockVars>>

PairingPart ==
    /\ part = "pairing" /\ PairingNext
    /\ UNCHANGED <<part, vars, flowVars, clockVars, padVars, lockVars>>

LockPart ==
    /\ part = "locks" /\ LockNext
    /\ UNCHANGED <<part, vars, flowVars, clockVars, padVars, initVars>>

ProcessNext ==
    \/ SessionPart \/ FlowPart \/ ClockPart
    \/ PadPart \/ PairingPart \/ LockPart

ProcessSpec ==
    ProcessInit /\ [][ProcessNext]_ProcessVars /\ FlowFairness
============================================================================
