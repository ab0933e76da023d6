---------------------------- MODULE ConstantFlow ----------------------------
(***************************************************************************)
(* constant_flow.rs: a thread that hands a packet to the host's callback   *)
(* on every tick, the queued message if there is one and noise if not.     *)
(* RUNNING is an atomic flag; the one-slot queue and the callback have a   *)
(* mutex each, and the mutex of the callback is held while it runs.        *)
(*                                                                         *)
(* A packet is the number of the message in it, or Noise.  A step of the   *)
(* thread that takes the lock, works and drops it is one action; the call  *)
(* of the callback is two, as the lock is held in between: nobody else     *)
(* writes the callback while a sender is "calling".                        *)
(***************************************************************************)
EXTENDS Naturals, Sequences

CONSTANTS
    Host,                    \* host threads that start and stop the engine
    Sender,                  \* bound: one for each thread a process spawns
    MaxMessages,             \* bound: messages queued in a behaviour
    Patient                  \* the host calls start and stop one at a time, and
                             \* starts again only after the last sender ended

ASSUME FlowAssumption ==
    MaxMessages \in Nat /\ Patient \in BOOLEAN /\ Host \cap Sender = {}

VARIABLES
    running,                 \* RUNNING
    callback,                \* tx_callback is Some
    slot,                    \* pending_payload: {} or {message}
    poisoned,                \* a sender panicked inside the queue's lock
    control,                 \* where each host thread is
    sender, packet,          \* where each sender is, and what it sends
    queued, sent             \* messages queued so far; messages sent, in order

flowVars == <<running, callback, slot, poisoned, control, sender, packet,
              queued, sent>>

Noise == 0
RealMessage == 1 .. MaxMessages

HostLabel == {"idle", "start_cb", "start_run", "stop_cb", "stop_slot"}
SenderLabel == {"unborn", "check", "sleep", "take", "fire", "calling",
                "unwind", "unwind_cb", "done"}

FlowTypeOK ==
    /\ running \in BOOLEAN /\ callback \in BOOLEAN /\ poisoned \in BOOLEAN
    /\ slot \in SUBSET RealMessage
    /\ control \in [Host -> HostLabel]
    /\ sender \in [Sender -> SenderLabel]
    /\ packet \in [Sender -> RealMessage \cup {Noise}]
    /\ queued \in 0 .. MaxMessages /\ sent \in Seq(RealMessage)

NoCalls == [h \in Host |-> "idle"]
NoThreads == [s \in Sender |-> "unborn"]
NoPackets == [s \in Sender |-> Noise]

FlowInit ==
    /\ running = FALSE /\ callback = FALSE /\ slot = {} /\ poisoned = FALSE
    /\ control = NoCalls /\ sender = NoThreads /\ packet = NoPackets
    /\ queued = 0 /\ sent = << >>

Ended == {"unborn", "done"}
InStart == {"start_cb", "start_run"}
CallbackOpen == TRUE
CallbackFree == \A s \in Sender : sender[s] # "calling"
Steps(h, from, to) ==
    control[h] = from /\ control' = [control EXCEPT ![h] = to]
Moves(s, from, to) == sender[s] = from /\ sender' = [sender EXCEPT ![s] = to]

----------------------------------------------------------------------------
(* start_constant_flow.                                                    *)

StartAgain(h) ==
    /\ control[h] = "idle" /\ running
    /\ UNCHANGED flowVars

StartCheck(h) ==
    /\ ~running /\ \E s \in Sender : sender[s] = "unborn"
    /\ Steps(h, "idle", "start_cb")
    /\ UNCHANGED <<running, callback, slot, poisoned, sender, packet, queued,
                   sent>>

StartCallback(h) ==
    /\ CallbackFree /\ Steps(h, "start_cb", "start_run")
    /\ callback' = TRUE
    /\ UNCHANGED <<running, slot, poisoned, sender, packet, queued, sent>>

\* RUNNING, and the thread.
StartRun(h, s) ==
    /\ Steps(h, "start_run", "idle") /\ Moves(s, "unborn", "check")
    /\ running' = TRUE
    /\ UNCHANGED <<callback, slot, poisoned, packet, queued, sent>>

----------------------------------------------------------------------------
(* stop_constant_flow.                                                     *)

StopKeepsRunning(h) ==
    /\ Steps(h, "idle", "stop_cb")
    /\ UNCHANGED <<running, callback, slot, poisoned, sender, packet, queued,
                   sent>>

StopFlag(h) ==
    /\ Steps(h, "idle", "stop_cb")
    /\ running' = FALSE
    /\ UNCHANGED <<callback, slot, poisoned, sender, packet, queued, sent>>

StopCallback(h) ==
    /\ CallbackFree /\ Steps(h, "stop_cb", "stop_slot")
    /\ callback' = FALSE
    /\ UNCHANGED <<running, slot, poisoned, sender, packet, queued, sent>>

StopSlot(h) ==
    /\ ~poisoned /\ Steps(h, "stop_slot", "idle")
    /\ slot' = {}
    /\ UNCHANGED <<running, callback, poisoned, sender, packet, queued, sent>>

\* unwrap of a poisoned lock under an extern "C" function: the process aborts,
\* and the host starts a new one.
StopAborts(h) ==
    /\ poisoned /\ control[h] = "stop_slot"
    /\ running' = FALSE /\ callback' = FALSE /\ slot' = {} /\ poisoned' = FALSE
    /\ control' = NoCalls /\ sender' = NoThreads /\ packet' = NoPackets
    /\ UNCHANGED <<queued, sent>>

----------------------------------------------------------------------------
(* queue_real_message: the message that was waiting, if any, is lost.  On  *)
(* a poisoned queue the unwrap panics in the caller and nothing changes.   *)

QueueRealMessage ==
    /\ queued < MaxMessages /\ ~poisoned
    /\ queued' = queued + 1 /\ slot' = {queued + 1}
    /\ UNCHANGED <<running, callback, poisoned, control, sender, packet, sent>>

----------------------------------------------------------------------------
(* The sender.                                                             *)

Check(s) ==
    /\ \/ running /\ Moves(s, "check", "sleep")
       \/ ~running /\ Moves(s, "check", "done")
    /\ UNCHANGED <<running, callback, slot, poisoned, control, packet, queued,
                   sent>>

Wake(s) ==
    /\ \/ running /\ Moves(s, "sleep", "take")
       \/ ~running /\ Moves(s, "sleep", "done")
    /\ UNCHANGED <<running, callback, slot, poisoned, control, packet, queued,
                   sent>>

\* The message in the slot, cut or filled to PACKET_SIZE, or a packet of noise.
PacketOf(waiting) == IF waiting = {} THEN {Noise} ELSE waiting

TakeCopies(s) ==
    /\ ~poisoned /\ Moves(s, "take", "fire")
    /\ \E p \in PacketOf(slot) : packet' = [packet EXCEPT ![s] = p]
    /\ UNCHANGED <<running, callback, slot, poisoned, control, queued, sent>>

Take(s) ==
    /\ ~poisoned /\ Moves(s, "take", "fire")
    /\ \E p \in PacketOf(slot) : packet' = [packet EXCEPT ![s] = p]
    /\ slot' = {}
    /\ UNCHANGED <<running, callback, poisoned, control, queued, sent>>

\* OsRng fails, or did before: the closure unwinds, with what it took.
TakePanics(s) ==
    /\ Moves(s, "take", "unwind")
    /\ poisoned' = TRUE
    /\ slot' = IF poisoned THEN slot ELSE {}
    /\ UNCHANGED <<running, callback, control, packet, queued, sent>>

Transmit(s) ==
    sent' = IF packet[s] = Noise THEN sent ELSE Append(sent, packet[s])

Fire(s) ==
    /\ callback /\ CallbackFree /\ Moves(s, "fire", "calling") /\ Transmit(s)
    /\ UNCHANGED <<running, callback, slot, poisoned, control, packet, queued>>

\* No callback: the packet is dropped.
FireNothing(s) ==
    /\ ~callback /\ CallbackFree /\ Moves(s, "fire", "check")
    /\ packet' = [packet EXCEPT ![s] = Noise]
    /\ UNCHANGED <<running, callback, slot, poisoned, control, queued, sent>>

CallbackReturns(s) ==
    /\ Moves(s, "calling", "check")
    /\ packet' = [packet EXCEPT ![s] = Noise]
    /\ UNCHANGED <<running, callback, slot, poisoned, control, queued, sent>>

UnwindKeepsRunning(s) ==
    /\ Moves(s, "unwind", "unwind_cb")
    /\ UNCHANGED <<running, callback, slot, poisoned, control, packet, queued,
                   sent>>

\* catch_unwind.
Unwind(s) ==
    /\ Moves(s, "unwind", "unwind_cb")
    /\ running' = FALSE
    /\ UNCHANGED <<callback, slot, poisoned, control, packet, queued, sent>>

UnwindCallback(s) ==
    /\ CallbackFree /\ Moves(s, "unwind_cb", "done")
    /\ callback' = FALSE
    /\ UNCHANGED <<running, slot, poisoned, control, packet, queued, sent>>

----------------------------------------------------------------------------
(* The host.  The library does not tell it when a sender has ended, in a   *)
(* panic least of all; a Patient host waits until the sender must have.    *)

MayStart ==
    Patient => /\ \A g \in Host : control[g] = "idle"
               /\ \A s \in Sender : sender[s] \in Ended

MayStop == Patient => \A g \in Host : control[g] \notin InStart

HostCall(h) ==
    \/ StartAgain(h)
    \/ MayStart /\ StartCheck(h)
    \/ MayStop /\ StopFlag(h)

HostStep(h) ==
    \/ StartCallback(h) \/ (\E s \in Sender : StartRun(h, s))
    \/ StopCallback(h) \/ StopSlot(h) \/ StopAborts(h)

SenderStep(s) ==
    \/ Check(s) \/ Wake(s) \/ Take(s) \/ Fire(s) \/ FireNothing(s)
    \/ CallbackReturns(s) \/ Unwind(s) \/ UnwindCallback(s)

FlowNext ==
    \/ \E h \in Host : HostCall(h) \/ HostStep(h)
    \/ \E s \in Sender : SenderStep(s) \/ TakePanics(s)
    \/ QueueRealMessage

FlowSpec == FlowInit /\ [][FlowNext]_flowVars

\* A call that has begun, a sender and the host's callback go on; nobody has to
\* call, and OsRng does not have to fail.
FlowFairness ==
    /\ \A h \in Host : WF_flowVars(HostStep(h))
    /\ \A s \in Sender : WF_flowVars(SenderStep(s) \/ TakePanics(s))

FairFlow == FlowSpec /\ FlowFairness

----------------------------------------------------------------------------
(* Properties.                                                             *)

\* Who starts is alone, and a RUNNING engine is left alone until it is stopped.
ControlInv ==
    /\ \A h \in Host : control[h] \in InStart =>
           /\ ~running /\ \A s \in Sender : sender[s] \in Ended
           /\ \A g \in Host : g # h => control[g] = "idle"
    /\ \A h \in Host : control[h] = "start_run" => callback
    /\ running => /\ callback /\ \E s \in Sender : sender[s] \notin Ended
                  /\ \A h \in Host : control[h] = "idle"
    /\ \A s \in Sender : sender[s] = "unwind_cb" => ~running

\* What waits is younger than what is about to be sent, and that is younger than
\* all that was sent.
OrderInv ==
    /\ \A i \in 1 .. Len(sent) : sent[i] <= queued
    /\ \A s \in Sender : packet[s] # Noise =>
           sender[s] \in {"fire", "calling"} /\ packet[s] <= queued
    /\ \A s \in Sender : sender[s] = "fire" /\ packet[s] # Noise =>
           \A i \in 1 .. Len(sent) : sent[i] < packet[s]
    /\ \A m \in slot : /\ slot = {m} /\ m <= queued
                       /\ \A s \in Sender : packet[s] < m
                       /\ \A i \in 1 .. Len(sent) : sent[i] < m

\* Two threads never send at the same time (constant_flow.rs:61, "Prevent
\* multiple concurrent threads").
OneSender ==
    \A s, t \in Sender : sender[s] \notin Ended /\ sender[t] \notin Ended => s = t

\* When no call is in progress, RUNNING means that there is a thread that sends
\* and a callback to send with (constant_flow.rs:63-66).
RunningIsHeard ==
    running /\ (\A h \in Host : control[h] = "idle")
        => callback /\ \E s \in Sender : sender[s] \notin Ended

\* Once stop_constant_flow has cleared the callback no thread is inside it: the
\* host may dispose of what the callback uses (constant_flow.rs:88-90, 104).
SilentAfterStop == ~callback => \A s \in Sender : sender[s] # "calling"

\* No message is sent twice or after a younger one (constant_flow.rs:74-76).
SentInOrder ==
    \A i, j \in 1 .. Len(sent) : i < j => sent[i] < sent[j]

\* Why these hold for a Patient host, which has one sender at a time: the
\* callback of a thread that unwinds, the flag of one that stops and the queue
\* are given up in an order that never leaves RUNNING set without a sender
\* (constant_flow.rs:59-108).
FlowInv ==
    /\ FlowTypeOK /\ ControlInv /\ OrderInv
    /\ OneSender /\ SilentAfterStop /\ SentInOrder

\* A message that is queued while the engine runs is sent on a later tick,
\* unless a younger one replaces it or the engine stops (constant_flow.rs:4-5).
QueuedIsSent ==
    \A m \in RealMessage :
        slot = {m} /\ running
            ~> (\E i \in 1 .. Len(sent) : sent[i] = m) \/ queued > m \/ ~running

\* stop_constant_flow returns, and the sender ends (constant_flow.rs:102-108).
StopSettles ==
    \A h \in Host :
        control[h] = "stop_cb"
            ~> control[h] = "idle" /\ \A s \in Sender : sender[s] \in Ended
============================================================================
