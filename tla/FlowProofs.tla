---------------------------- MODULE FlowProofs ----------------------------
(***************************************************************************)
(* Proofs about what goes out, and when: the constant-flow engine, the     *)
(* padding of its frames, and the locks of the process, which the engine   *)
(* takes beside the host.  The three share no state.                       *)
(***************************************************************************)
EXTENDS ConstantFlow, Locks, TailPadding, SequenceTheorems, TLAPS

----------------------------------------------------------------------------
(* Constant flow.  The safety of the engine for any number of host threads,*)
(* senders and messages, if the host is Patient.                           *)

\* What Fire does to the messages sent.
LEMMA Fired ==
  ASSUME FlowTypeOK, NEW s \in Sender, Fire(s)
  PROVE  /\ sent' \in Seq(RealMessage)
         /\ \/ packet[s] = Noise /\ sent' = sent
            \/ /\ packet[s] \in RealMessage /\ Len(sent') = Len(sent) + 1
               /\ \A i \in 1 .. Len(sent) : sent'[i] = sent[i]
               /\ sent'[Len(sent) + 1] = packet[s]
<1>1. packet[s] = Noise \/ packet[s] \in RealMessage
  BY DEF FlowTypeOK
<1>2. sent \in Seq(RealMessage)
  BY DEF FlowTypeOK
<1>3. sent' = IF packet[s] = Noise THEN sent ELSE Append(sent, packet[s])
  BY DEF Fire, Transmit
<1>4. CASE packet[s] = Noise
  BY <1>2, <1>3, <1>4
<1>5. CASE packet[s] # Noise
  BY <1>1, <1>2, <1>3, <1>5
<1> QED  BY <1>4, <1>5

\* Every step keeps the types (constant_flow.rs:53-108).
LEMMA TypeStep ==
  ASSUME FlowTypeOK, [FlowNext]_flowVars
  PROVE  FlowTypeOK'
<1> USE FlowAssumption
    DEF FlowTypeOK, HostLabel, SenderLabel, RealMessage, Noise
<1>1. CASE UNCHANGED flowVars
  BY <1>1 DEF flowVars
<1>2. ASSUME NEW h \in Host, StartAgain(h) PROVE FlowTypeOK'
  BY <1>2 DEF StartAgain, flowVars
<1>3. ASSUME NEW h \in Host, StartCheck(h), MayStart PROVE FlowTypeOK'
  BY <1>3 DEF StartCheck, MayStart, Steps
<1>4. ASSUME NEW h \in Host, StartCallback(h) PROVE FlowTypeOK'
  BY <1>4 DEF StartCallback, Steps, CallbackFree
<1>5. ASSUME NEW h \in Host, StopFlag(h), MayStop PROVE FlowTypeOK'
  BY <1>5 DEF StopFlag, MayStop, Steps
<1>6. ASSUME NEW h \in Host, StopCallback(h) PROVE FlowTypeOK'
  BY <1>6 DEF StopCallback, Steps, CallbackFree
<1>7. ASSUME NEW h \in Host, StopSlot(h) PROVE FlowTypeOK'
  BY <1>7 DEF StopSlot, Steps
<1>8. ASSUME NEW h \in Host, StopAborts(h) PROVE FlowTypeOK'
  BY <1>8 DEF StopAborts, NoCalls, NoThreads, NoPackets
<1>9. ASSUME NEW h \in Host, NEW s \in Sender, StartRun(h, s)
      PROVE  FlowTypeOK'
  BY <1>9 DEF StartRun, Steps, Moves
<1>10. ASSUME NEW s \in Sender, Check(s) PROVE FlowTypeOK'
  BY <1>10 DEF Check, Moves
<1>11. ASSUME NEW s \in Sender, Wake(s) PROVE FlowTypeOK'
  BY <1>11 DEF Wake, Moves
<1>12. ASSUME NEW s \in Sender, Take(s) PROVE FlowTypeOK'
  BY <1>12 DEF Take, Moves, PacketOf
<1>13. ASSUME NEW s \in Sender, TakePanics(s) PROVE FlowTypeOK'
  BY <1>13 DEF TakePanics, Moves
<1>14. ASSUME NEW s \in Sender, Fire(s) PROVE FlowTypeOK'
  BY <1>14, Fired DEF Fire, Moves, CallbackFree
<1>15. ASSUME NEW s \in Sender, FireNothing(s) PROVE FlowTypeOK'
  BY <1>15 DEF FireNothing, Moves, CallbackFree
<1>16. ASSUME NEW s \in Sender, CallbackReturns(s) PROVE FlowTypeOK'
  BY <1>16 DEF CallbackReturns, Moves
<1>17. ASSUME NEW s \in Sender, Unwind(s) PROVE FlowTypeOK'
  BY <1>17 DEF Unwind, Moves
<1>18. ASSUME NEW s \in Sender, UnwindCallback(s) PROVE FlowTypeOK'
  BY <1>18 DEF UnwindCallback, Moves, CallbackFree
<1>19. CASE QueueRealMessage
  BY <1>19 DEF QueueRealMessage
<1> QED
  BY <1>1, <1>2, <1>3, <1>4, <1>5, <1>6, <1>7, <1>8, <1>9,
     <1>10, <1>11, <1>12, <1>13, <1>14, <1>15, <1>16, <1>17, <1>18,
     <1>19
     DEF FlowNext, HostCall, HostStep, SenderStep

\* Start, stop and the unwinding of a panic keep RUNNING, the callback and the
\* senders in step.
LEMMA ControlStep ==
  ASSUME Patient, FlowTypeOK, ControlInv, OneSender, [FlowNext]_flowVars
  PROVE  (ControlInv /\ OneSender)'
<1> USE FlowAssumption
    DEF ControlInv, OneSender, Ended, InStart, FlowTypeOK, HostLabel,
        SenderLabel, RealMessage, Noise
<1>1. CASE UNCHANGED flowVars
  BY <1>1 DEF flowVars
<1>2. ASSUME NEW h \in Host, StartAgain(h) PROVE (ControlInv /\ OneSender)'
  BY <1>2 DEF StartAgain, flowVars
<1>3. ASSUME NEW h \in Host, StartCheck(h), MayStart
      PROVE  (ControlInv /\ OneSender)'
  BY <1>3 DEF StartCheck, MayStart, Steps
<1>4. ASSUME NEW h \in Host, StartCallback(h) PROVE (ControlInv /\ OneSender)'
  BY <1>4 DEF StartCallback, Steps, CallbackFree
<1>5. ASSUME NEW h \in Host, StopFlag(h), MayStop
      PROVE  (ControlInv /\ OneSender)'
  BY <1>5 DEF StopFlag, MayStop, Steps
<1>6. ASSUME NEW h \in Host, StopCallback(h) PROVE (ControlInv /\ OneSender)'
  BY <1>6 DEF StopCallback, Steps, CallbackFree
<1>7. ASSUME NEW h \in Host, StopSlot(h) PROVE (ControlInv /\ OneSender)'
  BY <1>7 DEF StopSlot, Steps
<1>8. ASSUME NEW h \in Host, StopAborts(h) PROVE (ControlInv /\ OneSender)'
  BY <1>8 DEF StopAborts, NoCalls, NoThreads, NoPackets
<1>9. ASSUME NEW h \in Host, NEW s \in Sender, StartRun(h, s)
      PROVE  (ControlInv /\ OneSender)'
  BY <1>9 DEF StartRun, Steps, Moves
<1>10. ASSUME NEW s \in Sender, Check(s) PROVE (ControlInv /\ OneSender)'
  BY <1>10 DEF Check, Moves
<1>11. ASSUME NEW s \in Sender, Wake(s) PROVE (ControlInv /\ OneSender)'
  BY <1>11 DEF Wake, Moves
<1>12. ASSUME NEW s \in Sender, Take(s) PROVE (ControlInv /\ OneSender)'
  BY <1>12 DEF Take, Moves, PacketOf
<1>13. ASSUME NEW s \in Sender, TakePanics(s) PROVE (ControlInv /\ OneSender)'
  BY <1>13 DEF TakePanics, Moves
<1>14. ASSUME NEW s \in Sender, Fire(s) PROVE (ControlInv /\ OneSender)'
  BY <1>14, Fired DEF Fire, Moves, CallbackFree
<1>15. ASSUME NEW s \in Sender, FireNothing(s) PROVE (ControlInv /\ OneSender)'
  BY <1>15 DEF FireNothing, Moves, CallbackFree
<1>16. ASSUME NEW s \in Sender, CallbackReturns(s)
       PROVE  (ControlInv /\ OneSender)'
  BY <1>16 DEF CallbackReturns, Moves
<1>17. ASSUME NEW s \in Sender, Unwind(s) PROVE (ControlInv /\ OneSender)'
  BY <1>17 DEF Unwind, Moves
<1>18. ASSUME NEW s \in Sender, UnwindCallback(s)
       PROVE  (ControlInv /\ OneSender)'
  BY <1>18 DEF UnwindCallback, Moves, CallbackFree
<1>19. CASE QueueRealMessage
  BY <1>19 DEF QueueRealMessage
<1> QED
  BY <1>1, <1>2, <1>3, <1>4, <1>5, <1>6, <1>7, <1>8, <1>9,
     <1>10, <1>11, <1>12, <1>13, <1>14, <1>15, <1>16, <1>17, <1>18,
     <1>19
     DEF FlowNext, HostCall, HostStep, SenderStep

\* The callback changes only under its lock, which a sender holds while it
\* calls (constant_flow.rs:63, 88, 95, 105).
LEMMA SilentStep ==
  ASSUME FlowTypeOK, SilentAfterStop, [FlowNext]_flowVars
  PROVE  SilentAfterStop'
<1>1. CASE \E s \in Sender : Fire(s)
  BY <1>1 DEF Fire, SilentAfterStop
<1>2. CASE \E h \in Host : StartCallback(h)
  BY <1>2 DEF StartCallback, SilentAfterStop
<1>3. CASE \E h \in Host : StopCallback(h)
  BY <1>3 DEF StopCallback, SilentAfterStop, CallbackFree
<1>4. CASE \E h \in Host : StopAborts(h)
  BY <1>4 DEF StopAborts, SilentAfterStop, NoThreads
<1>5. CASE \E s \in Sender : UnwindCallback(s)
  BY <1>5 DEF UnwindCallback, SilentAfterStop, CallbackFree, Moves, FlowTypeOK
<1>6. CASE /\ callback' = callback
           /\ \/ sender' = sender
              \/ \E s \in Sender, from, to \in SenderLabel :
                     to # "calling" /\ Moves(s, from, to)
  BY <1>6 DEF SilentAfterStop, Moves, FlowTypeOK
<1> QED
  BY <1>1, <1>2, <1>3, <1>4, <1>5, <1>6
     DEF FlowNext, HostCall, HostStep, SenderStep, flowVars, StartAgain,
         StartCheck,
         StartRun, StopFlag, StopSlot, QueueRealMessage, Check, Wake, Take,
         TakePanics, FireNothing, CallbackReturns, Unwind, SenderLabel

\* Queueing, taking and sending keep messages in order.
LEMMA OrderStep ==
  ASSUME FlowTypeOK, OrderInv, OneSender, [FlowNext]_flowVars
  PROVE  OrderInv'
<1> USE FlowAssumption
    DEF OrderInv, OneSender, FlowTypeOK, HostLabel, SenderLabel, RealMessage,
        Noise
<1>1. CASE UNCHANGED flowVars
  BY <1>1 DEF flowVars
<1>2. ASSUME NEW h \in Host, StartAgain(h) PROVE OrderInv'
  BY <1>2 DEF StartAgain, flowVars
<1>3. ASSUME NEW h \in Host, StartCheck(h), MayStart PROVE OrderInv'
  BY <1>3 DEF StartCheck, MayStart, Steps
<1>4. ASSUME NEW h \in Host, StartCallback(h) PROVE OrderInv'
  BY <1>4 DEF StartCallback, Steps, CallbackFree
<1>5. ASSUME NEW h \in Host, StopFlag(h), MayStop PROVE OrderInv'
  BY <1>5 DEF StopFlag, MayStop, Steps
<1>6. ASSUME NEW h \in Host, StopCallback(h) PROVE OrderInv'
  BY <1>6 DEF StopCallback, Steps, CallbackFree
<1>7. ASSUME NEW h \in Host, StopSlot(h) PROVE OrderInv'
  BY <1>7 DEF StopSlot, Steps
<1>8. ASSUME NEW h \in Host, StopAborts(h) PROVE OrderInv'
  BY <1>8 DEF StopAborts, NoCalls, NoThreads, NoPackets
<1>9. ASSUME NEW h \in Host, NEW s \in Sender, StartRun(h, s)
      PROVE  OrderInv'
  BY <1>9 DEF StartRun, Steps, Moves
<1>10. ASSUME NEW s \in Sender, Check(s) PROVE OrderInv'
  BY <1>10 DEF Check, Moves
<1>11. ASSUME NEW s \in Sender, Wake(s) PROVE OrderInv'
  BY <1>11 DEF Wake, Moves
<1>12. ASSUME NEW s \in Sender, Take(s) PROVE OrderInv'
  BY <1>12 DEF Take, Moves, PacketOf
<1>13. ASSUME NEW s \in Sender, TakePanics(s) PROVE OrderInv'
  BY <1>13 DEF TakePanics, Moves
<1>14. ASSUME NEW s \in Sender, Fire(s) PROVE OrderInv'
  <2>1. /\ packet' = packet /\ slot' = slot /\ queued' = queued
        /\ sender[s] = "fire" /\ sender' = [sender EXCEPT ![s] = "calling"]
    BY <1>14 DEF Fire, Moves
  <2>2. CASE packet[s] = Noise /\ sent' = sent
    BY <2>1, <2>2
  <2>3. CASE packet[s] # Noise
    <3>1. /\ packet[s] \in Nat /\ Len(sent) \in Nat
          /\ \A i \in 1 .. Len(sent) : sent[i] \in Nat
      OBVIOUS
    <3>2. /\ Len(sent') = Len(sent) + 1
          /\ \A i \in 1 .. Len(sent) : sent'[i] = sent[i]
          /\ sent'[Len(sent) + 1] = packet[s]
      BY <1>14, <2>3, Fired
    <3>3. \A i \in 1 .. Len(sent') : sent'[i] <= packet[s]
      <4>1. \A i \in 1 .. Len(sent) : sent[i] < packet[s]
        BY <2>1, <2>3
      <4> HIDE FlowAssumption DEF FlowTypeOK, OrderInv, OneSender, RealMessage
      <4>2. \A i \in 1 .. Len(sent) : sent'[i] <= packet[s]
        BY <3>1, <3>2, <4>1
      <4>3. sent'[Len(sent) + 1] <= packet[s]
        BY <3>1, <3>2
      <4>4. \A i \in 1 .. Len(sent') : i \in 1 .. Len(sent) \/ i = Len(sent) + 1
        BY <3>1, <3>2
      <4> QED  BY <4>2, <4>3, <4>4
    <3>4. \A i \in 1 .. Len(sent') : sent'[i] \in Nat
      BY <1>14, Fired
    <3>5. \A i \in 1 .. Len(sent') : sent'[i] <= queued'
      BY <2>1, <2>3, <3>1, <3>3, <3>4
    <3>6. \A t \in Sender : sender'[t] # "fire"
      BY <2>1 DEF Ended
    <3>7. \A m \in slot : \A i \in 1 .. Len(sent') : sent'[i] < m
      BY <2>3, <3>1, <3>3, <3>4
    <3> HIDE DEF FlowTypeOK
    <3>8. \A t \in Sender : packet[t] # Noise =>
              sender'[t] \in {"fire", "calling"} /\ packet[t] <= queued
      BY <2>1 DEF FlowTypeOK
    <3> QED  BY <2>1, <3>5, <3>6, <3>7, <3>8
  <2> QED  BY <1>14, <2>2, <2>3, Fired
<1>15. ASSUME NEW s \in Sender, FireNothing(s) PROVE OrderInv'
  BY <1>15 DEF FireNothing, Moves, CallbackFree
<1>16. ASSUME NEW s \in Sender, CallbackReturns(s) PROVE OrderInv'
  BY <1>16 DEF CallbackReturns, Moves
<1>17. ASSUME NEW s \in Sender, Unwind(s) PROVE OrderInv'
  BY <1>17 DEF Unwind, Moves
<1>18. ASSUME NEW s \in Sender, UnwindCallback(s) PROVE OrderInv'
  BY <1>18 DEF UnwindCallback, Moves, CallbackFree
<1>19. CASE QueueRealMessage
  BY <1>19 DEF QueueRealMessage
<1> QED
  BY <1>1, <1>2, <1>3, <1>4, <1>5, <1>6, <1>7, <1>8, <1>9,
     <1>10, <1>11, <1>12, <1>13, <1>14, <1>15, <1>16, <1>17, <1>18,
     <1>19
     DEF FlowNext, HostCall, HostStep, SenderStep

\* A sender sends nothing older than what was sent.
LEMMA SentStep ==
  ASSUME FlowTypeOK, OrderInv, SentInOrder, [FlowNext]_flowVars
  PROVE  SentInOrder'
<1>1. ASSUME NEW s \in Sender, Fire(s) PROVE SentInOrder'
  <2>1. packet[s] # Noise => \A i \in 1 .. Len(sent) : sent[i] < packet[s]
    BY <1>1 DEF Fire, Moves, OrderInv
  <2>2. sent \in Seq(RealMessage) /\ Len(sent) \in Nat
    BY DEF FlowTypeOK
  <2>3. CASE sent' = sent
    BY <2>3 DEF SentInOrder
  <2>4. CASE sent' # sent
    <3>1. /\ packet[s] # Noise /\ Len(sent') = Len(sent) + 1
          /\ \A i \in 1 .. Len(sent) : sent'[i] = sent[i]
          /\ sent'[Len(sent) + 1] = packet[s]
      BY <1>1, <2>4, Fired, FlowAssumption DEF RealMessage, Noise
    <3> QED  BY <2>1, <2>2, <3>1 DEF SentInOrder
  <2> QED  BY <2>3, <2>4
<1>2. CASE sent' = sent
  BY <1>2 DEF SentInOrder
<1> QED
  BY <1>1, <1>2
     DEF FlowNext, HostCall, HostStep, SenderStep, flowVars, StartAgain,
         StartCheck,
         StartCallback, StartRun, StopFlag, StopCallback, StopSlot, StopAborts,
         QueueRealMessage, Check, Wake, Take, TakePanics, FireNothing,
         CallbackReturns, Unwind, UnwindCallback

\* The types hold at the start.
LEMMA TypeInit == FlowInit => FlowTypeOK
<1> SUFFICES ASSUME FlowInit PROVE FlowTypeOK
  OBVIOUS
<1> USE FlowAssumption DEF FlowInit, NoCalls, NoThreads, NoPackets
<1>1. sent \in Seq(RealMessage)
  OBVIOUS
<1>2. /\ control \in [Host -> HostLabel]
      /\ sender \in [Sender -> SenderLabel]
      /\ packet \in [Sender -> RealMessage \cup {Noise}]
  BY DEF HostLabel, SenderLabel
<1>3. queued \in 0 .. MaxMessages
  OBVIOUS
<1>4. /\ running \in BOOLEAN /\ callback \in BOOLEAN
      /\ poisoned \in BOOLEAN /\ slot \in SUBSET RealMessage
  OBVIOUS
<1> QED  BY <1>1, <1>2, <1>3, <1>4 DEF FlowTypeOK

\* The inductive invariant of the engine.
THEOREM FlowInvariant == ASSUME Patient PROVE FlowSpec => []FlowInv
<1>1. ASSUME FlowInit PROVE FlowInv
  <2> USE <1>1, FlowAssumption DEF FlowInit, NoCalls, NoThreads, NoPackets
  <2>1. FlowTypeOK
    BY TypeInit
  <2>2. ControlInv /\ OneSender /\ SilentAfterStop
    BY DEF ControlInv, OneSender, SilentAfterStop, Ended, InStart
  <2>3. OrderInv /\ SentInOrder
    BY Len(<< >>) = 0 DEF OrderInv, SentInOrder, Noise
  <2> QED  BY <2>1, <2>2, <2>3 DEF FlowInv
<1>2. FlowInv /\ [FlowNext]_flowVars => FlowInv'
  BY TypeStep, ControlStep, SilentStep, OrderStep, SentStep DEF FlowInv
<1> QED  BY <1>1, <1>2, PTL DEF FlowSpec

\* RUNNING outside start and stop means a live sender with a callback
\* (constant_flow.rs:63-66, 93-96).
THEOREM RunningIsHeardHolds ==
  ASSUME Patient PROVE FlowSpec => []RunningIsHeard
<1>1. FlowInv => RunningIsHeard
  BY DEF FlowInv, ControlInv, RunningIsHeard
<1> QED  BY <1>1, FlowInvariant, PTL

\* Messages go out once and in the order they were queued
\* (constant_flow.rs:74-76).
THEOREM SentInOrderHolds == ASSUME Patient PROVE FlowSpec => []SentInOrder
  BY FlowInvariant, PTL DEF FlowInv

\* No thread is inside a callback that has been cleared, however the host calls
\* start and stop (constant_flow.rs:88, 105).
THEOREM SilentAfterStopHolds == FlowSpec => []SilentAfterStop
<1> DEFINE Inv == FlowTypeOK /\ SilentAfterStop
<1>1. FlowInit => Inv
  BY TypeInit DEF FlowInit, NoThreads, SilentAfterStop
<1>2. Inv /\ [FlowNext]_flowVars => Inv'
  BY TypeStep, SilentStep
<1> QED  BY <1>1, <1>2, PTL DEF FlowSpec

----------------------------------------------------------------------------
(* Locks.  No circular wait, for any number of threads.  Every lock has a  *)
(* rank, and every step of a call takes a lock of a higher rank than the   *)
(* ones it holds.  Threads that wait for one another would climb for ever. *)

Rank(lock) ==
    IF lock = "callback" THEN 0
    ELSE IF lock \in {"peer_pk", "curr"} THEN 1
    ELSE IF lock = "pend" THEN 2
    ELSE 3

Climbs(s) == \A k \in s.held : Rank(k) < Rank(s.lock)

\* A thread is at one of the steps of the calls; which ones have come before
\* does not matter.
LockInv ==
    /\ step \in [Caller -> LockSteps \cup {Idle}]
    /\ taken \in [Caller -> BOOLEAN]

\* Ranks are four small numbers.
LEMMA RankRange == \A lock : Rank(lock) \in 0 .. 3
  BY DEF Rank

\* No call waits for a lock that ranks below or beside one it holds
\* (root_state.rs:64-66, 86-87, evolution.rs:85-90, 97-123).
LEMMA CallsClimb == \A s \in HostCalls : Climbs(s) /\ Rank(s.lock) > 0
<1> USE DEF Climbs, LockStep
<1>1. \A s \in PlainSteps : Climbs(s) /\ Rank(s.lock) > 0
  BY DEF PlainSteps, Rank
<1>2. \A s \in SetPeerPublicKeyLocks : Climbs(s) /\ Rank(s.lock) > 0
  BY DEF SetPeerPublicKeyLocks, Rank
<1>3. \A s \in StartEvolutionLocks : Climbs(s) /\ Rank(s.lock) > 0
  BY DEF StartEvolutionLocks, Rank
<1>4. \A call, i : \A s \in CommitEvolutionLocks(call, i) :
          Climbs(s) /\ Rank(s.lock) > 0
  BY DEF CommitEvolutionLocks, Rank
<1>5. \A s \in DecryptLocks : Climbs(s) /\ Rank(s.lock) > 0
  BY <1>4 DEF DecryptLocks, Rank
<1>6. \A s \in RollEpochForwardLocks : Climbs(s) /\ Rank(s.lock) > 0
  BY DEF RollEpochForwardLocks, Rank
<1> QED  BY <1>1, <1>2, <1>3, <1>4, <1>5, <1>6 DEF HostCalls

\* Nor does the engine inside the callback (constant_flow.rs:88).
LEMMA StepsClimb == \A s \in LockSteps : Climbs(s)
<1>1. \A s \in FlowCalls \cup Tick : Climbs(s)
  BY DEF FlowCalls, Tick, Climbs, LockStep
<1>2. ASSUME NEW s \in InCallback PROVE Climbs(s)
  <2>1. PICK c \in HostCalls : s = [c EXCEPT !.held = @ \cup {"callback"}]
    BY DEF InCallback
  <2>2. s.lock = c.lock /\ s.held = c.held \cup {"callback"}
    <3>1. \A d \in HostCalls : \E a, b, h, l : d = LockStep(a, b, h, l)
      BY DEF HostCalls, PlainSteps, SetPeerPublicKeyLocks, StartEvolutionLocks,
             CommitEvolutionLocks, DecryptLocks, RollEpochForwardLocks
    <3> QED  BY <2>1, <3>1 DEF LockStep
  <2>3. Rank("callback") = 0
    BY DEF Rank
  <2> QED  BY <2>2, <2>3, CallsClimb DEF Climbs
<1> QED  BY <1>1, <1>2, CallsClimb DEF LockSteps

\* EnterCall, Lock, Proceed and LeaveCall move a thread along the steps of its
\* call.
THEOREM LockInvariant == LockSpec => []LockInv
<1>1. LockInit => LockInv
  BY DEF LockInit, LockInv
<1>2. LockInv /\ [LockNext]_lockVars => LockInv'
  <2> SUFFICES ASSUME LockInv, [LockNext]_lockVars PROVE LockInv'
    OBVIOUS
  <2> USE DEF LockInv
  <2>1. CASE UNCHANGED lockVars
    BY <2>1 DEF lockVars
  <2>2. ASSUME NEW t \in Caller, Lock(t) PROVE LockInv'
    BY <2>2 DEF Lock
  <2>3. ASSUME NEW t \in Caller, LeaveCall(t) PROVE LockInv'
    BY <2>3 DEF LeaveCall, Goes
  <2>4. ASSUME NEW t \in Caller, NEW s \in LockSteps, EnterCall(t, s)
        PROVE  LockInv'
    BY <2>4 DEF EnterCall, Goes
  <2>5. ASSUME NEW t \in Caller, NEW s \in LockSteps, Proceed(t, s)
        PROVE  LockInv'
    BY <2>5 DEF Proceed, Goes
  <2> QED  BY <2>1, <2>2, <2>3, <2>4, <2>5 DEF LockNext
<1> QED  BY <1>1, <1>2, PTL DEF LockSpec

\* If every one of S waits for another of S, whoever waits for a lock of some
\* rank waits for one that waits for a higher rank.
THEOREM NoCircularWaitHolds == LockSpec => []NoCircularWait
<1>1. LockInv => NoCircularWait
  <2> SUFFICES ASSUME LockInv, NEW S \in SUBSET Caller,
                      \A t \in S : \E u \in S : WaitsFor(t, u)
               PROVE  S = {}
    BY DEF NoCircularWait
  <2> DEFINE R(t) == Rank(step[t].lock)
  <2>1. ASSUME NEW t \in S PROVE \E u \in S : R(u) > R(t)
    <3>1. PICK u \in S : WaitsFor(t, u)
      OBVIOUS
    <3>2. step[u] # Idle /\ ~taken[u]
      BY DEF WaitsFor
    <3>3. Climbs(step[u])
      BY <3>2, StepsClimb DEF LockInv
    <3>4. step[t].lock \in step[u].held
      BY <3>1, <3>2 DEF WaitsFor, Holds
    <3> QED  BY <3>3, <3>4, RankRange DEF Climbs
  <2>2. \A t \in S : R(t) \in 0 .. 3
    BY RankRange
  <2> HIDE DEF R
  <2>3. \A t \in S : R(t) # 3
    BY <2>1, <2>2
  <2>4. \A t \in S : R(t) # 2
    BY <2>1, <2>2, <2>3
  <2>5. \A t \in S : R(t) # 1
    BY <2>1, <2>2, <2>3, <2>4
  <2>6. \A t \in S : R(t) # 0
    BY <2>1, <2>2, <2>3, <2>4, <2>5
  <2> QED  BY <2>2, <2>3, <2>4, <2>5, <2>6
<1> QED  BY <1>1, LockInvariant, PTL

----------------------------------------------------------------------------
(* Padding.  strip_tail_padding inverts add_tail_padding, for payloads and *)
(* frames of any length, any noise and any MIN_PAD and MAX_PAD that fit a  *)
(* trailer.                                                                *)

\* What is padded, and with what.
Noises == {noise \in Seq(Byte) : Len(noise) \in MinPad .. MaxPad}

PadInv ==
    /\ arrived \in Seq(Byte)
    /\ payload # {} => \E d \in Seq(Byte), noise \in Noises :
                           payload = {d} /\ arrived = Pad(d, noise)
    /\ answered => stripped = Strip(arrived)

\* The two bytes of a length make the length again.
LEMMA TrailerRead ==
  ASSUME NEW l \in MinPad .. MaxPad
  PROVE  l % Base \in Byte /\ l \div Base \in Byte
         /\ (l % Base) + Base * (l \div Base) = l
<1>1. l \in Nat /\ l < Base * Base /\ Base \in Nat \ {0}
  BY PaddingAssumption
<1>2. l % Base \in 0 .. Base - 1 /\ l \div Base \in Nat
  BY <1>1
<1>3. l \div Base < Base
  BY <1>1
<1>4. (l % Base) + Base * (l \div Base) = l
  BY <1>1
<1> QED  BY <1>1, <1>2, <1>3, <1>4 DEF Byte

\* And a length read from two bytes is written as these bytes.
LEMMA TrailerWritten ==
  ASSUME NEW lo \in Byte, NEW hi \in Byte
  PROVE  /\ lo + Base * hi \in Nat
         /\ (lo + Base * hi) % Base = lo /\ (lo + Base * hi) \div Base = hi
<1>1. Base \in Nat \ {0} /\ lo \in 0 .. Base - 1 /\ hi \in Nat
  BY PaddingAssumption DEF Byte
<1>2. lo + Base * hi \in Nat
  BY <1>1
<1>3. (lo + Base * hi) % Base = lo
  BY <1>1
<1>4. (lo + Base * hi) \div Base = hi
  BY <1>1
<1> QED  BY <1>2, <1>3, <1>4

\* The two parts of a concatenation.
LEMMA Halves ==
  ASSUME NEW e \in Seq(Byte), NEW t \in Seq(Byte)
  PROVE  /\ e \o t \in Seq(Byte) /\ Len(e \o t) = Len(e) + Len(t)
         /\ \A i \in 1 .. Len(e) : (e \o t)[i] = e[i]
         /\ \A i \in 1 .. Len(t) : (e \o t)[Len(e) + i] = t[i]
  BY ConcatProperties

\* Where add_tail_padding puts what (tail_padding.rs:16-30).
LEMMA PadLayout ==
  ASSUME NEW d \in Seq(Byte), NEW noise \in Noises
  PROVE  LET s == Pad(d, noise)
             n == Len(d)
             l == Len(noise)
         IN  /\ s \in Seq(Byte) /\ Len(s) = n + l + 2
             /\ \A i \in 1 .. n : s[i] = d[i]
             /\ \A i \in 1 .. l : s[n + i] = noise[i]
             /\ s[n + l + 1] = l % Base /\ s[n + l + 2] = l \div Base
<1> DEFINE l == Len(noise)
           n == Len(d)
           t == <<l % Base, l \div Base>>
           e == d \o noise
<1>1. l \in MinPad .. MaxPad /\ noise \in Seq(Byte) /\ n \in Nat /\ l \in Nat
  BY PaddingAssumption DEF Noises
<1>2. t \in Seq(Byte) /\ Len(t) = 2
  BY <1>1, TrailerRead
<1>3. /\ e \in Seq(Byte) /\ Len(e) = n + l
      /\ \A i \in 1 .. n : e[i] = d[i]
      /\ \A i \in 1 .. l : e[n + i] = noise[i]
  BY <1>1, Halves
<1>4. Pad(d, noise) = e \o t
  BY DEF Pad
<1>5. /\ e \o t \in Seq(Byte) /\ Len(e \o t) = n + l + 2
      /\ \A i \in 1 .. n + l : (e \o t)[i] = e[i]
      /\ \A i \in 1 .. 2 : (e \o t)[n + l + i] = t[i]
  <2> HIDE DEF e, t, n, l
  <2>1. /\ e \o t \in Seq(Byte) /\ Len(e \o t) = Len(e) + Len(t)
        /\ \A i \in 1 .. Len(e) : (e \o t)[i] = e[i]
        /\ \A i \in 1 .. Len(t) : (e \o t)[Len(e) + i] = t[i]
    BY <1>2, <1>3, Halves
  <2> QED  BY <1>1, <1>2, <1>3, <2>1
<1>6. t[1] = l % Base /\ t[2] = l \div Base
  OBVIOUS
<1> HIDE DEF e, t
<1>7. /\ \A i \in 1 .. n : (e \o t)[i] = d[i]
      /\ \A i \in 1 .. l : (e \o t)[n + i] = noise[i]
  BY <1>1, <1>3, <1>5
<1>8. (e \o t)[n + l + 1] = l % Base /\ (e \o t)[n + l + 2] = l \div Base
  <2>1. (e \o t)[n + l + 1] = t[1] /\ (e \o t)[n + l + 2] = t[2]
    BY <1>5
  <2> QED  BY <1>6, <2>1
<1> HIDE DEF n, l
<1> QED  BY <1>4, <1>5, <1>7, <1>8 DEF n, l

\* Stripping what was padded gives the payload (tail_padding.rs:33-41).
LEMMA StripPad ==
  ASSUME NEW d \in Seq(Byte), NEW noise \in Noises
  PROVE  Strip(Pad(d, noise)) = {d}
<1> DEFINE s == Pad(d, noise)
           n == Len(d)
           l == Len(noise)
<1>1. l \in MinPad .. MaxPad /\ n \in Nat /\ l \in Nat
  BY PaddingAssumption DEF Noises
<1>2. /\ s \in Seq(Byte) /\ Len(s) = n + l + 2
      /\ \A i \in 1 .. n : s[i] = d[i]
      /\ s[n + l + 1] = l % Base /\ s[n + l + 2] = l \div Base
  BY PadLayout
<1>3. s[Len(s) - 1] + Base * s[Len(s)] = l
  <2>1. Len(s) - 1 = n + l + 1
    BY <1>1, <1>2
  <2> QED  BY <1>1, <1>2, <2>1, TrailerRead
<1> HIDE DEF s, n, l
<1>4. Strip(s) = {SubSeq(s, 1, Len(s) - 2 - l)}
  <2>1. Strip(s) = IF Len(s) < 4 THEN None
                   ELSE IF l < MinPad \/ l > MaxPad THEN None
                   ELSE IF Len(s) < 2 + l THEN None
                   ELSE {SubSeq(s, 1, Len(s) - 2 - l)}
    BY <1>3 DEF Strip
  <2>2. Len(s) >= 4 /\ l >= MinPad /\ l <= MaxPad /\ Len(s) >= 2 + l
    BY <1>1, <1>2, PaddingAssumption
  <2>3. Len(s) \in Nat /\ l \in Nat /\ MinPad \in Nat /\ MaxPad \in Nat
    BY <1>1, <1>2, PaddingAssumption
  <2> QED  BY <2>1, <2>2, <2>3
<1>5. Len(s) - 2 - l = n
  BY <1>1, <1>2
<1>6. SubSeq(s, 1, n) = d
  <2>1. SubSeq(s, 1, n) \in Seq(Byte) /\ Len(SubSeq(s, 1, n)) = n
    BY <1>1, <1>2, SubSeqProperties
  <2>2. \A i \in 1 .. n : SubSeq(s, 1, n)[i] = d[i]
    BY <1>1, <1>2, SubSeqProperties
  <2> QED  BY <2>1, <2>2, SeqEqual DEF n
<1> QED  BY <1>4, <1>5, <1>6 DEF s

\* What strip_tail_padding accepts somebody can have padded, with just the
\* bytes that it cuts off.
LEMMA StripIsPadded ==
  ASSUME NEW s \in Seq(Byte), NEW d \in Strip(s)
  PROVE  /\ d \in Heads(s) /\ d \in Seq(Byte)
         /\ \E noise \in Noises : s = Pad(d, noise)
<1> DEFINE n == Len(s)
           l == s[n - 1] + Base * s[n]
           k == n - 2 - l
           noise == SubSeq(s, k + 1, n - 2)
<1>1. n \in Nat /\ n >= 4 /\ s[n - 1] \in Byte /\ s[n] \in Byte
  BY DEF Strip, None
<1>2. /\ l \in Nat /\ l % Base = s[n - 1] /\ l \div Base = s[n]
  BY <1>1, TrailerWritten
<1>3. /\ l \in MinPad .. MaxPad /\ n >= 2 + l /\ d = SubSeq(s, 1, k)
  <2>1. Strip(s) = IF n < 4 THEN {}
                   ELSE IF l < MinPad \/ l > MaxPad THEN {}
                   ELSE IF n < 2 + l THEN {}
                   ELSE {SubSeq(s, 1, k)}
    BY DEF Strip, None
  <2> HIDE DEF n, l, k
  <2> QED  BY <1>1, <1>2, <2>1, PaddingAssumption
<1>4. k \in 0 .. n /\ k \in Nat /\ l = (n - 2) - k
  BY <1>1, <1>2, <1>3
<1> HIDE DEF n, l, k
<1>5. /\ d \in Seq(Byte) /\ Len(d) = k
      /\ \A i \in 1 .. k : d[i] = s[i]
  BY <1>1, <1>3, <1>4, SubSeqProperties DEF n
<1>6. /\ noise \in Seq(Byte) /\ Len(noise) = l
      /\ \A i \in 1 .. l : noise[i] = s[k + i]
  BY <1>1, <1>2, <1>4, SubSeqProperties DEF n
<1> HIDE DEF noise
<1>7. noise \in Noises
  BY <1>3, <1>6 DEF Noises
<1>8. s = Pad(d, noise)
  <2> DEFINE p == Pad(d, noise)
  <2>1. /\ p \in Seq(Byte) /\ Len(p) = k + l + 2
        /\ \A i \in 1 .. k : p[i] = d[i]
        /\ \A i \in 1 .. l : p[k + i] = noise[i]
        /\ p[k + l + 1] = l % Base /\ p[k + l + 2] = l \div Base
    BY <1>5, <1>6, <1>7, PadLayout
  <2> HIDE DEF p
  <2>2. Len(p) = n /\ k + l + 1 = n - 1 /\ k + l + 2 = n
    BY <1>1, <1>2, <1>4, <2>1
  <2>3. p[n - 1] = s[n - 1] /\ p[n] = s[n]
    BY <1>2, <2>1, <2>2
  <2>4. \A i \in 1 .. l : p[k + i] = s[k + i]
    BY <1>6, <2>1
  <2>5. ASSUME NEW i \in 1 .. n PROVE p[i] = s[i]
    <3>1. CASE i \in 1 .. k
      BY <1>5, <2>1, <3>1
    <3>2. CASE i \in k + 1 .. k + l
      <4>1. i - k \in 1 .. l /\ k + (i - k) = i
        BY <1>2, <1>4, <3>2
      <4> QED  BY <2>4, <4>1
    <3>3. CASE i = n - 1 \/ i = n
      BY <2>3, <3>3
    <3> QED  BY <1>1, <1>2, <1>4, <2>2, <3>1, <3>2, <3>3
  <2> QED  BY <2>1, <2>2, <2>5, SeqEqual DEF n, p
<1> QED  BY <1>3, <1>4, <1>5, <1>7, <1>8 DEF Heads, n

\* So it refuses exactly the frames that nobody can have padded.
LEMMA StripIsOrigins == ASSUME NEW s \in Seq(Byte) PROVE Strip(s) = Origins(s)
<1>1. ASSUME NEW d \in Strip(s) PROVE d \in Origins(s)
  <2>1. PICK noise \in Noises : s = Pad(d, noise)
    BY StripIsPadded
  <2>2. noise \in Bytes(Len(noise)) /\ Len(noise) \in MinPad .. MaxPad
    BY LenProperties DEF Noises, Bytes
  <2> QED  BY <2>1, <2>2, StripIsPadded DEF Origins
<1>2. ASSUME NEW d \in Origins(s) PROVE d \in Strip(s)
  <2>1. PICK l \in MinPad .. MaxPad :
            \E noise \in Bytes(l) : s = Pad(d, noise)
    BY DEF Origins
  <2>4. PICK noise \in Bytes(l) : s = Pad(d, noise)
    BY <2>1
  <2>2. noise \in Noises
    BY IsASeq, PaddingAssumption DEF Bytes, Noises
  <2>3. d \in Seq(Byte)
    BY SubSeqProperties DEF Origins, Heads
  <2> QED  BY <2>2, <2>3, <2>4, StripPad
<1> QED  BY <1>1, <1>2

\* A frame is a sequence of bytes, and a padded one the padding of the payload.
LEMMA PadInvariant == PadSpec => []PadInv
<1>1. PadInit => PadInv
  BY DEF PadInit, PadInv
<1>2. PadInv /\ [PadNext]_padVars => PadInv'
  <2> SUFFICES ASSUME PadInv, [PadNext]_padVars PROVE PadInv'
    OBVIOUS
  <2>1. ASSUME NEW n \in 0 .. MaxPayload, NEW l \in MinPad .. MaxPad,
               NEW d \in Bytes(n), NEW noise \in Bytes(l),
               AddTailPadding(d, noise)
        PROVE  PadInv'
    <3>1. d \in Seq(Byte)
      BY IsASeq DEF Bytes
    <3>2. noise \in Noises
      BY IsASeq, PaddingAssumption DEF Bytes, Noises
    <3> QED  BY <2>1, <3>1, <3>2, PadLayout DEF AddTailPadding, PadInv
  <2>2. ASSUME NEW n \in 0 .. MaxFrame, NEW s \in Bytes(n), Arrive(s)
        PROVE  PadInv'
    BY <2>2, IsASeq DEF Arrive, PadInv, Bytes
  <2>3. CASE StripTailPadding
    BY <2>3 DEF StripTailPadding, PadInv
  <2>4. CASE UNCHANGED padVars
    BY <2>4 DEF padVars, PadInv
  <2> QED  BY <2>1, <2>2, <2>3, <2>4 DEF PadNext
<1> QED  BY <1>1, <1>2, PTL DEF PadSpec

\* strip_tail_padding gives back every payload, whatever the noise, and refuses
\* exactly what is not the padding of anything (tail_padding.rs:16-41).
THEOREM StripInvertsHolds == PadSpec => []StripInverts
<1>1. PadInv => StripInverts
  BY StripIsOrigins, StripPad DEF PadInv, StripInverts
<1> QED  BY <1>1, PadInvariant, PTL
============================================================================
