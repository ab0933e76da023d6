---------------------------- MODULE PeerProofs -----------------------------
(***************************************************************************)
(* Proofs about what a device learns of its peer: pairing and the estimate *)
(* of the peer's clock.  The two share no state.                           *)
(***************************************************************************)
EXTENDS InitModule, ClockAlign, FiniteSetTheorems, SequenceTheorems, TLAPS

----------------------------------------------------------------------------
(* Pairing, for any streams of entropy, any keys and any number of threads.*)

\* What initialise_root_state lets through.
Pairing == {p \in [alice : Entropy, bob : Entropy, pk : PublicKey] :
               Accepted(p.alice, p.bob, p.pk)}

\* What of a pairing reaches the root: the streams up to the shorter's length.
Used(p) == LET n == Shorter(p.alice, p.bob)
           IN  [alice |-> SubSeq(p.alice, 1, n), bob |-> SubSeq(p.bob, 1, n),
                pk |-> p.pk]

\* The streams of a pairing.
LEMMA PairingStreams ==
  ASSUME NEW p \in Pairing
  PROVE  /\ p.alice \in Seq(Nat) /\ p.bob \in Seq(Nat)
         /\ Shorter(p.alice, p.bob) \in Nat
         /\ Shorter(p.alice, p.bob) <= Len(p.alice)
         /\ Shorter(p.alice, p.bob) <= Len(p.bob)
<1>1. p.alice \in Seq(Nat) /\ p.bob \in Seq(Nat)
  BY PairingAssumption DEF Pairing
<1>2. PICK a, b \in Nat : a = Len(p.alice) /\ b = Len(p.bob)
  BY <1>1
<1>3. Shorter(p.alice, p.bob) = Min({a, b})
  BY <1>2 DEF Shorter
<1>4. Min({a, b}) \in {a, b} /\ \A y \in {a, b} : Min({a, b}) <= y
  <2>1. \E x \in {a, b} : \A y \in {a, b} : x <= y
    <3>1. a <= b \/ b <= a
      OBVIOUS
    <3> QED  BY <3>1
  <2> QED  BY <2>1 DEF Min
<1> QED  BY <1>1, <1>2, <1>3, <1>4

\* Where the bytes of the streams end up (init_module.rs:53-61).
LEMMA InterleaveLayout ==
  ASSUME NEW p \in Pairing
  PROVE  LET n == Shorter(p.alice, p.bob)
         IN  /\ RootOf(p) = [i \in 1 .. 2 * n |->
                                IF i % 2 = 1 THEN p.alice[(i + 1) \div 2]
                                             ELSE p.bob[i \div 2]]
             /\ DOMAIN RootOf(p) = 1 .. 2 * n
             /\ \A i \in 1 .. n : /\ RootOf(p)[2 * i - 1] = p.alice[i]
                                  /\ RootOf(p)[2 * i] = p.bob[i]
<1> PICK n \in Nat : n = Shorter(p.alice, p.bob)
  BY PairingStreams
<1>1. RootOf(p) = [i \in 1 .. 2 * n |->
                      IF i % 2 = 1 THEN p.alice[(i + 1) \div 2]
                                   ELSE p.bob[i \div 2]]
  BY DEF RootOf, OddEvenInterleave
<1>2. ASSUME NEW i \in 1 .. n
      PROVE  /\ RootOf(p)[2 * i - 1] = p.alice[i]
             /\ RootOf(p)[2 * i] = p.bob[i]
  <2>1. /\ 2 * i - 1 \in 1 .. 2 * n /\ (2 * i - 1) % 2 = 1
        /\ ((2 * i - 1) + 1) \div 2 = i
        /\ 2 * i \in 1 .. 2 * n /\ (2 * i) % 2 = 0 /\ (2 * i) \div 2 = i
    OBVIOUS
  <2> QED  BY <1>1, <2>1
<1> QED  BY <1>1, <1>2

\* No two pairings share a root and a key, except for what the interleave drops
\* of the longer stream.
LEMMA InterleaveInjective ==
  ASSUME NEW p \in Pairing, NEW q \in Pairing
  PROVE  Used(p) = Used(q) <=> RootOf(p) = RootOf(q) /\ p.pk = q.pk
<1> DEFINE m == Shorter(p.alice, p.bob)
           n == Shorter(q.alice, q.bob)
<1>1. /\ m \in Nat /\ m <= Len(p.alice) /\ m <= Len(p.bob)
      /\ n \in Nat /\ n <= Len(q.alice) /\ n <= Len(q.bob)
      /\ p.alice \in Seq(Nat) /\ p.bob \in Seq(Nat)
      /\ q.alice \in Seq(Nat) /\ q.bob \in Seq(Nat)
  BY PairingStreams
<1>2. /\ DOMAIN RootOf(p) = 1 .. 2 * m /\ DOMAIN RootOf(q) = 1 .. 2 * n
      /\ \A i \in 1 .. m : /\ RootOf(p)[2 * i - 1] = p.alice[i]
                           /\ RootOf(p)[2 * i] = p.bob[i]
      /\ \A i \in 1 .. n : /\ RootOf(q)[2 * i - 1] = q.alice[i]
                           /\ RootOf(q)[2 * i] = q.bob[i]
  BY InterleaveLayout
<1>3. /\ RootOf(p) = [i \in 1 .. 2 * m |->
                         IF i % 2 = 1 THEN p.alice[(i + 1) \div 2]
                                      ELSE p.bob[i \div 2]]
      /\ RootOf(q) = [i \in 1 .. 2 * n |->
                         IF i % 2 = 1 THEN q.alice[(i + 1) \div 2]
                                      ELSE q.bob[i \div 2]]
  BY InterleaveLayout
<1>4. Used(p) = Used(q) <=>
          /\ SubSeq(p.alice, 1, m) = SubSeq(q.alice, 1, n)
          /\ SubSeq(p.bob, 1, m) = SubSeq(q.bob, 1, n)
          /\ p.pk = q.pk
  BY DEF Used
<1> HIDE DEF m, n
<1>5. ASSUME NEW s \in Seq(Nat), NEW t \in Seq(Nat), m <= Len(s), n <= Len(t)
      PROVE  SubSeq(s, 1, m) = SubSeq(t, 1, n)
                 <=> m = n /\ \A i \in 1 .. n : s[i] = t[i]
  <2>1. /\ SubSeq(s, 1, m) \in Seq(Nat) /\ Len(SubSeq(s, 1, m)) = m
        /\ \A i \in 1 .. m : SubSeq(s, 1, m)[i] = s[i]
    BY <1>1, <1>5, SubSeqProperties
  <2>2. /\ SubSeq(t, 1, n) \in Seq(Nat) /\ Len(SubSeq(t, 1, n)) = n
        /\ \A i \in 1 .. n : SubSeq(t, 1, n)[i] = t[i]
    BY <1>1, <1>5, SubSeqProperties
  <2>3. ASSUME m = n, \A i \in 1 .. n : s[i] = t[i]
        PROVE  SubSeq(s, 1, m) = SubSeq(t, 1, n)
    <3>1. PICK u \in Seq(Nat), v \in Seq(Nat) :
              u = SubSeq(s, 1, m) /\ v = SubSeq(t, 1, n)
      BY <2>1, <2>2
    <3>2. Len(u) = Len(v) /\ \A i \in 1 .. Len(u) : u[i] = v[i]
      BY <2>1, <2>2, <2>3, <3>1
    <3> QED  BY <3>1, <3>2, SeqEqual
  <2>4. ASSUME SubSeq(s, 1, m) = SubSeq(t, 1, n)
        PROVE  m = n /\ \A i \in 1 .. n : s[i] = t[i]
    <3>1. m = n
      BY <2>1, <2>2, <2>4
    <3>2. ASSUME NEW i \in 1 .. n PROVE s[i] = t[i]
      BY <2>1, <2>2, <2>4, <3>1
    <3> QED  BY <3>1, <3>2
  <2> QED  BY <2>3, <2>4
<1>6. Used(p) = Used(q) <=>
          /\ m = n /\ p.pk = q.pk
          /\ \A i \in 1 .. n : p.alice[i] = q.alice[i] /\ p.bob[i] = q.bob[i]
  <2>1. SubSeq(p.alice, 1, m) = SubSeq(q.alice, 1, n)
            <=> m = n /\ \A i \in 1 .. n : p.alice[i] = q.alice[i]
    BY <1>1, <1>5
  <2>2. SubSeq(p.bob, 1, m) = SubSeq(q.bob, 1, n)
            <=> m = n /\ \A i \in 1 .. n : p.bob[i] = q.bob[i]
    BY <1>1, <1>5
  <2> QED  BY <1>4, <2>1, <2>2
<1>7. ASSUME m = n,
             \A i \in 1 .. n : p.alice[i] = q.alice[i] /\ p.bob[i] = q.bob[i]
      PROVE  RootOf(p) = RootOf(q)
  <2>1. ASSUME NEW i \in 1 .. 2 * n
        PROVE  /\ i % 2 = 1 => (i + 1) \div 2 \in 1 .. n
               /\ i % 2 # 1 => i \div 2 \in 1 .. n
    BY <1>1
  <2>2. ASSUME NEW i \in 1 .. 2 * n PROVE RootOf(p)[i] = RootOf(q)[i]
    BY <1>3, <1>7, <2>1
  <2> QED  BY <1>3, <1>7, <2>2
<1>8. ASSUME RootOf(p) = RootOf(q)
      PROVE  /\ m = n
             /\ \A i \in 1 .. n : p.alice[i] = q.alice[i] /\ p.bob[i] = q.bob[i]
  <2>1. m = n
    <3>1. \A a, b \in Nat : 1 .. 2 * a = 1 .. 2 * b => a = b
      <4> SUFFICES ASSUME NEW a \in Nat, NEW b \in Nat,
                          1 .. 2 * a = 1 .. 2 * b
                   PROVE  a = b
        OBVIOUS
      <4>1. 2 * a \in 1 .. 2 * a \/ a = 0
        OBVIOUS
      <4>2. 2 * b \in 1 .. 2 * b \/ b = 0
        OBVIOUS
      <4> QED  BY <4>1, <4>2
    <3> QED  BY <1>1, <1>2, <1>8, <3>1
  <2> QED  BY <1>2, <1>8, <2>1
<1> QED  BY <1>6, <1>7, <1>8

\* The ID stamps of two pairings are equal exactly if the pairings used the same
\* entropy and the same key, whatever the lengths of the streams
\* (init_module.rs:21, "identical ID_Stamp bound to the same public key").
THEOREM StampBindsPairing ==
  ASSUME NEW p \in Pairing, NEW q \in Pairing
  PROVE  ComputeIdStamp(RootOf(p), p.pk) = ComputeIdStamp(RootOf(q), q.pk)
             <=> Used(p) = Used(q)
<1>1. \A a, b, c, d : ComputeIdStamp(a, b) = ComputeIdStamp(c, d)
                          <=> a = c /\ b = d
  BY DEF ComputeIdStamp
<1> QED  BY <1>1, InterleaveInjective

\* The key that is stored is at least as new as the root, as a root still to be
\* set, and as a root that a thread has read.
NotNewerThanKey(n) == n \in Nat /\ n <= bobPk.pairing

ThreadPairs(t) ==
    /\ call[t].at = "root" => NotNewerThanKey(call[t].pairing)
    /\ call[t].at = "pk" => NotNewerThanKey(call[t].root.pairing)
    /\ call[t].at = "persist" =>
           call[t].stamp.root.pairing <= call[t].stamp.pk.pairing

PairingInv ==
    /\ given \in Seq([alice : Entropy, bob : Entropy, pk : PublicKey])
    /\ bobPk.pairing \in Nat /\ bobPk.pairing <= Len(given)
    /\ NotNewerThanKey(root.pairing)
    /\ DOMAIN call = Pairer
    /\ \A t \in Pairer : ThreadPairs(t)
    /\ StampKeyNotStale

\* A step that does not store an older key keeps what the other threads know.
LEMMA OthersPair ==
  ASSUME PairingInv, NEW t \in Pairer,
         bobPk'.pairing \in Nat, bobPk.pairing <= bobPk'.pairing,
         \E to : CallGoes(t, to)
  PROVE  /\ DOMAIN call' = Pairer
         /\ \A u \in Pairer \ {t} : ThreadPairs(u)'
<1>1. DOMAIN call' = Pairer /\ \A u \in Pairer \ {t} : call'[u] = call[u]
  BY DEF CallGoes, PairingInv
<1>2. \A n : NotNewerThanKey(n) => NotNewerThanKey(n)'
  BY DEF NotNewerThanKey, PairingInv
<1>3. ASSUME NEW u \in Pairer \ {t} PROVE ThreadPairs(u)'
  <2>1. ThreadPairs(u) /\ call'[u] = call[u]
    BY <1>1 DEF PairingInv
  <2> QED  BY <1>2, <2>1 DEF ThreadPairs
<1> QED  BY <1>1, <1>3

\* One step of a thread keeps the invariant.
LEMMA PairingStepKeeps ==
  ASSUME PairingInv, NEW t \in Pairer, PairingStep(t)
  PROVE  PairingInv'
<1>1. ASSUME NEW alice \in Entropy, NEW bob \in Entropy,
             NEW pk \in PublicKey, InitialiseRootState(t, alice, bob, pk)
      PROVE  PairingInv'
  <2> DEFINE p == [alice |-> alice, bob |-> bob, pk |-> pk]
             n == Len(given) + 1
  <2>1. /\ given' = Append(given, p) /\ bobPk'.pairing = n
        /\ CallGoes(t, [at |-> "root", pairing |-> n])
        /\ root' = root /\ stamp' = stamp
    BY <1>1 DEF InitialiseRootState
  <2>2. /\ given \in Seq([alice : Entropy, bob : Entropy, pk : PublicKey])
        /\ p \in [alice : Entropy, bob : Entropy, pk : PublicKey]
    BY DEF PairingInv
  <2>3. /\ given' \in Seq([alice : Entropy, bob : Entropy, pk : PublicKey])
        /\ Len(given') = n /\ n \in Nat /\ bobPk.pairing <= n
    BY <2>1, <2>2 DEF PairingInv
  <2> HIDE DEF p, n
  <2>4. DOMAIN call' = Pairer /\ \A u \in Pairer \ {t} : ThreadPairs(u)'
    BY <2>1, <2>3, OthersPair
  <2>5. ThreadPairs(t)'
    <3>1. call'[t] = [at |-> "root", pairing |-> n]
      BY <2>1 DEF CallGoes, PairingInv
    <3> QED  BY <2>1, <2>3, <3>1 DEF ThreadPairs, NotNewerThanKey
  <2>6. NotNewerThanKey(root.pairing)'
    BY <2>1, <2>3 DEF PairingInv, NotNewerThanKey
  <2>7. StampKeyNotStale'
    BY <2>1 DEF PairingInv, StampKeyNotStale
  <2> QED  BY <2>1, <2>3, <2>4, <2>5, <2>6, <2>7 DEF PairingInv
<1>2. ASSUME UNCHANGED <<bobPk, given>>, \E to : CallGoes(t, to),
             ThreadPairs(t)', NotNewerThanKey(root.pairing)', StampKeyNotStale'
      PROVE  PairingInv'
  <2>1. DOMAIN call' = Pairer /\ \A u \in Pairer \ {t} : ThreadPairs(u)'
    BY <1>2, OthersPair DEF PairingInv
  <2> QED  BY <1>2, <2>1 DEF PairingInv
<1>3. ASSUME NEW to, CallGoes(t, to) PROVE call'[t] = to
  BY <1>3 DEF CallGoes, PairingInv
<1> USE DEF PairingInv, ThreadPairs, NotNewerThanKey, StampKeyNotStale
<1>4. CASE SetRootStateCurr(t)
  <2>1. call'[t] = [at |-> "epoch"]
    BY <1>3, <1>4 DEF SetRootStateCurr
  <2>2. root'.pairing = call[t].pairing /\ NotNewerThanKey(call[t].pairing)
    BY <1>4 DEF SetRootStateCurr
  <2> QED  BY <1>2, <1>4, <2>1, <2>2 DEF SetRootStateCurr
<1>5. CASE SetEpochId(t)
  <2>1. call'[t] = [at |-> "idle"]
    BY <1>3, <1>5 DEF SetEpochId, IdleCall
  <2> QED  BY <1>2, <1>5, <2>1 DEF SetEpochId
<1>6. CASE GenerateIdStamp(t)
  <2>1. call'[t] = [at |-> "pk", root |-> root]
    BY <1>3, <1>6 DEF GenerateIdStamp
  <2> QED  BY <1>2, <1>6, <2>1 DEF GenerateIdStamp
<1>7. CASE ReadBobPk(t)
  <2>1. call'[t] = [at |-> "persist",
                    stamp |-> [root |-> call[t].root, pk |-> bobPk]]
    BY <1>3, <1>7 DEF ReadBobPk, ComputeIdStamp
  <2>2. NotNewerThanKey(call[t].root.pairing)
    BY <1>7 DEF ReadBobPk
  <2> QED  BY <1>2, <1>7, <2>1, <2>2 DEF ReadBobPk
<1>8. CASE PersistIdStamp(t) \/ PersistFails(t)
  <2>1. call'[t] = [at |-> "idle"]
    BY <1>3, <1>8 DEF PersistIdStamp, PersistFails, IdleCall
  <2>2. \A s \in stamp' : s \in stamp \/ s = call[t].stamp
    BY <1>8 DEF PersistIdStamp, PersistFails
  <2>3. call[t].stamp.root.pairing <= call[t].stamp.pk.pairing
    BY <1>8 DEF PersistIdStamp, PersistFails
  <2>4. UNCHANGED <<bobPk, root, given>> /\ \E to : CallGoes(t, to)
    BY <1>8 DEF PersistIdStamp, PersistFails
  <2> QED  BY <1>2, <2>1, <2>2, <2>3, <2>4
<1> QED  BY <1>1, <1>4, <1>5, <1>6, <1>7, <1>8 DEF PairingStep

\* The key in memory is never older than the root, for any number of threads and
\* pairings (init_module.rs:108, 115).
THEOREM PairingInvariant == PairingSpec => []PairingInv
<1> USE DEF PairingInv, ThreadPairs, NotNewerThanKey, StampKeyNotStale
<1>1. PairingInit => PairingInv
  BY DEF PairingInit, NoPk, ZeroRoot, IdleCall
<1>2. PairingInv /\ [PairingNext]_initVars => PairingInv'
  <2> SUFFICES ASSUME PairingInv, [PairingNext]_initVars PROVE PairingInv'
    OBVIOUS
  <2>1. CASE UNCHANGED initVars
    BY <2>1 DEF initVars
  <2>2. ASSUME NEW t \in Pairer, PairingStep(t) PROVE PairingInv'
    BY ONLY PairingInv, <2>2, PairingStepKeeps
  <2>3. CASE EpochChanges
    <3>1. root'.pairing = root.pairing
      BY <2>3 DEF EpochChanges
    <3> QED  BY <2>3, <3>1 DEF EpochChanges
  <2>4. CASE ProcessRestarts
    BY <2>4 DEF ProcessRestarts, NoPk, ZeroRoot, IdleCall
  <2> QED
    BY <2>1, <2>2, <2>3, <2>4 DEF PairingNext, InitialiseRefused, LoadIdStamp
<1> QED  BY <1>1, <1>2, PTL DEF PairingSpec

\* A stamp never binds a root to the key of an earlier pairing, for any number
\* of threads and pairings (init_module.rs:108-115, 129-130).
THEOREM StampKeyNotStaleHolds == PairingSpec => []StampKeyNotStale
BY PairingInvariant, PTL DEF PairingInv

----------------------------------------------------------------------------
(* Clock alignment, for a buffer of any size and counters of any width.    *)
(* The buffer is a rotation of the latest differences; sorting it ranks    *)
(* them, because an ascending arrangement of any buffer exists.            *)

\* A difference of counters that are less than a quarter of the range apart.
Small(x) == x \in Int /\ 2 * x < HalfRange /\ 2 * (-x) < HalfRange

\* Below write_idx the buffer holds the newest differences, from there on, once
\* it is full, the oldest ones that it still has.
RingInv ==
    LET n == Len(observed)
    IN  /\ observed \in Seq(Int) /\ \A i \in 1 .. n : Small(observed[i])
        /\ buf \in [1 .. HistorySize -> Int]
        /\ writeIdx \in 0 .. HistorySize - 1
        /\ count = IF n < HistorySize THEN n ELSE HistorySize
        /\ n < HistorySize => writeIdx = n
        /\ \A i \in 1 .. writeIdx : buf[i] = observed[n - writeIdx + i]
        /\ n >= HistorySize =>
               \A i \in writeIdx + 1 .. HistorySize :
                   buf[i] = observed[n - writeIdx - HistorySize + i]

ClockInv == RingInv /\ SkewIsMedian

\* Wrapping does not change what fits an i64.
LEMMA WrapFits ==
  ASSUME NEW x \in Int, NEW k \in {-1, 0, 1},
         -HalfRange <= x, x < HalfRange
  PROVE  Wrap(x + k * (2 * HalfRange)) = x
<1> DEFINE M == 2 * HalfRange
           y == IF x >= 0 THEN x ELSE x + M
<1>1. M \in Nat \ {0} /\ y \in 0 .. M - 1 /\ HalfRange \in Nat
  BY ClockAssumption
<1>2. \E j \in -1 .. 1 : x + k * M = y + j * M \/ x + k * M = y - 2 * M
  BY <1>1
<1>3. ASSUME NEW j \in {-2, -1, 0, 1} PROVE (y + j * M) % M = y
  <2> HIDE DEF y, M
  <2>1. y % M = y
    BY <1>1
  <2>2. (y + M) % M = y /\ (y - M) % M = y /\ (y - 2 * M) % M = y
    BY <1>1
  <2> QED  BY <1>1, <2>1, <2>2
<1>4. (x + k * M) % M = y
  BY <1>1, <1>2, <1>3
<1> QED  BY <1>1, <1>4 DEF Wrap, AsSigned

\* The difference that record_counter_observation computes is the true one
\* (clock_align.rs:130).
LEMMA DeltaIsTrue ==
  ASSUME NEW o \in Observation
  PROVE  /\ Small(o.remote - o.local)
         /\ Wrap(AsSigned(o.remote) - AsSigned(o.local)) = o.remote - o.local
<1>1. /\ o.remote \in 0 .. 2 * HalfRange - 1
      /\ o.local \in 0 .. 2 * HalfRange - 1
      /\ 2 * (o.remote - o.local) < HalfRange
      /\ 2 * (o.local - o.remote) < HalfRange
      /\ HalfRange \in Nat \ {0}
  BY ClockAssumption
<1> PICK x \in Int : x = o.remote - o.local
  BY <1>1
<1>2. -HalfRange <= x /\ x < HalfRange /\ Small(x)
  BY <1>1 DEF Small
<1>3. \E k \in {-1, 0, 1} :
          AsSigned(o.remote) - AsSigned(o.local) = x + k * (2 * HalfRange)
  BY <1>1 DEF AsSigned
<1> QED  BY <1>2, <1>3, WrapFits

\* The average of two small differences rounds towards zero and does not wrap
\* (clock_align.rs:102).
LEMMA AverageIsHalf ==
  ASSUME NEW lo, NEW hi, Small(lo), Small(hi)
  PROVE  IsHalf(lo + hi, Half(Wrap(lo + hi)))
<1>1. /\ lo + hi \in Int /\ -HalfRange <= lo + hi /\ lo + hi < HalfRange
      /\ HalfRange \in Int
  BY ClockAssumption DEF Small
<1>2. lo + hi = lo + hi + 0 * (2 * HalfRange)
  BY <1>1
<1>3. Wrap(lo + hi) = lo + hi
  BY <1>1, <1>2, WrapFits
<1>4. \A x \in Int : IsHalf(x, Half(x))
  BY DEF IsHalf, Half
<1> QED  BY <1>1, <1>3, <1>4

\* What stands at place k of an ascending arrangement is the k-th smallest.
LEMMA AscendingRanks ==
  ASSUME NEW n \in Nat, NEW s, DOMAIN s = 1 .. n,
         \A i \in 1 .. n : s[i] \in Int,
         NEW f \in Bijection(1 .. n, 1 .. n), Ascending(s, f),
         NEW k \in 1 .. n
  PROVE  Ranks(s, k, s[f[k]])
<1> DEFINE v == s[f[k]]
           A == {i \in DOMAIN s : s[i] < v}
           B == {i \in DOMAIN s : s[i] <= v}
<1>1. /\ f \in [1 .. n -> 1 .. n]
      /\ \A i, j \in 1 .. n : f[i] = f[j] => i = j
      /\ \A i \in 1 .. n : \E j \in 1 .. n : f[j] = i
  BY DEF Bijection, Injection, Surjection, IsInjective
<1>2. \A i, j \in 1 .. n : i < j => s[f[i]] <= s[f[j]]
  BY <1>1 DEF Ascending
<1>3. IsFiniteSet(1 .. n) /\ IsFiniteSet(B)
  BY FS_Interval, FS_Subset
<1>4. Cardinality(A) < k
  <2> DEFINE h == [i \in A |-> CHOOSE j \in 1 .. n : f[j] = i]
  <2>1. ASSUME NEW i \in A PROVE h[i] \in 1 .. k - 1 /\ f[h[i]] = i
    <3>1. h[i] \in 1 .. n /\ f[h[i]] = i
      BY <1>1
    <3>2. PICK j \in 1 .. n : j = h[i] /\ f[j] = i
      BY <3>1
    <3>3. s[f[j]] < s[f[k]] /\ s[f[j]] \in Int /\ s[f[k]] \in Int
      BY <1>1, <3>2
    <3>4. j < k
      BY <1>2, <3>3
    <3> QED  BY <3>2, <3>4
  <2>2. h \in Injection(A, 1 .. k - 1)
    <3> HIDE DEF A
    <3>1. DOMAIN h = A /\ h = [i \in A |-> h[i]]
      OBVIOUS
    <3> HIDE DEF h
    <3>2. h \in [A -> 1 .. k - 1]
      BY <2>1, <3>1
    <3>3. \A i, j \in A : h[i] = h[j] => i = j
      BY <2>1
    <3> QED  BY <3>1, <3>2, <3>3 DEF Injection, IsInjective
  <2>3. IsFiniteSet(1 .. k - 1) /\ Cardinality(1 .. k - 1) = k - 1
    BY FS_Interval
  <2> HIDE DEF h, A
  <2>4. IsFiniteSet(A) /\ Cardinality(A) <= k - 1
    BY <2>2, <2>3, FS_Injection
  <2> QED  BY <2>4, FS_CardinalityType
<1>5. Cardinality(B) >= k
  <2> DEFINE h == [j \in 1 .. k |-> f[j]]
  <2>1. ASSUME NEW j \in 1 .. k PROVE f[j] \in B
    <3>1. j \in 1 .. n /\ f[j] \in 1 .. n /\ s[f[j]] \in Int
      BY <1>1
    <3>2. s[f[j]] <= s[f[k]]
      BY <1>2, <3>1
    <3> QED  BY <3>1, <3>2
  <2>2. h \in Injection(1 .. k, B)
    <3> HIDE DEF B
    <3>1. DOMAIN h = 1 .. k /\ h \in [1 .. k -> B]
      BY <2>1
    <3>2. ASSUME NEW i \in 1 .. k, NEW j \in 1 .. k, h[i] = h[j]
          PROVE  i = j
      <4>1. i \in 1 .. n /\ j \in 1 .. n /\ f[i] = f[j]
        BY <3>2
      <4> QED  BY <1>1, <4>1
    <3> HIDE DEF h
    <3> QED  BY <3>1, <3>2 DEF Injection, IsInjective
  <2>3. Cardinality(1 .. k) = k
    BY FS_Interval
  <2> HIDE DEF h, B
  <2>4. Cardinality(1 .. k) <= Cardinality(B)
    BY <1>3, <2>2, FS_Injection
  <2> QED  BY <1>3, <2>3, <2>4, FS_CardinalityType
<1> QED  BY <1>4, <1>5 DEF Ranks

\* Every sequence of numbers has an ascending arrangement: an entry goes to the
\* place that counts the entries before it, the smaller ones and the equal ones
\* further left.
LEMMA SortExists ==
  ASSUME NEW n \in Nat, NEW s, \A i \in 1 .. n : s[i] \in Int
  PROVE  \E f \in Bijection(1 .. n, 1 .. n) : Ascending(s, f)
<1> DEFINE Precedes(i, j) == s[i] < s[j] \/ (s[i] = s[j] /\ i <= j)
           Before(j) == {i \in 1 .. n : Precedes(i, j)}
           place == [j \in 1 .. n |-> Cardinality(Before(j))]
<1>1. IsFiniteSet(1 .. n) /\ Cardinality(1 .. n) = n
  BY FS_Interval
<1>2. ASSUME NEW j \in 1 .. n
      PROVE  /\ IsFiniteSet(Before(j)) /\ Cardinality(Before(j)) \in 1 .. n
             /\ j \in Before(j)
  <2>1. Before(j) \subseteq 1 .. n /\ j \in Before(j)
    OBVIOUS
  <2> HIDE DEF Before
  <2>2. IsFiniteSet(Before(j)) /\ Cardinality(Before(j)) <= n
    BY <1>1, <2>1, FS_Subset
  <2>3. Cardinality(Before(j)) \in Nat /\ Cardinality(Before(j)) # 0
    BY <2>1, <2>2, FS_CardinalityType, FS_EmptySet
  <2> QED  BY <2>1, <2>2, <2>3
<1>3. ASSUME NEW i \in 1 .. n, NEW j \in 1 .. n, ~Precedes(j, i)
      PROVE  place[i] < place[j]
  <2>1. Before(i) \subseteq Before(j) /\ Before(i) # Before(j)
    <3>1. Precedes(i, j)
      BY <1>3
    <3>2. ASSUME NEW l \in 1 .. n, Precedes(l, i) PROVE Precedes(l, j)
      BY <3>1, <3>2
    <3>3. j \in Before(j) /\ j \notin Before(i)
      BY <1>2, <1>3
    <3> QED  BY <3>2, <3>3
  <2> HIDE DEF Before
  <2>2. /\ Cardinality(Before(i)) <= Cardinality(Before(j))
        /\ Cardinality(Before(i)) # Cardinality(Before(j))
    BY <1>2, <2>1, FS_Subset
  <2> QED  BY <1>2, <2>2
<1>4. place \in Injection(1 .. n, 1 .. n)
  <2>1. place \in [1 .. n -> 1 .. n]
    BY <1>2
  <2>2. ASSUME NEW i \in 1 .. n, NEW j \in 1 .. n, i # j
        PROVE  place[i] # place[j]
    <3>1. ~Precedes(i, j) \/ ~Precedes(j, i)
      BY <2>2
    <3> HIDE DEF Precedes, place
    <3> QED  BY <1>3, <2>1, <3>1
  <2> HIDE DEF place
  <2> QED  BY <2>1, <2>2 DEF Injection, IsInjective
<1> HIDE DEF place
<1>5. place \in Surjection(1 .. n, 1 .. n)
  BY <1>1, <1>4, FS_Injection
<1> DEFINE f == [k \in 1 .. n |-> CHOOSE j \in 1 .. n : place[j] = k]
<1>6. \A k \in 1 .. n : f[k] \in 1 .. n /\ place[f[k]] = k
  BY <1>5 DEF Surjection
<1>7. \A j \in 1 .. n : f[place[j]] = j /\ place[j] \in 1 .. n
  BY <1>4, <1>6 DEF Injection, IsInjective
<1>8. f \in Bijection(1 .. n, 1 .. n)
  <2>1. f \in [1 .. n -> 1 .. n]
    BY <1>6
  <2> HIDE DEF f
  <2>2. \A i, j \in 1 .. n : f[i] = f[j] => i = j
    BY <1>6
  <2>3. \A i \in 1 .. n : \E j \in 1 .. n : f[j] = i
    BY <1>7
  <2> QED  BY <2>1, <2>2, <2>3 DEF Bijection, Injection, Surjection, IsInjective
<1>9. Ascending(s, f)
  <2> SUFFICES ASSUME NEW i \in 1 .. n, NEW j \in 1 .. n, i < j
               PROVE  s[f[i]] <= s[f[j]]
    BY DEF Ascending
  <2>1. Precedes(f[i], f[j])
    <3> SUFFICES ASSUME ~Precedes(f[i], f[j]) PROVE FALSE
      OBVIOUS
    <3> HIDE DEF Precedes, f
    <3>1. place[f[j]] < place[f[i]]
      BY <1>3, <1>6
    <3> QED  BY <1>6, <3>1
  <2> QED  BY <1>6, <2>1
<1> QED  BY <1>8, <1>9

\* The differences that the median is taken of, by age.
LEMMA LatestIs ==
  ASSUME RingInv
  PROVE  LET n == Len(observed)
         IN  /\ count \in Nat /\ count <= n /\ count <= HistorySize
             /\ Latest \in Seq(Int) /\ Len(Latest) = count
             /\ DOMAIN Latest = 1 .. count
             /\ \A i \in 1 .. count : Latest[i] = observed[n - count + i]
             /\ \A i \in 1 .. count : Small(Latest[i])
<1> PICK n \in Nat : n = Len(observed)
  BY DEF RingInv
<1> PICK H \in Nat \ {0} : H = HistorySize
  BY ClockAssumption
<1>1. /\ observed \in Seq(Int) /\ \A i \in 1 .. n : Small(observed[i])
      /\ count = IF n < H THEN n ELSE H
  BY DEF RingInv
<1>2. CASE n <= H
  <2>1. Latest = observed /\ count = n
    BY <1>1, <1>2 DEF Latest
  <2>2. Len(observed) = n /\ DOMAIN observed = 1 .. n
    BY <1>1
  <2>3. \A i \in 1 .. n : n - n + i = i
    OBVIOUS
  <2>4. count \in Nat /\ count <= n /\ count <= H
    BY <1>2, <2>1
  <2>5. \A i \in 1 .. count : Latest[i] = observed[n - count + i]
    BY <2>1, <2>3
  <2> QED  BY <1>1, <2>1, <2>2, <2>4, <2>5
<1>3. CASE n > H
  <2>1. Latest = SubSeq(observed, n - H + 1, n) /\ count = H
    BY <1>1, <1>3 DEF Latest
  <2>2. /\ SubSeq(observed, n - H + 1, n) \in Seq(Int)
        /\ Len(SubSeq(observed, n - H + 1, n)) = H
        /\ \A i \in 1 .. H : SubSeq(observed, n - H + 1, n)[i]
                                 = observed[n - H + i]
    <3>1. /\ n - H + 1 \in 1 .. n + 1 /\ n - H + 1 \in Int
          /\ n \in 0 .. Len(observed)
          /\ \A i \in n - H + 1 .. n : i \in 1 .. n
      BY <1>3
    <3>2. /\ SubSeq(observed, n - H + 1, n) \in Seq(Int)
          /\ Len(SubSeq(observed, n - H + 1, n))
                 = IF n - H + 1 <= n THEN n - (n - H + 1) + 1 ELSE 0
          /\ \A i \in 1 .. n - (n - H + 1) + 1 :
                 SubSeq(observed, n - H + 1, n)[i]
                     = observed[n - H + 1 + i - 1]
      BY <1>1, <3>1, SubSeqProperties
    <3>3. n - (n - H + 1) + 1 = H /\ n - H + 1 <= n
      BY <1>3
    <3>4. \A i \in 1 .. H : n - H + 1 + i - 1 = n - H + i
      OBVIOUS
    <3> QED  BY <3>2, <3>3, <3>4
  <2>3. ASSUME NEW i \in 1 .. H PROVE Small(observed[n - H + i])
    BY <1>1, <1>3
  <2>4. DOMAIN Latest = 1 .. H
    BY <2>1, <2>2
  <2>5. /\ count \in Nat /\ count <= n /\ count <= H
    BY <1>3, <2>1
  <2>6. /\ Latest \in Seq(Int) /\ Len(Latest) = count
        /\ \A i \in 1 .. count : Latest[i] = observed[n - count + i]
    BY <2>1, <2>2
  <2>7. \A i \in 1 .. count : Small(Latest[i])
    BY <2>1, <2>3, <2>6
  <2> QED  BY <2>1, <2>4, <2>5, <2>6, <2>7
<1> QED  BY <1>2, <1>3

\* The buffer is the latest differences, turned round.
LEMMA Rotation ==
  ASSUME RingInv
  PROVE  \E g \in Bijection(1 .. count, 1 .. count) :
             \A i \in 1 .. count : buf[i] = Latest[g[i]]
<1> PICK n \in Nat : n = Len(observed)
  BY DEF RingInv
<1> PICK H \in Nat \ {0} : H = HistorySize
  BY ClockAssumption
<1> PICK w \in 0 .. H - 1 : w = writeIdx
  BY DEF RingInv
<1> PICK c \in Nat : c = count
  BY LatestIs
<1>1. /\ c = IF n < H THEN n ELSE H
      /\ n < H => w = n
      /\ \A i \in 1 .. w : buf[i] = observed[n - w + i]
      /\ n >= H => \A i \in w + 1 .. H : buf[i] = observed[n - w - H + i]
  BY DEF RingInv
<1>2. w <= c /\ c <= n
  BY <1>1
<1> DEFINE g == [i \in 1 .. c |-> IF i <= w THEN c - w + i ELSE i - w]
<1>3. /\ g \in [1 .. c -> 1 .. c] /\ DOMAIN g = 1 .. c
      /\ \A i \in 1 .. w : g[i] = c - w + i
      /\ \A i \in w + 1 .. c : g[i] = i - w
  BY <1>2
<1> HIDE DEF g
<1>4. g \in Bijection(1 .. c, 1 .. c)
  <2>1. ASSUME NEW i \in 1 .. c, NEW j \in 1 .. c, g[i] = g[j] PROVE i = j
    <3>1. i \in 1 .. w \/ i \in w + 1 .. c
      OBVIOUS
    <3>2. j \in 1 .. w \/ j \in w + 1 .. c
      OBVIOUS
    <3>3. CASE i \in 1 .. w /\ j \in 1 .. w
      BY <1>3, <2>1, <3>3
    <3>4. CASE i \in w + 1 .. c /\ j \in w + 1 .. c
      BY <1>3, <2>1, <3>4
    <3>5. CASE i \in 1 .. w /\ j \in w + 1 .. c
      <4>1. c - w + i = j - w
        BY <1>3, <2>1, <3>5
      <4> QED  BY <1>2, <3>5, <4>1
    <3>6. CASE i \in w + 1 .. c /\ j \in 1 .. w
      <4>1. i - w = c - w + j
        BY <1>3, <2>1, <3>6
      <4> QED  BY <1>2, <3>6, <4>1
    <3> QED  BY <3>1, <3>2, <3>3, <3>4, <3>5, <3>6
  <2>2. ASSUME NEW i \in 1 .. c PROVE \E j \in 1 .. c : g[j] = i
    <3>1. CASE i <= c - w
      <4>1. i + w \in w + 1 .. c /\ i + w \in 1 .. c /\ (i + w) - w = i
        BY <1>2, <3>1
      <4> QED  BY <1>3, <4>1
    <3>2. CASE i > c - w
      <4>1. /\ i - (c - w) \in 1 .. w /\ i - (c - w) \in 1 .. c
            /\ (c - w) + (i - (c - w)) = i
        BY <1>2, <3>2
      <4>2. g[i - (c - w)] = c - w + (i - (c - w))
        BY <1>3, <4>1
      <4> QED  BY <4>1, <4>2
    <3> QED  BY <3>1, <3>2
  <2> QED  BY <1>3, <2>1, <2>2 DEF Bijection, Injection, Surjection, IsInjective
<1>5. ASSUME NEW i \in 1 .. c PROVE buf[i] = Latest[g[i]]
  <2>1. g[i] \in 1 .. c /\ Latest[g[i]] = observed[n - c + g[i]]
    BY <1>3, LatestIs
  <2>2. CASE i <= w
    <3>1. n - c + (c - w + i) = n - w + i
      BY <1>2
    <3>2. g[i] = c - w + i /\ buf[i] = observed[n - w + i]
      BY <1>1, <1>3, <2>2
    <3> QED  BY <2>1, <3>1, <3>2
  <2>3. CASE i > w
    <3>1. n >= H /\ c = H
      BY <1>1, <2>3
    <3>2. n - c + (i - w) = n - w - H + i
      BY <3>1
    <3>3. g[i] = i - w /\ buf[i] = observed[n - w - H + i]
      BY <1>1, <1>3, <2>3, <3>1
    <3> QED  BY <2>1, <3>2, <3>3
  <2> QED  BY <2>2, <2>3
<1> QED  BY <1>4, <1>5

\* Entry k of the sorted buffer is the k-th smallest of the latest differences
\* (clock_align.rs:86-90).
LEMMA SortedRanks ==
  ASSUME RingInv, NEW k \in 1 .. count
  PROVE  LET v == SortedEntries(buf, count)[k]
         IN  v \in {Latest[i] : i \in DOMAIN Latest} /\ Ranks(Latest, k, v)
<1> PICK c \in Nat : c = count
  BY LatestIs
<1>1. DOMAIN Latest = 1 .. c /\ \A i \in 1 .. c : Latest[i] \in Int
  BY LatestIs DEF Small
<1> PICK g \in Bijection(1 .. c, 1 .. c) :
         \A i \in 1 .. c : buf[i] = Latest[g[i]]
  BY Rotation
<1> DEFINE f == CHOOSE o \in Bijection(1 .. c, 1 .. c) : Ascending(buf, o)
           h == [i \in 1 .. c |-> g[f[i]]]
<1>2. /\ g \in [1 .. c -> 1 .. c]
      /\ \A i, j \in 1 .. c : g[i] = g[j] => i = j
      /\ \A i \in 1 .. c : \E j \in 1 .. c : g[j] = i
  BY DEF Bijection, Injection, Surjection, IsInjective
<1>3. ASSUME NEW i \in 1 .. c PROVE buf[i] \in Int
  <2>1. buf[i] = Latest[g[i]] /\ g[i] \in 1 .. c
    BY <1>2
  <2> QED  BY <1>1, <2>1
<1>4. f \in Bijection(1 .. c, 1 .. c) /\ Ascending(buf, f)
  BY <1>3, SortExists
<1>5. SortedEntries(buf, count) = [i \in 1 .. c |-> buf[f[i]]]
  BY DEF SortedEntries
<1> HIDE DEF f
<1>6. /\ f \in [1 .. c -> 1 .. c]
      /\ \A i, j \in 1 .. c : f[i] = f[j] => i = j
      /\ \A i \in 1 .. c : \E j \in 1 .. c : f[j] = i
  BY <1>4 DEF Bijection, Injection, Surjection, IsInjective
<1>7. h \in Bijection(1 .. c, 1 .. c)
  <2>1. h \in [1 .. c -> 1 .. c] /\ \A i \in 1 .. c : h[i] = g[f[i]]
    BY <1>2, <1>6
  <2> HIDE DEF h
  <2>2. ASSUME NEW i \in 1 .. c, NEW j \in 1 .. c, h[i] = h[j]
        PROVE  i = j
    <3>1. PICK a \in 1 .. c, b \in 1 .. c : a = f[i] /\ b = f[j]
      BY <1>6
    <3>2. g[a] = g[b]
      BY <2>1, <2>2, <3>1
    <3>3. a = b
      BY <1>2, <3>2
    <3> QED  BY <1>6, <3>1, <3>3
  <2>3. \A i \in 1 .. c : \E j \in 1 .. c : h[j] = i
    BY <1>2, <1>6, <2>1
  <2> QED  BY <2>1, <2>2, <2>3 DEF Bijection, Injection, Surjection, IsInjective
<1>8. \A i \in 1 .. c : buf[f[i]] = Latest[h[i]] /\ h[i] \in 1 .. c
  BY <1>2, <1>6
<1>9. Ascending(Latest, h)
  <2>1. DOMAIN h = 1 .. c /\ DOMAIN f = 1 .. c
    BY <1>6
  <2> HIDE DEF h
  <2> QED  BY <1>4, <1>8, <2>1 DEF Ascending
<1>10. SortedEntries(buf, count)[k] = Latest[h[k]]
  BY <1>5, <1>8
<1> HIDE DEF h
<1>11. Ranks(Latest, k, Latest[h[k]])
  BY <1>1, <1>7, <1>9, AscendingRanks
<1> QED  BY <1>1, <1>8, <1>10, <1>11

\* The median that the estimator stores (clock_align.rs:93-104).
LEMMA MedianIsMedian ==
  ASSUME RingInv, count > 0
  PROVE  IsMedian(Latest, Median(buf, count))
<1> PICK c \in Nat \ {0} : c = count
  BY LatestIs
<1> DEFINE sorted == SortedEntries(buf, count)
           mid == c \div 2
           val == {Latest[i] : i \in DOMAIN Latest}
<1>1. Len(Latest) = c /\ \A v \in val : Small(v)
  BY LatestIs
<1>2. \A k \in 1 .. c : sorted[k] \in val /\ Ranks(Latest, k, sorted[k])
  BY SortedRanks
<1>3. Median(buf, count) =
          CASE c = 0 -> 0
            [] c % 2 = 1 -> sorted[mid + 1]
            [] OTHER -> Half(Wrap(sorted[mid] + sorted[mid + 1]))
  BY DEF Median
<1> HIDE DEF sorted
<1>4. CASE c % 2 = 1
  <2>1. Median(buf, count) = sorted[mid + 1]
    BY <1>3, <1>4
  <2>2. (c + 1) \div 2 = mid + 1 /\ mid + 1 \in 1 .. c
    BY <1>4
  <2> HIDE DEF val, mid
  <2>3. /\ sorted[mid + 1] \in val
        /\ Ranks(Latest, (c + 1) \div 2, sorted[mid + 1])
    BY <1>2, <2>2
  <2> QED  BY <1>1, <1>4, <2>1, <2>3 DEF IsMedian, val
<1>5. CASE c % 2 # 1
  <2>1. Median(buf, count) = Half(Wrap(sorted[mid] + sorted[mid + 1]))
    BY <1>3, <1>5
  <2>2. mid \in 1 .. c /\ mid + 1 \in 1 .. c
    BY <1>5
  <2> HIDE DEF val, mid
  <2>3. /\ sorted[mid] \in val /\ Ranks(Latest, mid, sorted[mid])
        /\ sorted[mid + 1] \in val /\ Ranks(Latest, mid + 1, sorted[mid + 1])
    BY <1>2, <2>2
  <2>4. IsHalf(sorted[mid] + sorted[mid + 1], Median(buf, count))
    BY <1>1, <2>1, <2>3, AverageIsHalf
  <2>5. \E lo, hi \in val : /\ Ranks(Latest, c \div 2, lo)
                            /\ Ranks(Latest, c \div 2 + 1, hi)
                            /\ IsHalf(lo + hi, Median(buf, count))
    BY <2>3, <2>4 DEF mid
  <2> QED  BY <1>1, <1>5, <2>5 DEF IsMedian, val
<1> QED  BY <1>4, <1>5

\* push keeps the buffer a window of the differences (clock_align.rs:77-83).
LEMMA PushKeeps ==
  ASSUME RingInv, NEW delta, Small(delta), Push(delta),
         observed' = Append(observed, delta)
  PROVE  RingInv' /\ count' > 0
<1> PICK n \in Nat : n = Len(observed)
  BY DEF RingInv
<1> PICK H \in Nat \ {0} : H = HistorySize
  BY ClockAssumption
<1> PICK w \in 0 .. H - 1 : w = writeIdx
  BY DEF RingInv
<1>1. /\ observed \in Seq(Int) /\ \A i \in 1 .. n : Small(observed[i])
      /\ buf \in [1 .. H -> Int]
      /\ count = IF n < H THEN n ELSE H
      /\ n < H => w = n
      /\ \A i \in 1 .. w : buf[i] = observed[n - w + i]
      /\ n >= H => \A i \in w + 1 .. H : buf[i] = observed[n - w - H + i]
  BY DEF RingInv
<1> PICK v \in 0 .. H - 1 : v = writeIdx' /\ v = IF w + 1 < H THEN w + 1 ELSE 0
  <2>1. (w + 1) % H = IF w + 1 < H THEN w + 1 ELSE 0
    <3>1. w + 1 < H => (w + 1) % H = w + 1
      OBVIOUS
    <3>2. H % H = 0
      OBVIOUS
    <3>3. w + 1 < H \/ w + 1 = H
      OBVIOUS
    <3> QED  BY <3>1, <3>2, <3>3
  <2> QED  BY <2>1 DEF Push
<1>2. /\ observed' \in Seq(Int) /\ Len(observed') = n + 1
      /\ \A i \in 1 .. n : observed'[i] = observed[i]
      /\ observed'[n + 1] = delta
  <2>1. delta \in Int
    BY DEF Small
  <2> QED  BY <1>1, <2>1, AppendProperties
<1>3. \A i \in 1 .. n + 1 : Small(observed'[i])
  <2>1. \A i \in 1 .. n + 1 : i \in 1 .. n \/ i = n + 1
    OBVIOUS
  <2> QED  BY <1>1, <1>2, <2>1
<1>4. /\ buf' \in [1 .. H -> Int] /\ buf'[w + 1] = delta
      /\ \A i \in 1 .. H : i # w + 1 => buf'[i] = buf[i]
  <2>1. delta \in Int /\ w + 1 \in 1 .. H
    BY DEF Small
  <2> QED  BY <1>1, <2>1 DEF Push
<1>5. count' = IF n + 1 < H THEN n + 1 ELSE H
  BY <1>1 DEF Push
<1>6. n + 1 < H => v = n + 1
  BY <1>1
<1>7. ASSUME NEW i \in 1 .. v PROVE buf'[i] = observed'[n + 1 - v + i]
  <2>1. v = w + 1
    OBVIOUS
  <2>2. CASE i = v
    <3>1. n + 1 - v + i = n + 1
      BY <2>2
    <3> QED  BY <1>2, <1>4, <2>1, <2>2, <3>1
  <2>3. CASE i # v
    <3>1. i \in 1 .. w /\ i \in 1 .. H /\ i # w + 1 /\ n + 1 - v + i = n - w + i
      BY <2>1, <2>3
    <3>2. n - w + i \in 1 .. n
      BY <1>1, <3>1
    <3>3. buf'[i] = buf[i] /\ buf[i] = observed[n - w + i]
      BY <1>1, <1>4, <3>1
    <3>4. observed'[n - w + i] = observed[n - w + i]
      BY <1>2, <3>2
    <3> QED  BY <3>1, <3>3, <3>4
  <2> QED  BY <2>2, <2>3
<1>8. ASSUME n + 1 >= H, NEW i \in v + 1 .. H
      PROVE  buf'[i] = observed'[n + 1 - v - H + i]
  <2>1. CASE v = 0
    <3>1. w + 1 = H
      BY <2>1
    <3>2. CASE i = H
      <4>1. n + 1 - v - H + i = n + 1
        BY <2>1, <3>2
      <4> QED  BY <1>2, <1>4, <3>1, <3>2, <4>1
    <3>3. CASE i # H
      <4>1. /\ i \in 1 .. w /\ i \in 1 .. H /\ i # w + 1
            /\ n + 1 - v - H + i = n - w + i
        BY <2>1, <3>1, <3>3
      <4>2. n - w + i \in 1 .. n
        BY <1>8, <3>1, <4>1
      <4>3. buf'[i] = buf[i] /\ buf[i] = observed[n - w + i]
        BY <1>1, <1>4, <4>1
      <4>4. observed'[n - w + i] = observed[n - w + i]
        BY <1>2, <4>2
      <4> QED  BY <4>1, <4>3, <4>4
    <3> QED  BY <3>2, <3>3
  <2>2. CASE v = w + 1
    <3>1. n >= H
      BY <1>1, <1>8, <2>2
    <3>2. /\ i \in w + 1 .. H /\ i \in 1 .. H /\ i # w + 1
          /\ n + 1 - v - H + i = n - w - H + i
      BY <2>2
    <3>3. n - w - H + i \in 1 .. n
      BY <3>1, <3>2
    <3>4. buf'[i] = buf[i] /\ buf[i] = observed[n - w - H + i]
      BY <1>1, <1>4, <3>1, <3>2
    <3>5. observed'[n - w - H + i] = observed[n - w - H + i]
      BY <1>2, <3>3
    <3> QED  BY <3>2, <3>4, <3>5
  <2> QED  BY <2>1, <2>2
<1> QED
  <2>1. count' > 0
    BY <1>5
  <2>2. \A i \in 1 .. writeIdx' :
            buf'[i] = observed'[Len(observed') - writeIdx' + i]
    <3>1. Len(observed') = n + 1 /\ writeIdx' = v
      BY <1>2
    <3>2. \A i \in 1 .. v : buf'[i] = observed'[n + 1 - v + i]
      BY <1>7
    <3> QED  BY ONLY <3>1, <3>2
  <2>3. Len(observed') >= HistorySize =>
            \A i \in writeIdx' + 1 .. HistorySize :
                buf'[i] =
                    observed'[Len(observed') - writeIdx' - HistorySize + i]
    <3>1. Len(observed') = n + 1 /\ writeIdx' = v /\ HistorySize = H
      BY <1>2
    <3>2. n + 1 >= H =>
              \A i \in v + 1 .. H : buf'[i] = observed'[n + 1 - v - H + i]
      BY <1>8
    <3> QED  BY ONLY <3>1, <3>2
  <2>4. /\ observed' \in Seq(Int)
        /\ \A i \in 1 .. Len(observed') : Small(observed'[i])
        /\ buf' \in [1 .. HistorySize -> Int]
        /\ writeIdx' \in 0 .. HistorySize - 1
        /\ count' = IF Len(observed') < HistorySize THEN Len(observed')
                                                   ELSE HistorySize
        /\ Len(observed') < HistorySize => writeIdx' = Len(observed')
    BY <1>2, <1>3, <1>4, <1>5, <1>6
  <2> QED  BY <2>1, <2>2, <2>3, <2>4 DEF RingInv, Small

\* The buffer holds the latest differences, and the estimate is their median
\* (clock_align.rs:129-139).
THEOREM ClockInvariant == ClockSpec => []ClockInv
<1>1. ClockInit => ClockInv
  <2> SUFFICES ASSUME ClockInit PROVE ClockInv
    OBVIOUS
  <2>1. HistorySize \in Nat \ {0}
    BY ClockAssumption
  <2>2. observed = << >> /\ Len(observed) = 0 /\ observed \in Seq(Int)
    BY DEF ClockInit
  <2>3. RingInv
    BY <2>1, <2>2 DEF ClockInit, RingInv
  <2>4. SkewIsMedian
    BY <2>2 DEF ClockInit, SkewIsMedian
  <2> QED  BY <2>3, <2>4 DEF ClockInv
<1>2. (RingInv /\ count > 0)' => IsMedian(Latest, Median(buf, count))'
  <2>1. RingInv /\ count > 0 => IsMedian(Latest, Median(buf, count))
    BY MedianIsMedian
  <2> QED  BY <2>1, PTL
<1>3. ClockInv /\ [ClockNext]_clockVars => ClockInv'
  <2> SUFFICES ASSUME ClockInv, [ClockNext]_clockVars PROVE ClockInv'
    OBVIOUS
  <2>1. CASE UNCHANGED <<buf, writeIdx, count, skew, observed>>
    BY <2>1 DEF ClockInv, RingInv, SkewIsMedian, Latest
  <2>2. ASSUME NEW o \in Observation, RecordCounterObservation(o)
        PROVE  ClockInv'
    <3>1. /\ Small(o.remote - o.local) /\ Push(o.remote - o.local)
          /\ observed' = Append(observed, o.remote - o.local)
      BY <2>2, DeltaIsTrue DEF RecordCounterObservation
    <3>2. RingInv' /\ count' > 0
      BY <3>1, PushKeeps DEF ClockInv
    <3>3. IsMedian(Latest, Median(buf, count))'
      BY <1>2, <3>2
    <3>4. skew' = Median(buf, count)'
      BY <2>2 DEF RecordCounterObservation
    <3>5. observed' # << >>
      <4>1. o.remote - o.local \in Int /\ observed \in Seq(Int)
        BY <3>1 DEF Small, ClockInv, RingInv
      <4> QED  BY <3>1, <4>1
    <3> QED  BY <3>2, <3>3, <3>4, <3>5 DEF ClockInv, SkewIsMedian
  <2> QED
    BY <2>1, <2>2
    DEF ClockNext, InitClockAlign, EstimatedSkew, RecordTooEarly, clockVars
<1> QED  BY <1>1, <1>3, PTL DEF ClockSpec

\* The estimate is the median of the true differences of the last observations,
\* for a buffer of any size, counters of any width and any number of
\* observations, if the counters stay less than a quarter of the range apart.
THEOREM SkewIsMedianHolds == ClockSpec => []SkewIsMedian
<1>1. ClockInv => SkewIsMedian
  BY DEF ClockInv
<1> QED  BY <1>1, ClockInvariant, PTL
============================================================================
