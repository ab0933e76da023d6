----------------------------- MODULE ClockAlign -----------------------------
(***************************************************************************)
(* clock_align.rs: the estimate of how far the peer's counter is ahead, the *)
(* median of the last differences.  Counters are u64 and differences i64,  *)
(* here modulo 2 * HalfRange; where the arithmetic overflows it wraps, as  *)
(* in a build without overflow checks.  The time stamp of the last sample  *)
(* is left out: nothing reads it.                                          *)
(***************************************************************************)
EXTENDS Integers, Sequences, FiniteSets, Functions

CONSTANTS
    HistorySize,             \* DELTA_HISTORY_SIZE
    HalfRange,               \* 2^63, the numbers that an i64 has of a sign
    Observation,             \* pairs of counters that are observed
    MaxObservations          \* bound: observations in a behaviour

\* Counters are less than a quarter of the range apart.
ASSUME ClockAssumption ==
    /\ HistorySize \in Nat \ {0} /\ HalfRange \in Nat \ {0}
    /\ MaxObservations \in Nat
    /\ \A o \in Observation :
           /\ o.remote \in 0 .. 2 * HalfRange - 1
           /\ o.local \in 0 .. 2 * HalfRange - 1
           /\ 2 * (o.remote - o.local) < HalfRange
           /\ 2 * (o.local - o.remote) < HalfRange

VARIABLES
    aligned,                 \* init_clock_align was called
    buf, writeIdx, count,    \* SkewRingBuffer
    skew,                    \* ESTIMATED_SKEW
    observed                 \* the true differences, oldest first

clockVars == <<aligned, buf, writeIdx, count, skew, observed>>

AsSigned(x) == IF x < HalfRange THEN x ELSE x - 2 * HalfRange
Wrap(n) == AsSigned(n % (2 * HalfRange))

ClockTypeOK ==
    /\ aligned \in BOOLEAN
    /\ writeIdx \in 0 .. HistorySize - 1 /\ count \in 0 .. HistorySize
    /\ \A i \in 1 .. HistorySize : buf[i] = Wrap(buf[i])
    /\ skew = Wrap(skew)

ClockInit ==
    /\ aligned = FALSE
    /\ buf = [i \in 1 .. HistorySize |-> 0] /\ writeIdx = 0 /\ count = 0
    /\ skew = 0 /\ observed = << >>

----------------------------------------------------------------------------
\* i64 division rounds towards zero.
Half(n) == IF n >= 0 THEN n \div 2 ELSE -((-n) \div 2)

Ascending(samples, order) ==
    \A i, j \in DOMAIN order : i < j => samples[order[i]] <= samples[order[j]]

\* sort_unstable rearranges the entries, in any order of the equal ones.
SortedEntries(samples, n) ==
    LET order == CHOOSE o \in Bijection(1 .. n, 1 .. n) : Ascending(samples, o)
    IN  [i \in 1 .. n |-> samples[order[i]]]

Median(samples, n) ==
    LET sorted == SortedEntries(samples, n)
        mid == n \div 2
    IN  CASE n = 0 -> 0
          [] n % 2 = 1 -> sorted[mid + 1]
          [] OTHER -> Half(Wrap(sorted[mid] + sorted[mid + 1]))

\* The OnceLock keeps the first buffer.
InitClockAlign ==
    /\ aligned' = TRUE
    /\ UNCHANGED <<buf, writeIdx, count, skew, observed>>

PushStuck(delta) ==
    /\ buf' = [buf EXCEPT ![writeIdx + 1] = delta]
    /\ writeIdx' = IF writeIdx + 1 < HistorySize THEN writeIdx + 1 ELSE writeIdx
    /\ count' = IF count < HistorySize THEN count + 1 ELSE count

Push(delta) ==
    /\ buf' = [buf EXCEPT ![writeIdx + 1] = delta]
    /\ writeIdx' = (writeIdx + 1) % HistorySize
    /\ count' = IF count < HistorySize THEN count + 1 ELSE count

\* Push, median and store happen under the lock of the buffer.
RecordCounterObservation(o) ==
    /\ aligned /\ Len(observed) < MaxObservations
    /\ Push(Wrap(AsSigned(o.remote) - AsSigned(o.local)))
    /\ skew' = Median(buf', count')
    /\ observed' = Append(observed, o.remote - o.local)
    /\ UNCHANGED aligned

\* Before init_clock_align there is no buffer to push to.
RecordTooEarly(o) == ~aligned /\ UNCHANGED clockVars

EstimatedSkew == UNCHANGED clockVars

ClockNext ==
    \/ InitClockAlign \/ EstimatedSkew
    \/ \E o \in Observation : RecordCounterObservation(o) \/ RecordTooEarly(o)

ClockSpec == ClockInit /\ [][ClockNext]_clockVars

----------------------------------------------------------------------------
(* Properties.                                                             *)

Latest ==
    LET n == Len(observed)
    IN  IF n <= HistorySize THEN observed
                            ELSE SubSeq(observed, n - HistorySize + 1, n)

\* v is the k-th smallest of s.
Ranks(s, k, v) ==
    /\ Cardinality({i \in DOMAIN s : s[i] < v}) < k
    /\ Cardinality({i \in DOMAIN s : s[i] <= v}) >= k

\* m is the number between 0 and x / 2 that is nearest to x / 2.
IsHalf(x, m) ==
    IF x >= 0 THEN 2 * m \in {x - 1, x} /\ m >= 0
              ELSE 2 * m \in {x, x + 1} /\ m <= 0

IsMedian(s, m) ==
    LET n == Len(s)
        val == {s[i] : i \in DOMAIN s}
    IN  IF n % 2 = 1
        THEN m \in val /\ Ranks(s, (n + 1) \div 2, m)
        ELSE \E lo, hi \in val : /\ Ranks(s, n \div 2, lo)
                                 /\ Ranks(s, n \div 2 + 1, hi)
                                 /\ IsHalf(lo + hi, m)

\* The estimate is the median of the true differences of the last HistorySize
\* observations, also when the buffer has gone round, when a counter is beyond
\* the largest i64, and when the two middle differences differ in sign
\* (clock_align.rs:129-139).
SkewIsMedian == IF observed = << >> THEN skew = 0 ELSE IsMedian(Latest, skew)
============================================================================
