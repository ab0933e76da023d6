SPECIFICATION ProcessSpec
CONSTANTS
    \* Three threads of Alice's host start evolutions, replace the key, commit.
    Peer = {"alice", "bob"}
    Bob = "bob"
    Thread = {"a1", "a2", "a3"}
    Owner <- AllOnAlice
    Calls <- StartCalls
    MaxSecret = 3
    MaxKeypair = 2
    MaxEpoch = 2
    MaxSeq = 1
    MaxGap = 2
    SettledStart = FALSE
    DedupKem = FALSE
    \* The noise engine.
    Host = {"h1", "h2"}
    Sender = {"s1", "s2", "s3"}
    MaxMessages = 2
    Patient = TRUE
    \* The clock and the padding.
    HistorySize = 3
    HalfRange = 8
    Observation <- Observations
    MaxObservations = 5
    Base = 2
    MinPad = 2
    MaxPad = 3
    MaxPayload = 2
    MaxFrame = 7
    \* Pairing.
    Pairer = {"p1", "p2"}
    PublicKey = {"", "pk"}
    Entropy <- Streams
    MinEntropy = 2
    MaxPairings = 2
    \* The locks.
    Caller = {"host", "engine"}
    Engine = {"engine"}
INVARIANTS
    PkLockInv
    CipherInv
    CipherMatchesPend
    FlowInv
    RunningIsHeard
    SilentAfterStop
    SentInOrder
    SkewIsMedian
    StripInverts
    StampKeyNotStale
    NoCircularWait
PROPERTIES
    FreshRoot
    QueuedIsSent
    StopSettles
