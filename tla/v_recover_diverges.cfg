\* Bob recovers to an epoch Alice entered by an evolution.
SPECIFICATION Spec
CONSTANTS
    Peer = {"alice", "bob"}
    Bob = "bob"
    Thread = {"a1", "b1"}
    Owner <- OneThreadEach
    Calls <- LostKemCalls
    MaxSecret = 2
    MaxKeypair = 1
    MaxEpoch = 2
    MaxSeq = 1
    MaxGap = 2
    SettledStart = FALSE
    DedupKem = FALSE
INVARIANTS Agreement
