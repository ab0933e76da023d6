\* Alice restarts an evolution whose ciphertext Bob has applied.
SPECIFICATION FairSpec
CONSTANTS
    Peer = {"alice", "bob"}
    Bob = "bob"
    Thread = {"a1", "b1"}
    Owner <- OneThreadEach
    Calls <- EvolveCalls
    MaxSecret = 2
    MaxKeypair = 1
    MaxEpoch = 1
    MaxSeq = 1
    MaxGap = 2
    SettledStart = FALSE
    DedupKem = TRUE
PROPERTIES Converges
