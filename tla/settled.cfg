\* Two threads of Alice's host decrypt; evolutions one at a time, each KEM
\* ciphertext applied once.
SPECIFICATION FairSpec
CONSTANTS
    Peer = {"alice", "bob"}
    Bob = "bob"
    Thread = {"a1", "a2", "b1"}
    Owner <- AliceTwoBobOne
    Calls <- ReceiveCalls
    MaxSecret = 3
    MaxKeypair = 1
    MaxEpoch = 3
    MaxSeq = 2
    MaxGap = 2
    SettledStart = TRUE
    DedupKem = TRUE
INVARIANTS Agreement InStepInv InStep
PROPERTIES AutoCommitLandsOnSender Converges
