\* Two threads of Alice's host decrypt one message of the next epoch.
SPECIFICATION Spec
CONSTANTS
    Peer = {"alice", "bob"}
    Bob = "bob"
    Thread = {"a1", "a2", "b1"}
    Owner <- AliceTwoBobOne
    Calls <- ReceiveCalls
    MaxSecret = 2
    MaxKeypair = 1
    MaxEpoch = 2
    MaxSeq = 1
    MaxGap = 2
    SettledStart = TRUE
    DedupKem = TRUE
PROPERTIES NoneOnlyIfBothKeysFail
