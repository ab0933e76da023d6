\* One thread sends while another ends the epoch.
SPECIFICATION Spec
CONSTANTS
    Peer = {"alice", "bob"}
    Bob = "bob"
    Thread = {"b1", "b2"}
    Owner <- AllOnBob
    Calls <- SendRollCalls
    MaxSecret = 2
    MaxKeypair = 1
    MaxEpoch = 1
    MaxSeq = 1
    MaxGap = 2
    SettledStart = FALSE
    DedupKem = FALSE
INVARIANTS KeysNeverRepeat
