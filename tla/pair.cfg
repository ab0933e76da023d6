\* One thread per device; the relay loses, repeats and reorders; Alice restarts
\* evolutions at will, Bob rolls epochs, both replace their KEM keys.
SPECIFICATION Spec
CONSTANTS
    Peer = {"alice", "bob"}
    Bob = "bob"
    Thread = {"a1", "b1"}
    Owner <- OneThreadEach
    Calls <- PairCalls
    MaxSecret = 2
    MaxKeypair = 2
    MaxEpoch = 2
    MaxSeq = 1
    MaxGap = 2
    SettledStart = FALSE
    DedupKem = FALSE
INVARIANTS TypeOK NeverAheadInv Agreement
PROPERTIES FreshRoot RecoverLandsOnTarget NoneOnlyIfBothKeysFail AutoCommitLandsOnSender
