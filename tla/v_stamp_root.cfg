\* One thread pairs, the session moves on, and the thread makes the stamp.
SPECIFICATION PairingSpec
CONSTANTS
    Pairer = {"host"}
    PublicKey = {"", "pk"}
    Entropy <- Streams
    MinEntropy = 2
    MaxPairings = 1
INVARIANTS StampIsOfPairing
