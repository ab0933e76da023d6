\* A vault of two blocks, the ID stamp and a canary once they are reserved; up
\* to three writes fail or are cut off by a crash.
SPECIFICATION Spec
CONSTANTS
    DataBlocks = 2
    Stamp = 0
    LastCanary = 1
    MaxFaults = 3
    Careful = FALSE
INVARIANTS VaultInv HeldIsDurable FreeCount ErasedForGood
PROPERTIES OneHolderPerBlock
