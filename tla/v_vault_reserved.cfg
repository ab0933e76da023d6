\* The error of a reserve_block is ignored, and the process restarts.
SPECIFICATION Spec
CONSTANTS
    DataBlocks = 3
    Stamp = 1
    LastCanary = 2
    MaxFaults = 3
    Careful = TRUE
INVARIANTS ReservedNeverHandedOut
