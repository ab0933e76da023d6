\* A vault of two blocks, used, purged and created again; one write fails or is
\* cut off by a crash, and vault calls go on beside the purge.
SPECIFICATION WipeSpec
CONSTANTS
    DataBlocks = 2
    Stamp = 0
    LastCanary = 1
    MaxFaults = 1
    Careful = FALSE
VIEW WipeView
INVARIANTS WipeInv PurgedForGood PurgeLeavesStub
