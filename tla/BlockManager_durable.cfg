SPECIFICATION Spec
CONSTANTS
    c1 = c1
    c2 = c2
    Contents <- MCContents
    MaxTime = 3
    MinSmallBlocks = 1
    MaxSmallBlocks = 2
    Faulty = TRUE
    StrictClock = TRUE
SYMMETRY Symmetry
CONSTRAINT Bounded
INVARIANT TypeOK
INVARIANT NoDanglingEntry
INVARIANT FlushedBlocksResolve
INVARIANT SupersededBlobsAreRedundant
