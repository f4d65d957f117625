SPECIFICATION Spec
CONSTANTS
    c1 = c1
    c2 = c2
    Contents <- MCContents
    MaxTime = 3
    MinSmallBlocks = 1
    MaxSmallBlocks = 2
    Faulty = FALSE
    StrictClock = FALSE
SYMMETRY Symmetry
CONSTRAINT Bounded
INVARIANT FlushedBlocksResolve
