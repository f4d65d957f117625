SPECIFICATION FairSpec
CONSTANTS
    p1 = p1
    p2 = p2
    x1 = x1
    x2 = x2
    NoFile = NoFile
    Procs <- MCProcs
    IndexIDs <- MCIndexIDs
    MaxTmpFiles = 2
    CleanupTime = 0
    MaxTime = 1
    Faulty <- AllCalls
INVARIANT TypeOK
INVARIANT InstalledIndexIsComplete
PROPERTY SuccessMeansInstalled
PROPERTY RemovalJustified
PROPERTY CallsReturn
