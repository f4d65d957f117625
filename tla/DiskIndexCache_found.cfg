SPECIFICATION Spec
CONSTANTS
    p1 = p1
    p2 = p2
    x1 = x1
    x2 = x2
    NoFile = NoFile
    Procs <- MCProcs
    IndexIDs <- MCIndexIDs
    MaxTmpFiles = 2
    CleanupTime = 1
    MaxTime = 2
    Faulty <- NoCalls
SYMMETRY Symmetry
PROPERTY FoundIndexOpens
