SPECIFICATION Spec
CONSTANTS
    Clients = {c1, c2}
    BlobIDs <- MCBlobIDs
    ListPrefixes <- MCListPrefixes
    Data <- MCData
    Ranges <- MCRanges
    Faulty = TRUE
    ConnInfo = ConnInfo
    OptionLists <- MCOptionLists
    InlineLimit = 2
    NoRecord = NoRecord
SYMMETRY ClientSymmetry
INVARIANT TypeOK
PROPERTY WrapperImplementsStore
PROPERTY ListCountsCallbacks
