SPECIFICATION Spec
CONSTANTS
    pA = pA
    pB = pB
    pLong = pLong
    pNone = pNone
    NoIndex = NoIndex
    BlockIDs <- MCBlockIDs
    KeyLen <- MCKeyLen
    PackFiles <- MCPackFiles
    PackLen <- MCPackLen
    Infos <- MCInfos
    TsBits = 2
    ByteBits = 2
    OffBits = 2
    WordBits = 6
    BufSize = 40
    WriterLimits <- MCWriterLimits
INVARIANT RefusedBuildWritesNothing
