CONSTANTS
    BlockSize = 2
    UnitBlocks = 1
    ReadSizes = {1, 3, 16}
    Sizes <- FileSizes
    KeyLengths = {16, 20, 32}
    MaxCrashes = 1
SPECIFICATION FairSpec
INVARIANT MacOfPrefix
PROPERTIES ReplacedOnlyIfVerified LoopEnds
