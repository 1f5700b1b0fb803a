\* Every kind of block size, an unsupported one included; memories of one and
\* more blocks, and sizes that are no multiple of the block.
SPECIFICATION FairSpec
CONSTANTS
    BlockSizes = {1, 3, 4, 8, 16, 24, 32}
    MemSizes = {9, 16, 20, 32, 36, 72}
    ByteCounts = {0, 5, 16, 39, 80, 100}
    MaxDraws = 5
    RandomValues = {0, 1, 2, 7}
    Arguments <- MCArguments
INVARIANTS InBounds EvenPasses ElementsProcessed ElementsCovered
PROPERTY Termination
