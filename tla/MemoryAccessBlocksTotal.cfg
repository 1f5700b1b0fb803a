\* Blocks of several elements.
SPECIFICATION Spec
CONSTANTS
    BlockSizes = {8, 16, 24, 32}
    MemSizes = {32, 64, 72}
    ByteCounts = {32, 64, 80}
    MaxDraws = 5
    RandomValues = {0, 1, 5}
    Arguments <- MCArguments
INVARIANT AllProcessed
