\* A block of two elements; the memory is asked for eight times over.
SPECIFICATION Spec
CONSTANTS
    BlockSizes = {8, 16}
    MemSizes = {32, 64}
    ByteCounts = {512}
    MaxDraws = 5
    RandomValues = {0}
    Arguments <- MCArguments
INVARIANT CoversMemory
