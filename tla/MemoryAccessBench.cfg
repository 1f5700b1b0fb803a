\* Three sizes, both builds of the App, allocations of the App that may fail,
\* and a heap that just holds the largest memory or, too small for it, any two
\* of the others only one after the other.  A call makes at most three
\* random accesses.
SPECIFICATION FairSpec
CONSTANTS
    MEM_SIZES <- MCMemSizes
    BYTES_NEED_ACCESS = 50
    BlockSizes = {3, 16, 24}
    RandomValues = {0, 1, 2, 5}
    HeapSizes = {60, 72}
    HostAllocations = {TRUE, FALSE}
    Builds = {TRUE, FALSE}
INVARIANTS HostMemoryAlive SameWork TrustedMemoryAlive EnclaveSurvives
PROPERTY BenchmarkEnds
