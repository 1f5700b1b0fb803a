\* All samples of the SDK, any two after one another on one enclave, which may
\* be lost at any step; every allocation may fail.
SPECIFICATION Spec
CONSTANTS
    Function <- MCFunction
    Code <- MCCode
    Samples <- MCSamples
    MAX_SAMPLES = 2
INVARIANTS TestsHold FailuresNoticed HeapBalanced
