\* One call may fail.
SPECIFICATION Spec
CONSTANTS
    Nums <- MCNums
    PageNums <- MCPageNums
    FaultSets <- MCOneFails
    PAGE_SIZE = 4
    INT_MAX = 127
INVARIANT EveryLineIsAnAverage
