\* Four adders as in the source, a TCS for each, three additions each.
SPECIFICATION Spec
CONSTANTS
    Adders = {a1, a2, a3, a4}
    LOOPS_PER_THREAD = 3
    TCS_NUM = 4
    NoOwner = NoOwner
SYMMETRY Symmetry
INVARIANTS NoLostUpdate SoleReport AssertHolds
PROPERTY AtomicSpec
