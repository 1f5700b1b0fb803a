\* Two calls; both groups have more threads than there are TCSs.  Fairness; no
\* symmetry.
SPECIFICATION FairSpec
CONSTANTS
    Adders = {a1, a2, a3}
    Producer = p
    Consumers = {c1, c2}
    LOOPS_PER_THREAD = 2
    BUFFER_SIZE = 1
    TCS_NUM = 2
    NoOwner = NoOwner
    ROUNDS = 2
PROPERTY CallsReturn
