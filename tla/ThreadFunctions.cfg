\* Three calls on one enclave.  A call moves four items through a ring of
\* three slots, so each call starts at another slot.
SPECIFICATION Spec
CONSTANTS
    Adders = {a1, a2}
    Producer = p
    Consumers = {c1, c2}
    LOOPS_PER_THREAD = 2
    BUFFER_SIZE = 3
    TCS_NUM = 3
    NoOwner = NoOwner
    ROUNDS = 3
SYMMETRY Symmetry
INVARIANTS CleanBetweenCalls StaleCopy BufferIntact
