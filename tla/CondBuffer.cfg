SPECIFICATION Spec
CONSTANTS
    Producer = p
    Consumers = {c1, c2, c3, c4}
    LOOPS_PER_THREAD = 2
    BUFFER_SIZE = 3
    TCS_NUM = 5
    NoOwner = NoOwner
SYMMETRY Symmetry
INVARIANTS WithinCapacity RingIntact NoLostWakeup NoDeadlock DrainedAtJoin
PROPERTY ChannelSpec
