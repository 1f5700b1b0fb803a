--------------------------- MODULE MCMemoryAccess ----------------------------
(* Model checking of MemoryAccess: the calls that are tried.  MaxDraws      *)
(* bounds the random accesses of one call, whose outcomes multiply.         *)
EXTENDS MemoryAccess

CONSTANTS BlockSizes, MemSizes, ByteCounts, MaxDraws

MCArguments ==
    {c \in [target : {"t"}, order : {"seq", "rand"},
            mem_size : MemSizes, bytes : ByteCounts, block_size : BlockSizes] :
        /\ c.block_size <= c.mem_size
        /\ c.order = "rand" => c.bytes <= MaxDraws * c.block_size}
==============================================================================
