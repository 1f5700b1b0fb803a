------------------------ MODULE MCMemoryAccessBench --------------------------
(* Model checking of MemoryAccessBench: the sizes as a sequence.            *)
EXTENDS MemoryAccessBench

MCMemSizes == <<24, 48, 72>>
==============================================================================
