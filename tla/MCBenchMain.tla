---------------------------- MODULE MCBenchMain ------------------------------
(* Model checking of BenchMain: all kinds of command lines.                 *)
EXTENDS BenchMain

MCCommands ==
    LET Command(argc, type, b, num) ==
            [argc |-> argc, type |-> type, block_size |-> b, num |-> num]
    IN  {Command(argc, t, 8, 2) : argc \in {2, 3, 4, 5}, t \in Types}
        \cup {Command(4, "memory_access", b, 2) : b \in {-8, 0, 1, 3, 4, 32, 64, 72}}
        \cup {Command(5, "memory_management", 8, num) : num \in {-1, 0}}

MCMemSizes == <<64, 128>>
==============================================================================
