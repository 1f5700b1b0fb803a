-------------------------- MODULE MemoryAccessBench --------------------------
(***************************************************************************)
(* memory_access_benchmark of the App and the ECALLs it makes.  For each   *)
(* memory size, the enclave works on a buffer of the App ("u") and then on *)
(* one of its own ("t"), each first in sequence and then at random, and    *)
(* the App reports the times of the one divided by those of the other.     *)
(*                                                                         *)
(* The memories of its own come from the enclave's heap, of which heap     *)
(* counts the bytes that are free; only their amount decides whether       *)
(* memalign succeeds.  The App ignores the status of every ECALL.  Inside  *)
(* the enclave a write through NULL, which is how a failed memalign shows, *)
(* is a fault that the enclave does not survive: all later ECALLs fail at  *)
(* once.                                                                   *)
(***************************************************************************)
EXTENDS Integers, Sequences

CONSTANTS
    MEM_SIZES,              \* mem_mb_sizes in bytes
    BYTES_NEED_ACCESS,
    BlockSizes,             \* what the command line may ask for
    RandomValues,
    HeapSizes,              \* bytes the enclave's heap may have for its memories
    HostAllocations,        \* whether memalign of the App may succeed, may fail
    Builds                  \* whether NDEBUG is defined: no assertions in the App

\* There are sizes, and they are tried in increasing order.
ASSUME BenchAssumption ==
    /\ MEM_SIZES \in Seq(Nat \ {0}) \ {<<>>} /\ BYTES_NEED_ACCESS \in Nat
    /\ \A m, n \in DOMAIN MEM_SIZES : m < n => MEM_SIZES[m] < MEM_SIZES[n]
    /\ BlockSizes \in SUBSET (1..MEM_SIZES[1])
    /\ HostAllocations \in SUBSET BOOLEAN /\ Builds \in SUBSET BOOLEAN
    /\ HeapSizes \subseteq Nat

VARIABLES
    NDEBUG, heap_size,      \* the build of the App that runs, the configured heap
    block_size, idx,        \* argument and loop counter of the benchmark
    at,                     \* its next statement
    allocated,              \* idx of the App's live buffer, 0 for none
    global_u_mem,           \* idx of the buffer it points to, 0 for NULL
    global_u_mem_size,
    heap,                   \* bytes of the enclave's heap that are free
    global_t_mem,           \* idx of the block it points to, 0 for NULL
    global_t_mem_size,
    crashed,                \* the enclave is lost
    mem, call, pc, need, i, seed, rnd           \* the running ECALL

accessVars  == <<mem, call, pc, need, i, seed, rnd>>
given       == <<NDEBUG, heap_size, block_size>>
uVars       == <<global_u_mem, global_u_mem_size>>
tVars       == <<heap, global_t_mem, global_t_mem_size>>
vars == <<given, idx, at, allocated, uVars, tVars, crashed, accessVars>>

\* An access ECALL for the memory x.
AccessCall(x, order) ==
    [target |-> x, order |-> order, bytes |-> BYTES_NEED_ACCESS,
     mem_size |-> IF x = "u" THEN global_u_mem_size ELSE global_t_mem_size,
     block_size |-> block_size]

Access == INSTANCE MemoryAccess WITH
    Arguments <- {[target |-> x, order |-> o, bytes |-> BYTES_NEED_ACCESS,
                   mem_size |-> MEM_SIZES[n], block_size |-> b] :
                     x \in {"u", "t"}, o \in {"seq", "rand"},
                     n \in DOMAIN MEM_SIZES, b \in BlockSizes}

\* Mutation: the enclave's last memory is freed when the next one is there.
BodyFreeLast ==
    <<"alloc", "prepare_u", "seq_u", "rand_u", "free",
      "memalign_t", "free_t", "warm_t", "seq_t", "rand_t", "report">>

\* The statements of the loop body, in their order, with those of
\* ecall_prepare_t_memory_access_benchmark.
Body == <<"alloc", "prepare_u", "seq_u", "rand_u", "free",
          "free_t", "memalign_t", "warm_t", "seq_t", "rand_t", "report">>

\* The access ECALLs among them.
Ecall == [seq_u  |-> <<"u", "seq">>, rand_u |-> <<"u", "rand">>,
          seq_t  |-> <<"t", "seq">>, rand_t |-> <<"t", "rand">>]

Follow == \E n \in 1..Len(Body)-1 : at = Body[n] /\ at' = Body[n + 1]

Warm(size) == [b \in 0..size-1 |-> 0]

Init ==
    /\ NDEBUG \in Builds /\ heap_size \in HeapSizes /\ block_size \in BlockSizes
    /\ idx = 1 /\ at = "alloc" /\ allocated = 0
    /\ global_u_mem = 0 /\ global_u_mem_size = 0
    /\ heap = heap_size /\ global_t_mem = 0 /\ global_t_mem_size = 0
    /\ crashed = FALSE
    /\ mem = [x \in {"u", "t"} |-> Warm(0)]
    /\ call = AccessCall("u", "seq")
    /\ pc = "idle" /\ need = 0 /\ i = 0 /\ seed = 0 /\ rnd = <<>>
------------------------------------------------------------------------------
\* void* mem = memalign(4096, mem_size); assert(mem != NULL);
HostAlloc ==
    /\ at = "alloc"
    /\ \/ /\ TRUE \in HostAllocations
          /\ allocated' = idx /\ Follow
       \/ /\ FALSE \in HostAllocations
          /\ allocated' = 0
          /\ IF NDEBUG THEN Follow ELSE at' = "aborted"
    /\ UNCHANGED <<given, idx, uVars, tVars, crashed, accessVars>>

\* ecall_prepare_u_memory_access_benchmark.
PrepareU ==
    /\ at = "prepare_u" /\ Follow
    /\ IF crashed
       THEN UNCHANGED <<uVars, crashed, mem>>
       ELSE /\ global_u_mem' = allocated
            /\ global_u_mem_size' = MEM_SIZES[idx]
            /\ mem' = [mem EXCEPT !["u"] = Warm(MEM_SIZES[idx])]
            /\ crashed' = (allocated = 0)
    /\ UNCHANGED <<given, idx, allocated, tVars, call, pc, need, i, seed, rnd>>

\* Mutation: the buffer is freed as soon as the sequential times are known.
HostFreeEarly ==
    /\ at \in {"rand_u", "free"} /\ pc = "idle"
    /\ allocated' = 0
    /\ IF at = "free" THEN Follow ELSE at' = at
    /\ UNCHANGED <<given, idx, uVars, tVars, crashed, accessVars>>

\* free(mem): global_u_mem goes on pointing there.
HostFree ==
    /\ at = "free" /\ Follow
    /\ allocated' = 0
    /\ UNCHANGED <<given, idx, uVars, tVars, crashed, accessVars>>

\* Mutation: the test for NULL is the wrong way round.
FreeTNever ==
    /\ at = "free_t"
    /\ IF crashed THEN at' = "seq_t" ELSE Follow
    /\ UNCHANGED <<given, idx, allocated, uVars, tVars, crashed, accessVars>>

\* ecall_prepare_t_memory_access_benchmark, which a lost enclave does not run:
\* if (global_t_mem != NULL) free(global_t_mem);
FreeT ==
    /\ at = "free_t"
    /\ IF crashed THEN at' = "seq_t" ELSE Follow
    /\ heap' = IF crashed \/ global_t_mem = 0 THEN heap
               ELSE heap + MEM_SIZES[global_t_mem]
    /\ UNCHANGED <<given, idx, allocated, uVars, global_t_mem,
                   global_t_mem_size, crashed, accessVars>>

\* global_t_mem = memalign(4096, mem_size); global_t_mem_size = mem_size;
MemalignT ==
    /\ at = "memalign_t" /\ Follow
    /\ \/ /\ MEM_SIZES[idx] <= heap
          /\ heap' = heap - MEM_SIZES[idx] /\ global_t_mem' = idx
       \/ /\ MEM_SIZES[idx] > heap
          /\ global_t_mem' = 0 /\ UNCHANGED heap
    /\ global_t_mem_size' = MEM_SIZES[idx]
    /\ mem' = [mem EXCEPT !["t"] = Warm(MEM_SIZES[idx])]
    /\ UNCHANGED <<given, idx, allocated, uVars, crashed,
                   call, pc, need, i, seed, rnd>>

\* The warm-up writes to every byte of global_t_mem, NULL or not.
WarmT ==
    /\ at = "warm_t" /\ Follow
    /\ crashed' = (global_t_mem = 0)
    /\ UNCHANGED <<given, idx, allocated, uVars, tVars, accessVars>>

\* One of the four access ECALLs: the enclave is entered, works and returns;
\* a lost enclave is not entered.
EnterAccess ==
    /\ at \in DOMAIN Ecall /\ ~crashed
    /\ pc = "idle"
    /\ Access!Begin(AccessCall(Ecall[at][1], Ecall[at][2]))
    /\ UNCHANGED <<given, idx, at, allocated, uVars, tVars, crashed>>

AccessRuns ==
    /\ Access!AccessStep
    /\ UNCHANGED <<given, idx, at, allocated, uVars, tVars, crashed>>

LeaveAccess ==
    /\ at \in DOMAIN Ecall /\ Follow
    /\ crashed \/ pc = "returned"
    /\ pc' = "idle"
    /\ UNCHANGED <<given, idx, allocated, uVars, tVars, crashed,
                   mem, call, need, i, seed, rnd>>

\* Mutation: the loop counter is not advanced.
ReportSameSize ==
    /\ at = "report"
    /\ IF idx < Len(MEM_SIZES) THEN at' = "alloc" ELSE at' = "end"
    /\ UNCHANGED <<given, idx, allocated, uVars, tVars, crashed, accessVars>>

Report ==
    /\ at = "report"
    /\ IF idx < Len(MEM_SIZES)
       THEN idx' = idx + 1 /\ at' = "alloc"
       ELSE UNCHANGED idx /\ at' = "end"
    /\ UNCHANGED <<given, allocated, uVars, tVars, crashed, accessVars>>

Running ==
    \/ HostAlloc \/ PrepareU \/ EnterAccess \/ AccessRuns \/ LeaveAccess
    \/ HostFree \/ FreeT \/ MemalignT \/ WarmT \/ Report

Finished == at \in {"end", "aborted"} /\ UNCHANGED vars

Next == Running \/ Finished

Spec == Init /\ [][Next]_vars

\* One thread runs the benchmark and is not stopped.
FairSpec == Spec /\ WF_vars(Running)
------------------------------------------------------------------------------
\* Type invariant of the benchmark and of the enclave's globals.
TypeOK ==
    /\ heap_size \in HeapSizes /\ block_size \in BlockSizes /\ idx \in DOMAIN MEM_SIZES
    /\ at \in {Body[n] : n \in DOMAIN Body} \cup {"end", "aborted"}
    /\ allocated \in 0..Len(MEM_SIZES) /\ global_u_mem \in 0..Len(MEM_SIZES)
    /\ heap \in 0..heap_size /\ global_t_mem \in 0..Len(MEM_SIZES)
    /\ DOMAIN mem["u"] = 0..global_u_mem_size-1
    /\ DOMAIN mem["t"] = 0..global_t_mem_size-1
    /\ pc \in {"idle", "while", "access", "returned"} /\ crashed \in BOOLEAN

\* The pointer that the App passes as a long is used only while the buffer it
\* points to is allocated: never after free(mem), and never for the buffer of
\* an earlier size.
HostMemoryAlive ==
    pc \in {"while", "access"} /\ call.target = "u" =>
        allocated = idx /\ global_u_mem = allocated

\* The two times that are divided by one another are times of the same work:
\* the enclave accessed the same bytes, equally often, of both memories.
SameWork == at = "report" /\ ~crashed => mem["t"] = mem["u"]

\* The memory that the ECALLs on "t" access is that of the current size, it is
\* allocated, and it is all that the heap has lost: no memory of an earlier size
\* is left allocated, and none was freed twice.
TrustedMemoryAlive ==
    pc \in {"while", "access"} /\ call.target = "t" =>
        global_t_mem = idx /\ heap = heap_size - MEM_SIZES[idx]

\* A heap that holds the largest memory is enough for all of them, one after
\* the other: the enclave is lost only to a failed memalign of the App that went
\* unnoticed because NDEBUG is defined, and then before the App's buffer was
\* touched.
EnclaveSurvives ==
    crashed /\ heap_size >= MEM_SIZES[Len(MEM_SIZES)] =>
        NDEBUG /\ global_u_mem = 0

\* The benchmark ends, whatever fails.
BenchmarkEnds == <>(at \in {"end", "aborted"})
==============================================================================
