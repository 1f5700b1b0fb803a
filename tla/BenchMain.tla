------------------------------ MODULE BenchMain ------------------------------
(***************************************************************************)
(* The main program: its arguments, the life of the enclave, and the calls *)
(* that the four benchmarks make on it, with switching_benchmark in full.  *)
(* What the ECALLs of the memory benchmarks do is the subject of modules   *)
(* MemoryAccess, MemoryAccessBench and MemoryManagement; here they work,   *)
(* do nothing, do not return or kill the enclave.                          *)
(*                                                                         *)
(* No status of an ECALL or OCALL is looked at.  The enclave can be lost   *)
(* at any time; memory, for a buffer of the App or the enclave or for the  *)
(* copy that a call makes, can run out.                                    *)
(***************************************************************************)
EXTENDS Integers, Sequences, FiniteSets

CONSTANTS
    Commands,               \* command lines: argc, type, block_size, num
    Builds,                 \* whether NDEBUG is defined for the App
    LOOPS,                  \* of switching_benchmark
    MEM_SIZES,              \* of memory_access_benchmark
    CREATE_LOOPS,           \* of create_enclave
    MAX_FAULTS              \* bound: what goes wrong in a run

Types == {"switching", "memory_management", "memory_access", "create_enclave", "unknown"}

ASSUME MainAssumption ==
    /\ Commands \subseteq [argc : Nat, type : Types, block_size : Int, num : Int]
    /\ Builds \subseteq BOOLEAN
    /\ LOOPS \in Nat \ {0} /\ CREATE_LOOPS \in Nat \ {0} /\ MAX_FAULTS \in Nat
    /\ MEM_SIZES \in Seq(Nat) /\ \A k \in DOMAIN MEM_SIZES : MEM_SIZES[k] >= 64

VARIABLES
    cmd, NDEBUG,            \* the command line and the build
    pc,                     \* what main does next
    alive, global_eid,      \* enclaves that exist, the handle (0 for none)
    lost,                   \* the last enclave is of no more use
    ptr,                    \* the App's buffer
    phase, n,               \* the phase of the benchmark, the calls it has made
    good, line,             \* crossings that did what they should, the last line
    inside, i,              \* the buffer and the counter of an ecall_ocall_*
    leaked,                 \* blocks its ECALLs have left on the enclave's heap
    faults                  \* what went wrong, by the phase where it did

given == <<cmd, NDEBUG>>
life  == <<alive, global_eid>>
bench == <<phase, n, good, line>>
inner == <<inside, i, leaked>>
vars  == <<given, pc, life, lost, ptr, bench, inner, faults>>

NoLine == [name |-> "none", good |-> 0, due |-> 0, faults |-> {}]

Init ==
    /\ cmd \in Commands /\ NDEBUG \in Builds
    /\ pc = "main" /\ ptr = "none"
    /\ alive = {} /\ global_eid = 0 /\ lost = FALSE
    /\ phase = 1 /\ n = 0 /\ good = 0 /\ line = NoLine
    /\ inside = "none" /\ i = 0 /\ leaked = 0
    /\ faults = {}

\* Something goes wrong.
Fault(what) == Cardinality(faults) < MAX_FAULTS /\ faults' = faults \cup {what}
------------------------------------------------------------------------------
\* A phase makes its calls times times, one after the other; at its end the
\* line of that name is printed, if it has one, about due crossings.
Phase(name, calls, times, due) ==
    [name |-> name, calls |-> calls, times |-> times, due |-> due]

SwitchingPhases == <<
    Phase("none", <<"ecall_void", "ecall_in", "ecall_out", "ecall_inout">>, LOOPS \div 10, 0),
    Phase("ecall void", <<"ecall_void">>, LOOPS, LOOPS),
    Phase("ecall in", <<"ecall_in">>, LOOPS, LOOPS),
    Phase("ecall out", <<"ecall_out">>, LOOPS, LOOPS),
    Phase("ecall inout", <<"ecall_inout">>, LOOPS, LOOPS),
    Phase("ocall void", <<"ecall_ocall_void">>, 1, LOOPS),
    Phase("ocall in", <<"ecall_ocall_in">>, 1, LOOPS),
    Phase("ocall out", <<"ecall_ocall_out">>, 1, LOOPS),
    Phase("ocall inout", <<"ecall_ocall_inout">>, 1, LOOPS)>>

AccessCalls == <<"prepare_u", "seq_u", "rand_u", "prepare_t", "seq_t", "rand_t">>

Phases ==
    CASE cmd.type = "switching" -> SwitchingPhases
      [] cmd.type = "memory_access" ->
             [k \in DOMAIN MEM_SIZES |-> Phase("access", AccessCalls, 1, 4)]
      [] cmd.type = "memory_management" ->
             <<Phase("none", <<"ecall_memory_management_benchmark">>, 1, 0)>>
      [] OTHER -> <<>>

Current == Phases[phase]
Calls   == Current.times * Len(Current.calls)
Callee  == Current.calls[(n % Len(Current.calls)) + 1]
InPhase == pc = "bench" /\ phase \in DOMAIN Phases /\ inside = "none"

OcallLoops == {"ecall_ocall_void", "ecall_ocall_in", "ecall_ocall_out", "ecall_ocall_inout"}

\* What an access ECALL can do with the block size b.  A block larger than the
\* memory leaves a loop without end, which a compiler may take to end, or a
\* division by zero.
AccessOutcomes(f, b, mem_size) ==
    IF b \in {1, 4} THEN {"works"}
    ELSE IF b = 0 THEN {"crashes"}
    ELSE IF b % 8 # 0 \/ b < 0 THEN {"returns"}
    ELSE IF b <= mem_size THEN {"works"}
    ELSE IF f \in {"seq_u", "seq_t"} THEN {"hangs", "returns"} ELSE {"crashes"}

\* What an ECALL other than the OCALL loops can do: "works" is what a line is
\* about; "fails" if there is no memory for the copy of the buffer.  A NULL
\* pointer is passed without copying.
Outcomes(f) ==
    CASE lost                        -> {"returns"}
      [] ~lost /\ f = "ecall_void" -> {"works"}
      [] ~lost /\ f \in {"ecall_in", "ecall_out", "ecall_inout"} ->
             IF ptr = "buffer" THEN {"works", "fails"} ELSE {"returns"}
      [] ~lost /\ f \in {"seq_u", "rand_u", "seq_t", "rand_t"} ->
             AccessOutcomes(f, cmd.block_size, MEM_SIZES[phase])
      [] OTHER -> {"returns"}
------------------------------------------------------------------------------
\* argc and argv of main.
ParseArguments ==
    /\ pc = "main"
    /\ pc' = CASE cmd.argc < 3 -> "return -1"
               [] cmd.argc >= 3 /\ cmd.type = "unknown" -> "return 0"
               [] cmd.argc \in 3..4 /\ cmd.type = "memory_management" -> "return -1"
               [] cmd.argc = 3 /\ cmd.type = "memory_access" -> "return -1"
               [] OTHER -> "create"
    /\ UNCHANGED <<given, life, lost, ptr, bench, inner, faults>>

InitializeEnclave ==
    /\ pc = "create"
    /\ pc' = IF cmd.type = "switching" THEN "malloc" ELSE "bench"
    /\ global_eid' = global_eid + 1 /\ alive' = alive \cup {global_eid'}
    /\ lost' = FALSE
    /\ UNCHANGED <<given, ptr, bench, inner, faults>>

\* Mutation: create_enclave goes on all the same.
InitializeFailsIgnored ==
    /\ pc = "create" /\ Fault("create")
    /\ pc' = IF cmd.type = "create_enclave" THEN "bench" ELSE "return -1"
    /\ UNCHANGED <<given, life, lost, ptr, bench, inner>>

\* sgx_create_enclave fails, the handle keeps its value, main returns -1.
InitializeFails ==
    /\ pc = "create" /\ Fault("create")
    /\ pc' = "return -1"
    /\ UNCHANGED <<given, life, lost, ptr, bench, inner>>

\* ptr = malloc(len * sizeof(long)) of switching_benchmark.
MallocBuffer ==
    /\ pc = "malloc" /\ pc' = "bench"
    /\ \/ ptr' = "buffer" /\ UNCHANGED faults
       \/ ptr' = "NULL" /\ Fault("malloc")
    /\ UNCHANGED <<given, life, lost, bench, inner>>

\* The App's half of the management benchmark divides by num before the ECALL.
DivideByNum ==
    /\ InPhase /\ cmd.type = "memory_management" /\ cmd.num = 0
    /\ pc' = "trapped"
    /\ UNCHANGED <<given, life, lost, ptr, bench, inner, faults>>

\* No memory for pp, of the App or of the enclave: the first pp[i] = ... writes
\* through NULL.  The App is killed, or the enclave.
PpMissing ==
    /\ InPhase /\ n < Calls /\ cmd.type = "memory_management" /\ cmd.num > 0
    /\ Fault("pp")
    /\ \/ pc' = "trapped" /\ UNCHANGED <<lost, n>>
       \/ ~lost /\ lost' = TRUE /\ n' = n + 1 /\ UNCHANGED pc
    /\ UNCHANGED <<given, life, ptr, phase, good, line, inner>>

\* mem = memalign(4096, mem_size) is NULL: assert(mem != NULL) ends the process;
\* with NDEBUG the enclave is given NULL and dies of it.
MemalignFails ==
    /\ InPhase /\ n < Calls /\ Callee = "prepare_u"
    /\ Fault("memalign")
    /\ IF NDEBUG THEN lost' = TRUE /\ n' = n + 1 /\ UNCHANGED pc
       ELSE pc' = "aborted" /\ UNCHANGED <<lost, n>>
    /\ UNCHANGED <<given, life, ptr, phase, good, line, inner>>

Ecall ==
    /\ InPhase /\ n < Calls /\ (lost \/ Callee \notin OcallLoops)
    /\ cmd.type = "memory_management" => cmd.num # 0
    /\ n' = n + 1
    /\ \E outcome \in Outcomes(Callee) :
           /\ good' = IF outcome = "works" THEN good + 1 ELSE good
           /\ pc' = IF outcome = "hangs" THEN "hung" ELSE pc
           /\ lost' = (lost \/ outcome = "crashes")
           /\ IF outcome = "fails" THEN Fault(Current.name) ELSE UNCHANGED faults
    /\ UNCHANGED <<given, life, ptr, phase, line, inner>>
------------------------------------------------------------------------------
\* ecall_ocall_*: all but ecall_ocall_void allocate a buffer and never free it;
\* without one assert(ptr != NULL), which no build of the enclave leaves out, ends
\* the enclave.
EnterOcallLoop ==
    /\ InPhase /\ n < Calls /\ ~lost /\ Callee \in OcallLoops
    /\ i' = 0
    /\ \/ /\ Callee = "ecall_ocall_void"
          /\ inside' = "void" /\ UNCHANGED <<leaked, lost, n, faults>>
       \/ /\ Callee # "ecall_ocall_void"
          /\ inside' = "buffer" /\ leaked' = leaked + 1 /\ UNCHANGED <<lost, n, faults>>
       \/ /\ Callee # "ecall_ocall_void"
          /\ lost' = TRUE /\ n' = n + 1 /\ Fault("enclave") /\ UNCHANGED <<inside, leaked>>
    /\ UNCHANGED <<given, pc, life, ptr, phase, good, line>>

\* ocall_void, ocall_in, ocall_out, ocall_inout; there may be no memory for the
\* arguments.
Ocall ==
    /\ inside # "none" /\ i < LOOPS
    /\ i' = i + 1
    /\ \/ good' = good + 1 /\ UNCHANGED faults
       \/ inside # "void" /\ Fault(Current.name) /\ UNCHANGED good
    /\ UNCHANGED <<given, pc, life, lost, ptr, phase, n, line, inside, leaked>>

\* Mutation: the loop stops one short.
LeaveOcallLoopEarly ==
    /\ inside # "none" /\ i = LOOPS - 1
    /\ inside' = "none" /\ i' = 0 /\ n' = n + 1
    /\ UNCHANGED <<given, pc, life, lost, ptr, phase, good, line, leaked, faults>>

LeaveOcallLoop ==
    /\ inside # "none" /\ i = LOOPS
    /\ inside' = "none" /\ i' = 0 /\ n' = n + 1
    /\ UNCHANGED <<given, pc, life, lost, ptr, phase, good, line, leaked, faults>>

\* "Power transition occurred."  An ECALL that is running fails.
LoseEnclave ==
    /\ pc = "bench" /\ ~lost /\ Fault("enclave")
    /\ lost' = TRUE
    /\ inside' = "none" /\ i' = 0 /\ n' = IF inside = "none" THEN n ELSE n + 1
    /\ UNCHANGED <<given, pc, life, ptr, phase, good, line, leaked>>
------------------------------------------------------------------------------
PrintLine(name, count, due) ==
    line' = IF name = "none" THEN line
            ELSE [name |-> name, good |-> count, due |-> due, faults |-> faults]

\* Mutation: the phase is not left.
PhaseRepeats ==
    /\ InPhase /\ n = Calls
    /\ PrintLine(Current.name, good, Current.due)
    /\ n' = 0 /\ good' = 0
    /\ UNCHANGED <<given, pc, life, lost, ptr, phase, inner, faults>>

PhaseEnds ==
    /\ InPhase /\ n = Calls
    /\ PrintLine(Current.name, good, Current.due)
    /\ phase' = phase + 1 /\ n' = 0 /\ good' = 0
    /\ UNCHANGED <<given, pc, life, lost, ptr, inner, faults>>

\* Mutation: with a lost enclave main returns at once.
BenchEndsEarly ==
    /\ pc = "bench" /\ phase > Len(Phases)
    /\ ptr' = IF ptr = "buffer" THEN "freed" ELSE ptr
    /\ pc' = IF lost THEN "return -1" ELSE "destroy"
    /\ UNCHANGED <<given, life, lost, bench, inner, faults>>

\* free(ptr), and the benchmark returns.
BenchEnds ==
    /\ pc = "bench" /\ phase > Len(Phases)
    /\ ptr' = IF ptr = "buffer" THEN "freed" ELSE ptr
    /\ pc' = "destroy"
    /\ UNCHANGED <<given, life, lost, bench, inner, faults>>

\* sgx_destroy_enclave(global_eid); create_enclave goes round its loop.
Destroy ==
    /\ pc = "destroy"
    /\ alive' = alive \ {global_eid} /\ leaked' = 0
    /\ CASE cmd.type # "create_enclave" -> pc' = "return 0" /\ UNCHANGED line
         [] cmd.type = "create_enclave" /\ global_eid < CREATE_LOOPS ->
                pc' = "create" /\ UNCHANGED line
         [] OTHER -> pc' = "return 0" /\ PrintLine("create_enclave", global_eid, CREATE_LOOPS)
    /\ UNCHANGED <<given, global_eid, lost, ptr, phase, n, good, inside, i, faults>>

Running ==
    \/ ParseArguments \/ InitializeEnclave \/ InitializeFails \/ MallocBuffer
    \/ DivideByNum \/ PpMissing \/ MemalignFails \/ Ecall
    \/ EnterOcallLoop \/ Ocall \/ LeaveOcallLoop \/ PhaseEnds \/ BenchEnds \/ Destroy

Returned == pc \in {"return 0", "return -1"}

Finished == (Returned \/ pc \in {"trapped", "aborted", "hung"}) /\ UNCHANGED vars

Next == Running \/ LoseEnclave \/ Finished

Spec == Init /\ [][Next]_vars

\* The main thread is not stopped.
FairSpec == Spec /\ WF_vars(Running)
------------------------------------------------------------------------------
\* Type invariant; a run leaks one block for each of the three OCALL loops with
\* a buffer, and no more.
TypeOK ==
    /\ pc \in {"main", "create", "malloc", "bench", "destroy",
              "return 0", "return -1", "trapped", "aborted", "hung"}
    /\ global_eid \in 0..CREATE_LOOPS /\ alive \subseteq 1..global_eid
    /\ lost \in BOOLEAN /\ ptr \in {"none", "buffer", "NULL", "freed"}
    /\ phase \in 1..Len(Phases) + 1 /\ n \in Nat /\ good \in Nat
    /\ inside \in {"none", "void", "buffer"} /\ i \in 0..LOOPS /\ leaked \in 0..3
    /\ Cardinality(faults) <= MAX_FAULTS

\* The handle that ECALLs and sgx_destroy_enclave get is that of an enclave that
\* was created and not yet destroyed, and there is no other.
HandleValid ==
    /\ pc \in {"malloc", "bench", "destroy"} => global_eid \in alive
    /\ Cardinality(alive) <= 1

\* main returns with every enclave destroyed and its own buffer freed, whatever
\* failed on the way.
NothingOutlivesMain == Returned => alive = {} /\ ptr # "buffer"

\* "specify block_size (1, 4, 8, 16, 32 or 64)".
AsAsked == cmd.type = "memory_access" => cmd.block_size \in {1, 4, 8, 16, 32, 64}

\* "switching time is": a printed time is that of as many crossings as it is
\* divided by, each with its data, unless the enclave was lost or given no memory
\* to read, the App had no buffer to pass, memory ran out in that very phase, or
\* the block size is none of those asked for.  No other failure in an earlier
\* phase spoils a line.
LinesMeanWhatTheySay ==
    \/ line.good = line.due
    \/ line.faults \cap {line.name, "enclave", "memalign"} # {}
    \/ "malloc" \in line.faults /\ line.name \in {"ecall in", "ecall out", "ecall inout"}
    \/ ~AsAsked

\* main returns, also after the enclave was lost, or the process is killed by a
\* trap or by an assertion, unless a block is larger than the memory.
Terminates ==
    (\A k \in DOMAIN MEM_SIZES : cmd.block_size <= MEM_SIZES[k]) =>
        <>(Returned \/ pc \in {"trapped", "aborted"})
==============================================================================
