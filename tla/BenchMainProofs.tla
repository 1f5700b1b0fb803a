-------------------------- MODULE BenchMainProofs ----------------------------
(***************************************************************************)
(* Proofs about BenchMain for all command lines, both builds, any number   *)
(* of loops and of faults: types and the bound on what the enclave's heap  *)
(* loses, the life of the enclave, and what a printed line is about.       *)
(***************************************************************************)
EXTENDS BenchMain, FiniteSetTheorems, TLAPS

CopyingEcalls == {"ecall_in", "ecall_out", "ecall_inout"}
CopyingLines  == {"ecall in", "ecall out", "ecall inout"}

\* The phases, by what they do.
WarmUp ==
    /\ cmd.type = "switching" /\ phase = 1 /\ Current.name = "none"
    /\ Callee \in {"ecall_void"} \cup CopyingEcalls

EcallPhase ==
    /\ cmd.type = "switching" /\ phase \in 2..5
    /\ Current.due = LOOPS /\ Calls = LOOPS
    /\ Callee \in {"ecall_void"} \cup CopyingEcalls
    /\ Callee \in CopyingEcalls => Current.name \in CopyingLines

OcallPhase ==
    /\ cmd.type = "switching" /\ phase \in 6..9
    /\ Current.due = LOOPS /\ Calls = 1
    /\ Callee \in OcallLoops /\ (Callee = "ecall_ocall_void" <=> phase = 6)

AccessPhase ==
    /\ cmd.type = "memory_access" /\ phase \in DOMAIN MEM_SIZES
    /\ Current.name = "access" /\ Current.due = 4 /\ Calls = 6
    /\ Callee \in {"prepare_u", "seq_u", "rand_u", "prepare_t", "seq_t", "rand_t"}
    /\ n \in 0..5 => Callee = AccessCalls[n + 1]

ManagementPhase ==
    /\ cmd.type = "memory_management" /\ phase = 1
    /\ Current.name = "none" /\ Calls = 1
    /\ Callee = "ecall_memory_management_benchmark"
------------------------------------------------------------------------------
LEMMA SwitchingPhaseNames ==
    /\ DOMAIN SwitchingPhases = 1..9 /\ Len(SwitchingPhases) = 9
    /\ SwitchingPhases[1] = Phase("none", <<"ecall_void", "ecall_in", "ecall_out", "ecall_inout">>,
                                  LOOPS \div 10, 0)
    /\ SwitchingPhases[2] = Phase("ecall void", <<"ecall_void">>, LOOPS, LOOPS)
    /\ SwitchingPhases[3] = Phase("ecall in", <<"ecall_in">>, LOOPS, LOOPS)
    /\ SwitchingPhases[4] = Phase("ecall out", <<"ecall_out">>, LOOPS, LOOPS)
    /\ SwitchingPhases[5] = Phase("ecall inout", <<"ecall_inout">>, LOOPS, LOOPS)
    /\ SwitchingPhases[6] = Phase("ocall void", <<"ecall_ocall_void">>, 1, LOOPS)
    /\ SwitchingPhases[7] = Phase("ocall in", <<"ecall_ocall_in">>, 1, LOOPS)
    /\ SwitchingPhases[8] = Phase("ocall out", <<"ecall_ocall_out">>, 1, LOOPS)
    /\ SwitchingPhases[9] = Phase("ocall inout", <<"ecall_ocall_inout">>, 1, LOOPS)
  BY DEF SwitchingPhases

\* A phase with one call: that call is made times times.
LEMMA SingleCall ==
    ASSUME NEW name, NEW f, NEW times \in Nat, NEW due, Current = Phase(name, <<f>>, times, due),
           n \in Nat
    PROVE  Current.name = name /\ Current.due = due /\ Calls = times /\ Callee = f
<1>1. /\ Current.name = name /\ Current.due = due /\ Current.times = times
      /\ Current.calls = <<f>>
  BY DEF Phase
<1>. DEFINE c == Current.calls
<1>2. Len(c) = 1 /\ c[1] = f
  BY <1>1
<1>3. n % 1 = 0
  OBVIOUS
<1>4. Calls = times
  <2>1. times * 1 = times
    OBVIOUS
  <2>. QED  BY <2>1, <1>1, <1>2, Zenon DEF Calls
<1>5. Callee = f
  <2>1. n % Len(c) = 0
    BY <1>2, <1>3, Zenon
  <2>2. 0 + 1 = 1
    OBVIOUS
  <2>. QED  BY <2>1, <2>2, <1>2, Zenon DEF Callee
<1>. QED  BY <1>1, <1>4, <1>5

\* Every phase that can be current is of one of the five kinds.
LEMMA PhaseKinds ==
    ASSUME cmd.type \in Types, n \in Nat, phase \in DOMAIN Phases
    PROVE  WarmUp \/ EcallPhase \/ OcallPhase \/ AccessPhase \/ ManagementPhase
<1>0. LOOPS \in Nat
  BY MainAssumption
<1>1. CASE cmd.type = "switching"
  <2>1. Phases = SwitchingPhases
    BY <1>1 DEF Phases
  <2>2. phase \in 1..9 /\ Current = SwitchingPhases[phase]
    BY <2>1, SwitchingPhaseNames DEF Current
  <2>3. CASE phase = 1
    <3>. DEFINE four == <<"ecall_void", "ecall_in", "ecall_out", "ecall_inout">>
    <3>1. Current.name = "none" /\ Current.calls = four
      <4>1. Current = Phase("none", four, LOOPS \div 10, 0)
        BY <2>2, <2>3, SwitchingPhaseNames
      <4>. HIDE DEF four
      <4>. QED  BY <4>1 DEF Phase
    <3>2. Len(four) = 4 /\ \A k \in 1..4 : four[k] \in {"ecall_void"} \cup CopyingEcalls
      BY DEF CopyingEcalls
    <3>3. (n % 4) + 1 \in 1..4
      OBVIOUS
    <3>. HIDE DEF four
    <3>4. Callee = four[(n % 4) + 1]
      BY <3>1, <3>2, Zenon DEF Callee
    <3>. QED  BY <1>1, <2>3, <3>1, <3>2, <3>3, <3>4 DEF WarmUp
  <2>4. CASE phase = 2
    <3>1. Current = Phase("ecall void", <<"ecall_void">>, LOOPS, LOOPS)
      BY <2>2, <2>4, SwitchingPhaseNames
    <3>2. /\ Current.name = "ecall void" /\ Current.due = LOOPS
          /\ Calls = LOOPS /\ Callee = "ecall_void"
      BY <1>0, <3>1, SingleCall
    <3>3. phase \in 2..5
      BY <2>4
    <3>4. Callee \in {"ecall_void"} \cup CopyingEcalls
          /\ (Callee \in CopyingEcalls => Current.name \in CopyingLines)
      BY <3>2, Zenon DEF CopyingEcalls, CopyingLines
    <3>. QED  BY <1>1, <3>2, <3>3, <3>4, Zenon DEF EcallPhase
  <2>5. CASE phase = 3
    <3>1. Current = Phase("ecall in", <<"ecall_in">>, LOOPS, LOOPS)
      BY <2>2, <2>5, SwitchingPhaseNames
    <3>2. /\ Current.name = "ecall in" /\ Current.due = LOOPS
          /\ Calls = LOOPS /\ Callee = "ecall_in"
      BY <1>0, <3>1, SingleCall
    <3>3. phase \in 2..5
      BY <2>5
    <3>4. Callee \in {"ecall_void"} \cup CopyingEcalls
          /\ (Callee \in CopyingEcalls => Current.name \in CopyingLines)
      BY <3>2, Zenon DEF CopyingEcalls, CopyingLines
    <3>. QED  BY <1>1, <3>2, <3>3, <3>4, Zenon DEF EcallPhase
  <2>6. CASE phase = 4
    <3>1. Current = Phase("ecall out", <<"ecall_out">>, LOOPS, LOOPS)
      BY <2>2, <2>6, SwitchingPhaseNames
    <3>2. /\ Current.name = "ecall out" /\ Current.due = LOOPS
          /\ Calls = LOOPS /\ Callee = "ecall_out"
      BY <1>0, <3>1, SingleCall
    <3>3. phase \in 2..5
      BY <2>6
    <3>4. Callee \in {"ecall_void"} \cup CopyingEcalls
          /\ (Callee \in CopyingEcalls => Current.name \in CopyingLines)
      BY <3>2, Zenon DEF CopyingEcalls, CopyingLines
    <3>. QED  BY <1>1, <3>2, <3>3, <3>4, Zenon DEF EcallPhase
  <2>7. CASE phase = 5
    <3>1. Current = Phase("ecall inout", <<"ecall_inout">>, LOOPS, LOOPS)
      BY <2>2, <2>7, SwitchingPhaseNames
    <3>2. /\ Current.name = "ecall inout" /\ Current.due = LOOPS
          /\ Calls = LOOPS /\ Callee = "ecall_inout"
      BY <1>0, <3>1, SingleCall
    <3>3. phase \in 2..5
      BY <2>7
    <3>4. Callee \in {"ecall_void"} \cup CopyingEcalls
          /\ (Callee \in CopyingEcalls => Current.name \in CopyingLines)
      BY <3>2, Zenon DEF CopyingEcalls, CopyingLines
    <3>. QED  BY <1>1, <3>2, <3>3, <3>4, Zenon DEF EcallPhase
  <2>8. CASE phase = 6
    <3>1. Current = Phase("ocall void", <<"ecall_ocall_void">>, 1, LOOPS)
      BY <2>2, <2>8, SwitchingPhaseNames
    <3>2. /\ Current.name = "ocall void" /\ Current.due = LOOPS
          /\ Calls = 1 /\ Callee = "ecall_ocall_void"
      BY <1>0, <3>1, SingleCall
    <3>3. phase \in 6..9
      BY <2>8
    <3>4. Callee \in OcallLoops /\ (Callee = "ecall_ocall_void" <=> phase = 6)
      BY <2>8, <3>2, Zenon DEF OcallLoops
    <3>. QED  BY <1>1, <3>2, <3>3, <3>4, Zenon DEF OcallPhase
  <2>9. CASE phase = 7
    <3>1. Current = Phase("ocall in", <<"ecall_ocall_in">>, 1, LOOPS)
      BY <2>2, <2>9, SwitchingPhaseNames
    <3>2. /\ Current.name = "ocall in" /\ Current.due = LOOPS
          /\ Calls = 1 /\ Callee = "ecall_ocall_in"
      BY <1>0, <3>1, SingleCall
    <3>3. phase \in 6..9 /\ phase # 6
      BY <2>9
    <3>4. Callee \in OcallLoops /\ (Callee = "ecall_ocall_void" <=> phase = 6)
      BY <3>3, <3>2, Zenon DEF OcallLoops
    <3>. QED  BY <1>1, <3>2, <3>3, <3>4, Zenon DEF OcallPhase
  <2>10. CASE phase = 8
    <3>1. Current = Phase("ocall out", <<"ecall_ocall_out">>, 1, LOOPS)
      BY <2>2, <2>10, SwitchingPhaseNames
    <3>2. /\ Current.name = "ocall out" /\ Current.due = LOOPS
          /\ Calls = 1 /\ Callee = "ecall_ocall_out"
      BY <1>0, <3>1, SingleCall
    <3>3. phase \in 6..9 /\ phase # 6
      BY <2>10
    <3>4. Callee \in OcallLoops /\ (Callee = "ecall_ocall_void" <=> phase = 6)
      BY <3>3, <3>2, Zenon DEF OcallLoops
    <3>. QED  BY <1>1, <3>2, <3>3, <3>4, Zenon DEF OcallPhase
  <2>11. CASE phase = 9
    <3>1. Current = Phase("ocall inout", <<"ecall_ocall_inout">>, 1, LOOPS)
      BY <2>2, <2>11, SwitchingPhaseNames
    <3>2. /\ Current.name = "ocall inout" /\ Current.due = LOOPS
          /\ Calls = 1 /\ Callee = "ecall_ocall_inout"
      BY <1>0, <3>1, SingleCall
    <3>3. phase \in 6..9 /\ phase # 6
      BY <2>11
    <3>4. Callee \in OcallLoops /\ (Callee = "ecall_ocall_void" <=> phase = 6)
      BY <3>3, <3>2, Zenon DEF OcallLoops
    <3>. QED  BY <1>1, <3>2, <3>3, <3>4, Zenon DEF OcallPhase
  <2>. QED  BY <2>2, <2>3, <2>4, <2>5, <2>6, <2>7, <2>8, <2>9, <2>10, <2>11
<1>2. CASE cmd.type = "memory_access"
  <2>1. Phases = [k \in DOMAIN MEM_SIZES |-> Phase("access", AccessCalls, 1, 4)]
    BY <1>2 DEF Phases
  <2>2. phase \in DOMAIN MEM_SIZES /\ Current = Phase("access", AccessCalls, 1, 4)
    BY <2>1 DEF Current
  <2>3. /\ Current.name = "access" /\ Current.due = 4 /\ Current.times = 1
        /\ Current.calls = AccessCalls
    BY <2>2 DEF Phase
  <2>4. /\ Len(AccessCalls) = 6
        /\ \A k \in 1..6 : AccessCalls[k] \in
               {"prepare_u", "seq_u", "rand_u", "prepare_t", "seq_t", "rand_t"}
    BY DEF AccessCalls
  <2>5. Calls = 6
    <3>1. 1 * 6 = 6
      OBVIOUS
    <3>. QED  BY <2>3, <2>4, <3>1, Zenon DEF Calls
  <2>6. Callee = AccessCalls[(n % 6) + 1]
    BY <2>3, <2>4, Zenon DEF Callee
  <2>7. (n % 6) + 1 \in 1..6 /\ (n \in 0..5 => n % 6 = n)
    OBVIOUS
  <2>. QED  BY <1>2, <2>2, <2>3, <2>4, <2>5, <2>6, <2>7 DEF AccessPhase
<1>3. CASE cmd.type = "memory_management"
  <2>. DEFINE p == Phase("none", <<"ecall_memory_management_benchmark">>, 1, 0)
  <2>1. Phases = <<p>>
    BY <1>3 DEF Phases
  <2>2. phase = 1
    <3>. HIDE DEF p
    <3>1. DOMAIN <<p>> = 1..1
      OBVIOUS
    <3>. QED  BY <2>1, <3>1
  <2>3. Current = p
    <3>. HIDE DEF p
    <3>. QED  BY <2>1, <2>2 DEF Current
  <2>4. /\ Current.name = "none" /\ Calls = 1
        /\ Callee = "ecall_memory_management_benchmark"
    BY <2>3, SingleCall
  <2>. QED  BY <1>3, <2>2, <2>4 DEF ManagementPhase
<1>4. CASE cmd.type \notin {"switching", "memory_access", "memory_management"}
  BY <1>4 DEF Phases
<1>. QED  BY <1>1, <1>2, <1>3, <1>4
------------------------------------------------------------------------------
\* The inductive invariant.
Pcs == {"main", "create", "malloc", "bench", "destroy",
        "return 0", "return -1", "trapped", "aborted", "hung"}

Typed ==
    /\ cmd \in Commands /\ pc \in Pcs
    /\ global_eid \in Nat
    /\ ptr \in {"none", "buffer", "NULL", "freed"}
    /\ n \in Nat /\ good \in Nat
    /\ inside \in {"none", "void", "buffer"} /\ i \in 0..LOOPS

FaultsTyped == IsFiniteSet(faults) /\ Cardinality(faults) <= MAX_FAULTS

PhaseTyped == phase \in 1..Len(Phases) + 1

Flags == NDEBUG \in BOOLEAN /\ lost \in BOOLEAN

\* Which enclave exists, and what has become of the App's buffer.
Life ==
    /\ pc = "main" => global_eid = 0 /\ alive = {}
    /\ pc = "create" => alive = {} /\ global_eid < CREATE_LOOPS
    /\ pc \in {"malloc", "bench", "destroy", "trapped", "aborted", "hung"} =>
           alive = {global_eid} /\ global_eid \in 1..CREATE_LOOPS
    /\ Returned => alive = {} /\ global_eid <= CREATE_LOOPS
    /\ pc \notin {"bench", "trapped", "aborted", "hung"} => ptr # "buffer"
    /\ pc = "malloc" => cmd.type = "switching"
    /\ pc = "bench" /\ cmd.type = "switching" =>
           ptr = "buffer" \/ (ptr = "NULL" /\ "malloc" \in faults)

\* An OCALL loop runs in its own phase, once, on an enclave that is not lost.
Inside ==
    inside # "none" => /\ pc = "bench" /\ cmd.type = "switching" /\ phase \in 6..9
                   /\ n = 0 /\ ~lost

\* Each phase from the seventh on leaves one more block behind.
Leaks ==
    /\ leaked \in Nat /\ leaked <= 3
    /\ phase <= 6 => leaked = 0
    /\ phase \in 7..9 => leaked <= phase - 6
    /\ phase \in 7..9 /\ inside # "buffer" /\ n = 0 => leaked <= phase - 7
    /\ cmd.type # "switching" => leaked = 0

IInv == Typed /\ PhaseTyped /\ FaultsTyped /\ Flags /\ Life /\ Inside /\ Leaks
------------------------------------------------------------------------------
LEMMA PhasesCounted ==
    ASSUME cmd.type \in Types
    PROVE  /\ Len(Phases) \in Nat /\ DOMAIN Phases = 1..Len(Phases)
           /\ cmd.type = "switching" => Len(Phases) = 9
<1>1. CASE cmd.type = "switching"
  <2>1. Phases = SwitchingPhases
    BY <1>1 DEF Phases
  <2>2. Len(Phases) = 9 /\ DOMAIN Phases = 1..9
    BY <2>1, SwitchingPhaseNames, Zenon
  <2>. QED  BY <1>1, <2>2
<1>2. CASE cmd.type = "memory_access"
  <2>1. Phases = [k \in DOMAIN MEM_SIZES |-> Phase("access", AccessCalls, 1, 4)]
    BY <1>2 DEF Phases
  <2>2. Len(MEM_SIZES) \in Nat /\ DOMAIN MEM_SIZES = 1..Len(MEM_SIZES)
    BY MainAssumption
  <2>. DEFINE p == Phase("access", AccessCalls, 1, 4)
           ps == [k \in 1..Len(MEM_SIZES) |-> p]
  <2>3. Len(ps) = Len(MEM_SIZES) /\ DOMAIN ps = 1..Len(MEM_SIZES)
    <3>. HIDE DEF p
    <3>. QED  BY <2>2
  <2>. QED  BY <1>2, <2>1, <2>2, <2>3
<1>3. CASE cmd.type = "memory_management"
  <2>. DEFINE p == Phase("none", <<"ecall_memory_management_benchmark">>, 1, 0)
  <2>1. Phases = <<p>>
    BY <1>3 DEF Phases
  <2>. HIDE DEF p
  <2>. QED  BY <1>3, <2>1
<1>4. CASE cmd.type \notin {"switching", "memory_access", "memory_management"}
  BY <1>4 DEF Phases
<1>. QED  BY <1>1, <1>2, <1>3, <1>4

\* No step changes the command line or the build, or forgets a fault.
LEMMA GivenKept ==
    ASSUME Next
    PROVE  cmd' = cmd /\ NDEBUG' = NDEBUG /\ faults \subseteq faults'
<1>. USE DEF given
<1>1. CASE Running
  BY <1>1 DEF Running, ParseArguments, InitializeEnclave, InitializeFails, MallocBuffer,
      DivideByNum, PpMissing, MemalignFails, Ecall, EnterOcallLoop, Ocall, LeaveOcallLoop,
      PhaseEnds, BenchEnds, Destroy, Fault
<1>2. CASE LoseEnclave
  BY <1>2 DEF LoseEnclave, Fault
<1>3. CASE Finished
  BY <1>3 DEF Finished, vars
<1>. QED  BY <1>1, <1>2, <1>3 DEF Next

LEMMA PhaseKept ==
    ASSUME cmd' = cmd
    PROVE  Phases' = Phases /\ (phase' = phase => Current' = Current)
  BY DEF Phases, Current

\* Memory is missing before a call is made: what changes.
Shortage == PpMissing \/ MemalignFails

LEMMA ShortageFacts ==
    ASSUME Shortage
    PROVE  /\ pc = "bench" /\ pc' \in {"bench", "trapped", "aborted"} /\ inside = "none"
           /\ n' \in {n, n + 1}
           /\ lost' = lost \/ lost' = TRUE
           /\ UNCHANGED <<alive, global_eid, ptr, phase, good, line, inside, i, leaked>>
           /\ cmd.type = "memory_management" \/ "memalign" \in faults'
<1>1. CASE PpMissing
  BY <1>1 DEF PpMissing, InPhase, life, inner
<1>2. CASE MemalignFails
  <2>1. "memalign" \in faults'
    BY <1>2 DEF MemalignFails, Fault
  <2>2. /\ pc = "bench" /\ pc' \in {"bench", "trapped", "aborted"} /\ inside = "none"
        /\ n' \in {n, n + 1}
        /\ UNCHANGED <<alive, global_eid, ptr, phase, good, line, inside, i, leaked>>
    BY <1>2 DEF MemalignFails, InPhase, life, inner
  <2>3. lost' = lost \/ lost' = TRUE
    BY <1>2, Zenon DEF MemalignFails
  <2>. QED  BY <2>1, <2>2, <2>3
<1>. QED  BY <1>1, <1>2 DEF Shortage

LEMMA FaultCounted ==
    ASSUME IsFiniteSet(faults), Cardinality(faults) <= MAX_FAULTS, MAX_FAULTS \in Nat, NEW what,
           Fault(what)
    PROVE  IsFiniteSet(faults') /\ Cardinality(faults') <= MAX_FAULTS
<1>1. faults' = faults \cup {what} /\ Cardinality(faults) < MAX_FAULTS
  BY DEF Fault
<1>2. Cardinality(faults) \in Nat
  BY FS_CardinalityType
<1>3. /\ IsFiniteSet(faults \cup {what})
      /\ Cardinality(faults \cup {what}) =
             IF what \in faults THEN Cardinality(faults) ELSE Cardinality(faults) + 1
  BY FS_AddElement
<1>. QED  BY <1>1, <1>2, <1>3

LEMMA FaultsTypedStep ==
    ASSUME FaultsTyped, Next
    PROVE  FaultsTyped'
<1>1. faults' = faults \/ \E what : Fault(what)
  <2>1. CASE Running
    BY <2>1 DEF Running, ParseArguments, InitializeEnclave, InitializeFails, MallocBuffer,
        DivideByNum, PpMissing, MemalignFails, Ecall, EnterOcallLoop, Ocall, LeaveOcallLoop,
        PhaseEnds, BenchEnds, Destroy
  <2>2. CASE LoseEnclave
    BY <2>2 DEF LoseEnclave
  <2>3. CASE Finished
    BY <2>3 DEF Finished, vars
  <2>. QED  BY <2>1, <2>2, <2>3 DEF Next
<1>2. MAX_FAULTS \in Nat
  BY MainAssumption
<1>. QED  BY <1>1, <1>2, FaultCounted DEF FaultsTyped

\* What is left of Typed is preserved by each action.
LEMMA TypesStep ==
    ASSUME Typed, Next
    PROVE  Typed'
<1>0. /\ cmd' = cmd /\ NDEBUG' = NDEBUG /\ Phases' = Phases
  BY GivenKept, PhaseKept
<1>1. LOOPS \in Nat
  BY MainAssumption
<1>2. 0 \in 0..LOOPS /\ \A k \in 0..LOOPS : k < LOOPS => k + 1 \in 0..LOOPS
  BY <1>1
<1>. USE DEF Typed, Pcs, life, bench, inner
<1>3. CASE ParseArguments
  BY <1>0, <1>1, <1>2, <1>3 DEF ParseArguments
<1>4. CASE InitializeEnclave
  BY <1>0, <1>1, <1>2, <1>4 DEF InitializeEnclave
<1>5. CASE InitializeFails
  BY <1>0, <1>1, <1>2, <1>5 DEF InitializeFails
<1>6. CASE MallocBuffer
  BY <1>0, <1>1, <1>2, <1>6 DEF MallocBuffer
<1>7. CASE DivideByNum
  BY <1>0, <1>1, <1>2, <1>7 DEF DivideByNum
<1>8. CASE Ecall
  BY <1>0, <1>1, <1>2, <1>8 DEF Ecall, InPhase
<1>9. CASE EnterOcallLoop
  <2>1. n' \in {n, n + 1} /\ i' = 0 /\ UNCHANGED <<pc, global_eid, ptr, good>>
    BY <1>9 DEF EnterOcallLoop
  <2>2. inside' \in {"none", "void", "buffer"}
    BY <1>9 DEF EnterOcallLoop
  <2>3. n' \in Nat
    <3>. HIDE DEF Typed
    <3>1. n \in Nat
      BY DEF Typed
    <3>. QED  BY <2>1, <3>1
  <2>. QED  BY <1>0, <1>2, <2>1, <2>2, <2>3, Zenon
<1>10. CASE Ocall
  <2>1. i < LOOPS /\ i' = i + 1 /\ UNCHANGED <<pc, global_eid, ptr, n, inside>>
    BY <1>10 DEF Ocall
  <2>2. good' \in {good, good + 1}
    BY <1>10 DEF Ocall
  <2>3. good' \in Nat
    <3>. HIDE DEF Typed
    <3>1. good \in Nat
      BY DEF Typed
    <3>. QED  BY <2>2, <3>1
  <2>4. i' \in 0..LOOPS
    BY <1>2, <2>1, Zenon
  <2>. QED  BY <1>0, <2>1, <2>3, <2>4, Zenon
<1>11. CASE LeaveOcallLoop
  <2>1. /\ n' = n + 1 /\ i' = 0 /\ inside' = "none"
        /\ UNCHANGED <<pc, global_eid, ptr, good>>
    BY <1>11 DEF LeaveOcallLoop
  <2>2. n' \in Nat
    <3>. HIDE DEF Typed
    <3>1. n \in Nat
      BY DEF Typed
    <3>. QED  BY <2>1, <3>1
  <2>. QED  BY <1>0, <1>2, <2>1, <2>2, Zenon
<1>12. CASE PhaseEnds
  BY <1>0, <1>1, <1>2, <1>12 DEF PhaseEnds, InPhase
<1>13. CASE BenchEnds
  BY <1>0, <1>1, <1>2, <1>13 DEF BenchEnds
<1>14. CASE Destroy
  BY <1>0, <1>1, <1>2, <1>14 DEF Destroy
<1>15. CASE LoseEnclave
  BY <1>0, <1>1, <1>2, <1>15 DEF LoseEnclave
<1>16. CASE Finished
  BY <1>0, <1>1, <1>2, <1>16 DEF Finished, vars, given
<1>17. CASE Shortage
  <2>1. n' \in Nat
    <3>. HIDE DEF Typed
    <3>1. n \in Nat
      BY DEF Typed
    <3>. QED  BY <1>17, <3>1, ShortageFacts
  <2>2. pc' \in Pcs /\ UNCHANGED <<global_eid, ptr, good, inside, i>>
    BY <1>17, ShortageFacts
  <2>. QED  BY <1>0, <2>1, <2>2, Zenon
<1>. QED  BY <1>3, <1>4, <1>5, <1>6, <1>7, <1>8, <1>9, <1>10, <1>11, <1>12, <1>13, <1>14,
             <1>15, <1>16, <1>17 DEF Next, Running, Shortage

LEMMA LifeStep ==
    ASSUME global_eid \in Nat, Life, Next
    PROVE  Life'
<1>0. cmd' = cmd
  BY GivenKept
<1>1. CREATE_LOOPS \in Nat /\ CREATE_LOOPS # 0
  BY MainAssumption
<1>2. faults \subseteq faults'
  BY GivenKept
<1>. USE DEF Life, Returned, life, bench, inner
<1>3. CASE ParseArguments
  <2>1. pc = "main" /\ pc' \in {"return -1", "return 0", "create"}
    BY <1>3 DEF ParseArguments
  <2>2. UNCHANGED <<alive, global_eid, ptr>>
    BY <1>3 DEF ParseArguments
  <2>3. alive = {} /\ global_eid = 0 /\ ptr # "buffer"
    BY <2>1
  <2>4. global_eid < CREATE_LOOPS /\ global_eid <= CREATE_LOOPS
    <3>. HIDE DEF Life
    <3>. QED  BY <1>1, <2>3
  <2>5. pc' # "main" /\ pc' \notin {"malloc", "bench", "destroy", "trapped", "aborted", "hung"}
    BY <2>1
  <2>. QED  BY <2>1, <2>2, <2>3, <2>4, <2>5
<1>4. CASE InitializeEnclave
  BY <1>0, <1>1, <1>2, <1>4 DEF InitializeEnclave
<1>5. CASE InitializeFails
  <2>1. pc = "create" /\ pc' = "return -1" /\ UNCHANGED <<alive, global_eid, ptr>>
    BY <1>5 DEF InitializeFails
  <2>2. alive = {} /\ global_eid < CREATE_LOOPS /\ ptr # "buffer"
    BY <2>1, Zenon
  <2>3. global_eid <= CREATE_LOOPS
    <3>. HIDE DEF Life
    <3>. QED  BY <1>1, <2>2
  <2>. QED  BY <2>1, <2>2, <2>3
<1>6. CASE MallocBuffer
  <2>1. pc = "malloc" /\ pc' = "bench" /\ UNCHANGED <<alive, global_eid>>
    BY <1>6 DEF MallocBuffer
  <2>2. ptr' = "buffer" \/ (ptr' = "NULL" /\ "malloc" \in faults')
    BY <1>6 DEF MallocBuffer, Fault
  <2>. QED  BY <1>0, <1>1, <2>1, <2>2
<1>7. CASE DivideByNum
  BY <1>0, <1>1, <1>2, <1>7 DEF DivideByNum, InPhase
<1>8. CASE Ecall
  BY <1>0, <1>1, <1>2, <1>8 DEF Ecall, InPhase
<1>9. CASE EnterOcallLoop
  BY <1>0, <1>1, <1>2, <1>9 DEF EnterOcallLoop, InPhase
<1>10. CASE Ocall
  BY <1>0, <1>1, <1>2, <1>10 DEF Ocall
<1>11. CASE LeaveOcallLoop
  BY <1>0, <1>1, <1>2, <1>11 DEF LeaveOcallLoop
<1>12. CASE PhaseEnds
  BY <1>0, <1>1, <1>2, <1>12 DEF PhaseEnds, InPhase
<1>13. CASE BenchEnds
  BY <1>0, <1>1, <1>2, <1>13 DEF BenchEnds
<1>14. CASE Destroy
  <2>1. pc = "destroy" /\ alive' = alive \ {global_eid} /\ UNCHANGED <<global_eid, ptr>>
    BY <1>14 DEF Destroy
  <2>2. pc' = "return 0" \/ (pc' = "create" /\ global_eid < CREATE_LOOPS)
    BY <1>14 DEF Destroy
  <2>3. alive = {global_eid} /\ global_eid \in 1..CREATE_LOOPS /\ ptr # "buffer"
    BY <2>1
  <2>4. alive' = {} /\ global_eid <= CREATE_LOOPS
    <3>. HIDE DEF Life
    <3>. QED  BY <1>1, <2>1, <2>3
  <2>. QED  BY <2>1, <2>2, <2>3, <2>4
<1>15. CASE LoseEnclave
  BY <1>0, <1>1, <1>2, <1>15 DEF LoseEnclave
<1>16. CASE Finished
  BY <1>0, <1>1, <1>2, <1>16 DEF Finished, vars, given
<1>17. CASE Shortage
  BY <1>0, <1>1, <1>2, <1>17, ShortageFacts
<1>. QED  BY <1>3, <1>4, <1>5, <1>6, <1>7, <1>8, <1>9, <1>10, <1>11, <1>12, <1>13, <1>14,
             <1>15, <1>16, <1>17 DEF Next, Running, Shortage

LEMMA FlagsStep ==
    ASSUME Flags, Next
    PROVE  Flags'
<1>1. NDEBUG' \in BOOLEAN
  BY GivenKept, Zenon DEF Flags
<1>2. lost' = lost \/ lost' \in BOOLEAN
  <2>1. CASE Ecall
    <3>1. PICK outcome \in Outcomes(Callee) : lost' = (lost \/ outcome = "crashes")
      BY <2>1, Zenon DEF Ecall
    <3>. QED  BY <3>1, Zenon
  <2>2. CASE EnterOcallLoop
    BY <2>2, Zenon DEF EnterOcallLoop
  <2>3. CASE LoseEnclave
    BY <2>3, Zenon DEF LoseEnclave
  <2>4. CASE InitializeEnclave
    BY <2>4, Zenon DEF InitializeEnclave
  <2>5. CASE \/ ParseArguments \/ InitializeFails \/ MallocBuffer \/ DivideByNum \/ Ocall
             \/ LeaveOcallLoop \/ PhaseEnds \/ BenchEnds \/ Destroy \/ Finished
    BY <2>5 DEF ParseArguments, InitializeFails, MallocBuffer, DivideByNum, Ocall,
        LeaveOcallLoop, PhaseEnds, BenchEnds, Destroy, Finished, vars
  <2>6. CASE Shortage
    BY <2>6, ShortageFacts, Zenon
  <2>. QED  BY <2>1, <2>2, <2>3, <2>4, <2>5, <2>6 DEF Next, Running, Shortage
<1>. QED  BY <1>1, <1>2, Zenon DEF Flags

LEMMA PhaseTypedStep ==
    ASSUME cmd.type \in Types, PhaseTyped, Next
    PROVE  PhaseTyped'
<1>0. Phases' = Phases
  BY GivenKept, PhaseKept
<1>. DEFINE last == Len(Phases)
<1>1. last \in Nat /\ DOMAIN Phases = 1..last
  BY PhasesCounted
<1>2. phase' = phase \/ (phase \in DOMAIN Phases /\ phase' = phase + 1)
  <2>1. CASE PhaseEnds
    BY <2>1 DEF PhaseEnds, InPhase
  <2>2. CASE \/ ParseArguments \/ InitializeEnclave \/ InitializeFails \/ MallocBuffer
             \/ DivideByNum \/ Ecall \/ EnterOcallLoop \/ Ocall
    BY <2>2 DEF ParseArguments, InitializeEnclave, InitializeFails, MallocBuffer, DivideByNum,
        Ecall, EnterOcallLoop, Ocall, bench
  <2>3. CASE LeaveOcallLoop \/ BenchEnds \/ Destroy \/ LoseEnclave \/ Finished
    BY <2>3 DEF LeaveOcallLoop, BenchEnds, Destroy, LoseEnclave, Finished, vars, bench
  <2>4. CASE Shortage
    BY <2>4, ShortageFacts
  <2>. QED  BY <2>1, <2>2, <2>3, <2>4 DEF Next, Running, Shortage
<1>3. phase \in 1..last + 1
  BY DEF PhaseTyped
<1>. HIDE DEF last
<1>4. phase' \in 1..last + 1
  BY <1>1, <1>2, <1>3
<1>5. last' = last
  BY <1>0 DEF last
<1>. QED  BY <1>4, <1>5 DEF PhaseTyped, last

\* In the phase of an OCALL loop, before its call.
LEMMA LoopPhase ==
    ASSUME cmd.type \in Types, n \in Nat, EnterOcallLoop
    PROVE  /\ pc = "bench" /\ n = 0 /\ ~lost /\ OcallPhase
           /\ phase \in 6..9 /\ (Callee = "ecall_ocall_void" <=> phase = 6)
<1>1. InPhase /\ n < Calls /\ ~lost /\ Callee \in OcallLoops
  BY DEF EnterOcallLoop
<1>2. pc = "bench" /\ phase \in DOMAIN Phases
  BY <1>1 DEF InPhase
<1>3. ~WarmUp
  BY <1>1 DEF WarmUp, OcallLoops, CopyingEcalls
<1>4. ~EcallPhase /\ ~AccessPhase /\ ~ManagementPhase
  BY <1>1 DEF EcallPhase, AccessPhase, ManagementPhase, OcallLoops, CopyingEcalls
<1>5. OcallPhase
  BY <1>2, <1>3, <1>4, PhaseKinds
<1>6. /\ Calls = 1 /\ phase \in 6..9
      /\ (Callee = "ecall_ocall_void" <=> phase = 6)
  BY <1>5, Zenon DEF OcallPhase
<1>7. n = 0
  BY <1>1, <1>6
<1>. QED  BY <1>1, <1>2, <1>5, <1>6, <1>7, Zenon

LEMMA InsideStep ==
    ASSUME cmd.type \in Types, n \in Nat, Flags, Inside, Next
    PROVE  Inside'
<1>0. cmd' = cmd
  BY GivenKept
<1>1. CASE \/ ParseArguments \/ InitializeEnclave \/ InitializeFails \/ MallocBuffer
  BY <1>0, <1>1, Zenon DEF ParseArguments, InitializeEnclave, InitializeFails, MallocBuffer,
      inner, Inside
<1>2. CASE DivideByNum \/ Ecall \/ PhaseEnds
  <2>1. inside = "none" /\ inside' = inside
    BY <1>2 DEF DivideByNum, Ecall, PhaseEnds, InPhase, inner
  <2>. QED  BY <2>1, Zenon DEF Inside
<1>3. CASE EnterOcallLoop
  <2>1. OcallPhase /\ pc = "bench" /\ n = 0 /\ ~lost /\ phase \in 6..9
    BY <1>3, LoopPhase, Zenon
  <2>2. cmd.type = "switching"
    BY <2>1, Zenon DEF OcallPhase
  <2>3. pc' = pc /\ phase' = phase /\ inside = "none"
    BY <1>3, Zenon DEF EnterOcallLoop, InPhase
  <2>4. inside' = inside \/ (lost' = lost /\ n' = n)
    BY <1>3, Zenon DEF EnterOcallLoop
  <2>. QED  BY <1>0, <2>1, <2>2, <2>3, <2>4, Zenon DEF Inside
<1>4. CASE Ocall
  <2>1. UNCHANGED <<pc, lost, phase, n, inside>>
    BY <1>4 DEF Ocall
  <2>. QED  BY <1>0, <2>1, Zenon DEF Inside
<1>5. CASE LeaveOcallLoop \/ LoseEnclave
  BY <1>5, Zenon DEF LeaveOcallLoop, LoseEnclave, Inside
<1>6. CASE BenchEnds \/ Destroy
  <2>1. inside = "none"
    <3>1. CASE Destroy
      BY <3>1 DEF Destroy, Inside
    <3>2. CASE BenchEnds
      <4>1. SUFFICES ASSUME cmd.type = "switching", phase \in 6..9 PROVE FALSE
        BY DEF Inside
      <4>. DEFINE last == Len(Phases)
      <4>2. phase > last
        BY <3>2, Zenon DEF BenchEnds
      <4>3. last = 9
        BY <4>1, PhasesCounted
      <4>. HIDE DEF last
      <4>. QED  BY <4>1, <4>2, <4>3
    <3>. QED  BY <1>6, <3>1, <3>2
  <2>2. inside' = inside
    BY <1>6 DEF BenchEnds, Destroy, inner
  <2>. QED  BY <2>1, <2>2, Zenon DEF Inside
<1>7. CASE Finished
  BY <1>0, <1>7, Zenon DEF Finished, vars, life, bench, inner, Inside
<1>8. CASE Shortage
  <2>1. inside = "none" /\ inside' = inside
    BY <1>8, ShortageFacts
  <2>. QED  BY <2>1, Zenon DEF Inside
<1>. QED  BY <1>1, <1>2, <1>3, <1>4, <1>5, <1>6, <1>7, <1>8 DEF Next, Running, Shortage

LEMMA LeaksStep ==
    ASSUME cmd.type \in Types, n \in Nat, phase \in Nat \ {0}, Leaks, Next
    PROVE  Leaks'
<1>0. cmd' = cmd
  BY GivenKept
<1>1. CASE \/ ParseArguments \/ InitializeEnclave \/ InitializeFails \/ MallocBuffer
           \/ DivideByNum \/ BenchEnds \/ Finished
  BY <1>0, <1>1, Zenon DEF ParseArguments, InitializeEnclave, InitializeFails, MallocBuffer,
      DivideByNum, BenchEnds, Finished, vars, bench, inner, Leaks
<1>2. CASE Ocall
  <2>1. UNCHANGED <<phase, n, inside, leaked>>
    BY <1>2 DEF Ocall
  <2>. QED  BY <1>0, <2>1, Zenon DEF Leaks
<1>3. CASE Ecall \/ LeaveOcallLoop
  <2>1. n' = n + 1 /\ leaked' = leaked /\ phase' = phase
    BY <1>3 DEF Ecall, LeaveOcallLoop, inner
  <2>2. n' # 0
    BY <2>1
  <2>. QED  BY <1>0, <2>1, <2>2, Zenon DEF Leaks
<1>4. CASE LoseEnclave
  <2>1. leaked' = leaked /\ phase' = phase
    BY <1>4 DEF LoseEnclave
  <2>2. n' = IF inside = "none" THEN n ELSE n + 1
    BY <1>4, Zenon DEF LoseEnclave
  <2>3. (inside = "none" /\ n' = n) \/ n' # 0
    BY <2>2
  <2>4. inside = "none" => inside # "buffer"
    OBVIOUS
  <2>. QED  BY <1>0, <2>1, <2>3, <2>4, Zenon DEF Leaks
<1>5. CASE EnterOcallLoop
  <2>1. cmd.type = "switching" /\ phase \in 6..9 /\ n = 0 /\ inside = "none"
        /\ (Callee = "ecall_ocall_void" <=> phase = 6)
    BY <1>5, LoopPhase, Zenon DEF OcallPhase, EnterOcallLoop, InPhase
  <2>2. phase' = phase
    BY <1>5 DEF EnterOcallLoop
  <2>3. \/ leaked' = leaked /\ (inside' # "buffer" \/ inside' = inside)
        \/ leaked' = leaked + 1 /\ Callee # "ecall_ocall_void" /\ inside' = "buffer"
    BY <1>5 DEF EnterOcallLoop
  <2>4. leaked \in Nat /\ leaked <= 3 /\ (phase = 6 => leaked = 0)
        /\ (phase \in 7..9 => leaked <= phase - 7)
    BY <2>1 DEF Leaks
  <2>5. CASE leaked' = leaked /\ (inside' # "buffer" \/ inside' = inside)
    BY <1>0, <2>1, <2>2, <2>4, <2>5 DEF Leaks
  <2>6. CASE leaked' = leaked + 1 /\ Callee # "ecall_ocall_void" /\ inside' = "buffer"
    <3>1. phase \in 7..9
      <4>1. phase # 6
        BY <2>1, <2>6, Zenon
      <4>. QED  BY <2>1, <4>1
    <3>2. leaked' \in Nat /\ leaked' <= phase - 6 /\ leaked' <= 3
      BY <2>4, <2>6, <3>1
    <3>. QED  BY <1>0, <2>1, <2>2, <2>6, <3>1, <3>2 DEF Leaks
  <2>. QED  BY <2>3, <2>5, <2>6
<1>6. CASE PhaseEnds
  <2>1. phase' = phase + 1 /\ leaked' = leaked
    BY <1>6 DEF PhaseEnds, inner
  <2>2. phase' \in 7..9 => leaked <= phase' - 7
    BY <2>1 DEF Leaks
  <2>3. phase' <= 6 => phase <= 6
    BY <2>1
  <2>4. phase' \in 7..9 => leaked <= phase' - 6
    <3>1. leaked \in Nat
      BY DEF Leaks
    <3>. QED  BY <2>1, <2>2, <3>1
  <2>. QED  BY <1>0, <2>1, <2>2, <2>3, <2>4, Zenon DEF Leaks
<1>7. CASE Destroy
  <2>1. leaked' = 0 /\ phase' = phase
    BY <1>7 DEF Destroy
  <2>. QED  BY <2>1 DEF Leaks
<1>8. CASE Shortage
  <2>1. /\ phase' = phase /\ inside' = inside /\ leaked' = leaked
        /\ n' = n \/ n' = n + 1
    BY <1>8, ShortageFacts
  <2>2. n' = n \/ n' # 0
    BY <2>1
  <2>. QED  BY <1>0, <2>1, <2>2, Zenon DEF Leaks
<1>. QED  BY <1>1, <1>2, <1>3, <1>4, <1>5, <1>6, <1>7, <1>8 DEF Next, Running, Shortage
------------------------------------------------------------------------------
LEMMA TypedFacts ==
    ASSUME Typed, PhaseTyped
    PROVE  /\ cmd.type \in Types /\ n \in Nat /\ global_eid \in Nat
           /\ phase \in Nat \ {0} /\ phase \in 1..Len(Phases) + 1
<1>1. cmd.type \in Types
  BY MainAssumption DEF Typed
<1>. DEFINE last == Len(Phases)
<1>2. last \in Nat
  BY <1>1, PhasesCounted
<1>3. phase \in 1..last + 1
  BY DEF PhaseTyped
<1>. HIDE DEF last
<1>4. phase \in Nat \ {0}
  BY <1>2, <1>3
<1>. QED  BY <1>1, <1>3, <1>4 DEF Typed, last

LEMMA InitInvariant ==
    ASSUME Init
    PROVE  IInv
<1>0. /\ cmd \in Commands /\ NDEBUG \in BOOLEAN /\ LOOPS \in Nat /\ MAX_FAULTS \in Nat
      /\ CREATE_LOOPS \in Nat
  BY MainAssumption DEF Init
<1>1. Typed
  BY <1>0 DEF Init, Typed, Pcs
<1>2. PhaseTyped
  <2>1. cmd.type \in Types
    BY <1>0, MainAssumption
  <2>. DEFINE last == Len(Phases)
  <2>2. last \in Nat
    BY <2>1, PhasesCounted
  <2>3. phase = 1
    BY DEF Init
  <2>. HIDE DEF last
  <2>4. phase \in 1..last + 1
    BY <2>2, <2>3
  <2>. QED  BY <2>4 DEF PhaseTyped, last
<1>3. FaultsTyped
  BY <1>0, FS_EmptySet DEF Init, FaultsTyped
<1>4. Flags
  BY <1>0, Zenon DEF Init, Flags
<1>5. Life /\ Inside /\ Leaks
  BY DEF Init, Life, Inside, Leaks, Returned
<1>. QED  BY <1>1, <1>2, <1>3, <1>4, <1>5 DEF IInv

LEMMA StepInvariant ==
    ASSUME IInv, [Next]_vars
    PROVE  IInv'
<1>1. CASE Next
  <2>1. Typed' /\ FaultsTyped' /\ Flags'
    BY <1>1, TypesStep, FaultsTypedStep, FlagsStep DEF IInv
  <2>2. cmd.type \in Types /\ n \in Nat /\ global_eid \in Nat /\ phase \in Nat \ {0}
    BY TypedFacts DEF IInv
  <2>3. PhaseTyped' /\ Inside' /\ Leaks' /\ Life'
    BY <1>1, <2>2, PhaseTypedStep, InsideStep, LeaksStep, LifeStep DEF IInv
  <2>. QED  BY <2>1, <2>3 DEF IInv
<1>2. CASE UNCHANGED vars
  <2>1. Phases' = Phases
    BY <1>2, PhaseKept DEF vars, given
  <2>2. Typed' /\ FaultsTyped' /\ Flags'
    BY <1>2, Zenon DEF vars, given, life, bench, inner, IInv, Typed, FaultsTyped, Flags
  <2>3. PhaseTyped'
    BY <1>2, <2>1, Zenon DEF vars, bench, IInv, PhaseTyped
  <2>4. Life'
    BY <1>2, Zenon DEF vars, given, life, IInv, Life, Returned
  <2>5. Inside' /\ Leaks'
    BY <1>2, Zenon DEF vars, given, bench, inner, IInv, Inside, Leaks
  <2>. QED  BY <2>2, <2>3, <2>4, <2>5 DEF IInv
<1>. QED  BY <1>1, <1>2

THEOREM Invariant == Spec => []IInv
  BY InitInvariant, StepInvariant, PTL DEF Spec

\* Types; in a run of switching_benchmark the enclave's heap loses one block for
\* each of the three OCALL loops with a buffer, and in no other run any.
THEOREM TypeCorrect == Spec => []TypeOK
<1>1. IInv => TypeOK
  <2>. SUFFICES ASSUME IInv PROVE TypeOK
    OBVIOUS
  <2>2. /\ pc \in Pcs /\ ptr \in {"none", "buffer", "NULL", "freed"}
        /\ n \in Nat /\ good \in Nat /\ inside \in {"none", "void", "buffer"}
        /\ i \in 0..LOOPS /\ lost \in BOOLEAN /\ Cardinality(faults) <= MAX_FAULTS
    BY Zenon DEF IInv, Typed, Flags, FaultsTyped
  <2>3. phase \in 1..Len(Phases) + 1
    BY DEF IInv, PhaseTyped
  <2>4. leaked \in 0..3
    BY DEF IInv, Leaks
  <2>5. global_eid \in 0..CREATE_LOOPS /\ alive \subseteq 1..global_eid
    <3>1. global_eid \in Nat /\ CREATE_LOOPS \in Nat /\ pc \in Pcs
      BY MainAssumption DEF IInv, Typed
    <3>2. Life
      BY DEF IInv
    <3>3. CASE pc \in {"malloc", "bench", "destroy", "trapped", "aborted", "hung"}
      <4>1. alive = {global_eid} /\ global_eid \in 1..CREATE_LOOPS
        BY <3>2, <3>3, Zenon DEF Life
      <4>. QED  BY <3>1, <4>1
    <3>4. CASE pc = "main"
      <4>1. alive = {} /\ global_eid = 0
        BY <3>2, <3>4, Zenon DEF Life
      <4>. QED  BY <3>1, <4>1
    <3>5. CASE pc = "create" \/ Returned
      <4>1. alive = {} /\ (global_eid < CREATE_LOOPS \/ global_eid <= CREATE_LOOPS)
        BY <3>2, <3>5, Zenon DEF Life
      <4>. QED  BY <3>1, <4>1
    <3>. QED  BY <3>1, <3>3, <3>4, <3>5 DEF Pcs, Returned
  <2>. QED  BY <2>2, <2>3, <2>4, <2>5, Zenon DEF TypeOK, Pcs
<1>. QED  BY <1>1, Invariant, PTL

\* ECALLs and sgx_destroy_enclave get the handle of the one enclave that exists.
THEOREM HandleValidAlways == Spec => []HandleValid
<1>1. IInv => HandleValid
  <2>. SUFFICES ASSUME IInv PROVE HandleValid
    OBVIOUS
  <2>2. pc \in Pcs
    BY DEF IInv, Typed
  <2>3. alive = {} \/ alive = {global_eid}
    BY <2>2 DEF IInv, Life, Returned, Pcs
  <2>4. Cardinality(alive) <= 1
    <3>1. Cardinality({}) = 0 /\ Cardinality({global_eid}) = 1
      BY FS_EmptySet, FS_Singleton
    <3>. QED  BY <2>3, <3>1
  <2>5. pc \in {"malloc", "bench", "destroy"} => global_eid \in alive
    BY DEF IInv, Life
  <2>. QED  BY <2>4, <2>5 DEF HandleValid
<1>. QED  BY <1>1, Invariant, PTL

\* main returns with the enclave destroyed and the App's buffer freed.
THEOREM NothingOutlivesMainAlways == Spec => []NothingOutlivesMain
<1>1. IInv => NothingOutlivesMain
  BY DEF IInv, Life, Returned, NothingOutlivesMain
<1>. QED  BY <1>1, Invariant, PTL
------------------------------------------------------------------------------
\* How far a phase has got, unless something excuses it.
AccessFunctions == {"seq_u", "rand_u", "seq_t", "rand_t"}

\* What excuses a line of that name, of the faults fs.
Excused(name, fs) ==
    \/ name \in fs \/ "enclave" \in fs \/ "memalign" \in fs
    \/ "malloc" \in fs /\ name \in CopyingLines
    \/ ~AsAsked

\* The access functions among the first k of AccessCalls.
Accessed(k) == IF k <= 1 THEN 0 ELSE IF k <= 3 THEN k - 1 ELSE k - 2

Fresh == n = 0 /\ inside = "none" => good = 0

EcallProgress ==
    cmd.type = "switching" /\ phase \in 2..5 /\ inside = "none" =>
        good = n \/ Excused(Current.name, faults)

OcallProgress ==
    cmd.type = "switching" /\ phase \in 6..9 =>
        /\ inside # "none" => good = i \/ Excused(Current.name, faults)
        /\ inside = "none" /\ n = 1 => good = LOOPS \/ Excused(Current.name, faults)

AccessProgress ==
    cmd.type = "memory_access" /\ phase \in DOMAIN MEM_SIZES =>
        good = Accessed(n) \/ Excused("access", faults)

Progress == Fresh /\ EcallProgress /\ OcallProgress /\ AccessProgress

\* Why the enclave is of no more use.
LossExplained ==
    lost => \/ "enclave" \in faults \/ "memalign" \in faults
            \/ cmd.type = "memory_management" \/ ~AsAsked

PInv == IInv /\ Progress /\ LossExplained /\ LinesMeanWhatTheySay
------------------------------------------------------------------------------
LEMMA StillExcused ==
    ASSUME Next, NEW name, Excused(name, faults)
    PROVE  Excused(name, faults')
  BY GivenKept, Zenon DEF Excused, AsAsked

\* With a block size that main asks for, every access function works.
LEMMA AccessWorks ==
    ASSUME cmd.type = "memory_access", AsAsked, phase \in DOMAIN MEM_SIZES,
           NEW f \in AccessFunctions
    PROVE  AccessOutcomes(f, cmd.block_size, MEM_SIZES[phase]) = {"works"}
<1>. DEFINE b == cmd.block_size
            size == MEM_SIZES[phase]
<1>1. b \in {1, 4, 8, 16, 32, 64}
  BY DEF AsAsked
<1>2. size \in Nat /\ size >= 64
  BY MainAssumption
<1>. HIDE DEF b, size
<1>3. b \in {1, 4} \/ (b # 0 /\ b % 8 = 0 /\ ~(b < 0) /\ b <= size)
  BY <1>1, <1>2
<1>4. AccessOutcomes(f, b, size) = {"works"}
  <2>1. CASE b \in {1, 4}
    BY <2>1 DEF AccessOutcomes
  <2>2. CASE b \notin {1, 4}
    <3>1. b # 0 /\ ~(b % 8 # 0 \/ b < 0) /\ b <= size
      BY <1>3, <2>2, Zenon
    <3>. QED  BY <2>2, <3>1 DEF AccessOutcomes
  <2>. QED  BY <2>1, <2>2
<1>. QED  BY <1>4 DEF b, size

\* The call that phase makes next, by the kind of the phase.
LEMMA CalleeKinds ==
    ASSUME cmd.type \in Types, n \in Nat, phase \in DOMAIN Phases
    PROVE  /\ Callee \in AccessFunctions => AccessPhase
           /\ cmd.type = "memory_access" => AccessPhase
           /\ cmd.type = "switching" /\ phase \in 2..5 => EcallPhase
           /\ cmd.type = "switching" /\ phase \in 6..9 => OcallPhase
<1>1. WarmUp \/ EcallPhase \/ OcallPhase \/ AccessPhase \/ ManagementPhase
  BY PhaseKinds
<1>2. Callee \in AccessFunctions => ~WarmUp /\ ~EcallPhase /\ ~OcallPhase /\ ~ManagementPhase
  BY DEF WarmUp, EcallPhase, OcallPhase, ManagementPhase, AccessFunctions, OcallLoops, CopyingEcalls
<1>3. WarmUp => cmd.type = "switching" /\ phase = 1
  BY DEF WarmUp
<1>4. EcallPhase => cmd.type = "switching" /\ phase \in 2..5
  BY DEF EcallPhase
<1>5. OcallPhase => cmd.type = "switching" /\ phase \in 6..9
  BY DEF OcallPhase
<1>6. AccessPhase => cmd.type = "memory_access"
  BY DEF AccessPhase
<1>7. ManagementPhase => cmd.type = "memory_management"
  BY DEF ManagementPhase
<1>. QED  BY <1>1, <1>2, <1>3, <1>4, <1>5, <1>6, <1>7

\* What a call does, as long as the arguments are those asked for.
LEMMA OutcomeFacts ==
    ASSUME cmd.type \in Types, n \in Nat, phase \in DOMAIN Phases, AsAsked,
           NEW outcome \in Outcomes(Callee)
    PROVE  /\ outcome \notin {"hangs", "crashes"}
           /\ EcallPhase /\ ~lost /\ (Callee \in CopyingEcalls => ptr = "buffer") =>
                  outcome \in {"works", "fails"}
           /\ AccessPhase /\ ~lost =>
                  outcome = (IF Callee \in AccessFunctions THEN "works" ELSE "returns")
<1>1. CASE Callee \in AccessFunctions
  <2>1. AccessPhase /\ cmd.type = "memory_access" /\ phase \in DOMAIN MEM_SIZES
    BY <1>1, CalleeKinds, Zenon DEF AccessPhase
  <2>2. AccessOutcomes(Callee, cmd.block_size, MEM_SIZES[phase]) = {"works"}
    BY <1>1, <2>1, AccessWorks
  <2>3. outcome = "works" \/ (lost /\ outcome = "returns")
    BY <1>1, <2>2 DEF Outcomes, AccessFunctions
  <2>4. ~EcallPhase
    BY <2>1 DEF EcallPhase
  <2>. QED  BY <1>1, <2>3, <2>4
<1>2. CASE Callee \notin AccessFunctions
  <2>1. outcome \in {"works", "fails", "returns"}
    BY <1>2 DEF Outcomes, AccessFunctions
  <2>2. EcallPhase /\ ~lost /\ (Callee \in CopyingEcalls => ptr = "buffer") =>
            outcome \in {"works", "fails"}
    BY DEF EcallPhase, Outcomes, CopyingEcalls
  <2>3. AccessPhase /\ ~lost => outcome = "returns"
    BY <1>2 DEF AccessPhase, Outcomes, AccessFunctions
  <2>. QED  BY <1>2, <2>1, <2>2, <2>3
<1>. QED  BY <1>1, <1>2

Quiet == \/ ParseArguments \/ InitializeEnclave \/ InitializeFails \/ MallocBuffer
         \/ DivideByNum \/ BenchEnds \/ Destroy \/ Finished

LEMMA QuietKept ==
    ASSUME Quiet
    PROVE  UNCHANGED <<phase, n, good, inside, i>>
<1>1. CASE \/ ParseArguments \/ InitializeEnclave \/ InitializeFails \/ MallocBuffer
           \/ DivideByNum
  BY <1>1 DEF ParseArguments, InitializeEnclave, InitializeFails, MallocBuffer, DivideByNum,
      bench, inner
<1>2. CASE BenchEnds \/ Destroy \/ Finished
  BY <1>2 DEF BenchEnds, Destroy, Finished, vars, bench, inner
<1>. QED  BY <1>1, <1>2 DEF Quiet

LEMMA QuietProgress ==
    ASSUME Next, Quiet, Progress
    PROVE  Progress'
<1>1. UNCHANGED <<phase, n, good, inside, i>> /\ cmd' = cmd /\ faults \subseteq faults'
  BY QuietKept, GivenKept
<1>2. Current' = Current
  BY <1>1, PhaseKept
<1>3. \A name : Excused(name, faults) => Excused(name, faults)'
  BY <1>1, Zenon DEF Excused, AsAsked
<1>4. Fresh'
  BY <1>1, Zenon DEF Progress, Fresh
<1>5. EcallProgress'
  BY <1>1, <1>2, <1>3, Zenon DEF Progress, EcallProgress
<1>6. OcallProgress'
  BY <1>1, <1>2, <1>3, Zenon DEF Progress, OcallProgress
<1>7. AccessProgress'
  BY <1>1, <1>3, Zenon DEF Progress, AccessProgress
<1>. QED  BY <1>4, <1>5, <1>6, <1>7 DEF Progress

\* The access functions among the calls of memory_access_benchmark.
LEMMA AccessedStep ==
    ASSUME NEW k \in 0..5
    PROVE  Accessed(k + 1) = IF AccessCalls[k + 1] \in AccessFunctions
                             THEN Accessed(k) + 1 ELSE Accessed(k)
<1>1. /\ AccessCalls[1] \notin AccessFunctions /\ AccessCalls[4] \notin AccessFunctions
      /\ AccessCalls[2] \in AccessFunctions /\ AccessCalls[3] \in AccessFunctions
      /\ AccessCalls[5] \in AccessFunctions /\ AccessCalls[6] \in AccessFunctions
  BY DEF AccessCalls, AccessFunctions
<1>2. CASE k = 0
  BY <1>1, <1>2 DEF Accessed
<1>3. CASE k = 1
  BY <1>1, <1>3 DEF Accessed
<1>4. CASE k = 2
  BY <1>1, <1>4 DEF Accessed
<1>5. CASE k = 3
  BY <1>1, <1>5 DEF Accessed
<1>6. CASE k = 4
  BY <1>1, <1>6 DEF Accessed
<1>7. CASE k = 5
  BY <1>1, <1>7 DEF Accessed
<1>. QED  BY <1>2, <1>3, <1>4, <1>5, <1>6, <1>7

LEMMA EcallKeepsProgress ==
    ASSUME cmd.type \in Types, n \in Nat, Life, LossExplained, Progress, Next, Ecall
    PROVE  Progress'
<1>1. /\ pc = "bench" /\ phase \in DOMAIN Phases /\ inside = "none" /\ inside' = "none"
      /\ n < Calls /\ (lost \/ Callee \notin OcallLoops) /\ n' = n + 1 /\ phase' = phase
  BY DEF Ecall, InPhase, inner
<1>2. cmd' = cmd /\ Current' = Current /\ (AsAsked' <=> AsAsked)
  BY <1>1, GivenKept, PhaseKept DEF AsAsked
<1>3. \A name : Excused(name, faults) => Excused(name, faults)'
  BY <1>2, GivenKept, Zenon DEF Excused
<1>4. PICK outcome \in Outcomes(Callee) :
          /\ good' = IF outcome = "works" THEN good + 1 ELSE good
          /\ outcome = "fails" => Fault(Current.name)
  BY Zenon DEF Ecall
<1>5. cmd.type # "memory_management" =>
          \A name : ~Excused(name, faults) => AsAsked /\ ~lost
  BY Zenon DEF LossExplained, Excused
<1>6. n' # 0
  BY <1>1
<1>7. Fresh'
  BY <1>6, Zenon DEF Fresh
<1>8. EcallProgress'
  <2>1. SUFFICES ASSUME cmd.type = "switching", phase \in 2..5, ~Excused(Current.name, faults),
                        ~Excused(Current.name, faults)'
                 PROVE  good' = n'
    BY <1>1, <1>2, <1>3, Zenon DEF EcallProgress
  <2>2. AsAsked /\ ~lost /\ EcallPhase
    BY <1>1, <1>5, <2>1, CalleeKinds
  <2>3. Callee \in CopyingEcalls => ptr = "buffer"
    <3>1. Callee \in CopyingEcalls => "malloc" \notin faults
      BY <2>1, <2>2, Zenon DEF EcallPhase, Excused
    <3>. QED  BY <1>1, <2>1, <3>1, Zenon DEF Life
  <2>4. outcome \in {"works", "fails"}
    BY <1>1, <1>4, <2>2, <2>3, OutcomeFacts
  <2>5. outcome # "fails"
    <3>1. Fault(Current.name) => Current.name \in faults'
      BY DEF Fault
    <3>2. Current.name \notin faults'
      BY <1>2, <2>1, Zenon DEF Excused
    <3>. QED  BY <1>4, <3>1, <3>2
  <2>6. good = n
    BY <1>1, <2>1, Zenon DEF Progress, EcallProgress
  <2>. QED  BY <1>1, <1>4, <2>4, <2>5, <2>6
<1>9. OcallProgress'
  <2>1. SUFFICES ASSUME cmd.type = "switching", phase \in 6..9
                 PROVE  Excused(Current.name, faults)'
    BY <1>1, <1>2, Zenon DEF OcallProgress
  <2>2. Callee \in OcallLoops
    BY <1>1, <2>1, CalleeKinds, Zenon DEF OcallPhase
  <2>3. Excused(Current.name, faults)
    <3>1. cmd.type # "memory_management"
      BY <2>1
    <3>. QED  BY <1>1, <1>5, <2>2, <3>1, Zenon
  <2>. QED  BY <1>2, <1>3, <2>3, Zenon
<1>10. AccessProgress'
  <2>1. SUFFICES ASSUME cmd.type = "memory_access", phase \in DOMAIN MEM_SIZES,
                        ~Excused("access", faults)
                 PROVE  good' = Accessed(n + 1)
    BY <1>1, <1>2, <1>3, Zenon DEF AccessProgress
  <2>2. AsAsked /\ ~lost /\ AccessPhase
    BY <1>1, <1>5, <2>1, CalleeKinds, Zenon
  <2>3. Calls = 6
    BY <2>2, Zenon DEF AccessPhase
  <2>4. n \in 0..5
    BY <1>1, <2>3
  <2>5. Callee = AccessCalls[n + 1]
    BY <2>2, <2>4, Zenon DEF AccessPhase
  <2>6. outcome = IF Callee \in AccessFunctions THEN "works" ELSE "returns"
    BY <1>1, <1>4, <2>2, OutcomeFacts, Zenon
  <2>7. good = Accessed(n)
    BY <2>1, Zenon DEF Progress, AccessProgress
  <2>8. Accessed(n + 1) = IF Callee \in AccessFunctions THEN Accessed(n) + 1 ELSE Accessed(n)
    BY <2>4, <2>5, AccessedStep
  <2>. QED  BY <1>4, <2>6, <2>7, <2>8
<1>. QED  BY <1>7, <1>8, <1>9, <1>10 DEF Progress

LEMMA ProgressStep ==
    ASSUME cmd.type \in Types, n \in Nat, phase \in Nat \ {0}, good \in Nat, i \in 0..LOOPS,
           Life, Inside, LossExplained, Progress, Next
    PROVE  Progress'
<1>1. cmd' = cmd /\ Phases' = Phases /\ (phase' = phase => Current' = Current)
  BY GivenKept, PhaseKept
<1>2. \A name : Excused(name, faults) => Excused(name, faults)'
  BY <1>1, GivenKept, Zenon DEF Excused, AsAsked
<1>3. CASE Quiet
  BY <1>3, QuietProgress
<1>4. CASE Ecall
  BY <1>4, EcallKeepsProgress
<1>5. CASE EnterOcallLoop
  <2>1. n = 0 /\ phase \in 6..9 /\ cmd.type = "switching"
    BY <1>5, LoopPhase, Zenon DEF OcallPhase
  <2>2. inside = "none" /\ phase' = phase /\ good' = good /\ i' = 0
    BY <1>5, Zenon DEF EnterOcallLoop, InPhase
  <2>3. good = 0
    BY <2>1, <2>2, Zenon DEF Progress, Fresh
  <2>4. phase \notin 2..5 /\ cmd.type # "memory_access"
    BY <2>1
  <2>5. \/ inside' \in {"void", "buffer"}
        \/ inside' = "none" /\ n' # 0 /\ "enclave" \in faults'
    <3>1. \/ inside' \in {"void", "buffer"}
          \/ inside' = inside /\ n' = n + 1 /\ Fault("enclave")
      BY <1>5, Zenon DEF EnterOcallLoop
    <3>2. n + 1 # 0
      BY <2>1
    <3>. QED  BY <2>2, <3>1, <3>2 DEF Fault
  <2>6. Fresh' /\ EcallProgress' /\ AccessProgress'
    BY <1>1, <2>2, <2>3, <2>4, <2>5, Zenon DEF Fresh, EcallProgress, AccessProgress
  <2>7. OcallProgress'
    BY <1>1, <2>2, <2>3, <2>5, Zenon DEF OcallProgress, Excused
  <2>. QED  BY <2>6, <2>7 DEF Progress
<1>6. CASE Ocall
  <2>1. /\ inside # "none" /\ i' = i + 1 /\ phase' = phase /\ inside' = inside /\ n' = n
    BY <1>6 DEF Ocall
  <2>2. cmd.type = "switching" /\ phase \in 6..9
    BY <2>1, Zenon DEF Inside
  <2>3. phase \notin 2..5 /\ cmd.type # "memory_access"
    BY <2>2
  <2>5. good' = i' \/ Excused(Current.name, faults)'
    <3>1. CASE Excused(Current.name, faults)
      BY <1>1, <1>2, <2>1, <3>1, Zenon
    <3>2. CASE ~Excused(Current.name, faults)
      <4>1. good = i
        BY <2>1, <2>2, <3>2, Zenon DEF Progress, OcallProgress
      <4>2. good' = good + 1 \/ Fault(Current.name)
        BY <1>6, Zenon DEF Ocall
      <4>3. Fault(Current.name) => Excused(Current.name, faults)'
        <5>1. Fault(Current.name) => Current.name \in faults'
          BY DEF Fault
        <5>. QED  BY <1>1, <2>1, <5>1, Zenon DEF Excused
      <4>. QED  BY <2>1, <4>1, <4>2, <4>3, Zenon
    <3>. QED  BY <3>1, <3>2
  <2>6. Fresh' /\ EcallProgress' /\ AccessProgress'
    BY <1>1, <2>1, <2>3, Zenon DEF Fresh, EcallProgress, AccessProgress
  <2>7. OcallProgress'
    BY <1>1, <2>1, <2>5, Zenon DEF OcallProgress
  <2>. QED  BY <2>6, <2>7 DEF Progress
<1>7. CASE LeaveOcallLoop
  <2>1. /\ inside # "none" /\ i = LOOPS /\ inside' = "none" /\ n' = n + 1
        /\ phase' = phase /\ good' = good
    BY <1>7 DEF LeaveOcallLoop
  <2>2. cmd.type = "switching" /\ phase \in 6..9
    BY <2>1, Zenon DEF Inside
  <2>3. phase \notin 2..5 /\ cmd.type # "memory_access" /\ n' # 0
    BY <2>1, <2>2
  <2>4. good = LOOPS \/ Excused(Current.name, faults)
    BY <2>1, <2>2, Zenon DEF Progress, OcallProgress
  <2>5. Fresh' /\ EcallProgress' /\ AccessProgress'
    BY <1>1, <2>1, <2>3, Zenon DEF Fresh, EcallProgress, AccessProgress
  <2>6. OcallProgress'
    BY <1>1, <1>2, <2>1, <2>4 DEF OcallProgress
  <2>. QED  BY <2>5, <2>6 DEF Progress
<1>8. CASE LoseEnclave
  <2>1. phase' = phase /\ good' = good /\ inside' = "none" /\ "enclave" \in faults'
    BY <1>8 DEF LoseEnclave, Fault
  <2>2. \A name : Excused(name, faults)'
    BY <2>1, Zenon DEF Excused
  <2>3. n' = IF inside = "none" THEN n ELSE n + 1
    BY <1>8, Zenon DEF LoseEnclave
  <2>4. (inside = "none" /\ n' = n) \/ n' # 0
    BY <2>3
  <2>5. Fresh'
    BY <2>1, <2>4, Zenon DEF Progress, Fresh
  <2>6. EcallProgress' /\ AccessProgress' /\ OcallProgress'
    BY <2>1, <2>2, Zenon DEF EcallProgress, AccessProgress, OcallProgress
  <2>. QED  BY <2>5, <2>6 DEF Progress
<1>9. CASE PhaseEnds
  <2>1. n' = 0 /\ good' = 0 /\ inside' = "none"
    BY <1>9 DEF PhaseEnds, InPhase, inner
  <2>2. Accessed(0) = 0
    BY DEF Accessed
  <2>3. n' # 1
    BY <2>1
  <2>4. Fresh' /\ EcallProgress' /\ AccessProgress'
    BY <2>1, <2>2, Zenon DEF Fresh, EcallProgress, AccessProgress
  <2>5. OcallProgress'
    BY <2>1, <2>3, Zenon DEF OcallProgress
  <2>. QED  BY <2>4, <2>5 DEF Progress
<1>10. CASE Shortage
  <2>1. /\ phase' = phase /\ good' = good /\ inside' = inside /\ inside = "none"
        /\ n' = n \/ n' = n + 1
    BY <1>10, ShortageFacts
  <2>2. n' = n \/ n' # 0
    BY <2>1
  <2>3. Fresh'
    BY <2>1, <2>2, Zenon DEF Progress, Fresh
  <2>4. CASE cmd.type = "memory_management"
    BY <1>1, <2>3, <2>4 DEF Progress, EcallProgress, AccessProgress, OcallProgress
  <2>5. CASE "memalign" \in faults'
    <3>1. \A name : Excused(name, faults)'
      BY <2>5, Zenon DEF Excused
    <3>2. EcallProgress' /\ AccessProgress' /\ OcallProgress'
      BY <2>1, <3>1, Zenon DEF EcallProgress, AccessProgress, OcallProgress
    <3>. QED  BY <2>3, <3>2 DEF Progress
  <2>. QED  BY <1>10, <2>4, <2>5, ShortageFacts
<1>. QED  BY <1>3, <1>4, <1>5, <1>6, <1>7, <1>8, <1>9, <1>10 DEF Next, Running, Quiet, Shortage

LEMMA LossStep ==
    ASSUME cmd.type \in Types, n \in Nat, LossExplained, Next
    PROVE  LossExplained'
<1>1. cmd' = cmd /\ faults \subseteq faults'
  BY GivenKept
<1>2. AsAsked' <=> AsAsked
  BY <1>1, Zenon DEF AsAsked
<1>3. lost' => lost \/ "enclave" \in faults' \/ "memalign" \in faults'
               \/ cmd.type = "memory_management" \/ ~AsAsked
  <2>1. CASE Ecall
    <3>1. phase \in DOMAIN Phases
      BY <2>1 DEF Ecall, InPhase
    <3>2. PICK outcome \in Outcomes(Callee) : lost' = (lost \/ outcome = "crashes")
      BY <2>1, Zenon DEF Ecall
    <3>3. AsAsked => outcome # "crashes"
      BY <3>1, <3>2, OutcomeFacts
    <3>. QED  BY <3>2, <3>3, Zenon
  <2>2. CASE LoseEnclave \/ EnterOcallLoop
    <3>1. lost' = lost \/ Fault("enclave")
      BY <2>2, Zenon DEF LoseEnclave, EnterOcallLoop
    <3>2. Fault("enclave") => "enclave" \in faults'
      BY DEF Fault
    <3>. QED  BY <3>1, <3>2, Zenon
  <2>3. CASE Shortage
    BY <2>3, ShortageFacts, Zenon
  <2>4. CASE \/ ParseArguments \/ InitializeEnclave \/ InitializeFails \/ MallocBuffer
             \/ DivideByNum \/ Ocall \/ LeaveOcallLoop
    <3>1. lost' = lost \/ ~lost'
      BY <2>4, Zenon DEF ParseArguments, InitializeEnclave, InitializeFails, MallocBuffer,
          DivideByNum, Ocall, LeaveOcallLoop
    <3>. QED  BY <3>1, Zenon
  <2>5. CASE PhaseEnds \/ BenchEnds \/ Destroy \/ Finished
    <3>1. lost' = lost
      BY <2>5, Zenon DEF PhaseEnds, BenchEnds, Destroy, Finished, vars
    <3>. QED  BY <3>1, Zenon
  <2>. QED  BY <2>1, <2>2, <2>3, <2>4, <2>5 DEF Next, Running, Shortage
<1>. QED  BY <1>1, <1>2, <1>3 DEF LossExplained

LEMMA LinesStep ==
    ASSUME cmd.type \in Types, n \in Nat, Life, Progress, LinesMeanWhatTheySay, Next
    PROVE  LinesMeanWhatTheySay'
<1>0. CREATE_LOOPS \in Nat
  BY MainAssumption
<1>1. AsAsked' <=> AsAsked
  BY GivenKept, Zenon DEF AsAsked
<1>2. CASE line' = line
  BY <1>1, <1>2, Zenon DEF LinesMeanWhatTheySay
<1>3. CASE PhaseEnds
  <2>1. phase \in DOMAIN Phases /\ inside = "none" /\ n = Calls
    BY <1>3 DEF PhaseEnds, InPhase
  <2>2. line' = IF Current.name = "none" THEN line
                ELSE [name |-> Current.name, good |-> good, due |-> Current.due,
                      faults |-> faults]
    BY <1>3, Zenon DEF PhaseEnds, PrintLine
  <2>3. CASE WarmUp \/ ManagementPhase
    <3>1. Current.name = "none"
      BY <2>3 DEF WarmUp, ManagementPhase
    <3>. QED  BY <1>2, <2>2, <3>1
  <2>4. good = Current.due \/ Excused(Current.name, faults)
        => LinesMeanWhatTheySay'
    <3>1. CASE Current.name = "none"
      BY <1>2, <2>2, <3>1
    <3>2. CASE Current.name # "none"
      <4>1. /\ line'.name = Current.name /\ line'.good = good /\ line'.due = Current.due
            /\ line'.faults = faults
        BY <2>2, <3>2
      <4>2. CASE good = Current.due
        BY <4>1, <4>2, Zenon DEF LinesMeanWhatTheySay
      <4>3. CASE Excused(Current.name, faults)
        <5>1. CASE \/ Current.name \in faults \/ "enclave" \in faults
                   \/ "memalign" \in faults
          <6>1. line'.faults \cap {line'.name, "enclave", "memalign"} # {}
            BY <4>1, <5>1
          <6>. QED  BY <6>1, Zenon DEF LinesMeanWhatTheySay
        <5>2. CASE "malloc" \in faults /\ Current.name \in CopyingLines
          BY <4>1, <5>2, Zenon DEF LinesMeanWhatTheySay, CopyingLines
        <5>3. CASE ~AsAsked
          BY <1>1, <5>3, Zenon DEF LinesMeanWhatTheySay
        <5>. QED  BY <4>3, <5>1, <5>2, <5>3, Zenon DEF Excused
      <4>. QED  BY <4>2, <4>3, Zenon
    <3>. QED  BY <3>1, <3>2
  <2>5. CASE EcallPhase
    BY <2>1, <2>4, <2>5, Zenon DEF EcallPhase, Progress, EcallProgress
  <2>6. CASE OcallPhase
    BY <2>1, <2>4, <2>6, Zenon DEF OcallPhase, Progress, OcallProgress
  <2>7. CASE AccessPhase
    <3>1. Accessed(6) = 4
      BY DEF Accessed
    <3>. QED  BY <2>1, <2>4, <2>7, <3>1, Zenon DEF AccessPhase, Progress, AccessProgress
  <2>. QED  BY <2>1, <2>3, <2>5, <2>6, <2>7, PhaseKinds
<1>4. CASE Destroy /\ line' # line
  <2>1. global_eid \in 1..CREATE_LOOPS
    <3>1. pc = "destroy"
      BY <1>4 DEF Destroy
    <3>. QED  BY <3>1, Zenon DEF Life
  <2>2. ~(global_eid < CREATE_LOOPS)
    BY <1>4 DEF Destroy
  <2>3. line' = [name |-> "create_enclave", good |-> global_eid, due |-> CREATE_LOOPS,
                 faults |-> faults]
    BY <1>4 DEF Destroy, PrintLine
  <2>4. global_eid = CREATE_LOOPS
    BY <1>0, <2>1, <2>2
  <2>. QED  BY <2>3, <2>4 DEF LinesMeanWhatTheySay
<1>5. CASE \/ ParseArguments \/ InitializeEnclave \/ InitializeFails \/ MallocBuffer
           \/ DivideByNum \/ Ecall \/ EnterOcallLoop
  <2>1. line' = line
    BY <1>5 DEF ParseArguments, InitializeEnclave, InitializeFails, MallocBuffer, DivideByNum, Ecall,
        EnterOcallLoop, bench
  <2>. QED  BY <1>2, <2>1
<1>6. CASE Ocall \/ LeaveOcallLoop \/ BenchEnds \/ LoseEnclave \/ Finished
  <2>1. line' = line
    BY <1>6 DEF Ocall, LeaveOcallLoop, BenchEnds, LoseEnclave, Finished, vars, bench
  <2>. QED  BY <1>2, <2>1
<1>7. CASE Shortage
  <2>1. line' = line
    BY <1>7, ShortageFacts
  <2>. QED  BY <1>2, <2>1
<1>. QED  BY <1>2, <1>3, <1>4, <1>5, <1>6, <1>7 DEF Next, Running, Shortage

LEMMA InitProgress ==
    ASSUME Init
    PROVE  Progress /\ LossExplained /\ LinesMeanWhatTheySay
<1>1. Fresh
  BY DEF Init, Fresh
<1>2. phase = 1 /\ n = 0 /\ good = 0 /\ inside = "none"
  BY DEF Init
<1>3. EcallProgress /\ OcallProgress
  BY <1>2 DEF EcallProgress, OcallProgress
<1>4. AccessProgress
  BY <1>2 DEF AccessProgress, Accessed
<1>5. LossExplained
  BY DEF Init, LossExplained
<1>6. line.good = line.due
  BY DEF Init, NoLine
<1>. QED  BY <1>1, <1>3, <1>4, <1>5, <1>6 DEF Progress, LinesMeanWhatTheySay

LEMMA StepProgress ==
    ASSUME PInv, [Next]_vars
    PROVE  PInv'
<1>1. IInv'
  BY StepInvariant DEF PInv
<1>2. CASE Next
  <2>1. /\ cmd.type \in Types /\ n \in Nat /\ phase \in Nat \ {0} /\ good \in Nat
        /\ i \in 0..LOOPS /\ Life /\ Inside
    BY TypedFacts, Zenon DEF PInv, IInv, Typed
  <2>2. Progress' /\ LossExplained' /\ LinesMeanWhatTheySay'
    BY <1>2, <2>1, ProgressStep, LossStep, LinesStep, Zenon DEF PInv
  <2>. QED  BY <1>1, <2>2 DEF PInv
<1>3. CASE UNCHANGED vars
  <2>1. /\ UNCHANGED <<cmd, pc, lost, phase, n, good, line, inside, i, faults>>
    BY <1>3 DEF vars, given, bench, inner
  <2>2. Current' = Current
    BY <2>1, PhaseKept
  <2>3. \A name : Excused(name, faults)' <=> Excused(name, faults)
    BY <2>1, Zenon DEF Excused, AsAsked
  <2>4. Progress'
    BY <2>1, <2>2, <2>3, Zenon DEF PInv, Progress, Fresh, EcallProgress, OcallProgress,
        AccessProgress
  <2>5. LossExplained' /\ LinesMeanWhatTheySay'
    BY <2>1, Zenon DEF PInv, LossExplained, LinesMeanWhatTheySay, AsAsked
  <2>. QED  BY <1>1, <2>4, <2>5 DEF PInv
<1>. QED  BY <1>2, <1>3

THEOREM ProgressInvariant == Spec => []PInv
<1>1. Init => PInv
  BY InitInvariant, InitProgress DEF PInv
<1>. QED  BY <1>1, StepProgress, PTL DEF Spec

\* A printed time is that of as many crossings as it is divided by, or one of
\* the accidents that LinesMeanWhatTheySay names happened before.
THEOREM LinesMeanWhatTheySayAlways == Spec => []LinesMeanWhatTheySay
<1>1. PInv => LinesMeanWhatTheySay
  BY DEF PInv
<1>. QED  BY <1>1, ProgressInvariant, PTL
==============================================================================
