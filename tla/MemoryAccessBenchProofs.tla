----------------------- MODULE MemoryAccessBenchProofs -----------------------
(***************************************************************************)
(* Proofs about MemoryAccessBench for any sizes, block sizes and heap:     *)
(* the enclave uses the App's buffer and its own memory only while they    *)
(* live, a heap for the largest memory is enough for all of them, and the  *)
(* two times that are compared are times of the same accesses.             *)
(***************************************************************************)
EXTENDS MemoryAccessBench, TLAPS

\* A call of an access function is that of the statement the App is at.
InCall ==
    pc # "idle" => at \in DOMAIN Ecall /\ ~crashed /\ call.target = Ecall[at][1]

\* The App's buffer from its allocation to its release, and the pointer to it.
Buffer ==
    /\ at = "prepare_u" => allocated = idx \/ (allocated = 0 /\ NDEBUG)
    /\ at \in {"seq_u", "rand_u"} /\ ~crashed =>
           allocated = idx /\ global_u_mem = allocated

\* What free and memalign have left of the enclave's heap: between them all of
\* it, else all but the block that global_t_mem points to; that is the memory of
\* the current size once memalign had room for it.
Held == IF global_t_mem = 0 THEN 0 ELSE MEM_SIZES[global_t_mem]

Heap ==
    /\ at \in {"memalign_t", "warm_t"} => ~crashed
    /\ heap = IF at = "memalign_t" THEN heap_size ELSE heap_size - Held
    /\ at = "warm_t" => global_t_mem = idx \/ (global_t_mem = 0 /\ MEM_SIZES[idx] > heap_size)
    /\ at \in {"seq_t", "rand_t"} /\ ~crashed => global_t_mem = idx

\* The memories are functions of their bytes, whatever was counted in them.
Memories == DOMAIN mem = {"u", "t"}

IInv == TypeOK /\ Memories /\ InCall /\ Buffer /\ Heap /\ EnclaveSurvives
------------------------------------------------------------------------------
Statements == {"alloc", "prepare_u", "seq_u", "rand_u", "free",
               "free_t", "memalign_t", "warm_t", "seq_t", "rand_t", "report", "end", "aborted"}

LEMMA AtStatement == {Body[n] : n \in DOMAIN Body} \cup {"end", "aborted"} = Statements
<1>1. DOMAIN Body = 1..11
  BY DEF Body
<1>2. \A n \in 1..11 : \/ n = 1 \/ n = 2 \/ n = 3 \/ n = 4 \/ n = 5 \/ n = 6
                       \/ n = 7 \/ n = 8 \/ n = 9 \/ n = 10 \/ n = 11
  OBVIOUS
<1>3. /\ Body[1] = "alloc" /\ Body[2] = "prepare_u" /\ Body[3] = "seq_u"
      /\ Body[4] = "rand_u" /\ Body[5] = "free" /\ Body[6] = "free_t"
      /\ Body[7] = "memalign_t" /\ Body[8] = "warm_t" /\ Body[9] = "seq_t"
      /\ Body[10] = "rand_t" /\ Body[11] = "report"
  BY DEF Body
<1>. HIDE DEF Body
<1>4. \A s : s \in {Body[n] : n \in DOMAIN Body} <=> \E n \in 1..11 : s = Body[n]
  BY <1>1
<1>5. \A s : s \in {Body[n] : n \in DOMAIN Body} <=> s \in Statements \ {"end", "aborted"}
  BY <1>2, <1>3, <1>4 DEF Statements
<1>. QED  BY <1>5 DEF Statements

LEMMA FollowFrom ==
    ASSUME Follow
    PROVE  \/ at = "alloc" /\ at' = "prepare_u"
           \/ at = "prepare_u" /\ at' = "seq_u"
           \/ at = "seq_u" /\ at' = "rand_u"
           \/ at = "rand_u" /\ at' = "free"
           \/ at = "free" /\ at' = "free_t"
           \/ at = "free_t" /\ at' = "memalign_t"
           \/ at = "memalign_t" /\ at' = "warm_t"
           \/ at = "warm_t" /\ at' = "seq_t"
           \/ at = "seq_t" /\ at' = "rand_t"
           \/ at = "rand_t" /\ at' = "report"
<1>1. PICK n \in 1..10 : at = Body[n] /\ at' = Body[n + 1]
  BY DEF Follow, Body
<1>2. n = 1 \/ n = 2 \/ n = 3 \/ n = 4 \/ n = 5 \/ n = 6 \/ n = 7 \/ n = 8 \/ n = 9 \/ n = 10
  OBVIOUS
<1>. QED  BY <1>1, <1>2 DEF Body

LEMMA EcallTargets ==
    /\ DOMAIN Ecall = {"seq_u", "rand_u", "seq_t", "rand_t"}
    /\ Ecall["seq_u"][1] = "u" /\ Ecall["rand_u"][1] = "u"
    /\ Ecall["seq_t"][1] = "t" /\ Ecall["rand_t"][1] = "t"
  BY DEF Ecall

\* The last memory is the largest.
LEMMA LastIsLargest ==
    ASSUME NEW n \in DOMAIN MEM_SIZES
    PROVE  /\ MEM_SIZES[n] \in Nat \ {0}
           /\ MEM_SIZES[n] <= MEM_SIZES[Len(MEM_SIZES)]
           /\ MEM_SIZES[Len(MEM_SIZES)] \in Nat \ {0}
<1>1. /\ MEM_SIZES \in Seq(Nat \ {0}) /\ DOMAIN MEM_SIZES = 1..Len(MEM_SIZES)
      /\ Len(MEM_SIZES) \in Nat
      /\ \A k, l \in DOMAIN MEM_SIZES : k < l => MEM_SIZES[k] < MEM_SIZES[l]
  BY BenchAssumption
<1>2. Len(MEM_SIZES) \in DOMAIN MEM_SIZES
  BY <1>1
<1>3. MEM_SIZES[n] \in Nat \ {0} /\ MEM_SIZES[Len(MEM_SIZES)] \in Nat \ {0}
  BY <1>1, <1>2
<1>4. n = Len(MEM_SIZES) \/ n < Len(MEM_SIZES)
  BY <1>1
<1>. QED  BY <1>1, <1>2, <1>3, <1>4

LEMMA WarmBytes == \A size : DOMAIN Warm(size) = 0..size-1
  BY DEF Warm
------------------------------------------------------------------------------
LEMMA InitInv == Init => IInv
<1>. SUFFICES ASSUME Init PROVE IInv
  OBVIOUS
<1>1. 1 \in DOMAIN MEM_SIZES
  BY BenchAssumption
<1>2. at \in {Body[n] : n \in DOMAIN Body} \cup {"end", "aborted"}
  BY AtStatement DEF Init, Statements
<1>3. DOMAIN mem = {"u", "t"} /\ DOMAIN mem["u"] = 0..0-1 /\ DOMAIN mem["t"] = 0..0-1
  BY WarmBytes DEF Init
<1>4. /\ allocated \in 0..Len(MEM_SIZES) /\ global_u_mem \in 0..Len(MEM_SIZES)
      /\ global_t_mem \in 0..Len(MEM_SIZES) /\ heap \in 0..heap_size
      /\ heap = heap_size - Held
  BY BenchAssumption DEF Init, Held
<1>5. TypeOK
  BY <1>1, <1>2, <1>3, <1>4 DEF Init, TypeOK
<1>. QED  BY <1>3, <1>4, <1>5 DEF Init, IInv, Memories, InCall, Buffer, Heap, EnclaveSurvives

\* A step of an access function leaves the bytes of the memories what they are.
LEMMA AccessStepType ==
    ASSUME Access!AccessStep, Memories
    PROVE  /\ pc \in {"while", "access"} /\ pc' \in {"while", "access", "returned"}
           /\ call' = call
           /\ DOMAIN mem' = DOMAIN mem
           /\ DOMAIN mem'["u"] = DOMAIN mem["u"] /\ DOMAIN mem'["t"] = DOMAIN mem["t"]
<1>1. ASSUME Access!AccessBlock
      PROVE  /\ call' = call /\ DOMAIN mem' = DOMAIN mem
             /\ DOMAIN mem'["u"] = DOMAIN mem["u"] /\ DOMAIN mem'["t"] = DOMAIN mem["t"]
  <2>1. \A m, bytes : DOMAIN Access!Touched(m, bytes) = DOMAIN m
    BY DEF Access!Touched
  <2>. QED  BY <1>1, <2>1 DEF Access!AccessBlock, Memories
<1>2. CASE Access!SeqAccess
  BY <1>1, <1>2 DEF Access!SeqAccess
<1>3. CASE Access!SeqRestart
  BY <1>3 DEF Access!SeqRestart
<1>4. CASE Access!RandPosition
  BY <1>4 DEF Access!RandPosition
<1>5. CASE Access!RandAccess
  BY <1>1, <1>5 DEF Access!RandAccess
<1>6. CASE Access!Return
  BY <1>6 DEF Access!Return
<1>. QED  BY <1>2, <1>3, <1>4, <1>5, <1>6 DEF Access!AccessStep

\* Where the benchmark goes on is a statement of its own.
LEMMA FollowType ==
    ASSUME Follow
    PROVE  at' \in {Body[n] : n \in DOMAIN Body} \cup {"end", "aborted"}
  BY FollowFrom, AtStatement DEF Statements

LEMMA PrepareUInv ==
    ASSUME IInv, PrepareU
    PROVE  IInv'
<1>. USE DEF IInv
<1>1. at = "prepare_u" /\ at' = "seq_u" /\ pc = "idle" /\ pc' = "idle"
  BY FollowFrom, EcallTargets DEF PrepareU, InCall
<1>2. allocated = idx \/ (allocated = 0 /\ NDEBUG)
  BY <1>1 DEF Buffer
<1>3. CASE crashed
  <2>1. UNCHANGED <<given, idx, allocated, uVars, tVars, crashed, mem, pc>>
    BY <1>3 DEF PrepareU
  <2>2. TypeOK'
    BY <2>1, FollowType DEF PrepareU, TypeOK, given, uVars, tVars
  <2>. QED
    BY <1>1, <1>3, <2>1, <2>2 DEF Memories, InCall, Buffer, Heap, Held, EnclaveSurvives, given, uVars, tVars
<1>4. CASE ~crashed
  <2>1. /\ global_u_mem' = allocated /\ global_u_mem_size' = MEM_SIZES[idx]
        /\ mem' = [mem EXCEPT !["u"] = Warm(MEM_SIZES[idx])]
        /\ crashed' = (allocated = 0)
        /\ UNCHANGED <<NDEBUG, heap_size, block_size, idx, allocated, heap, global_t_mem,
                       global_t_mem_size, pc>>
    BY <1>4 DEF PrepareU, given, tVars
  <2>2. /\ DOMAIN mem' = {"u", "t"}
        /\ DOMAIN mem'["u"] = 0..global_u_mem_size'-1 /\ mem'["t"] = mem["t"]
    BY <2>1, WarmBytes DEF Memories
  <2>3. crashed' \in BOOLEAN
    BY <2>1
  <2>4. TypeOK'
    BY <2>1, <2>2, <2>3, FollowType DEF PrepareU, TypeOK
  <2>5. ~crashed' => allocated' = idx'
    BY <1>2, <2>1
  <2>6. crashed' => NDEBUG' /\ global_u_mem' = 0
    <3>1. idx # 0
      BY BenchAssumption DEF TypeOK
    <3>. QED  BY <1>2, <2>1, <3>1
  <2>. QED
    BY <1>1, <2>1, <2>2, <2>4, <2>5, <2>6 DEF Memories, InCall, Buffer, Heap, Held, EnclaveSurvives
<1>. QED  BY <1>3, <1>4

LEMMA FreeTInv ==
    ASSUME IInv, FreeT
    PROVE  IInv'
<1>. USE DEF IInv
<1>1. /\ at = "free_t" /\ pc = "idle" /\ pc' = "idle"
      /\ UNCHANGED <<NDEBUG, heap_size, block_size, idx, allocated, crashed, mem, global_u_mem,
                     global_u_mem_size, global_t_mem, global_t_mem_size>>
  BY EcallTargets DEF FreeT, InCall, given, uVars, accessVars
<1>2. at' = IF crashed THEN "seq_t" ELSE "memalign_t"
  BY <1>1, FollowFrom DEF FreeT
<1>3. at' \in {Body[n] : n \in DOMAIN Body} \cup {"end", "aborted"}
  BY <1>2, AtStatement DEF Statements
<1>4. /\ heap_size \in Nat /\ heap \in 0..heap_size
      /\ global_t_mem # 0 => MEM_SIZES[global_t_mem] \in Nat
  BY BenchAssumption DEF TypeOK
<1>5. heap = heap_size - Held /\ Held' = Held
  BY <1>1 DEF Heap, Held
<1>6. heap' = IF crashed THEN heap ELSE heap_size
  BY <1>4, <1>5 DEF FreeT, Held
<1>7. heap' \in 0..heap_size
  BY <1>4, <1>6
<1>8. TypeOK'
  BY <1>1, <1>3, <1>7 DEF TypeOK
<1>9. Heap'
  BY <1>1, <1>2, <1>5, <1>6 DEF Heap
<1>. QED
  BY <1>1, <1>2, <1>8, <1>9 DEF Memories, InCall, Buffer, EnclaveSurvives

LEMMA MemalignTInv ==
    ASSUME IInv, MemalignT
    PROVE  IInv'
<1>. USE DEF IInv
<1>1. /\ at = "memalign_t" /\ at' = "warm_t" /\ pc = "idle" /\ pc' = "idle"
      /\ UNCHANGED <<NDEBUG, heap_size, block_size, idx, allocated, crashed, global_u_mem,
                     global_u_mem_size>>
      /\ global_t_mem_size' = MEM_SIZES[idx]
      /\ mem' = [mem EXCEPT !["t"] = Warm(MEM_SIZES[idx])]
  BY FollowFrom, EcallTargets DEF MemalignT, InCall, given, uVars
<1>2. /\ DOMAIN mem' = {"u", "t"}
      /\ DOMAIN mem'["t"] = 0..global_t_mem_size'-1 /\ mem'["u"] = mem["u"]
  BY <1>1, WarmBytes DEF Memories
<1>3. /\ heap_size \in Nat /\ heap = heap_size /\ ~crashed
      /\ idx \in 1..Len(MEM_SIZES) /\ idx # 0 /\ MEM_SIZES[idx] \in Nat
  BY <1>1, BenchAssumption DEF TypeOK, Heap
<1>4. \/ /\ MEM_SIZES[idx] <= heap_size
         /\ heap' = heap_size - MEM_SIZES[idx] /\ global_t_mem' = idx
      \/ /\ MEM_SIZES[idx] > heap_size
         /\ heap' = heap_size /\ global_t_mem' = 0
  BY <1>3 DEF MemalignT
<1>5. heap' \in 0..heap_size /\ global_t_mem' \in 0..Len(MEM_SIZES)
  BY <1>3, <1>4, BenchAssumption
<1>6. heap' = heap_size - Held'
  BY <1>1, <1>3, <1>4 DEF Held
<1>7. TypeOK'
  BY <1>1, <1>2, <1>5, FollowType DEF MemalignT, TypeOK
<1>8. Heap'
  BY <1>1, <1>3, <1>4, <1>6 DEF Heap
<1>. QED
  BY <1>1, <1>2, <1>7, <1>8 DEF Memories, InCall, Buffer, EnclaveSurvives

LEMMA WarmTInv ==
    ASSUME IInv, WarmT
    PROVE  IInv'
<1>. USE DEF IInv
<1>1. /\ at = "warm_t" /\ at' = "seq_t" /\ pc = "idle" /\ pc' = "idle"
      /\ UNCHANGED <<NDEBUG, heap_size, block_size, idx, allocated, mem, global_u_mem,
                     global_u_mem_size, heap, global_t_mem, global_t_mem_size>>
      /\ crashed' = (global_t_mem = 0)
  BY FollowFrom, EcallTargets DEF WarmT, InCall, given, uVars, tVars, accessVars
<1>2. crashed' \in BOOLEAN
  BY <1>1
<1>3. TypeOK'
  BY <1>1, <1>2, FollowType DEF WarmT, TypeOK
<1>4. Heap'
  BY <1>1 DEF Heap, Held
<1>5. crashed' => ~(heap_size >= MEM_SIZES[Len(MEM_SIZES)])
  <2>1. idx \in DOMAIN MEM_SIZES /\ idx # 0 /\ heap_size \in Nat
    BY BenchAssumption DEF TypeOK
  <2>2. /\ MEM_SIZES[idx] \in Nat /\ MEM_SIZES[Len(MEM_SIZES)] \in Nat
        /\ MEM_SIZES[idx] <= MEM_SIZES[Len(MEM_SIZES)]
    BY <2>1, LastIsLargest
  <2>3. crashed' => MEM_SIZES[idx] > heap_size
    BY <1>1, <2>1 DEF Heap
  <2>. QED  BY <2>1, <2>2, <2>3
<1>. QED
  BY <1>1, <1>3, <1>4, <1>5 DEF Memories, InCall, Buffer, EnclaveSurvives

LEMMA StepInv ==
    ASSUME IInv, [Next]_vars
    PROVE  IInv'
<1>. USE DEF IInv
<1>1. CASE HostAlloc
  <2>1. /\ at = "alloc" /\ pc = "idle"
        /\ UNCHANGED <<given, idx, uVars, tVars, crashed, accessVars>>
    BY <1>1, EcallTargets DEF HostAlloc, InCall
  <2>2. \/ allocated' = idx /\ at' = "prepare_u"
        \/ allocated' = 0 /\ NDEBUG /\ at' = "prepare_u"
        \/ allocated' = 0 /\ at' = "aborted"
    BY <1>1, FollowFrom DEF HostAlloc
  <2>3. at' \in {Body[n] : n \in DOMAIN Body} \cup {"end", "aborted"}
    BY <2>2, AtStatement DEF Statements
  <2>4. idx \in 0..Len(MEM_SIZES) /\ 0 \in 0..Len(MEM_SIZES)
    BY BenchAssumption DEF TypeOK
  <2>5. allocated' \in 0..Len(MEM_SIZES)
    BY <2>2, <2>4
  <2>6. TypeOK'
    BY <2>1, <2>3, <2>5 DEF TypeOK, given, uVars, tVars, accessVars
  <2>. QED
    BY <2>1, <2>2, <2>6 DEF Memories, InCall, Buffer, Heap, Held, EnclaveSurvives, given, uVars, tVars, accessVars
<1>2. CASE PrepareU
  BY <1>2, PrepareUInv
<1>3. CASE EnterAccess
  <2>1. /\ at \in DOMAIN Ecall /\ ~crashed
        /\ call'.target = Ecall[at][1] /\ pc' \in {"while", "returned"} /\ mem' = mem
        /\ UNCHANGED <<given, idx, at, allocated, uVars, tVars, crashed>>
    BY <1>3 DEF EnterAccess, Access!Begin, AccessCall
  <2>2. TypeOK'
    BY <2>1 DEF TypeOK, given, uVars, tVars
  <2>. QED
    BY <2>1, <2>2 DEF Memories, InCall, Buffer, Heap, Held, EnclaveSurvives, given, uVars, tVars
<1>4. CASE AccessRuns
  <2>1. UNCHANGED <<given, idx, at, allocated, uVars, tVars, crashed>>
    BY <1>4 DEF AccessRuns
  <2>2. /\ pc # "idle" /\ pc' \in {"while", "access", "returned"} /\ call' = call
        /\ DOMAIN mem' = DOMAIN mem
        /\ DOMAIN mem'["u"] = DOMAIN mem["u"] /\ DOMAIN mem'["t"] = DOMAIN mem["t"]
    BY <1>4, AccessStepType DEF AccessRuns
  <2>3. TypeOK'
    BY <2>1, <2>2 DEF TypeOK, given, uVars, tVars
  <2>. QED
    BY <2>1, <2>2, <2>3 DEF Memories, InCall, Buffer, Heap, Held, EnclaveSurvives, given, uVars, tVars
<1>5. CASE LeaveAccess
  <2>1. /\ pc' = "idle" /\ mem' = mem
        /\ UNCHANGED <<given, idx, allocated, uVars, tVars, crashed>>
    BY <1>5 DEF LeaveAccess
  <2>2. /\ at' \in {"rand_u", "free", "rand_t", "report"}
        /\ at' = "rand_u" => at = "seq_u"
        /\ at' = "rand_t" => at = "seq_t"
        /\ at # "memalign_t"
    BY <1>5, FollowFrom, EcallTargets DEF LeaveAccess
  <2>3. TypeOK'
    BY <1>5, <2>1, FollowType DEF LeaveAccess, TypeOK, given, uVars, tVars
  <2>. QED
    BY <2>1, <2>2, <2>3 DEF Memories, InCall, Buffer, Heap, Held, EnclaveSurvives, given, uVars, tVars
<1>6. CASE HostFree
  <2>1. /\ at = "free" /\ at' = "free_t" /\ pc = "idle" /\ allocated' = 0
        /\ UNCHANGED <<given, idx, uVars, tVars, crashed, accessVars>>
    BY <1>6, FollowFrom, EcallTargets DEF HostFree, InCall
  <2>2. 0 \in 0..Len(MEM_SIZES)
    BY BenchAssumption
  <2>3. TypeOK'
    BY <1>6, <2>1, <2>2, FollowType DEF HostFree, TypeOK, given, uVars, tVars, accessVars
  <2>. QED
    BY <2>1, <2>3 DEF Memories, InCall, Buffer, Heap, Held, EnclaveSurvives, given, uVars, tVars, accessVars
<1>7. CASE FreeT \/ MemalignT \/ WarmT
  BY <1>7, FreeTInv, MemalignTInv, WarmTInv
<1>8. CASE Report
  <2>1. /\ at = "report" /\ at' \in {"alloc", "end"} /\ pc = "idle"
        /\ UNCHANGED <<given, allocated, uVars, tVars, crashed, accessVars>>
    BY <1>8, EcallTargets DEF Report, InCall
  <2>2. idx' \in DOMAIN MEM_SIZES
    BY <1>8, BenchAssumption DEF Report, TypeOK
  <2>3. at' \in {Body[n] : n \in DOMAIN Body} \cup {"end", "aborted"}
    BY <2>1, AtStatement DEF Statements
  <2>4. TypeOK'
    BY <2>1, <2>2, <2>3 DEF TypeOK, given, uVars, tVars, accessVars
  <2>. QED
    BY <2>1, <2>4 DEF Memories, InCall, Buffer, Heap, Held, EnclaveSurvives, given, uVars, tVars, accessVars
<1>9. CASE UNCHANGED vars
  BY <1>9 DEF vars, given, uVars, tVars, accessVars, TypeOK, Memories, InCall, Buffer, Heap, Held, EnclaveSurvives
<1>. QED
  BY <1>1, <1>2, <1>3, <1>4, <1>5, <1>6, <1>7, <1>8, <1>9 DEF Next, Running, Finished

THEOREM Invariance == Spec => []IInv
  BY InitInv, StepInv, PTL DEF Spec
------------------------------------------------------------------------------
\* Type correctness of the benchmark and of the enclave's globals.
THEOREM TypeCorrect == Spec => []TypeOK
<1>1. IInv => TypeOK
  BY DEF IInv
<1>. QED  BY Invariance, <1>1, PTL

\* For any sizes and whatever fails, the enclave uses the address it was given
\* only while the App's buffer of the current size is allocated.
THEOREM HostMemoryAliveAlways == Spec => []HostMemoryAlive
<1>1. IInv => HostMemoryAlive
  <2>. SUFFICES ASSUME IInv, pc \in {"while", "access"}, call.target = "u"
                PROVE  allocated = idx /\ global_u_mem = allocated
    BY DEF HostMemoryAlive
  <2>1. at \in DOMAIN Ecall /\ ~crashed /\ Ecall[at][1] = "u"
    BY DEF IInv, InCall
  <2>2. at \in {"seq_u", "rand_u"}
    BY <2>1, EcallTargets
  <2>. QED  BY <2>1, <2>2 DEF IInv, Buffer
<1>. QED  BY Invariance, <1>1, PTL

\* For any sizes and any heap, the enclave accesses only the memory of the
\* current size, which is allocated, and no other is left on the heap.
THEOREM TrustedMemoryAliveAlways == Spec => []TrustedMemoryAlive
<1>1. IInv => TrustedMemoryAlive
  <2>. SUFFICES ASSUME IInv, pc \in {"while", "access"}, call.target = "t"
                PROVE  global_t_mem = idx /\ heap = heap_size - MEM_SIZES[idx]
    BY DEF TrustedMemoryAlive
  <2>1. at \in DOMAIN Ecall /\ ~crashed /\ Ecall[at][1] = "t"
    BY DEF IInv, InCall
  <2>2. at \in {"seq_t", "rand_t"} /\ idx # 0
    BY <2>1, EcallTargets, BenchAssumption DEF IInv, TypeOK
  <2>. QED  BY <2>1, <2>2 DEF IInv, Heap, Held
<1>. QED  BY Invariance, <1>1, PTL

\* A heap that holds the largest of the sizes never loses the enclave: each
\* memory is freed before the next one is allocated.
THEOREM EnclaveSurvivesAlways == Spec => []EnclaveSurvives
<1>1. IInv => EnclaveSurvives
  BY DEF IInv
<1>. QED  BY Invariance, <1>1, PTL
------------------------------------------------------------------------------
(***************************************************************************)
(* SameWork.  What an access ECALL does is determined by its arguments,    *)
(* the memory it finds and the outputs of get_random.  The two ECALLs on   *)
(* "u" leave behind the sequences of situations they went through; those   *)
(* on "t" go through the same ones, since get_random starts again at its   *)
(* first output, and so end where those ended.                             *)
(***************************************************************************)

\* The arguments of the ECALLs of the current size, whatever their memory.
Work(o) == [order |-> o, bytes |-> BYTES_NEED_ACCESS,
            mem_size |-> MEM_SIZES[idx], block_size |-> block_size]

\* The situation of the running call: a sequential one draws no output.
Situation ==
    [m |-> mem[call.target], pc |-> pc, need |-> need, i |-> i,
     seed |-> IF call.order = "rand" THEN seed ELSE 0]

\* The first situation of a call that finds the memory m0.
First(c, m0) ==
    [m |-> m0, pc |-> IF Access!Supported(c.block_size) THEN "while" ELSE "returned",
     need |-> c.bytes \div c.block_size, i |-> 0, seed |-> 0]

Accessed(c, w) ==
    [m |-> Access!Touched(w.m, Access!Block(c, w.i)), pc |-> "while",
     need |-> w.need - Access!Step(c.block_size),
     i |-> w.i + Access!Step(c.block_size), seed |-> w.seed]

\* The situation after w, when get_random returns the outputs r.
After(c, r, w) ==
    IF w.pc = "access" THEN Accessed(c, w)
    ELSE IF ~(w.need > 0)
    THEN [m |-> w.m, pc |-> "returned", need |-> w.need, i |-> w.i, seed |-> w.seed]
    ELSE IF c.order = "rand"
    THEN [m |-> w.m, pc |-> "access", need |-> w.need,
          i |-> r[w.seed + 1] % Access!Length(c), seed |-> w.seed + 1]
    ELSE IF w.i < Access!Length(c) THEN Accessed(c, w)
    ELSE [m |-> w.m, pc |-> w.pc, need |-> w.need, i |-> 0, seed |-> w.seed]

\* The output that w asks for is among those of r.
Drawn(c, r, w) ==
    c.order = "rand" /\ w.pc # "access" /\ w.need > 0 => w.seed + 1 \in 1..Len(r)

\* W is what a call went through, in K steps, since it found the memory m0.
Trace(c, r, m0, K, W) ==
    /\ K \in Nat /\ W[0] = First(c, m0)
    /\ \A n \in 0..K-1 : /\ W[n].pc # "returned" /\ Drawn(c, r, W[n])
                         /\ W[n + 1] = After(c, r, W[n])

\* A call that found m0 has come to w; has returned and left m1 behind; will
\* return, from w, and leave m1 behind.
Reached(c, r, m0, w) == \E K, W : Trace(c, r, m0, K, W) /\ W[K] = w

Completed(c, r, m0, m1) ==
    \E K, W : Trace(c, r, m0, K, W) /\ W[K].pc = "returned" /\ W[K].m = m1

Repeats(c, r, m0, m1, w) ==
    \E K, W : /\ Trace(c, r, m0, K, W) /\ W[K].pc = "returned" /\ W[K].m = m1
              /\ \E k \in 0..K : W[k] = w

Extends(r, s) ==
    /\ Len(r) \in Nat /\ Len(s) \in Nat /\ Len(r) <= Len(s)
    /\ \A k \in 1..Len(r) : s[k] = r[k]
------------------------------------------------------------------------------
LEMMA ReachedFirst ==
    ASSUME NEW c, NEW r, NEW m0
    PROVE  Reached(c, r, m0, First(c, m0))
<1>. DEFINE W == [n \in {0} |-> First(c, m0)]
<1>1. W[0] = First(c, m0)
  OBVIOUS
<1>2. \A n \in 0..0-1 : FALSE
  OBVIOUS
<1>. HIDE DEF W
<1>3. Trace(c, r, m0, 0, W)
  BY <1>1, <1>2 DEF Trace
<1>. QED  BY <1>1, <1>3 DEF Reached

LEMMA ReachedNext ==
    ASSUME NEW c, NEW r, NEW m0, NEW w, Reached(c, r, m0, w),
           w.pc # "returned", Drawn(c, r, w)
    PROVE  Reached(c, r, m0, After(c, r, w))
<1>1. PICK K, W : Trace(c, r, m0, K, W) /\ W[K] = w
  BY DEF Reached
<1>2. K \in Nat
  BY <1>1 DEF Trace
<1>. DEFINE V == [n \in 0..K+1 |-> IF n = K + 1 THEN After(c, r, w) ELSE W[n]]
<1>3. \A n \in 0..K : V[n] = W[n]
  BY <1>2
<1>4. V[K + 1] = After(c, r, w)
  BY <1>2
<1>. HIDE DEF V
<1>5. 0 \in 0..K /\ K \in 0..K /\ \A n \in 0..(K+1)-1 : n \in 0..K /\ (n = K \/ n \in 0..K-1)
  BY <1>2
<1>6. \A n \in 0..K-1 : n \in 0..K /\ n + 1 \in 0..K
  BY <1>2
<1>7. V[0] = First(c, m0)
  BY <1>1, <1>3, <1>5 DEF Trace
<1>8. ASSUME NEW n \in 0..(K+1)-1
      PROVE  V[n].pc # "returned" /\ Drawn(c, r, V[n]) /\ V[n + 1] = After(c, r, V[n])
  <2>1. CASE n = K
    BY <1>1, <1>3, <1>4, <1>5, <2>1
  <2>2. CASE n \in 0..K-1
    <3>1. V[n] = W[n] /\ V[n + 1] = W[n + 1]
      BY <1>3, <1>6, <2>2
    <3>2. W[n].pc # "returned" /\ Drawn(c, r, W[n]) /\ W[n + 1] = After(c, r, W[n])
      BY <1>1, <2>2 DEF Trace
    <3>. QED  BY <3>1, <3>2
  <2>. QED  BY <1>5, <2>1, <2>2
<1>9. K + 1 \in Nat
  BY <1>2
<1>10. Trace(c, r, m0, K + 1, V)
  BY <1>7, <1>8, <1>9 DEF Trace
<1>. QED  BY <1>4, <1>10 DEF Reached

LEMMA ReachedEnd ==
    ASSUME NEW c, NEW r, NEW m0, NEW w, Reached(c, r, m0, w), w.pc = "returned"
    PROVE  Completed(c, r, m0, w.m)
  BY DEF Reached, Completed

LEMMA RepeatsFirst ==
    ASSUME NEW c, NEW r, NEW m0, NEW m1, Completed(c, r, m0, m1)
    PROVE  Repeats(c, r, m0, m1, First(c, m0))
<1>1. PICK K, W : Trace(c, r, m0, K, W) /\ W[K].pc = "returned" /\ W[K].m = m1
  BY DEF Completed
<1>2. 0 \in 0..K /\ W[0] = First(c, m0)
  BY <1>1 DEF Trace
<1>. QED  BY <1>1, <1>2 DEF Repeats

\* Whoever repeats a call asks for no output that the call did not ask for, and
\* goes on as the call did.
LEMMA RepeatsNext ==
    ASSUME NEW c, NEW r, NEW m0, NEW m1, NEW w, Repeats(c, r, m0, m1, w),
           w.pc # "returned"
    PROVE  Drawn(c, r, w) /\ Repeats(c, r, m0, m1, After(c, r, w))
<1>1. PICK K, W : /\ Trace(c, r, m0, K, W) /\ W[K].pc = "returned" /\ W[K].m = m1
                  /\ \E k \in 0..K : W[k] = w
  BY DEF Repeats
<1>2. PICK k \in 0..K : W[k] = w
  BY <1>1
<1>3. K \in Nat /\ k # K
  BY <1>1, <1>2 DEF Trace
<1>4. k \in 0..K-1 /\ k + 1 \in 0..K
  BY <1>3
<1>5. Drawn(c, r, w) /\ W[k + 1] = After(c, r, w)
  BY <1>1, <1>2, <1>4 DEF Trace
<1>. QED  BY <1>1, <1>4, <1>5 DEF Repeats

LEMMA RepeatsEnd ==
    ASSUME NEW c, NEW r, NEW m0, NEW m1, NEW w, Repeats(c, r, m0, m1, w),
           w.pc = "returned"
    PROVE  w.m = m1
<1>1. PICK K, W : /\ Trace(c, r, m0, K, W) /\ W[K].pc = "returned" /\ W[K].m = m1
                  /\ \E k \in 0..K : W[k] = w
  BY DEF Repeats
<1>2. PICK k \in 0..K : W[k] = w
  BY <1>1
<1>3. K \in Nat
  BY <1>1 DEF Trace
<1>4. k = K \/ k \in 0..K-1
  BY <1>3
<1>5. k \notin 0..K-1
  BY <1>1, <1>2 DEF Trace
<1>. QED  BY <1>1, <1>2, <1>4, <1>5

\* The outputs that become known later do not matter to what was done.
LEMMA TraceExtends ==
    ASSUME NEW c, NEW r, NEW s, Extends(r, s), NEW m0, NEW K, NEW W, Trace(c, r, m0, K, W)
    PROVE  Trace(c, s, m0, K, W)
<1>1. ASSUME NEW w, Drawn(c, r, w)
      PROVE  Drawn(c, s, w) /\ After(c, s, w) = After(c, r, w)
  <2>1. CASE c.order = "rand" /\ w.pc # "access" /\ w.need > 0
    <3>1. w.seed + 1 \in 1..Len(r)
      BY <1>1, <2>1 DEF Drawn
    <3>2. w.seed + 1 \in 1..Len(s) /\ s[w.seed + 1] = r[w.seed + 1]
      BY <3>1 DEF Extends
    <3>. QED  BY <3>2 DEF Drawn, After
  <2>2. CASE ~(c.order = "rand" /\ w.pc # "access" /\ w.need > 0)
    BY <2>2 DEF Drawn, After
  <2>. QED  BY <2>1, <2>2
<1>. QED  BY <1>1 DEF Trace

LEMMA CompletedExtends ==
    ASSUME NEW r, NEW s, Extends(r, s)
    PROVE  \A c, m0, m1 : Completed(c, r, m0, m1) => Completed(c, s, m0, m1)
  BY TraceExtends DEF Completed

LEMMA ReachedExtends ==
    ASSUME NEW r, NEW s, Extends(r, s)
    PROVE  \A c, m0, w : Reached(c, r, m0, w) => Reached(c, s, m0, w)
  BY TraceExtends DEF Reached
------------------------------------------------------------------------------
\* get_random has returned the outputs in rnd, seed of them since its start.
Generator == rnd \in Seq(RandomValues) /\ seed \in 0..Len(rnd)

LEMMA DrawGenerator ==
    ASSUME Generator, NEW v \in RandomValues, Access!Draw(v)
    PROVE  /\ Generator' /\ Extends(rnd, rnd')
           /\ seed' = seed + 1 /\ seed + 1 \in 1..Len(rnd') /\ v = rnd'[seed + 1]
           /\ seed + 1 \in 1..Len(rnd) => rnd' = rnd
<1>1. CASE seed < Len(rnd) /\ v = rnd[seed + 1] /\ UNCHANGED rnd
  BY <1>1 DEF Generator, Access!Draw, Extends
<1>2. CASE seed = Len(rnd) /\ rnd' = Append(rnd, v)
  <2>1. /\ rnd' \in Seq(RandomValues) /\ Len(rnd') = Len(rnd) + 1 /\ Len(rnd) \in Nat
        /\ \A k \in 1..Len(rnd) : rnd'[k] = rnd[k]
        /\ rnd'[Len(rnd) + 1] = v
    BY <1>2 DEF Generator
  <2>2. seed' = seed + 1
    BY DEF Access!Draw
  <2>. QED  BY <1>2, <2>1, <2>2 DEF Generator, Extends
<1>. QED  BY <1>1, <1>2 DEF Access!Draw

\* Each step of an access function is the one that its situation determines,
\* and leaves the other memory alone.
LEMMA AccessStepSituation ==
    ASSUME Memories, Generator, Access!AccessStep,
           call.target \in {"u", "t"}, call.order \in {"seq", "rand"},
           NEW c, c.order = call.order, c.mem_size = call.mem_size,
           c.block_size = call.block_size
    PROVE  /\ Situation' = After(c, rnd', Situation)
           /\ pc # "returned" /\ Drawn(c, rnd', Situation)
           /\ Drawn(c, rnd, Situation) => rnd' = rnd
           /\ Generator' /\ Extends(rnd, rnd') /\ call' = call
           /\ \A x \in {"u", "t"} : x # call.target => mem'[x] = mem[x]
<1>1. /\ Access!Length(c) = Access!Length(call)
      /\ Access!Step(c.block_size) = Access!Step(call.block_size)
      /\ \A k : Access!Block(c, k) = Access!Block(call, k)
  BY DEF Access!Length, Access!Block
<1>2. call.order = "rand" <=> call.order # "seq"
  OBVIOUS
<1>3. ASSUME UNCHANGED rnd PROVE Extends(rnd, rnd')
  BY <1>3 DEF Extends, Generator
<1>4. ASSUME Access!AccessBlock, pc' = "while"
      PROVE  /\ Situation' = Accessed(c, Situation)
             /\ UNCHANGED <<call, seed, rnd>>
             /\ \A x \in {"u", "t"} : x # call.target => mem'[x] = mem[x]
  <2>1. /\ mem'[call.target] = Access!Touched(mem[call.target], Access!Block(call, i))
        /\ \A x \in {"u", "t"} : x # call.target => mem'[x] = mem[x]
        /\ need' = need - Access!Step(call.block_size)
        /\ i' = i + Access!Step(call.block_size)
        /\ UNCHANGED <<call, seed, rnd>>
    BY <1>4 DEF Access!AccessBlock, Memories
  <2>. QED  BY <1>1, <1>4, <2>1 DEF Situation, Accessed
<1>5. CASE Access!SeqAccess
  <2>1. /\ pc = "while" /\ pc' = "while" /\ call.order = "seq" /\ need > 0
        /\ i < Access!Length(call) /\ Access!AccessBlock
    BY <1>5 DEF Access!SeqAccess, Access!More, Access!InMemory
  <2>2. After(c, rnd', Situation) = Accessed(c, Situation)
    BY <1>1, <2>1 DEF After, Situation
  <2>. QED  BY <1>3, <1>4, <2>1, <2>2 DEF Drawn, Generator
<1>6. CASE Access!SeqRestart
  <2>1. /\ pc = "while" /\ call.order = "seq" /\ need > 0
        /\ ~(i < Access!Length(call)) /\ i' = 0
        /\ UNCHANGED <<mem, call, pc, need, seed, rnd>>
    BY <1>6 DEF Access!SeqRestart, Access!More, Access!InMemory
  <2>2. Situation' = After(c, rnd', Situation)
    BY <1>1, <2>1 DEF After, Situation
  <2>. QED  BY <1>3, <2>1, <2>2 DEF Drawn, Generator
<1>7. CASE Access!RandPosition
  <2>1. PICK v \in RandomValues : Access!Draw(v) /\ i' = v % Access!Length(call)
    BY <1>7 DEF Access!RandPosition
  <2>2. /\ pc = "while" /\ pc' = "access" /\ call.order = "rand" /\ need > 0
        /\ UNCHANGED <<mem, call, need>>
    BY <1>7 DEF Access!RandPosition, Access!More
  <2>3. /\ Generator' /\ Extends(rnd, rnd')
        /\ seed' = seed + 1 /\ seed + 1 \in 1..Len(rnd') /\ v = rnd'[seed + 1]
        /\ seed + 1 \in 1..Len(rnd) => rnd' = rnd
    BY <2>1, DrawGenerator
  <2>4. Situation.pc = "while" /\ Situation.need > 0 /\ Situation.seed = seed
    BY <2>2 DEF Situation
  <2>5. Situation' = After(c, rnd', Situation)
    BY <1>1, <2>1, <2>2, <2>3 DEF After, Situation
  <2>. QED  BY <2>2, <2>3, <2>4, <2>5 DEF Drawn
<1>8. CASE Access!RandAccess
  <2>1. pc = "access" /\ pc' = "while" /\ Access!AccessBlock
    BY <1>8 DEF Access!RandAccess
  <2>2. After(c, rnd', Situation) = Accessed(c, Situation) /\ Situation.pc = "access"
    BY <2>1 DEF After, Situation
  <2>. QED  BY <1>3, <1>4, <2>1, <2>2 DEF Drawn, Generator
<1>9. CASE Access!Return
  <2>1. /\ pc = "while" /\ pc' = "returned" /\ ~(need > 0)
        /\ UNCHANGED <<mem, call, need, i, seed, rnd>>
    BY <1>9 DEF Access!Return, Access!More
  <2>2. Situation' = After(c, rnd', Situation) /\ ~(Situation.need > 0)
    BY <2>1 DEF After, Situation
  <2>. QED  BY <1>3, <2>1, <2>2 DEF Drawn, Generator
<1>. QED  BY <1>5, <1>6, <1>7, <1>8, <1>9 DEF Access!AccessStep
------------------------------------------------------------------------------
Fresh == Warm(MEM_SIZES[idx])

\* The memories have the size that the loop is at.
Sizes ==
    ~crashed => /\ at \in {"seq_u", "rand_u"} => global_u_mem_size = MEM_SIZES[idx]
                /\ at \in {"warm_t", "seq_t", "rand_t"} => global_t_mem_size = MEM_SIZES[idx]

\* The running call is the one that the App's statement makes.
Called == pc # "idle" => call = AccessCall(Ecall[at][1], Ecall[at][2])

\* What has been done to the App's memory, and how far the enclave's memory
\* has followed.
UDone(m1) ==
    /\ Completed(Work("seq"), rnd, Fresh, m1)
    /\ Completed(Work("rand"), rnd, m1, mem["u"])

WorkDone ==
    \/ at \in {"alloc", "prepare_u", "end", "aborted"}
    \/ at = "seq_u" /\ pc = "idle" /\ mem["u"] = Fresh
    \/ at = "seq_u" /\ pc # "idle" /\ Reached(Work("seq"), rnd, Fresh, Situation)
    \/ at = "rand_u" /\ pc = "idle" /\ Completed(Work("seq"), rnd, Fresh, mem["u"])
    \/ /\ at = "rand_u" /\ pc # "idle"
       /\ \E m1 : /\ Completed(Work("seq"), rnd, Fresh, m1)
                  /\ Reached(Work("rand"), rnd, m1, Situation)
    \/ at \in {"free", "free_t", "memalign_t"} /\ pc = "idle" /\ \E m1 : UDone(m1)
    \/ at \in {"warm_t", "seq_t"} /\ pc = "idle" /\ mem["t"] = Fresh /\ \E m1 : UDone(m1)
    \/ /\ at = "seq_t" /\ pc # "idle"
       /\ \E m1 : UDone(m1) /\ Repeats(Work("seq"), rnd, Fresh, m1, Situation)
    \/ at = "rand_t" /\ pc = "idle" /\ Completed(Work("rand"), rnd, mem["t"], mem["u"])
    \/ /\ at = "rand_t" /\ pc # "idle"
       /\ \E m1 : Repeats(Work("rand"), rnd, m1, mem["u"], Situation)
    \/ at = "report" /\ mem["t"] = mem["u"]

WorkInv == Generator /\ Sizes /\ Called /\ (~crashed => WorkDone)

LEMMA InitWork == Init => WorkInv
<1>1. Init => Generator
  BY DEF Init, Generator
<1>. QED  BY <1>1 DEF Init, WorkInv, Sizes, Called, WorkDone

LEMMA EcallOrders ==
    /\ Ecall["seq_u"][2] = "seq" /\ Ecall["rand_u"][2] = "rand"
    /\ Ecall["seq_t"][2] = "seq" /\ Ecall["rand_t"][2] = "rand"
  BY DEF Ecall

\* The statements that make an access ECALL, with the memory and the order.
LEMMA EcallCases ==
    ASSUME at \in DOMAIN Ecall
    PROVE  \/ at = "seq_u" /\ Ecall[at][1] = "u" /\ Ecall[at][2] = "seq"
           \/ at = "rand_u" /\ Ecall[at][1] = "u" /\ Ecall[at][2] = "rand"
           \/ at = "seq_t" /\ Ecall[at][1] = "t" /\ Ecall[at][2] = "seq"
           \/ at = "rand_t" /\ Ecall[at][1] = "t" /\ Ecall[at][2] = "rand"
  BY EcallTargets, EcallOrders

\* A call starts in the first situation for the memory it finds.
LEMMA EnterSituation ==
    ASSUME WorkInv, EnterAccess
    PROVE  /\ Situation' = First(Work(Ecall[at][2]), mem[Ecall[at][1]])
           /\ Generator' /\ Called' /\ pc' # "idle"
           /\ UNCHANGED <<mem, rnd>>
<1>. DEFINE x == Ecall[at][1]
            o == Ecall[at][2]
<1>1. /\ call' = AccessCall(x, o) /\ UNCHANGED <<mem, rnd, at, idx, block_size, uVars, tVars>>
      /\ pc' = IF Access!Supported(block_size) THEN "while" ELSE "returned"
      /\ need' = BYTES_NEED_ACCESS \div block_size /\ i' = 0
      /\ seed' = IF o = "rand" THEN 0 ELSE seed
  BY DEF EnterAccess, Access!Begin, Access!SeedAtStart, AccessCall, given
<1>2. call'.target = x /\ call'.order = o
  BY <1>1 DEF AccessCall
<1>3. Situation' = First(Work(o), mem[x])
  BY <1>1, <1>2 DEF Situation, First, Work
<1>4. Generator'
  BY <1>1 DEF WorkInv, Generator
<1>5. Called' /\ pc' # "idle"
  BY <1>1 DEF Called, AccessCall, given, uVars, tVars
<1>. QED  BY <1>1, <1>3, <1>4, <1>5

LEMMA EnterWork ==
    ASSUME IInv, WorkInv, EnterAccess
    PROVE  WorkInv'
<1>1. /\ at \in DOMAIN Ecall /\ ~crashed /\ pc = "idle" /\ Work("seq")' = Work("seq")
      /\ Work("rand")' = Work("rand") /\ Fresh' = Fresh
      /\ UNCHANGED <<idx, at, uVars, tVars, crashed>>
  BY DEF EnterAccess, Work, Fresh, given
<1>2. /\ Situation' = First(Work(Ecall[at][2]), mem[Ecall[at][1]])
      /\ Generator' /\ Called' /\ pc' # "idle" /\ UNCHANGED <<mem, rnd>>
  BY EnterSituation
<1>3. Sizes'
  BY <1>1 DEF WorkInv, Sizes, given, uVars, tVars
<1>4. WorkDone
  BY <1>1 DEF WorkInv
<1>5. CASE at = "seq_u"
  <2>1. mem["u"] = Fresh /\ Situation' = First(Work("seq"), Fresh)
    BY <1>1, <1>2, <1>4, <1>5, EcallCases DEF WorkDone
  <2>. QED  BY <1>1, <1>2, <1>3, <1>5, <2>1, ReachedFirst DEF WorkInv, WorkDone
<1>6. CASE at = "rand_u"
  <2>1. /\ Completed(Work("seq"), rnd, Fresh, mem["u"])
        /\ Situation' = First(Work("rand"), mem["u"])
    BY <1>1, <1>2, <1>4, <1>6, EcallCases DEF WorkDone
  <2>. QED  BY <1>1, <1>2, <1>3, <1>6, <2>1, ReachedFirst DEF WorkInv, WorkDone
<1>7. CASE at = "seq_t"
  <2>1. mem["t"] = Fresh /\ Situation' = First(Work("seq"), Fresh)
    BY <1>1, <1>2, <1>4, <1>7, EcallCases DEF WorkDone
  <2>2. PICK m1 : UDone(m1)
    BY <1>1, <1>4, <1>7 DEF WorkDone
  <2>3. Repeats(Work("seq"), rnd, Fresh, m1, Situation')
    BY <2>1, <2>2, RepeatsFirst DEF UDone
  <2>4. UDone(m1)'
    BY <1>1, <1>2, <2>2 DEF UDone
  <2>. QED  BY <1>1, <1>2, <1>3, <1>7, <2>3, <2>4 DEF WorkInv, WorkDone
<1>8. CASE at = "rand_t"
  <2>1. /\ Completed(Work("rand"), rnd, mem["t"], mem["u"])
        /\ Situation' = First(Work("rand"), mem["t"])
    BY <1>1, <1>2, <1>4, <1>8, EcallCases DEF WorkDone
  <2>2. Repeats(Work("rand"), rnd, mem["t"], mem["u"], Situation')
    BY <2>1, RepeatsFirst
  <2>. QED  BY <1>1, <1>2, <1>3, <1>8, <2>2 DEF WorkInv, WorkDone
<1>. QED  BY <1>1, <1>5, <1>6, <1>7, <1>8, EcallTargets

\* The arguments of the running call are those of the current size.
LEMMA CallArguments ==
    ASSUME IInv, WorkInv, pc # "idle"
    PROVE  /\ at \in DOMAIN Ecall /\ ~crashed
           /\ call.target = Ecall[at][1] /\ call.order = Ecall[at][2]
           /\ call.mem_size = Work(call.order).mem_size
           /\ call.block_size = Work(call.order).block_size
           /\ Work(call.order).order = call.order
<1>1. at \in DOMAIN Ecall /\ ~crashed
  BY DEF IInv, InCall
<1>2. call = AccessCall(Ecall[at][1], Ecall[at][2])
  BY DEF WorkInv, Called
<1>3. call.target = Ecall[at][1] /\ call.order = Ecall[at][2] /\ call.block_size = block_size
  BY <1>2 DEF AccessCall
<1>4. call.mem_size = MEM_SIZES[idx]
  BY <1>1, <1>2, EcallCases DEF AccessCall, WorkInv, Sizes
<1>. QED  BY <1>1, <1>3, <1>4 DEF Work

LEMMA RunsWork ==
    ASSUME IInv, WorkInv, AccessRuns
    PROVE  WorkInv'
<1>. DEFINE o == Ecall[at][2]
<1>1. /\ Work("seq")' = Work("seq") /\ Work("rand")' = Work("rand") /\ Fresh' = Fresh
      /\ UNCHANGED <<block_size, idx, at, uVars, tVars, crashed>> /\ Access!AccessStep
  BY DEF AccessRuns, Work, Fresh, given
<1>2. pc # "idle" /\ pc' # "idle"
  BY <1>1, AccessStepType DEF IInv
<1>3. /\ at \in DOMAIN Ecall /\ ~crashed /\ call.target = Ecall[at][1] /\ call.order = o
      /\ call.mem_size = Work(o).mem_size /\ call.block_size = Work(o).block_size
      /\ Work(o).order = call.order
  BY <1>2, CallArguments
<1>4. call.target \in {"u", "t"} /\ call.order \in {"seq", "rand"}
  BY <1>3, EcallCases
<1>5. /\ Situation' = After(Work(o), rnd', Situation)
      /\ pc # "returned" /\ Drawn(Work(o), rnd', Situation)
      /\ Drawn(Work(o), rnd, Situation) => rnd' = rnd
      /\ Generator' /\ Extends(rnd, rnd') /\ call' = call
      /\ \A x \in {"u", "t"} : x # call.target => mem'[x] = mem[x]
  BY <1>1, <1>3, <1>4, AccessStepSituation DEF IInv, WorkInv
<1>6. Situation.pc # "returned"
  BY <1>5 DEF Situation
<1>7. Sizes' /\ Called'
  BY <1>1, <1>2, <1>5 DEF WorkInv, Sizes, Called, AccessCall, given, uVars, tVars
<1>8. WorkDone
  BY <1>3 DEF WorkInv
<1>9. /\ \A c, m0, m1 : Completed(c, rnd, m0, m1) => Completed(c, rnd', m0, m1)
      /\ \A c, m0, w : Reached(c, rnd, m0, w) => Reached(c, rnd', m0, w)
  BY <1>5, CompletedExtends, ReachedExtends
<1>10. CASE at = "seq_u"
  <2>1. o = "seq" /\ Reached(Work("seq"), rnd, Fresh, Situation)
    BY <1>2, <1>8, <1>10, EcallOrders DEF WorkDone
  <2>2. Reached(Work("seq"), rnd', Fresh, Situation')
    BY <1>5, <1>6, <1>9, <2>1, ReachedNext
  <2>. QED  BY <1>1, <1>2, <1>5, <1>7, <1>10, <2>2 DEF WorkInv, WorkDone
<1>11. CASE at = "rand_u"
  <2>1. PICK m1 : /\ Completed(Work("seq"), rnd, Fresh, m1)
                  /\ Reached(Work("rand"), rnd, m1, Situation)
    BY <1>2, <1>8, <1>11 DEF WorkDone
  <2>2. o = "rand"
    BY <1>11, EcallOrders
  <2>3. Reached(Work("rand"), rnd', m1, Situation')
    BY <1>5, <1>6, <1>9, <2>1, <2>2, ReachedNext
  <2>4. Completed(Work("seq"), rnd', Fresh, m1)
    BY <1>9, <2>1
  <2>. QED  BY <1>1, <1>2, <1>5, <1>7, <1>11, <2>3, <2>4 DEF WorkInv, WorkDone
<1>12. CASE at = "seq_t"
  <2>1. PICK m1 : UDone(m1) /\ Repeats(Work("seq"), rnd, Fresh, m1, Situation)
    BY <1>2, <1>8, <1>12 DEF WorkDone
  <2>2. o = "seq" /\ call.target = "t"
    BY <1>3, <1>12, EcallCases
  <2>3. /\ Drawn(Work("seq"), rnd, Situation)
        /\ Repeats(Work("seq"), rnd, Fresh, m1, After(Work("seq"), rnd, Situation))
    BY <1>6, <2>1, RepeatsNext
  <2>4. rnd' = rnd /\ mem'["u"] = mem["u"]
    BY <1>5, <2>2, <2>3
  <2>5. Repeats(Work("seq"), rnd', Fresh, m1, Situation') /\ UDone(m1)'
    BY <1>1, <1>5, <2>1, <2>2, <2>3, <2>4 DEF UDone
  <2>. QED  BY <1>1, <1>2, <1>5, <1>7, <1>12, <2>5 DEF WorkInv, WorkDone
<1>13. CASE at = "rand_t"
  <2>1. PICK m1 : Repeats(Work("rand"), rnd, m1, mem["u"], Situation)
    BY <1>2, <1>8, <1>13 DEF WorkDone
  <2>2. o = "rand" /\ call.target = "t"
    BY <1>3, <1>13, EcallCases
  <2>3. /\ Drawn(Work("rand"), rnd, Situation)
        /\ Repeats(Work("rand"), rnd, m1, mem["u"], After(Work("rand"), rnd, Situation))
    BY <1>6, <2>1, RepeatsNext
  <2>4. rnd' = rnd /\ mem'["u"] = mem["u"]
    BY <1>5, <2>2, <2>3
  <2>5. Repeats(Work("rand"), rnd', m1, mem'["u"], Situation')
    BY <1>5, <2>2, <2>3, <2>4
  <2>. QED  BY <1>1, <1>2, <1>5, <1>7, <1>13, <2>5 DEF WorkInv, WorkDone
<1>. QED  BY <1>3, <1>10, <1>11, <1>12, <1>13, EcallTargets

LEMMA LeaveWork ==
    ASSUME IInv, WorkInv, LeaveAccess
    PROVE  WorkInv'
<1>1. /\ at \in DOMAIN Ecall /\ Follow /\ pc' = "idle"
      /\ crashed \/ pc = "returned"
      /\ UNCHANGED <<block_size, idx, uVars, tVars, crashed, mem, call, seed, rnd>>
      /\ Work("seq")' = Work("seq") /\ Work("rand")' = Work("rand") /\ Fresh' = Fresh
  BY DEF LeaveAccess, Work, Fresh, given
<1>2. Generator' /\ Called'
  BY <1>1 DEF WorkInv, Generator, Called
<1>3. Sizes'
  BY <1>1, FollowFrom, EcallTargets DEF WorkInv, Sizes, given, uVars, tVars
<1>4. CASE crashed
  BY <1>1, <1>2, <1>3, <1>4 DEF WorkInv
<1>5. CASE ~crashed
  <2>1. WorkDone /\ pc = "returned"
    BY <1>1, <1>5 DEF WorkInv
  <2>2. Situation.pc = "returned" /\ Situation.m = mem[Ecall[at][1]]
    BY <2>1, CallArguments DEF Situation
  <2>3. CASE at = "seq_u"
    <3>1. at' = "rand_u" /\ Reached(Work("seq"), rnd, Fresh, Situation)
      BY <1>1, <2>1, <2>3, FollowFrom DEF WorkDone
    <3>2. Completed(Work("seq"), rnd, Fresh, mem["u"])
      BY <2>2, <2>3, <3>1, ReachedEnd, EcallTargets
    <3>. QED  BY <1>1, <1>2, <1>3, <3>1, <3>2 DEF WorkInv, WorkDone
  <2>4. CASE at = "rand_u"
    <3>1. PICK m1 : /\ Completed(Work("seq"), rnd, Fresh, m1)
                    /\ Reached(Work("rand"), rnd, m1, Situation)
      BY <2>1, <2>4 DEF WorkDone
    <3>2. at' = "free" /\ Completed(Work("rand"), rnd, m1, mem["u"])
      BY <1>1, <2>2, <2>4, <3>1, FollowFrom, ReachedEnd, EcallTargets
    <3>3. UDone(m1)'
      BY <1>1, <3>1, <3>2 DEF UDone
    <3>. QED  BY <1>1, <1>2, <1>3, <3>2, <3>3 DEF WorkInv, WorkDone
  <2>5. CASE at = "seq_t"
    <3>1. PICK m1 : UDone(m1) /\ Repeats(Work("seq"), rnd, Fresh, m1, Situation)
      BY <2>1, <2>5 DEF WorkDone
    <3>2. at' = "rand_t" /\ mem["t"] = m1
      BY <1>1, <2>2, <2>5, <3>1, FollowFrom, RepeatsEnd, EcallTargets
    <3>. QED  BY <1>1, <1>2, <1>3, <3>1, <3>2 DEF WorkInv, WorkDone, UDone
  <2>6. CASE at = "rand_t"
    <3>1. PICK m1 : Repeats(Work("rand"), rnd, m1, mem["u"], Situation)
      BY <2>1, <2>6 DEF WorkDone
    <3>2. at' = "report" /\ mem["t"] = mem["u"]
      BY <1>1, <2>2, <2>6, <3>1, FollowFrom, RepeatsEnd, EcallTargets
    <3>. QED  BY <1>1, <1>2, <1>3, <3>2 DEF WorkInv, WorkDone
  <2>. QED  BY <1>1, <2>3, <2>4, <2>5, <2>6, EcallTargets
<1>. QED  BY <1>4, <1>5

LEMMA PrepareTWork ==
    ASSUME IInv, WorkInv, FreeT \/ MemalignT \/ WarmT
    PROVE  WorkInv'
<1>1. /\ at \in {"free_t", "memalign_t", "warm_t"} /\ pc = "idle"
      /\ UNCHANGED <<block_size, idx, rnd, seed, pc, global_u_mem_size>>
  BY EcallTargets DEF FreeT, MemalignT, WarmT, given, uVars, accessVars, IInv, InCall
<1>2. /\ Work("seq")' = Work("seq") /\ Work("rand")' = Work("rand") /\ Fresh' = Fresh
  BY <1>1 DEF Work, Fresh
<1>3. /\ mem'["u"] = mem["u"]
      /\ at' = "memalign_t" => at = "free_t"
      /\ at' = "warm_t" => mem'["t"] = Fresh /\ global_t_mem_size' = MEM_SIZES[idx]
      /\ at' = "seq_t" /\ ~crashed' =>
             at = "warm_t" /\ UNCHANGED <<mem, global_t_mem_size>>
  BY <1>1, FollowFrom
     DEF FreeT, MemalignT, WarmT, tVars, accessVars, Fresh, IInv, Memories
<1>4. /\ at' \in {"memalign_t", "warm_t", "seq_t"}
      /\ ~crashed' => ~crashed
  BY <1>1, FollowFrom DEF FreeT, MemalignT, WarmT, IInv, Heap
<1>5. ASSUME ~crashed' PROVE WorkDone'
  <2>1. PICK m1 : UDone(m1)
    BY <1>1, <1>4, <1>5 DEF WorkInv, WorkDone
  <2>2. UDone(m1)'
    BY <1>1, <1>2, <1>3, <2>1 DEF UDone
  <2>3. at' = "seq_t" => mem'["t"] = Fresh'
    BY <1>1, <1>2, <1>3, <1>4, <1>5 DEF WorkInv, WorkDone
  <2>. QED  BY <1>1, <1>2, <1>3, <1>4, <2>2, <2>3 DEF WorkDone
<1>6. Sizes'
  <2>1. at' = "seq_t" /\ ~crashed' => global_t_mem_size' = MEM_SIZES[idx]
    BY <1>1, <1>3, <1>4 DEF WorkInv, Sizes
  <2>. QED  BY <1>1, <1>3, <1>4, <2>1 DEF Sizes
<1>. QED  BY <1>1, <1>5, <1>6 DEF WorkInv, Generator, Called

LEMMA StepWork ==
    ASSUME IInv, WorkInv, [Next]_vars
    PROVE  WorkInv'
<1>1. CASE HostAlloc
  <2>1. /\ at' \in {"prepare_u", "aborted"} /\ pc = "idle"
        /\ UNCHANGED <<rnd, seed, pc, crashed>>
    BY <1>1, FollowFrom, EcallTargets DEF HostAlloc, accessVars, IInv, InCall
  <2>. QED  BY <2>1 DEF WorkInv, Generator, Sizes, Called, WorkDone
<1>2. CASE PrepareU
  <2>1. /\ at = "prepare_u" /\ at' = "seq_u" /\ pc = "idle"
        /\ UNCHANGED <<idx, rnd, seed, pc>>
    BY <1>2, FollowFrom, EcallTargets DEF PrepareU, IInv, InCall
  <2>2. ~crashed' => global_u_mem_size' = MEM_SIZES[idx] /\ mem'["u"] = Fresh
    BY <1>2 DEF PrepareU, Fresh, IInv, Memories
  <2>3. Fresh' = Fresh
    BY <2>1 DEF Fresh
  <2>. QED  BY <2>1, <2>2, <2>3 DEF WorkInv, Generator, Sizes, Called, WorkDone
<1>3. CASE EnterAccess
  BY <1>3, EnterWork
<1>4. CASE AccessRuns
  BY <1>4, RunsWork
<1>5. CASE LeaveAccess
  BY <1>5, LeaveWork
<1>6. CASE HostFree
  <2>1. /\ at = "free" /\ at' = "free_t" /\ pc = "idle"
        /\ UNCHANGED <<block_size, idx, crashed, mem, rnd, seed, pc>>
    BY <1>6, FollowFrom, EcallTargets DEF HostFree, given, accessVars, IInv, InCall
  <2>2. /\ Work("seq")' = Work("seq") /\ Work("rand")' = Work("rand") /\ Fresh' = Fresh
    BY <2>1 DEF Work, Fresh
  <2>3. \A m1 : UDone(m1) => UDone(m1)'
    BY <2>1, <2>2 DEF UDone
  <2>. QED  BY <2>1, <2>3 DEF WorkInv, Generator, Sizes, Called, WorkDone
<1>7. CASE FreeT \/ MemalignT \/ WarmT
  BY <1>7, PrepareTWork
<1>8. CASE Report
  <2>1. /\ at' \in {"alloc", "end"} /\ pc = "idle" /\ UNCHANGED <<rnd, seed, pc, crashed>>
    BY <1>8, EcallTargets DEF Report, accessVars, IInv, InCall
  <2>. QED  BY <2>1 DEF WorkInv, Generator, Sizes, Called, WorkDone
<1>9. CASE UNCHANGED vars
  <2>1. WorkDone => WorkDone'
    BY <1>9 DEF vars, given, accessVars, WorkDone, UDone, Work, Fresh, Situation
  <2>. QED
    BY <1>9, <2>1 DEF vars, given, uVars, tVars, accessVars, WorkInv, Generator, Sizes, Called, AccessCall
<1>. QED
  BY <1>1, <1>2, <1>3, <1>4, <1>5, <1>6, <1>7, <1>8, <1>9 DEF Next, Running, Finished

\* Whatever the sizes, the block size and the outputs of get_random, the times
\* that are divided by one another are times of the same accesses.
THEOREM SameWorkAlways == Spec => []SameWork
<1>1. Init => IInv /\ WorkInv
  BY InitInv, InitWork
<1>2. IInv /\ WorkInv /\ [Next]_vars => (IInv /\ WorkInv)'
  BY StepInv, StepWork
<1>3. IInv /\ WorkInv => SameWork
  BY DEF WorkInv, WorkDone, SameWork
<1>. QED  BY <1>1, <1>2, <1>3, PTL DEF Spec
==============================================================================
