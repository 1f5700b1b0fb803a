---------------------------- MODULE MemoryAccess -----------------------------
(***************************************************************************)
(* seq_memory_access_benchmark and rand_memory_access_benchmark of the     *)
(* enclave, with the six access functions they choose from.  One call      *)
(* works on a memory of mem_size bytes, the trusted one ("t", in the       *)
(* enclave) or the untrusted one ("u", in the App), in blocks of           *)
(* block_size bytes, until it has accounted for bytes_need_access bytes.   *)
(*                                                                         *)
(* A memory is the number of accesses to each of its bytes (the values are *)
(* incremented and wrap, nothing reads them).  The functions for 1, 4 and  *)
(* 8 bytes differ in the type of the elements they increment and are one   *)
(* here.                                                                   *)
(*                                                                         *)
(* get_random is a deterministic generator: what it returns depends only   *)
(* on the number of calls since seed was last set to 0.  rnd holds its     *)
(* outputs as far as they are known, any value the first time.  Its signed *)
(* overflow is taken to wrap.                                              *)
(***************************************************************************)
EXTENDS Integers, Sequences, Functions

CONSTANTS Arguments,                    \* the calls that are made
          RandomValues                  \* what get_random can return

Memories == {"u", "t"}

Calls == [target : Memories, order : {"seq", "rand"},
          mem_size : Nat, bytes : Nat, block_size : Nat \ {0}]

\* memory_access_benchmark works on 4 MB at least, in blocks of 64 bytes at most.
ASSUME AccessAssumption ==
    /\ Arguments \in SUBSET Calls
    /\ \A c \in Arguments : c.block_size <= c.mem_size
    /\ RandomValues \in SUBSET Nat

VARIABLES
    mem,                    \* accesses to each byte of the two memories
    call,                   \* the arguments of the last call
    pc, need, i,            \* its control point, num_need_access, i or pos
    seed, rnd               \* get_random: calls since seed = 0, its outputs

vars == <<mem, call, pc, need, i, seed, rnd>>

\* The if chain on block_size, and the element type and step of its branches.
Supported(bs) == bs \in {1, 4} \/ bs % 8 = 0
Width(bs) == IF bs \in {1, 4} THEN bs ELSE 8
Step(bs)  == IF bs \in {1, 4} THEN 1 ELSE bs \div 8

\* Mutation: the 8-byte functions count elements, not blocks.
LengthInElements(c) == c.mem_size \div Width(c.block_size)

\* char_mem_len, i32_mem_len, i64_mem_len.
Length(c) == c.mem_size \div c.block_size

\* The bytes of the elements first .. first + step - 1.
Block(c, first) ==
    Width(c.block_size) * first
        .. Width(c.block_size) * (first + Step(c.block_size)) - 1

Touched(m, bytes) == [b \in DOMAIN m |-> IF b \in bytes THEN m[b] + 1 ELSE m[b]]

Init ==
    /\ call \in Arguments
    /\ mem = [x \in Memories |-> [b \in 0..call.mem_size-1 |-> 0]]
    /\ pc = "start" /\ need = 0 /\ i = 0
    /\ seed = 0 /\ rnd = <<>>
------------------------------------------------------------------------------
\* Mutation: the generator goes on where the last call left it.
SeedKept(c) == seed

\* rand_memory_access_benchmark sets seed to 0.
SeedAtStart(c) == IF c.order = "rand" THEN 0 ELSE seed

\* The call of one of the six functions, or the error message.
Begin(c) ==
    /\ call' = c
    /\ pc' = IF Supported(c.block_size) THEN "while" ELSE "returned"
    /\ need' = c.bytes \div c.block_size
    /\ i' = 0
    /\ seed' = SeedAtStart(c)
    /\ UNCHANGED <<mem, rnd>>

Start == pc = "start" /\ Begin(call)

\* Mutation: ++i in the 8-byte function.
AccessBlockNextElement ==
    /\ mem' = [mem EXCEPT ![call.target] = Touched(@, Block(call, i))]
    /\ need' = need - Step(call.block_size)
    /\ i' = i + 1
    /\ UNCHANGED <<call, seed, rnd>>

\* The elements from i on are incremented; in the for loop i is then advanced.
AccessBlock ==
    /\ mem' = [mem EXCEPT ![call.target] = Touched(@, Block(call, i))]
    /\ need' = need - Step(call.block_size)
    /\ i' = i + Step(call.block_size)
    /\ UNCHANGED <<call, seed, rnd>>

\* Mutation: one block too many is accessed when the count comes out even.
MoreOrEven == need >= 0

\* The condition of the while loops and of the for loops in them.
More == need > 0

\* Mutation: the last element is left out.
InMemoryShort == i < Length(call) - 1

\* The other condition of the for loops.
InMemory == i < Length(call)

SeqAccess ==
    /\ pc = "while" /\ call.order = "seq"
    /\ More /\ InMemory
    /\ AccessBlock
    /\ UNCHANGED pc

\* Mutation: i is not set to 0 again.
SeqRestartForgotten ==
    /\ pc = "while" /\ call.order = "seq"
    /\ More /\ ~InMemory
    /\ UNCHANGED vars

\* The for loop reached the end of the memory, the while loop starts it again.
SeqRestart ==
    /\ pc = "while" /\ call.order = "seq"
    /\ More /\ ~InMemory
    /\ i' = 0
    /\ UNCHANGED <<mem, call, pc, need, seed, rnd>>

\* get_random: an output seen before, or the next of the sequence.
Draw(v) ==
    /\ seed' = seed + 1
    /\ \/ seed < Len(rnd) /\ v = rnd[seed + 1] /\ UNCHANGED rnd
       \/ seed = Len(rnd) /\ rnd' = Append(rnd, v)

RandPosition ==
    /\ pc = "while" /\ call.order = "rand"
    /\ More
    /\ \E v \in RandomValues : Draw(v) /\ i' = v % Length(call)
    /\ pc' = "access"
    /\ UNCHANGED <<mem, call, need>>

RandAccess ==
    /\ pc = "access" /\ pc' = "while"
    /\ AccessBlock

Return ==
    /\ pc = "while" /\ pc' = "returned"
    /\ ~More
    /\ UNCHANGED <<mem, call, need, i, seed, rnd>>

AccessStep == SeqAccess \/ SeqRestart \/ RandPosition \/ RandAccess \/ Return

Finished == pc = "returned" /\ UNCHANGED vars

Next == Start \/ AccessStep \/ Finished

Spec == Init /\ [][Next]_vars

\* One thread runs the call and is not stopped.
FairSpec == Spec /\ WF_vars(Start \/ AccessStep)
------------------------------------------------------------------------------
\* Type invariant of the memories, the call and the generator.
TypeOK ==
    /\ call \in Arguments
    /\ mem \in [Memories -> [0..call.mem_size-1 -> Nat]]
    /\ pc \in {"start", "while", "access", "returned"}
    /\ need \in Int /\ i \in Nat
    /\ Supported(call.block_size) => need > -Step(call.block_size)
    /\ seed \in 0..Len(rnd) /\ rnd \in Seq(RandomValues)

\* The next access increments the elements from i on.
Accessing ==
    \/ pc = "access"
    \/ pc = "while" /\ call.order = "seq" /\ More /\ InMemory

\* No block reaches past the end of the memory: i < i64_mem_len bounds the
\* first element of a block of step elements, with i64_mem_len in blocks.
InBounds == Accessing => Block(call, i) \subseteq DOMAIN mem[call.target]

\* Sequential access goes through a part of the memory from its start and
\* accesses no byte of it a second time more than any other.
EvenPasses ==
    call.order = "seq" =>
        LET m == mem[call.target]
        IN  \A a, b \in DOMAIN m : a < b /\ m[b] > 0 => m[a] - m[b] \in {0, 1}

\* Bytes accessed, each as often as it was.
Processed == FoldFunction(+, 0, mem[call.target])

\* "while ( not all 4096MB memory has been processed )": when the call returns
\* it has processed bytes_need_access bytes, in whole blocks.
AllProcessed ==
    pc = "returned" /\ Supported(call.block_size) =>
        Processed \in call.bytes - call.block_size + 1 .. call.bytes

\* So it is when a block is one element, of 1, 4 or 8 bytes.
ElementsProcessed == call.block_size \in {1, 4, 8} => AllProcessed

\* "sequential process the memory": once more bytes than the memory has were
\* asked for, each of its blocks was accessed.
CoversMemory ==
    pc = "returned" /\ call.order = "seq" /\ call.bytes >= call.mem_size
        /\ Supported(call.block_size) =>
        \A b \in 0..call.mem_size - (call.mem_size % call.block_size) - 1 :
            mem[call.target][b] > 0

\* So it is when a block is one element.
ElementsCovered == call.block_size \in {1, 4, 8} => CoversMemory

\* The call returns.
Termination == <>(pc = "returned")
==============================================================================
