------------------------- MODULE MemoryAccessProofs --------------------------
(***************************************************************************)
(* Proofs about MemoryAccess for memories, blocks and numbers of bytes of  *)
(* every size: its type invariant, that no access is out of bounds, what a *)
(* sequential call passes over, and how much a call processes.             *)
(***************************************************************************)
EXTENDS MemoryAccess, FiniteSetTheorems, TLAPS

\* A position drawn at random is used while there is something left to access;
\* an unsupported block size never gets to the loops.
PositionInv ==
    /\ pc \in {"while", "access"} => Supported(call.block_size)
    /\ pc = "access" => i < Length(call) /\ More

IInv == TypeOK /\ PositionInv
------------------------------------------------------------------------------
\* A block is one element or several of 8 bytes.
LEMMA BlockShape ==
    ASSUME NEW c \in Calls, Supported(c.block_size)
    PROVE  LET bs == c.block_size
           IN  /\ Width(bs) \in Nat \ {0} /\ Step(bs) \in Nat \ {0}
               /\ Width(bs) * Step(bs) = bs
               /\ Width(bs) <= bs
<1>. DEFINE bs == c.block_size
<1>1. bs \in Nat \ {0}
  BY DEF Calls
<1>. HIDE DEF bs
<1>2. CASE bs \in {1, 4}
  BY <1>2 DEF Width, Step, bs
<1>3. CASE bs \notin {1, 4} /\ bs % 8 = 0
  <2>1. bs = 8 * (bs \div 8) /\ bs \div 8 \in Nat \ {0}
    BY <1>1, <1>3
  <2>. QED  BY <1>1, <1>3, <2>1 DEF Width, Step, bs
<1>. QED  BY <1>2, <1>3 DEF Supported, bs

\* The lengths count whole blocks that fit into the memory, at least one.
LEMMA LengthBound ==
    ASSUME NEW c \in Arguments
    PROVE  /\ c \in Calls /\ c.mem_size \in Nat /\ c.block_size \in Nat \ {0}
           /\ Length(c) \in Nat \ {0}
           /\ Length(c) * c.block_size <= c.mem_size
<1>. DEFINE m  == c.mem_size
            bs == c.block_size
<1>1. c \in Calls /\ m \in Nat /\ bs \in Nat \ {0} /\ bs <= m
  BY AccessAssumption DEF Calls
<1>. HIDE DEF m, bs
<1>. DEFINE q == m \div bs
            r == m % bs
<1>2. q \in Int /\ r \in 0..bs-1 /\ m = bs * q + r
  BY <1>1
<1>. HIDE DEF q, r
<1>3. bs * q \in Int /\ q * bs = bs * q /\ (q <= 0 => bs * q <= 0)
  BY <1>1, <1>2
<1>4. q > 0
  BY <1>1, <1>2, <1>3
<1>5. q * bs <= m
  BY <1>1, <1>2, <1>3
<1>. QED  BY <1>1, <1>2, <1>4, <1>5 DEF Length, m, bs, q

\* A block that starts at an element numbered below the number of blocks ends
\* inside the memory, whatever its size: elements are no larger than blocks.
LEMMA BlockInMemory ==
    ASSUME NEW c \in Arguments, Supported(c.block_size),
           NEW k \in Nat, k < Length(c)
    PROVE  Block(c, k) \subseteq 0..c.mem_size-1
<1>. DEFINE m  == c.mem_size
            bs == c.block_size
            w  == Width(c.block_size)
            s  == Step(c.block_size)
            l  == Length(c)
<1>1. /\ m \in Nat /\ bs \in Nat \ {0} /\ l \in Nat \ {0} /\ l * bs <= m
      /\ w \in Nat \ {0} /\ s \in Nat \ {0} /\ w * s = bs /\ w <= bs
  BY LengthBound, BlockShape
<1>2. Block(c, k) = w * k .. w * (k + s) - 1
  BY DEF Block
<1>. HIDE DEF m, bs, w, s, l
<1>3. w * (k + s) <= m
  <2>1. w * (k + s) = w * k + bs
    BY <1>1
  <2>2. w * k <= bs * k
    BY <1>1
  <2>3. bs * k + bs = bs * (k + 1)
    BY <1>1
  <2>4. k + 1 <= l
    BY <1>1 DEF l
  <2>5. bs * (k + 1) <= bs * l
    BY <1>1, <2>4
  <2>6. bs * l = l * bs
    BY <1>1
  <2>7. w * k \in Nat /\ bs * k \in Nat /\ bs * (k + 1) \in Nat /\ bs * l \in Nat
    BY <1>1
  <2>. HIDE <1>2
  <2>. QED  BY <1>1, <2>1, <2>2, <2>3, <2>5, <2>6, <2>7
<1>4. w * k \in Nat /\ w * (k + s) \in Nat
  BY <1>1
<1>. QED  BY <1>1, <1>2, <1>3, <1>4 DEF m
------------------------------------------------------------------------------
LEMMA InitInv == Init => IInv
<1>. SUFFICES ASSUME Init PROVE IInv
  OBVIOUS
<1>1. call \in Calls /\ (Supported(call.block_size) => Step(call.block_size) \in Nat \ {0})
  BY AccessAssumption, BlockShape DEF Init
<1>2. TypeOK
  BY <1>1 DEF Init, TypeOK
<1>. QED  BY <1>2 DEF Init, IInv, PositionInv

\* What AccessBlock does to the memories and the counters.
LEMMA AccessType ==
    ASSUME TypeOK, AccessBlock, More, Supported(call.block_size)
    PROVE  /\ mem' \in [Memories -> [0..call.mem_size-1 -> Nat]]
           /\ need' \in Int /\ need' > -Step(call.block_size)
           /\ i' \in Nat
<1>1. Step(call.block_size) \in Nat \ {0}
  BY AccessAssumption, BlockShape DEF TypeOK
<1>2. ASSUME NEW m \in [0..call.mem_size-1 -> Nat], NEW bytes
      PROVE  Touched(m, bytes) \in [0..call.mem_size-1 -> Nat]
  BY DEF Touched
<1>3. mem' \in [Memories -> [0..call.mem_size-1 -> Nat]]
  BY <1>2 DEF AccessBlock, TypeOK
<1>. QED  BY <1>1, <1>3 DEF AccessBlock, TypeOK, More

LEMMA DrawType ==
    ASSUME TypeOK, NEW v \in RandomValues, Draw(v)
    PROVE  seed' \in 0..Len(rnd') /\ rnd' \in Seq(RandomValues)
  BY DEF TypeOK, Draw

LEMMA StepInv ==
    ASSUME IInv, [Next]_vars
    PROVE  IInv'
<1>. USE DEF IInv
<1>1. CASE Start
  <2>. USE <1>1 DEF Start, Begin
  <2>1. call \in Calls /\ (Supported(call.block_size) => Step(call.block_size) \in Nat \ {0})
    BY AccessAssumption, BlockShape DEF TypeOK
  <2>2. need' \in Nat
    <3>1. \A a \in Nat, b \in Nat \ {0} : a \div b \in Nat
      OBVIOUS
    <3>. QED  BY <2>1, <3>1 DEF Calls
  <2>3. seed' \in 0..Len(rnd)
    BY DEF SeedAtStart, TypeOK
  <2>4. TypeOK'
    BY <2>1, <2>2, <2>3 DEF TypeOK
  <2>5. PositionInv'
    BY DEF PositionInv
  <2>. QED  BY <2>4, <2>5
<1>2. CASE SeqAccess
  <2>. USE <1>2 DEF SeqAccess
  <2>1. TypeOK'
    BY AccessType DEF TypeOK, PositionInv, AccessBlock
  <2>. QED  BY <2>1 DEF PositionInv, AccessBlock
<1>3. CASE SeqRestart
  BY <1>3 DEF SeqRestart, TypeOK, PositionInv
<1>4. CASE RandPosition
  <2>. USE <1>4 DEF RandPosition
  <2>1. PICK v \in RandomValues : Draw(v) /\ i' = v % Length(call)
    OBVIOUS
  <2>2. Length(call) \in Nat \ {0} /\ v \in Nat
    BY LengthBound, AccessAssumption DEF TypeOK
  <2>3. i' \in Nat /\ i' < Length(call)
    BY <2>1, <2>2
  <2>4. TypeOK'
    BY <2>1, <2>3, DrawType DEF TypeOK
  <2>5. Length(call)' = Length(call) /\ More'
    BY DEF More, Length
  <2>. QED  BY <2>3, <2>4, <2>5 DEF PositionInv
<1>5. CASE RandAccess
  <2>. USE <1>5 DEF RandAccess
  <2>1. TypeOK'
    BY AccessType DEF TypeOK, PositionInv, AccessBlock
  <2>. QED  BY <2>1 DEF PositionInv, AccessBlock
<1>6. CASE Return
  BY <1>6 DEF Return, TypeOK, PositionInv
<1>7. CASE UNCHANGED vars
  BY <1>7 DEF vars, TypeOK, PositionInv, More, Length
<1>. QED
  BY <1>1, <1>2, <1>3, <1>4, <1>5, <1>6, <1>7 DEF Next, AccessStep, Finished

THEOREM Invariance == Spec => []IInv
  BY InitInv, StepInv, PTL DEF Spec
------------------------------------------------------------------------------
\* Type correctness of the memories, the loop counters and the generator.
THEOREM TypeCorrect == Spec => []TypeOK
<1>1. IInv => TypeOK
  BY DEF IInv
<1>. QED  BY Invariance, <1>1, PTL

\* The access functions never increment an element outside the memory they were
\* given, for any memory that holds at least one block.
THEOREM InBoundsAlways == Spec => []InBounds
<1>1. IInv => InBounds
  <2>. SUFFICES ASSUME IInv, Accessing
                PROVE  Block(call, i) \subseteq DOMAIN mem[call.target]
    BY DEF InBounds
  <2>. USE DEF IInv
  <2>1. call \in Arguments /\ i \in Nat /\ Supported(call.block_size) /\ i < Length(call)
    BY DEF TypeOK, PositionInv, Accessing, InMemory
  <2>2. DOMAIN mem[call.target] = 0..call.mem_size-1
    BY <2>1, LengthBound DEF TypeOK, Calls
  <2>. QED  BY <2>1, <2>2, BlockInMemory
<1>. QED  BY Invariance, <1>1, PTL
------------------------------------------------------------------------------
Bytes == mem[call.target]

Untouched == \A b \in 0..call.mem_size-1 : Bytes[b] = 0

\* p passes over the first e elements are complete, another has come up to i.
Passes(p, e) ==
    \A b \in 0..call.mem_size-1 :
        Bytes[b] = IF b < Width(call.block_size) * i THEN p + 1
                   ELSE IF b < Width(call.block_size) * e THEN p ELSE 0

\* Blocks that a call is to access.
Asked == call.bytes \div call.block_size

\* A pass makes k steps: it ends with the first multiple of the step that is no
\* less than the number of blocks.  What is left to access is what was asked for
\* without the elements of the passes, one counted for a block.
PassInv ==
    LET s == Step(call.block_size)
    IN  \E p, k, j \in Nat :
            /\ Length(call) <= s * k /\ s * k < Length(call) + s
            /\ i = s * j /\ j <= k
            /\ Passes(p, s * k)
            /\ need = Asked - ((s * k) * p + i)

SeqInv ==
    call.order = "seq" =>
        /\ pc = "start" => Untouched
        /\ pc = "while" => PassInv
        /\ pc = "returned" => IF Supported(call.block_size) THEN PassInv /\ ~More ELSE Untouched
        /\ pc # "access"

\* Rounding up to a multiple.
LEMMA RoundUp ==
    ASSUME NEW l \in Nat, NEW s \in Nat \ {0}
    PROVE  \E k \in Nat : l <= s * k /\ s * k < l + s
<1>. DEFINE q == (l + s - 1) \div s
            r == (l + s - 1) % s
<1>1. q \in Int /\ r \in 0..s-1 /\ l + s - 1 = s * q + r
  OBVIOUS
<1>. HIDE DEF q, r
<1>2. s * q \in Int /\ l <= s * q /\ s * q < l + s
  BY <1>1
<1>3. q >= 0
  <2>1. q < 0 => s * q < 0
    BY <1>1
  <2>. QED  BY <1>1, <1>2, <2>1
<1>. QED  BY <1>1, <1>2, <1>3

LEMMA PassesKept ==
    ASSUME PassInv, UNCHANGED <<mem, call, i, need>>
    PROVE  PassInv'
  BY DEF PassInv, Passes, Bytes, Length, Asked

LEMMA PassBegins ==
    ASSUME TypeOK, Untouched, Supported(call.block_size),
           UNCHANGED <<mem, call>>, i' = 0, need' = Asked
    PROVE  PassInv'
<1>0. PICK s, w, l : s = Step(call.block_size) /\ w = Width(call.block_size) /\ l = Length(call)
  OBVIOUS
<1>1. s \in Nat \ {0} /\ w \in Nat \ {0} /\ l \in Nat
  BY <1>0, LengthBound, BlockShape DEF TypeOK
<1>2. PICK k \in Nat : l <= s * k /\ s * k < l + s
  BY <1>1, RoundUp
<1>3. s * 0 = 0 /\ w * 0 = 0
  BY <1>1
<1>4. Passes(0, s * k)'
  BY <1>0, <1>3 DEF Untouched, Passes, Bytes
<1>5. /\ i' = s * 0
      /\ s = Step(call'.block_size) /\ l = Length(call')
  BY <1>0, <1>3
<1>6. 0 \in Nat /\ 0 <= k
  OBVIOUS
<1>7. need' = Asked' - ((s * k) * 0 + i')
  <2>1. Asked \in Int /\ Asked' = Asked
    BY LengthBound DEF TypeOK, Asked, Calls
  <2>2. (s * k) * 0 = 0
    BY <1>1
  <2>. HIDE DEF Asked
  <2>. QED  BY <2>1, <2>2
<1>. QED  BY <1>2, <1>4, <1>5, <1>6, <1>7 DEF PassInv, Length

LEMMA PassGoesOn ==
    ASSUME TypeOK, PassInv, InMemory, Supported(call.block_size), AccessBlock
    PROVE  PassInv'
<1>0. PICK s, w, l : s = Step(call.block_size) /\ w = Width(call.block_size) /\ l = Length(call)
  OBVIOUS
<1>1. s \in Nat \ {0} /\ w \in Nat \ {0} /\ l \in Nat
  BY <1>0, LengthBound, BlockShape DEF TypeOK
<1>2. PICK p, k, j \in Nat :
          /\ l <= s * k /\ s * k < l + s
          /\ i = s * j /\ j <= k
          /\ Passes(p, s * k)
          /\ need = Asked - ((s * k) * p + i)
  BY <1>0 DEF PassInv
<1>3. i < l /\ i \in Nat /\ i' = i + s /\ call' = call
  BY <1>0 DEF InMemory, AccessBlock, TypeOK
<1>4. \A b \in 0..call.mem_size-1 :
          Bytes'[b] = IF b \in w * i .. w * (i + s) - 1 THEN Bytes[b] + 1 ELSE Bytes[b]
  BY <1>0, <1>3, AccessAssumption DEF AccessBlock, TypeOK, Touched, Block, Bytes, Calls
<1>5. j + 1 <= k /\ i' = s * (j + 1)
  <2>1. s * k > s * j /\ s * k \in Nat /\ s * j \in Nat
    BY <1>1, <1>2, <1>3
  <2>2. j < k
    <3>1. k <= j => s * k <= s * j
      BY <1>1
    <3>. QED  BY <2>1, <3>1
  <2>. QED  BY <1>1, <1>2, <1>3, <2>2
<1>6. Passes(p, s * k)'
  <2>1. w * (i + s) <= w * (s * k)
    <3>1. s * (j + 1) <= s * k
      BY <1>1, <1>5
    <3>2. i + s <= s * k /\ s * k \in Nat
      BY <1>1, <1>3, <1>5, <3>1
    <3>. QED  BY <1>1, <1>3, <3>2
  <2>2. w * i \in Nat /\ w * (i + s) \in Nat /\ w * (s * k) \in Nat /\ w * i <= w * (i + s)
    BY <1>1, <1>2, <1>3
  <2>3. ASSUME NEW b \in 0..call.mem_size-1
        PROVE  Bytes'[b] = IF b < w * (i + s) THEN p + 1
                           ELSE IF b < w * (s * k) THEN p ELSE 0
    <3>1. Bytes[b] = IF b < w * i THEN p + 1 ELSE IF b < w * (s * k) THEN p ELSE 0
      BY <1>0, <1>2 DEF Passes
    <3>2. b \in Int
      OBVIOUS
    <3>. QED  BY <1>4, <2>1, <2>2, <3>1, <3>2
  <2>. QED  BY <1>0, <1>3, <2>3 DEF Passes
<1>7. s = Step(call'.block_size) /\ l = Length(call')
  BY <1>0, <1>3
<1>8. j + 1 \in Nat
  OBVIOUS
<1>9. need' = Asked' - ((s * k) * p + i')
  <2>1. Asked \in Int /\ Asked' = Asked
    BY <1>3, LengthBound DEF TypeOK, Asked, Calls
  <2>2. (s * k) * p \in Int
    BY <1>1
  <2>3. need' = need - s
    BY <1>0 DEF AccessBlock
  <2>. QED  BY <1>1, <1>2, <1>3, <2>1, <2>2, <2>3
<1>. QED  BY <1>2, <1>5, <1>6, <1>7, <1>8, <1>9 DEF PassInv, Length

LEMMA PassEnds ==
    ASSUME TypeOK, PassInv, ~InMemory, Supported(call.block_size),
           UNCHANGED <<mem, call, need>>, i' = 0
    PROVE  PassInv'
<1>0. PICK s, w, l : s = Step(call.block_size) /\ w = Width(call.block_size) /\ l = Length(call)
  OBVIOUS
<1>1. s \in Nat \ {0} /\ w \in Nat \ {0} /\ l \in Nat
  BY <1>0, LengthBound, BlockShape DEF TypeOK
<1>2. PICK p, k, j \in Nat :
          /\ l <= s * k /\ s * k < l + s
          /\ i = s * j /\ j <= k
          /\ Passes(p, s * k)
          /\ need = Asked - ((s * k) * p + i)
  BY <1>0 DEF PassInv
<1>3. i >= l
  BY <1>0, <1>1 DEF InMemory, TypeOK
<1>4. j = k
  <2>1. j < k => s * (j + 1) <= s * k
    BY <1>1
  <2>2. s * (j + 1) = s * j + s /\ s * j \in Nat /\ s * k \in Nat
    BY <1>1
  <2>. QED  BY <1>1, <1>2, <1>3, <2>1, <2>2
<1>5. s * 0 = 0 /\ w * 0 = 0
  BY <1>1
<1>6. Passes(p + 1, s * k)'
  <2>1. \A b \in 0..call.mem_size-1 :
            Bytes[b] = IF b < w * (s * k) THEN p + 1 ELSE 0
    BY <1>0, <1>2, <1>4 DEF Passes
  <2>. QED  BY <1>0, <1>5, <2>1 DEF Passes, Bytes
<1>7. i' = s * 0 /\ s = Step(call'.block_size) /\ l = Length(call')
  BY <1>0, <1>5
<1>8. p + 1 \in Nat /\ 0 \in Nat /\ 0 <= k
  OBVIOUS
<1>9. need' = Asked' - ((s * k) * (p + 1) + i')
  <2>1. Asked \in Int /\ Asked' = Asked /\ need' = need
    BY LengthBound DEF TypeOK, Asked, Calls
  <2>2. s * k \in Int /\ (s * k) * (p + 1) = (s * k) * p + s * k /\ (s * k) * p \in Int
    BY <1>1
  <2>. QED  BY <1>2, <1>4, <2>1, <2>2
<1>. QED  BY <1>2, <1>6, <1>7, <1>8, <1>9 DEF PassInv, Length

LEMMA UntouchedKept ==
    ASSUME Untouched, UNCHANGED <<mem, call>>
    PROVE  Untouched'
  BY DEF Untouched, Bytes

LEMMA SeqInit == Init => SeqInv
  BY AccessAssumption DEF Init, SeqInv, Untouched, Bytes, Calls

LEMMA SeqStep ==
    ASSUME IInv, SeqInv, [Next]_vars
    PROVE  SeqInv'
<1>. SUFFICES ASSUME call.order = "seq", call' = call PROVE SeqInv'
  <2>1. call' = call
    BY DEF Next, Start, Begin, AccessStep, SeqAccess, SeqRestart, RandPosition, RandAccess,
           AccessBlock, Return, Finished, vars
  <2>. QED  BY <2>1 DEF SeqInv
<1>. USE DEF IInv
<1>1. CASE Start
  <2>. USE <1>1 DEF Start, Begin
  <2>1. Untouched
    BY DEF SeqInv
  <2>2. CASE Supported(call.block_size)
    <3>1. PassInv'
      BY <2>1, <2>2, PassBegins DEF Asked
    <3>. QED  BY <2>2, <3>1 DEF SeqInv
  <2>3. CASE ~Supported(call.block_size)
    BY <2>1, <2>3, UntouchedKept DEF SeqInv
  <2>. QED  BY <2>2, <2>3
<1>2. CASE SeqAccess
  <2>1. PassInv'
    BY <1>2, PassGoesOn DEF SeqAccess, SeqInv, PositionInv
  <2>. QED  BY <1>2, <2>1 DEF SeqAccess, SeqInv
<1>3. CASE SeqRestart
  <2>1. PassInv'
    BY <1>3, PassEnds DEF SeqRestart, SeqInv, PositionInv
  <2>. QED  BY <1>3, <2>1 DEF SeqRestart, SeqInv
<1>4. CASE RandPosition \/ RandAccess
  BY <1>4 DEF RandPosition, RandAccess, SeqInv
<1>5. CASE Return
  BY <1>5, PassesKept DEF Return, SeqInv, PositionInv, More
<1>6. CASE UNCHANGED vars
  BY <1>6, PassesKept, UntouchedKept DEF vars, SeqInv, More
<1>. QED
  BY <1>1, <1>2, <1>3, <1>4, <1>5, <1>6 DEF Next, AccessStep, Finished

\* Sequential access of any memory in blocks of any size goes over the same part
\* of it in every pass, from its first byte on, and skips nothing of that part.
THEOREM EvenPassesAlways == Spec => []EvenPasses
<1>1. IInv /\ SeqInv => EvenPasses
  <2>. SUFFICES ASSUME IInv, SeqInv, call.order = "seq",
                       NEW a \in DOMAIN Bytes, NEW b \in DOMAIN Bytes,
                       a < b, Bytes[b] > 0
                PROVE  Bytes[a] - Bytes[b] \in {0, 1}
    BY DEF EvenPasses, Bytes
  <2>1. a \in 0..call.mem_size-1 /\ b \in 0..call.mem_size-1
    BY AccessAssumption DEF IInv, TypeOK, Calls, Bytes
  <2>2. ~Untouched
    BY <2>1 DEF Untouched
  <2>3. PassInv
    BY <2>2 DEF SeqInv, IInv, TypeOK
  <2>4. PICK p, e \in Nat : Passes(p, e)
    <3>1. Step(call.block_size) \in Nat
      <4>1. \A n \in Nat : n \div 8 \in Nat
        OBVIOUS
      <4>. QED  BY <4>1, LengthBound DEF Step, IInv, TypeOK
    <3>2. \A k \in Nat : Step(call.block_size) * k \in Nat
      BY <3>1
    <3>. QED  BY <2>3, <3>2 DEF PassInv
  <2>5. Width(call.block_size) \in Nat /\ i \in Nat
    BY DEF Width, IInv, TypeOK
  <2>6. PICK lo, hi \in Nat : \A x \in 0..call.mem_size-1 :
            Bytes[x] = IF x < lo THEN p + 1 ELSE IF x < hi THEN p ELSE 0
    <3>1. Width(call.block_size) * i \in Nat /\ Width(call.block_size) * e \in Nat
      BY <2>5
    <3>. QED  BY <2>4, <3>1 DEF Passes
  <2>. QED  BY <2>1, <2>6
<1>. QED  BY Invariance, SeqInit, SeqStep, <1>1, PTL DEF Spec

\* The blocks end with the last whole one that fits into the memory.
LEMMA WholeBlocks ==
    ASSUME NEW c \in Arguments
    PROVE  c.block_size * Length(c) = c.mem_size - (c.mem_size % c.block_size)
<1>. DEFINE m  == c.mem_size
            bs == c.block_size
<1>1. m \in Nat /\ bs \in Nat \ {0}
  BY LengthBound
<1>. HIDE DEF m, bs
<1>2. m \div bs \in Int /\ m % bs \in Int /\ m = bs * (m \div bs) + (m % bs)
  BY <1>1
<1>3. bs * (m \div bs) \in Int
  BY <1>1, <1>2
<1>4. bs * (m \div bs) = m - (m % bs)
  BY <1>1, <1>2, <1>3
<1>. QED  BY <1>4 DEF Length, m, bs

\* A memory that is asked for in full is asked for block by block.
LEMMA AllBlocksAsked ==
    ASSUME TypeOK, call.bytes >= call.mem_size
    PROVE  Asked \in Int /\ Asked >= Length(call)
<1>. DEFINE m  == call.mem_size
            n  == call.bytes
            bs == call.block_size
<1>1. m \in Nat /\ n \in Nat /\ bs \in Nat \ {0} /\ n >= m
  BY LengthBound DEF TypeOK, Calls
<1>. HIDE DEF m, n, bs
<1>2. /\ m = bs * (m \div bs) + (m % bs) /\ m % bs \in 0..bs-1
      /\ n = bs * (n \div bs) + (n % bs) /\ n % bs \in 0..bs-1
      /\ m \div bs \in Int /\ n \div bs \in Int
  BY <1>1
<1>3. m \div bs <= n \div bs
  <2>. SUFFICES ASSUME n \div bs + 1 <= m \div bs PROVE FALSE
    BY <1>2
  <2>1. bs * (n \div bs + 1) <= bs * (m \div bs)
    BY <1>1, <1>2
  <2>2. bs * (n \div bs + 1) = bs * (n \div bs) + bs
    BY <1>1, <1>2
  <2>3. bs * (n \div bs) \in Int /\ bs * (m \div bs) \in Int
    BY <1>1, <1>2
  <2>. QED  BY <1>1, <1>2, <2>1, <2>2, <2>3
<1>. QED  BY <1>2, <1>3 DEF Asked, Length, m, n, bs

\* Sequential access in blocks of one element that asks for the whole memory
\* leaves no block of it out, however many passes it takes.
THEOREM ElementsCoveredAlways == Spec => []ElementsCovered
<1>1. IInv /\ SeqInv => ElementsCovered
  <2>. SUFFICES ASSUME IInv, SeqInv, call.block_size \in {1, 4, 8}, pc = "returned",
                       call.order = "seq", call.bytes >= call.mem_size,
                       NEW b \in 0..call.mem_size - (call.mem_size % call.block_size) - 1
                PROVE  Bytes[b] > 0
    BY DEF ElementsCovered, CoversMemory, Bytes
  <2>. DEFINE l == Length(call)
              w == call.block_size
  <2>1. /\ TypeOK /\ call \in Arguments /\ Supported(w)
        /\ Step(w) = 1 /\ Width(w) = w /\ w \in Nat /\ w > 0
    BY DEF IInv, TypeOK, Supported, Step, Width
  <2>2. l \in Nat /\ w * l = call.mem_size - (call.mem_size % w)
    BY <2>1, LengthBound, WholeBlocks
  <2>3. Asked \in Int /\ Asked >= l
    BY <2>1, AllBlocksAsked
  <2>4. PassInv /\ need <= 0
    BY <2>1 DEF SeqInv, More, TypeOK
  <2>. HIDE DEF l, w, Asked
  <2>5. PICK p, k, j \in Nat :
            /\ l <= 1 * k /\ 1 * k < l + 1
            /\ i = 1 * j /\ j <= k
            /\ Passes(p, 1 * k)
            /\ need = Asked - ((1 * k) * p + i)
    BY <2>1, <2>4 DEF PassInv, l, w
  <2>6. k = l /\ i \in Nat /\ i <= l /\ 1 * k = l
    BY <2>2, <2>5
  <2>7. p = 0 => i = l
    BY <2>2, <2>3, <2>4, <2>5, <2>6
  <2>8. b \in 0..call.mem_size-1 /\ b \in Nat /\ b < w * l
    <3>1. call.mem_size \in Nat /\ call.mem_size % w \in Nat
      BY <2>1, LengthBound DEF w
    <3>. QED  BY <2>2, <3>1 DEF w
  <2>9. Bytes[b] = IF b < w * i THEN p + 1 ELSE IF b < w * l THEN p ELSE 0
    BY <2>1, <2>5, <2>6, <2>8 DEF Passes, w
  <2>10. CASE p = 0
    BY <2>7, <2>8, <2>9, <2>10
  <2>11. CASE p # 0
    BY <2>5, <2>8, <2>9, <2>11
  <2>. QED  BY <2>10, <2>11
<1>. QED  BY Invariance, SeqInit, SeqStep, <1>1, PTL DEF Spec
------------------------------------------------------------------------------
(***************************************************************************)
(* Sums over a memory.  Processed is a fold, that is a recursive function  *)
(* on the sets of bytes.  It counts the accesses, a set that one access    *)
(* more makes larger by one element.                                       *)
(***************************************************************************)

Sum(m) == FoldFunction(+, 0, m)

\* The choice that the fold makes, and the functions that it may be.
Pick(s) == CHOOSE x \in s : TRUE

IsSum(g, m) ==
    g = [s \in SUBSET DOMAIN m |->
            IF s = {} THEN 0 ELSE m[Pick(s)] + g[s \ {Pick(s)}]]



\* Induction on finite sets, without a predicate as a parameter: a set of them
\* that is not empty has a smallest one.
LEMMA MinimalSubset ==
    ASSUME NEW S, IsFiniteSet(S), NEW T \in SUBSET SUBSET S, T # {}
    PROVE  \E x \in T : \A y \in T : y \subseteq x => y = x
<1>1. IsWellFoundedOn(StrictSubsetOrdering(S), FiniteSubsetsOf(S))
  BY FS_StrictSubsetOrderingWellFounded
<1>2. FiniteSubsetsOf(S) = SUBSET S
  BY FS_FiniteSubsetsOfFinite
<1>3. PICK x \in T : \A y \in T : ~(<<y, x>> \in StrictSubsetOrdering(S))
  BY <1>1, <1>2, WFMin, Zenon
<1>4. \A y \in T : y \subseteq x => y = x
  BY <1>3 DEF StrictSubsetOrdering
<1>. QED  BY <1>4

LEMMA PickIn ==
    ASSUME NEW s, s # {}
    PROVE  Pick(s) \in s
  BY DEF Pick

\* The accesses that m counts on the bytes s, numbered for each byte.
Accesses(m, s) == {p \in s \X Nat : p[2] \in 1..m[p[1]]}

LEMMA OneMoreByte ==
    ASSUME NEW D, NEW m \in [D -> Nat], NEW s \in SUBSET D, NEW x \in s,
           IsFiniteSet(Accesses(m, s \ {x}))
    PROVE  /\ IsFiniteSet(Accesses(m, s))
           /\ Cardinality(Accesses(m, s)) = m[x] + Cardinality(Accesses(m, s \ {x}))
<1>. DEFINE A == Accesses(m, s \ {x})
            B == {x} \X (1..m[x])
<1>1. m[x] \in Nat
  OBVIOUS
<1>2. IsFiniteSet(1..m[x]) /\ Cardinality(1..m[x]) = m[x]
  BY <1>1, FS_Interval
<1>3. IsFiniteSet({x}) /\ Cardinality({x}) = 1
  BY FS_Singleton
<1>4. IsFiniteSet(B) /\ Cardinality(B) = 1 * m[x]
  BY <1>2, <1>3, FS_Product
<1>5. Accesses(m, s) = A \cup B
  BY <1>1 DEF Accesses
<1>6. A \cap B = {}
  BY DEF Accesses
<1>7. IsFiniteSet(A \cup B) /\ Cardinality(A \cup B) = Cardinality(A) + Cardinality(B) - Cardinality({})
  <2>1. IsFiniteSet(A)
    OBVIOUS
  <2>. HIDE DEF A, B
  <2>2. /\ IsFiniteSet(A \cup B)
        /\ Cardinality(A \cup B) = Cardinality(A) + Cardinality(B) - Cardinality(A \cap B)
    BY <1>4, <2>1, FS_Union
  <2>. QED  BY <1>6, <2>2
<1>8. Cardinality({}) = 0
  BY FS_EmptySet
<1>9. Cardinality(A) \in Nat
  BY FS_CardinalityType
<1>. HIDE DEF A, B
<1>10. Cardinality(A \cup B) = m[x] + Cardinality(A)
  BY <1>1, <1>4, <1>7, <1>8, <1>9
<1>. QED  BY <1>5, <1>7, <1>10 DEF A

LEMMA NoBytes ==
    ASSUME NEW m
    PROVE  IsFiniteSet(Accesses(m, {})) /\ Cardinality(Accesses(m, {})) = 0
<1>1. Accesses(m, {}) = {}
  BY DEF Accesses
<1>. QED  BY <1>1, FS_EmptySet

LEMMA AccessesFinite ==
    ASSUME NEW D, IsFiniteSet(D), NEW m \in [D -> Nat], NEW s \in SUBSET D
    PROVE  IsFiniteSet(Accesses(m, s))
<1>. SUFFICES ASSUME ~IsFiniteSet(Accesses(m, s)) PROVE FALSE
  OBVIOUS
<1>. DEFINE T == {u \in SUBSET D : ~IsFiniteSet(Accesses(m, u))}
<1>1. T \in SUBSET SUBSET D /\ T # {}
  OBVIOUS
<1>2. PICK u \in T : \A v \in T : v \subseteq u => v = u
  <2>. HIDE DEF T
  <2>. QED  BY <1>1, MinimalSubset
<1>3. u # {} /\ u \in SUBSET D
  BY NoBytes
<1>4. PICK x : x \in u
  BY <1>3
<1>5. u \ {x} \in SUBSET D /\ u \ {x} # u /\ u \ {x} \subseteq u
  BY <1>3, <1>4
<1>6. IsFiniteSet(Accesses(m, u \ {x}))
  BY <1>2, <1>5
<1>. QED  BY <1>3, <1>4, <1>6, OneMoreByte

\* The numbers of accesses are a solution of the recursion of the fold, and every
\* solution is the number of accesses.
LEMMA SumExists ==
    ASSUME NEW D, IsFiniteSet(D), NEW m \in [D -> Nat]
    PROVE  IsSum([s \in SUBSET D |-> Cardinality(Accesses(m, s))], m)
<1>. DEFINE g == [s \in SUBSET D |-> Cardinality(Accesses(m, s))]
            h == [s \in SUBSET D |-> IF s = {} THEN 0 ELSE m[Pick(s)] + g[s \ {Pick(s)}]]
<1>1. ASSUME NEW s \in SUBSET D
      PROVE  g[s] = IF s = {} THEN 0 ELSE m[Pick(s)] + g[s \ {Pick(s)}]
  <2>1. CASE s = {}
    BY <2>1, NoBytes
  <2>2. CASE s # {}
    <3>1. Pick(s) \in s /\ s \ {Pick(s)} \in SUBSET D
      BY <2>2, PickIn
    <3>2. IsFiniteSet(Accesses(m, s \ {Pick(s)}))
      BY <3>1, AccessesFinite
    <3>3. Cardinality(Accesses(m, s)) = m[Pick(s)] + Cardinality(Accesses(m, s \ {Pick(s)}))
      BY <3>1, <3>2, OneMoreByte
    <3>. QED  BY <2>2, <3>1, <3>3
  <2>. QED  BY <2>1, <2>2
<1>2. g = h
  BY <1>1
<1>3. DOMAIN m = D
  OBVIOUS
<1>. QED  BY <1>2, <1>3 DEF IsSum

LEMMA SumIsCardinality ==
    ASSUME NEW D, IsFiniteSet(D), NEW m \in [D -> Nat], NEW g, IsSum(g, m)
    PROVE  g[D] = Cardinality(Accesses(m, D))
<1>. SUFFICES ASSUME g[D] # Cardinality(Accesses(m, D)) PROVE FALSE
  OBVIOUS
<1>. DEFINE T == {u \in SUBSET D : g[u] # Cardinality(Accesses(m, u))}
<1>0. \A s \in SUBSET D : g[s] = IF s = {} THEN 0 ELSE m[Pick(s)] + g[s \ {Pick(s)}]
  <2>1. DOMAIN m = D
    OBVIOUS
  <2>. DEFINE e(s) == IF s = {} THEN 0 ELSE m[Pick(s)] + g[s \ {Pick(s)}]
  <2>2. g = [s \in SUBSET D |-> e(s)]
    BY <2>1 DEF IsSum
  <2>. HIDE DEF e
  <2>3. \A s \in SUBSET D : g[s] = e(s)
    BY <2>2
  <2>. QED  BY <2>3 DEF e
<1>1. T \in SUBSET SUBSET D /\ T # {}
  OBVIOUS
<1>2. PICK u \in T : \A v \in T : v \subseteq u => v = u
  <2>. HIDE DEF T
  <2>. QED  BY <1>1, MinimalSubset
<1>3. u # {} /\ u \in SUBSET D
  BY <1>0, NoBytes
<1>4. Pick(u) \in u
  BY <1>3, PickIn
<1>5. u \ {Pick(u)} \in SUBSET D /\ u \ {Pick(u)} # u /\ u \ {Pick(u)} \subseteq u
  BY <1>3, <1>4
<1>6. g[u \ {Pick(u)}] = Cardinality(Accesses(m, u \ {Pick(u)}))
  BY <1>2, <1>5
<1>7. IsFiniteSet(Accesses(m, u \ {Pick(u)}))
  BY <1>5, AccessesFinite
<1>8. Cardinality(Accesses(m, u)) = m[Pick(u)] + Cardinality(Accesses(m, u \ {Pick(u)}))
  BY <1>3, <1>4, <1>7, OneMoreByte
<1>9. g[u] = m[Pick(u)] + g[u \ {Pick(u)}]
  BY <1>0, <1>3
<1>. QED  BY <1>2, <1>6, <1>8, <1>9

\* The fold of a memory is the number of accesses to its bytes.
LEMMA FoldIsCardinality ==
    ASSUME NEW D, IsFiniteSet(D), NEW m \in [D -> Nat]
    PROVE  Sum(m) = Cardinality(Accesses(m, D))
<1>1. Sum(m) = (CHOOSE g : IsSum(g, m))[D]
  BY DEF Sum, FoldFunction, FoldFunctionOnSet, MapThenFoldSet, IsSum, Pick
<1>2. IsSum(CHOOSE g : IsSum(g, m), m)
  BY SumExists
<1>. QED  BY <1>1, <1>2, SumIsCardinality

\* An access to each of the bytes B adds their number.
LEMMA TouchedCardinality ==
    ASSUME NEW D, IsFiniteSet(D), NEW m \in [D -> Nat], NEW B \in SUBSET D
    PROVE  Sum(Touched(m, B)) = Sum(m) + Cardinality(B)
<1>. DEFINE n == Touched(m, B)
            N == {p \in B \X Nat : p[2] = m[p[1]] + 1}
            f == [b \in B |-> <<b, m[b] + 1>>]
<1>1. n \in [D -> Nat] /\ \A b \in D : n[b] = IF b \in B THEN m[b] + 1 ELSE m[b]
  BY DEF Touched
<1>2. Accesses(n, D) = Accesses(m, D) \cup N
  <2>1. \A b \in D : m[b] \in Nat
    OBVIOUS
  <2>2. \A p : p \in Accesses(n, D) <=> p \in D \X Nat /\ p[2] \in 1..n[p[1]]
    BY DEF Accesses
  <2>3. \A p : p \in Accesses(m, D) <=> p \in D \X Nat /\ p[2] \in 1..m[p[1]]
    BY DEF Accesses
  <2>4. \A p : p \in N <=> p \in D \X Nat /\ p[1] \in B /\ p[2] = m[p[1]] + 1
    OBVIOUS
  <2>. HIDE DEF n, N
  <2>5. ASSUME NEW p \in D \X Nat
        PROVE  p[2] \in 1..n[p[1]] <=> p[2] \in 1..m[p[1]] \/ (p[1] \in B /\ p[2] = m[p[1]] + 1)
    <3>1. p[1] \in D /\ p[2] \in Nat /\ m[p[1]] \in Nat
      BY <2>1
    <3>2. CASE p[1] \in B
      BY <1>1, <3>1, <3>2
    <3>3. CASE p[1] \notin B
      BY <1>1, <3>1, <3>3
    <3>. QED  BY <3>2, <3>3
  <2>6. \A p : p \in Accesses(n, D) <=> p \in Accesses(m, D) \/ p \in N
    BY <2>2, <2>3, <2>4, <2>5
  <2>. QED  BY <2>6
<1>3. Accesses(m, D) \cap N = {}
  BY DEF Accesses
<1>4. f \in Bijection(B, N)
  <2>1. \A b \in B : m[b] \in Nat
    OBVIOUS
  <2>2. f \in [B -> N] /\ \A a, b \in B : f[a] = f[b] => a = b
    BY <2>1
  <2>3. \A p \in N : \E b \in B : f[b] = p
    <3>. SUFFICES ASSUME NEW p \in N PROVE f[p[1]] = p /\ p[1] \in B
      OBVIOUS
    <3>1. p \in B \X Nat /\ p[2] = m[p[1]] + 1
      OBVIOUS
    <3>2. p = <<p[1], p[2]>> /\ p[1] \in B
      BY <3>1
    <3>. QED  BY <3>1, <3>2
  <2>. HIDE DEF f, N
  <2>. QED  BY <2>2, <2>3 DEF Bijection, Injection, IsInjective, Surjection
<1>5. IsFiniteSet(B)
  BY FS_Subset
<1>6. IsFiniteSet(N) /\ Cardinality(N) = Cardinality(B)
  BY <1>4, <1>5, FS_Bijection DEF ExistsBijection
<1>7. IsFiniteSet(Accesses(m, D))
  BY AccessesFinite
<1>8. Cardinality(Accesses(m, D) \cup N) = Cardinality(Accesses(m, D)) + Cardinality(N) - Cardinality({})
  BY <1>3, <1>6, <1>7, FS_Union
<1>9. Cardinality({}) = 0 /\ Cardinality(Accesses(m, D)) \in Nat /\ Cardinality(B) \in Nat
  BY <1>5, <1>7, FS_EmptySet, FS_CardinalityType
<1>10. Cardinality(Accesses(n, D)) = Cardinality(Accesses(m, D)) + Cardinality(B)
  BY <1>2, <1>6, <1>8, <1>9
<1>. QED  BY <1>1, <1>10, FoldIsCardinality

\* A memory that was not accessed has no accesses.
LEMMA FoldUntouched ==
    ASSUME NEW D, IsFiniteSet(D), NEW m \in [D -> Nat], \A b \in D : m[b] = 0
    PROVE  Sum(m) = 0
<1>1. Accesses(m, D) = {}
  BY DEF Accesses
<1>. QED  BY <1>1, FS_EmptySet, FoldIsCardinality
------------------------------------------------------------------------------
\* Blocks of one element: the bytes of the blocks no longer needed have been
\* accessed.
SumInv ==
    /\ pc = "start" => Processed = 0
    /\ call.block_size \in {1, 4, 8} /\ pc \in {"while", "access", "returned"} =>
           Processed = call.block_size * (Asked - need)
    /\ pc = "returned" /\ Supported(call.block_size) => ~More

LEMMA MemoryFinite ==
    ASSUME TypeOK
    PROVE  /\ call \in Calls /\ call.target \in Memories /\ call.mem_size \in Nat
           /\ IsFiniteSet(0..call.mem_size-1)
           /\ mem[call.target] \in [0..call.mem_size-1 -> Nat]
           /\ Asked \in Nat /\ need \in Int
<1>1. call \in Calls /\ call.target \in Memories /\ call.mem_size \in Nat
      /\ call.bytes \in Nat /\ call.block_size \in Nat \ {0}
  BY AccessAssumption DEF TypeOK, Calls
<1>2. IsFiniteSet(0..call.mem_size-1)
  <2>1. 0 \in Int /\ call.mem_size-1 \in Int
    BY <1>1
  <2>. QED  BY <2>1, FS_Interval
<1>3. \A a \in Nat, b \in Nat \ {0} : a \div b \in Nat
  OBVIOUS
<1>. QED  BY <1>1, <1>2, <1>3 DEF TypeOK, Asked

LEMMA ProcessedSum ==
    /\ Processed = Sum(mem[call.target])
    /\ Processed' = Sum(mem'[call'.target])
    /\ UNCHANGED <<mem, call>> => Processed' = Processed /\ Asked' = Asked
<1>1. Processed = Sum(mem[call.target])
  BY DEF Processed, Sum
<1>2. (Processed = Sum(mem[call.target]))'
  BY <1>1, PTL
<1>. QED  BY <1>1, <1>2 DEF Asked

LEMMA SumInit == Init => SumInv
<1>. SUFFICES ASSUME Init PROVE SumInv
  OBVIOUS
<1>1. TypeOK
  BY InitInv DEF IInv
<1>2. Processed = 0
  BY <1>1, MemoryFinite, FoldUntouched, ProcessedSum DEF Init
<1>. QED  BY <1>2 DEF Init, SumInv

\* An access of one element adds its bytes, and one block less is needed.
LEMMA SumAccess ==
    ASSUME TypeOK, SumInv, AccessBlock, call.block_size \in {1, 4, 8},
           i < Length(call), pc \in {"while", "access"}
    PROVE  Processed' = call.block_size * (Asked - need')
<1>. DEFINE bs == call.block_size
            D  == 0..call.mem_size-1
            m  == mem[call.target]
            B  == Block(call, i)
<1>1. /\ bs \in Nat \ {0} /\ Step(bs) = 1 /\ Width(bs) = bs /\ Supported(bs)
      /\ i \in Nat /\ call \in Arguments
  BY DEF Step, Width, Supported, TypeOK
<1>2. B \in SUBSET D
  BY <1>1, BlockInMemory
<1>3. B = bs * i .. bs * (i + 1) - 1
  BY <1>1 DEF Block
<1>4. Cardinality(B) = bs
  <2>1. bs * i \in Int /\ bs * (i + 1) = bs * i + bs
    BY <1>1
  <2>. HIDE DEF bs, B
  <2>2. bs * i \in Int /\ bs * (i + 1) - 1 \in Int /\ ~(bs * i > bs * (i + 1) - 1)
    BY <1>1, <2>1
  <2>3. Cardinality(B) = (bs * (i + 1) - 1) - bs * i + 1
    BY <1>3, <2>2, FS_Interval
  <2>. QED  BY <1>1, <2>1, <2>3
<1>5. mem'[call.target] = Touched(m, B) /\ call' = call /\ need' = need - 1
  BY <1>1, MemoryFinite DEF AccessBlock, TypeOK
<1>6. Processed' = Processed + bs
  <2>1. Sum(Touched(m, B)) = Sum(m) + Cardinality(B)
    BY <1>2, MemoryFinite, TouchedCardinality
  <2>. QED  BY <1>4, <1>5, <2>1, ProcessedSum
<1>7. Processed = bs * (Asked - need)
  BY DEF SumInv
<1>8. Asked \in Int /\ need \in Int
  BY MemoryFinite
<1>. HIDE DEF bs, Asked
<1>9. bs * (Asked - need) + bs = bs * (Asked - (need - 1))
  BY <1>1, <1>8
<1>. QED  BY <1>5, <1>6, <1>7, <1>9 DEF bs

LEMMA SumStep ==
    ASSUME IInv, SumInv, [Next]_vars
    PROVE  SumInv'
<1>. USE DEF IInv
<1>1. CASE Start
  <2>1. /\ pc = "start" /\ pc' \in {"while", "returned"} /\ need' = Asked
        /\ pc' = "returned" => ~Supported(call.block_size)
        /\ UNCHANGED <<mem, call>>
    BY <1>1 DEF Start, Begin, Asked
  <2>2. Processed = 0 /\ Processed' = 0 /\ Asked' = Asked
    BY <2>1, ProcessedSum DEF SumInv
  <2>3. call.block_size * (Asked - Asked) = 0
    BY MemoryFinite DEF Calls
  <2>. QED  BY <2>1, <2>2, <2>3 DEF SumInv
<1>2. CASE SeqAccess
  <2>1. pc = "while" /\ pc' = "while" /\ AccessBlock /\ i < Length(call) /\ call' = call
    BY <1>2 DEF SeqAccess, InMemory, AccessBlock
  <2>. QED  BY <2>1, SumAccess DEF SumInv, Asked
<1>3. CASE SeqRestart
  BY <1>3, ProcessedSum DEF SeqRestart, SumInv
<1>4. CASE RandPosition
  BY <1>4, ProcessedSum DEF RandPosition, SumInv
<1>5. CASE RandAccess
  <2>1. pc = "access" /\ pc' = "while" /\ AccessBlock /\ i < Length(call) /\ call' = call
    BY <1>5 DEF RandAccess, AccessBlock, PositionInv
  <2>. QED  BY <2>1, SumAccess DEF SumInv, Asked
<1>6. CASE Return
  BY <1>6, ProcessedSum DEF Return, SumInv, More
<1>7. CASE UNCHANGED vars
  BY <1>7, ProcessedSum DEF vars, SumInv, More
<1>. QED
  BY <1>1, <1>2, <1>3, <1>4, <1>5, <1>6, <1>7 DEF Next, AccessStep, Finished

\* In blocks of one element, in sequence or at random, a call that returns has
\* accessed as many bytes as it was asked to, but for what is no whole block.
THEOREM ElementsProcessedAlways == Spec => []ElementsProcessed
<1>1. IInv /\ SumInv => ElementsProcessed
  <2>. SUFFICES ASSUME IInv, SumInv, call.block_size \in {1, 4, 8}, pc = "returned"
                PROVE  Processed \in call.bytes - call.block_size + 1 .. call.bytes
    BY DEF ElementsProcessed, AllProcessed
  <2>. DEFINE bs == call.block_size
              n  == call.bytes
  <2>1. /\ TypeOK /\ Supported(bs) /\ Step(bs) = 1
        /\ bs \in Nat \ {0} /\ n \in Nat
    BY MemoryFinite DEF IInv, Supported, Step, Calls
  <2>2. need = 0
    BY <2>1 DEF TypeOK, SumInv, More
  <2>3. Processed = bs * (Asked - 0)
    BY <2>2 DEF SumInv
  <2>4. Asked = n \div bs
    BY DEF Asked
  <2>. HIDE DEF bs, n, Asked
  <2>5. n = bs * (n \div bs) + (n % bs) /\ n % bs \in 0..bs-1 /\ n \div bs \in Int
    BY <2>1
  <2>6. bs * (n \div bs) \in Int
    BY <2>1, <2>5
  <2>7. bs * (n \div bs) \in n - bs + 1 .. n
    BY <2>1, <2>5, <2>6
  <2>. QED  BY <2>3, <2>4, <2>5, <2>7 DEF bs, n
<1>. QED  BY Invariance, InitInv, SumInit, SumStep, <1>1, PTL DEF Spec
==============================================================================
