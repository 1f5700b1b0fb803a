------------------------ MODULE ThreadFunctionsProofs ------------------------
(***************************************************************************)
(* Proofs about ThreadFunctions for every number of calls, adders,         *)
(* consumers, loops and TCSs and every size of the buffer, whichever       *)
(* ECALLs fail and whenever the enclave is lost.  What was proved of the   *)
(* two halves is cited by name: A and B are the halves again with their    *)
(* lemmas.                                                                 *)
(***************************************************************************)
EXTENDS ThreadFunctions, FiniteSetTheorems, TLAPS

A == INSTANCE IncreaseCounterProofs WITH pc <- apc, i <- ai
B == INSTANCE CondBufferProofs WITH pc <- bpc, i <- bi

\* No thread is in the enclave, and abort() was not called.
Outside == tcs = {} /\ lost \in BOOLEAN /\ aborted = FALSE /\ global_mutex = NoOwner

\* The enclave's total after n calls' additions, and the App's copy of it.
Counted(n) ==
    /\ global_counter = n * A!Total
    /\ counter = IF global_counter = 0 THEN 0 ELSE A!Total

\* In its first call the adders behave as they do alone.  In later calls the
\* counter starts where the last call left it and the total is never met again.
AddingInv ==
    /\ round = 0 => A!IInv
    /\ round # 0 => A!QuietInv(round * A!Total)

\* Each half leaves behind what the other half, and the next call, starts from.
IInv ==
    /\ phase \in {"idle", "adding", "buffering"} /\ round \in Nat
    /\ phase = "idle"      => B!RingClean /\ Outside /\ Counted(round)
    /\ phase = "adding"    => B!RingClean /\ AddingInv
    /\ phase = "buffering" => B!IInv /\ global_mutex = NoOwner /\ Counted(round + 1)
------------------------------------------------------------------------------
\* Finite sets and their sizes are the same in every instance.
LEMMA SameSets ==
    ASSUME NEW S
    PROVE  /\ A!IsFiniteSet(S) <=> IsFiniteSet(S)
           /\ B!IsFiniteSet(S) <=> IsFiniteSet(S)
           /\ A!Cardinality(S) = Cardinality(S)
           /\ B!Cardinality(S) = Cardinality(S)
           /\ Adding!Cardinality(S) = Cardinality(S)
           /\ Buffering!Cardinality(S) = Cardinality(S)
<1>1. (A!IsFiniteSet(S) <=> IsFiniteSet(S)) /\ (B!IsFiniteSet(S) <=> IsFiniteSet(S))
  BY DEF IsFiniteSet, A!IsFiniteSet, B!IsFiniteSet
<1>2. A!Cardinality(S) = Cardinality(S)
  BY DEF Cardinality, A!Cardinality
<1>3. B!Cardinality(S) = Cardinality(S)
  BY DEF Cardinality, B!Cardinality
<1>4. Adding!Cardinality(S) = Cardinality(S)
  BY DEF Cardinality, Adding!Cardinality
<1>5. Buffering!Cardinality(S) = Cardinality(S)
  BY DEF Cardinality, Buffering!Cardinality
<1>. QED  BY <1>1, <1>2, <1>3, <1>4, <1>5

\* The assumptions of the two halves.
LEMMA Assumptions ==
    /\ A!AdderAssumption /\ A!TcsAssumption
    /\ B!BufferAssumption /\ B!TcsAssumption
<1>1. A!AdderAssumption /\ A!TcsAssumption
  BY ThreadsAssumption, SameSets DEF A!AdderAssumption, A!TcsAssumption
<1>2. B!BufferAssumption /\ B!TcsAssumption
  BY ThreadsAssumption, SameSets
  DEF B!BufferAssumption, B!TcsAssumption, B!Threads
<1>. QED  BY <1>1, <1>2

LEMMA TotalType == A!Total \in Nat
  BY Assumptions, A!TotalType

\* The steps of the halves are those the lemmas are about.
LEMMA SameAdders ==
    /\ \A t \in Adders : Adding!AdderStep(t) => A!AdderStep(t)
    /\ Adding!Joined <=> A!Joined
    /\ Adding!Total = A!Total
<1>1. Adding!Total = A!Total
  BY SameSets DEF Adding!Total, A!Total
<1>2. Adding!Joined <=> A!Joined
  BY DEF Adding!Joined, A!Joined
<1>3. ASSUME NEW t \in Adders, Adding!AdderStep(t)
      PROVE  A!AdderStep(t)
  BY <1>1, <1>3, SameSets
  DEF Adding!AdderStep, Adding!Enter, Adding!EnterFails, Adding!LostInside, Adding!Lock, Adding!Read,
      Adding!Write, Adding!Unlock, Adding!Leave, Adding!Store, Adding!Goto,
      Adding!AcquireTcs, Adding!ReleaseTcs, Adding!CallFails, Adding!callVars,
      Adding!Reported, Adding!Inside,
      A!AdderStep, A!Enter, A!EnterFails, A!LostInside, A!Lock, A!Read,
      A!Write, A!Unlock, A!Leave, A!Store, A!Goto,
      A!AcquireTcs, A!ReleaseTcs, A!CallFails, A!callVars, A!Reported, A!Inside
<1>. QED  BY <1>1, <1>2, <1>3

LEMMA SameBuffer ==
    /\ Buffering!Running => B!Running
    /\ Buffering!Joined <=> B!Joined
    /\ Buffering!Threads = B!Threads /\ Buffering!Slots = B!Slots
    /\ Buffering!RingIntact <=> B!RingIntact
    /\ Buffering!NoLostWakeup <=> B!NoLostWakeup
<1>1. Buffering!Threads = B!Threads /\ Buffering!Slots = B!Slots
  BY DEF Buffering!Threads, B!Threads, Buffering!Slots, B!Slots
<1>2. Buffering!Joined <=> B!Joined
  BY <1>1 DEF Buffering!Joined, B!Joined
<1>3. Buffering!RingIntact <=> B!RingIntact
  BY <1>1, SameSets
  DEF Buffering!RingIntact, B!RingIntact, Buffering!Filled, B!Filled,
      Buffering!Moved, B!Moved, Buffering!Taken, B!Taken
<1>4. Buffering!NoLostWakeup <=> B!NoLostWakeup
  BY <1>1, SameSets
  DEF Buffering!NoLostWakeup, B!NoLostWakeup, Buffering!Awake, B!Awake
<1>5. ASSUME Buffering!Running
      PROVE  B!Running
  <2>1. \A t : Buffering!Loops(t) = B!Loops(t)
    BY SameSets DEF Buffering!Loops, B!Loops
  <2>2. \A t : Buffering!ThreadStep(t) => B!ThreadStep(t)
    BY <2>1, SameSets
    DEF Buffering!ThreadStep, Buffering!Enter, Buffering!EnterFails, Buffering!LostInside,
        Buffering!Inside, Buffering!Critical, Buffering!Lock,
        Buffering!Relock, Buffering!Unlock, Buffering!Leave, Buffering!Goto,
        Buffering!AcquireTcs, Buffering!ReleaseTcs, Buffering!CallFails,
        Buffering!callVars, Buffering!ring,
        B!ThreadStep, B!Enter, B!EnterFails, B!LostInside, B!Inside, B!Critical, B!Lock, B!Relock, B!Unlock, B!Leave,
        B!Goto, B!AcquireTcs, B!ReleaseTcs, B!CallFails, B!callVars, B!ring
  <2>3. Buffering!ProducerStep => B!ProducerStep
    BY DEF Buffering!ProducerStep, Buffering!ProducerWaits, Buffering!ProducerMayPut,
           Buffering!Put, Buffering!SignalMore, Buffering!Signal, Buffering!Goto,
           Buffering!callVars, Buffering!ring,
           B!ProducerStep, B!ProducerWaits, B!ProducerMayPut, B!Put, B!SignalMore,
           B!Signal, B!Goto, B!callVars, B!ring
  <2>4. \A c \in Consumers : Buffering!ConsumerStep(c) => B!ConsumerStep(c)
    BY DEF Buffering!ConsumerStep, Buffering!ConsumerWaits, Buffering!ConsumerMayTake,
           Buffering!Take, Buffering!SignalLess, Buffering!Signal, Buffering!Goto,
           Buffering!callVars, Buffering!ring,
           B!ConsumerStep, B!ConsumerWaits, B!ConsumerMayTake, B!Take, B!SignalLess,
           B!Signal, B!Goto, B!callVars, B!ring
  <2>. QED  BY <1>1, <1>5, <2>2, <2>3, <2>4 DEF Buffering!Running, B!Running
<1>. QED  BY <1>1, <1>2, <1>3, <1>4, <1>5
------------------------------------------------------------------------------
\* The lemmas about the start of a half, for the state after a step.
LEMMA AddersStart ==
    ASSUME NEW n \in Nat
    PROVE  A!Starting(n)' => (A!CoreInv /\ A!CountsFrom(n))'
<1>1. A!Starting(n) => A!CoreInv /\ A!CountsFrom(n)
  BY Assumptions, A!StartInv
<1>. QED  BY <1>1, PTL

LEMMA BufferStart == B!Starting' => B!IInv'
<1>1. B!Starting => B!IInv
  BY Assumptions, B!StartInv
<1>. QED  BY <1>1, PTL

LEMMA InitInv == Init => IInv
<1>. SUFFICES ASSUME Init PROVE IInv
  OBVIOUS
<1>1. phase = "idle" /\ round = 0 /\ round \in Nat
  BY DEF Init
<1>2. Outside /\ Counted(0)
  <2>1. tcs = {} /\ lost = FALSE /\ aborted = FALSE /\ global_mutex = NoOwner
    BY DEF Init, Adding!Init, Adding!CallInit
  <2>2. Counted(0)
    BY TotalType DEF Init, Adding!Init, Counted
  <2>. QED  BY <2>1, <2>2 DEF Outside
<1>3. B!RingClean
  BY Assumptions, SameBuffer
  DEF Init, Buffering!Init, Buffering!RingInit, B!RingClean, B!BufferAssumption, B!Slots
<1>. QED  BY <1>1, <1>2, <1>3 DEF IInv

\* A product that does not change in a step.
LEMMA Product ==
    ASSUME NEW k \in Nat
    PROVE  /\ k * A!Total \in Nat
           /\ (k + 1) * A!Total = k * A!Total + A!Total
           /\ k # 0 => k * A!Total >= A!Total
<1>1. ASSUME NEW m \in Nat
      PROVE  /\ k * m \in Nat
             /\ (k + 1) * m = k * m + m
             /\ k # 0 => k * m >= m
  <2>1. k # 0 => k - 1 \in Nat /\ (k - 1) * m \in Nat /\ k * m = (k - 1) * m + m
    OBVIOUS
  <2>. QED  BY <2>1
<1>. QED  BY <1>1, TotalType

\* The first call.
LEMMA AddersStartFirst == A!Starting(0)' => A!IInv'
<1>1. A!Starting(0) => A!IInv
  BY Assumptions, A!FirstStart
<1>. QED  BY <1>1, PTL

LEMMA StepInv ==
    ASSUME IInv, [Next]_vars
    PROVE  IInv'
<1>1. ASSUME ~aborted, StartAdders
      PROVE  IInv'
  <2>. USE <1>1 DEF StartAdders, callVars, statics, bufLocals
  <2>1. /\ phase' = "adding" /\ round' = round /\ round \in Nat
        /\ B!RingClean /\ Outside /\ Counted(round)
    BY DEF IInv
  <2>2. B!RingClean'
    BY <2>1 DEF B!RingClean, B!Slots
  <2>3. CASE round = 0
    <3>1. A!Starting(0)'
      BY <2>1, <2>3, TotalType DEF Outside, Counted, A!Starting, A!Total
    <3>. QED  BY <2>1, <2>2, <2>3, <3>1, AddersStartFirst DEF IInv, AddingInv
  <2>4. CASE round # 0
    <3>. SUFFICES ASSUME NEW n \in Nat, n = round * A!Total
                  PROVE  IInv'
      BY <2>1, Product
    <3>1. A!Total' = A!Total /\ (round * A!Total)' = n
      BY <2>1 DEF A!Total
    <3>2. counter = A!Total
      BY <2>1, <2>4, Product, TotalType DEF Counted
    <3>3. A!Starting(n)'
      BY <2>1, <3>1, <3>2 DEF Outside, Counted, A!Starting
    <3>4. A!CoreInv' /\ A!CountsFrom(n)'
      BY <3>3, AddersStart
    <3>5. A!QuietInv(n)'
      BY <3>1, <3>2, <3>4 DEF A!QuietInv
    <3>6. A!QuietInv(round * A!Total)'
      BY <3>1, <3>5
    <3>. QED  BY <2>1, <2>2, <2>4, <3>6 DEF IInv, AddingInv
  <2>. QED  BY <2>3, <2>4
<1>2. ASSUME ~aborted, AdderRuns
      PROVE  IInv'
  <2>. USE <1>2 DEF AdderRuns, bufVars, bufLocals
  <2>1. /\ phase' = "adding" /\ round' = round /\ round \in Nat
        /\ B!RingClean /\ AddingInv
    BY DEF IInv
  <2>2. B!RingClean'
    BY <2>1 DEF B!RingClean, B!Slots
  <2>3. PICK t \in Adders : A!AdderStep(t)
    BY SameAdders
  <2>4. CASE round = 0
    <3>1. A!Next
      BY <2>3 DEF A!Next
    <3>2. A!IInv'
      BY <2>1, <2>4, <3>1, Assumptions, A!StepInv DEF AddingInv
    <3>. QED  BY <2>1, <2>2, <2>4, <3>2 DEF IInv, AddingInv
  <2>5. CASE round # 0
    <3>. SUFFICES ASSUME NEW n \in Nat, n = round * A!Total
                  PROVE  IInv'
      BY <2>1, Product
    <3>1. A!Total' = A!Total /\ (round * A!Total)' = n /\ n >= A!Total
      BY <2>1, <2>5, Product DEF A!Total
    <3>2. A!QuietInv(n)
      BY <2>1, <2>5 DEF AddingInv
    <3>3. A!QuietInv(n)'
      BY <2>3, <3>1, <3>2, Assumptions, A!QuietStep
    <3>4. A!QuietInv(round * A!Total)'
      BY <3>1, <3>3
    <3>. QED  BY <2>1, <2>2, <2>5, <3>4 DEF IInv, AddingInv
  <2>. QED  BY <2>4, <2>5
<1>3. ASSUME ~aborted, JoinAdders
      PROVE  IInv'
  <2>. USE <1>3 DEF JoinAdders, statics, addLocals
  <2>1. /\ phase' = "buffering" /\ round' = round /\ round \in Nat
        /\ B!RingClean /\ AddingInv /\ A!Joined /\ A!Total' = A!Total
    BY SameAdders DEF IInv, A!Total
  <2>2. /\ tcs = {} /\ global_mutex = NoOwner /\ counter = A!Total
        /\ global_counter = round * A!Total + A!Total
    <3>. SUFFICES ASSUME NEW n \in Nat, n = round * A!Total
                  PROVE  /\ tcs = {} /\ global_mutex = NoOwner /\ counter = A!Total
                         /\ global_counter = n + A!Total
      BY <2>1, Product
    <3>1. CASE round = 0
      <4>1. A!IInv
        BY <2>1, <3>1 DEF AddingInv
      <4>2. n = 0 /\ A!CoreInv /\ A!CountsFrom(n)
        BY <3>1, <4>1, TotalType, Assumptions, A!AddsBound
        DEF A!IInv, A!NoLostUpdate, A!CountsFrom, A!Adds
      <4>. QED  BY <2>1, <4>1, <4>2, Assumptions, A!JoinedTotal, A!JoinedClean
    <3>2. CASE round # 0
      BY <2>1, <3>2, Assumptions, A!JoinedClean DEF AddingInv, A!QuietInv
    <3>. QED  BY <3>1, <3>2
  <2>3. Counted(round + 1)'
    <3>1. (round + 1) * A!Total = round * A!Total + A!Total /\ round * A!Total \in Nat
      BY <2>1, Product
    <3>2. global_counter = 0 => A!Total = 0
      BY <2>2, <3>1, TotalType
    <3>3. (round + 1)' = round + 1
      BY <2>1
    <3>. QED  BY <2>1, <2>2, <3>1, <3>2, <3>3 DEF Counted
  <2>4. B!Starting'
    <3>1. B!RingClean'
      BY <2>1, <2>2 DEF B!RingClean, B!Slots
    <3>2. bpc' = [t \in B!Threads |-> "start"] /\ bi' = [t \in B!Threads |-> 0]
      BY SameBuffer
    <3>3. tcs' = {} /\ aborted' = FALSE
      BY <2>1, <2>2, SameAdders
    <3>4. lost' \in BOOLEAN
      BY <2>1 DEF AddingInv, A!IInv, A!QuietInv, A!CoreInv, A!TypeOK
    <3>. QED  BY <3>1, <3>2, <3>3, <3>4 DEF B!Starting, B!Threads
  <2>. QED  BY <2>1, <2>2, <2>3, <2>4, BufferStart DEF IInv
<1>4. ASSUME ~aborted, BufferThreadRuns
      PROVE  IInv'
  <2>. USE <1>4 DEF BufferThreadRuns, addVars
  <2>1. /\ phase' = "buffering" /\ round' = round /\ round \in Nat
        /\ B!IInv /\ global_mutex = NoOwner /\ Counted(round + 1)
    BY DEF IInv
  <2>2. B!Next
    BY SameBuffer DEF B!Next
  <2>3. B!IInv'
    BY <2>1, <2>2, Assumptions, B!StepInv
  <2>4. Counted(round + 1)'
    BY <2>1 DEF Counted, A!Total
  <2>. QED  BY <2>1, <2>3, <2>4 DEF IInv
<1>5. ASSUME ~aborted, JoinBufferThreads
      PROVE  IInv'
  <2>. USE <1>5 DEF JoinBufferThreads, callVars, statics
  <2>1. /\ phase' = "idle" /\ round' = round + 1 /\ round' \in Nat
        /\ B!IInv /\ global_mutex = NoOwner /\ Counted(round + 1)
    BY DEF IInv
  <2>2. tcs = {} /\ B!RingClean
    BY <2>1, Assumptions, SameBuffer, B!JoinedClean
  <2>3. B!RingClean' /\ Outside'
    <3>1. lost' \in BOOLEAN
      BY <2>1 DEF B!IInv, B!TypeOK
    <3>2. B!RingClean'
      BY <2>1, <2>2 DEF B!RingClean, B!Slots
    <3>. QED  BY <1>5, <2>1, <2>2, <3>1, <3>2 DEF Outside
  <2>4. Counted(round)'
    BY <2>1 DEF Counted, A!Total
  <2>. QED  BY <2>1, <2>3, <2>4 DEF IInv
<1>6. CASE Lose \/ UNCHANGED vars
  <2>. USE DEF addVars, addLocals, bufVars, bufLocals
  <2>0. /\ UNCHANGED <<phase, round, tcs, aborted, addVars, bufVars>>
        /\ lost' = lost \/ lost' = TRUE
    BY <1>6 DEF Lose, Adding!LoseEnclave, vars, callVars
  <2>. USE <2>0
  <2>1. B!RingClean' <=> B!RingClean
    BY DEF B!RingClean, B!Slots
  <2>2. (Outside => Outside') /\ (Counted(round)' <=> Counted(round))
        /\ (Counted(round + 1)' <=> Counted(round + 1))
    BY DEF Outside, Counted, A!Total
  <2>3. B!IInv => B!IInv'
    <3>1. B!IInv => B!Untouched /\ (lost' \in BOOLEAN) /\ (aborted' \in BOOLEAN)
      BY DEF B!IInv, B!TypeOK, B!Untouched, B!ring
    <3>. QED  BY <3>1, Assumptions, B!UntouchedKeeps
  <2>4. A!IInv => A!IInv'
    <3>1. A!IInv => A!Untouched /\ (lost' \in BOOLEAN) /\ (aborted' \in BOOLEAN)
      BY DEF A!IInv, A!CoreInv, A!TypeOK, A!Untouched
    <3>. QED  BY <3>1, Assumptions, A!UntouchedInv
  <2>5. A!QuietInv(round * A!Total) => A!QuietInv(round * A!Total)'
    BY DEF A!QuietInv, A!CoreInv, A!CountsFrom, A!TypeOK, A!ControlInv, A!TmpInv,
           A!Adds, A!Added, A!Total, A!Inside, A!Critical
  <2>6. AddingInv => AddingInv'
    BY <2>4, <2>5 DEF AddingInv
  <2>. QED  BY <2>1, <2>2, <2>3, <2>6 DEF IInv
<1>. QED
  BY <1>1, <1>2, <1>3, <1>4, <1>5, <1>6 DEF Next, Running, Stopped
------------------------------------------------------------------------------
LEMMA Invariance == Spec => []IInv
<1>. QED  BY InitInv, StepInv, PTL DEF Spec

\* A call of ecall_thread_functions leaves nothing behind: no thread is in the
\* enclave, both mutexes are free, nobody sleeps and the ring is empty, however
\* often it was called before and wherever in the ring it started.
THEOREM CleanBetweenCallsAlways == Spec => []CleanBetweenCalls
<1>1. IInv => CleanBetweenCalls
  BY SameBuffer DEF IInv, CleanBetweenCalls, Outside, B!RingClean, B!Slots
<1>. QED  BY Invariance, <1>1, PTL

\* The enclave's total grows with every call, the App's copy keeps the total of
\* the first one: the assertion on the copy never fails.
THEOREM StaleCopyAlways == Spec => []StaleCopy
<1>1. IInv => StaleCopy
  BY SameAdders DEF IInv, Counted, StaleCopy
<1>. QED  BY Invariance, <1>1, PTL

\* The ring agrees with the progress of the producer and the consumers, and no
\* wakeup is lost, also in a call that starts in the middle of the ring.
THEOREM BufferIntactAlways == Spec => []BufferIntact
<1>1. IInv => BufferIntact
  BY SameBuffer DEF IInv, BufferIntact, B!IInv
<1>. QED  BY Invariance, <1>1, PTL
==============================================================================
