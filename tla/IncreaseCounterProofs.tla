------------------------ MODULE IncreaseCounterProofs ------------------------
(***************************************************************************)
(* Proofs about IncreaseCounter for every number of adders, loops and      *)
(* TCSs, whichever ECALLs fail and whenever the enclave is lost: its       *)
(* safety properties, and that it implements AtomicCounter.                *)
(***************************************************************************)
EXTENDS IncreaseCounter, FiniteSetTheorems, TLAPS

\* Control points and the mutex, the loop counter and the TCSs agree.
ControlInv ==
    /\ \A t \in Adders : pc[t] \in Critical <=> global_mutex = t
    /\ \A t \in Adders : pc[t] \in Critical => i[t] < LOOPS_PER_THREAD
    /\ \A t \in Adders : pc[t] \in {"returned", "done"} => i[t] = LOOPS_PER_THREAD
    /\ tcs = {t \in Adders : pc[t] \in Inside}

\* Nobody changes global_counter between an adder's read and its write.
TmpInv == \A t \in Adders : pc[t] = "write" => tmp[t] = global_counter

\* The total is reported as soon as it is reached, not before, and reaches the
\* App's counter when the reporting adder is done.
ReportInv ==
    /\ global_counter < Total => \A t \in Adders : ret[t] = 0
    /\ global_counter = Total /\ Adders # {} => \E t \in Adders : ret[t] = Total
    /\ \A t \in Adders : pc[t] = "done" /\ ret[t] # 0 => counter = Total

\* What holds whenever the adders run, whatever the counter was before.
CoreInv == TypeOK /\ ControlInv /\ TmpInv

CountsFrom(n) == global_counter = n + Cardinality(Adds)

IInv == CoreInv /\ NoLostUpdate /\ SoleReport /\ ReportInv
------------------------------------------------------------------------------
LEMMA TotalType ==
    /\ Cardinality(Adders) \in Nat
    /\ Total \in Nat
    /\ Adders # {} => Total > 0
<1>1. Cardinality(Adders) \in Nat
  BY FS_CardinalityType, AdderAssumption
<1>2. LOOPS_PER_THREAD \in Nat /\ LOOPS_PER_THREAD > 0
  BY AdderAssumption
<1>3. Adders # {} => Cardinality(Adders) > 0
  BY <1>1, FS_EmptySet, AdderAssumption
<1>4. \A m, n \in Nat : m * n \in Nat /\ (m > 0 /\ n > 0 => m * n > 0)
  OBVIOUS
<1>. QED  BY <1>1, <1>2, <1>3, <1>4 DEF Total

\* Any set of additions is finite and has at most Total elements.
LEMMA AddsBound ==
    ASSUME NEW S \in SUBSET (Adders \X (1..LOOPS_PER_THREAD))
    PROVE  /\ IsFiniteSet(S)
           /\ Cardinality(S) \in Nat
           /\ Cardinality(S) <= Total
<1>1. /\ IsFiniteSet(1..LOOPS_PER_THREAD)
      /\ Cardinality(1..LOOPS_PER_THREAD) = LOOPS_PER_THREAD
  BY FS_Interval, AdderAssumption
<1>2. /\ IsFiniteSet(Adders \X (1..LOOPS_PER_THREAD))
      /\ Cardinality(Adders \X (1..LOOPS_PER_THREAD)) = Total
  BY <1>1, FS_Product, AdderAssumption DEF Total
<1>. QED  BY <1>2, FS_Subset, FS_CardinalityType

\* They are Total only when every adder has made all of its own.
LEMMA AddsComplete ==
    ASSUME TypeOK, \A t \in Adders : Added(t) = LOOPS_PER_THREAD
    PROVE  Cardinality(Adds) = Total
<1>1. Adds = Adders \X (1..LOOPS_PER_THREAD)
  BY AdderAssumption DEF Adds
<1>2. /\ IsFiniteSet(1..LOOPS_PER_THREAD)
      /\ Cardinality(1..LOOPS_PER_THREAD) = LOOPS_PER_THREAD
  BY FS_Interval, AdderAssumption
<1>. QED  BY <1>1, <1>2, FS_Product, AdderAssumption DEF Total

LEMMA AddsUnchanged ==
    ASSUME \A u \in Adders : Added(u)' = Added(u)
    PROVE  Adds' = Adds
  BY DEF Adds

\* One adder's next addition is exactly one more element of Adds.
LEMMA AddsGrow ==
    ASSUME TypeOK, NEW t \in Adders,
           Added(t) < LOOPS_PER_THREAD,
           Added(t)' = Added(t) + 1,
           \A u \in Adders \ {t} : Added(u)' = Added(u)
    PROVE  Cardinality(Adds') = Cardinality(Adds) + 1
<1>1. \A u \in Adders : Added(u) \in Nat
  BY AdderAssumption DEF TypeOK, Added
<1>2. Adds' = Adds \cup {<<t, Added(t) + 1>>}
  BY <1>1, AdderAssumption DEF Adds
<1>3. <<t, Added(t) + 1>> \notin Adds
  BY <1>1 DEF Adds
<1>4. IsFiniteSet(Adds)
  BY AddsBound DEF Adds
<1>. QED  BY <1>2, <1>3, <1>4, FS_AddElement
------------------------------------------------------------------------------
\* The adders start, with a counter that is n.
Starting(n) ==
    /\ tcs = {} /\ lost \in BOOLEAN /\ aborted = FALSE /\ global_mutex = NoOwner
    /\ global_counter = n /\ counter \in {0, Total}
    /\ pc  = [t \in Adders |-> "start"]
    /\ i   = [t \in Adders |-> 0]
    /\ tmp = [t \in Adders |-> 0]
    /\ ret = [t \in Adders |-> 0]

LEMMA StartInv ==
    ASSUME NEW n \in Nat, Starting(n)
    PROVE  CoreInv /\ CountsFrom(n)
<1>. USE DEF Starting
<1>1. TypeOK
  <2>1. 0 \in 0..LOOPS_PER_THREAD
    BY AdderAssumption
  <2>2. pc \in [Adders -> Inside \cup {"start", "returned", "done"}]
    OBVIOUS
  <2>. QED  BY <2>1, <2>2 DEF TypeOK
<1>2. ControlInv /\ TmpInv
  BY AdderAssumption DEF ControlInv, TmpInv, Critical, Inside
<1>3. Adds = {}
  BY DEF Adds, Added
<1>4. CountsFrom(n)
  BY <1>3, FS_EmptySet DEF CountsFrom
<1>. QED  BY <1>1, <1>2, <1>4 DEF CoreInv

\* The first call.
LEMMA FirstStart == Starting(0) => IInv
<1>. SUFFICES ASSUME Starting(0) PROVE IInv
  OBVIOUS
<1>1. CoreInv /\ CountsFrom(0)
  BY StartInv
<1>2. NoLostUpdate
  BY <1>1, AddsBound DEF CountsFrom, NoLostUpdate, Adds
<1>3. SoleReport /\ ReportInv
  BY TotalType DEF Starting, SoleReport, ReportInv
<1>. QED  BY <1>1, <1>2, <1>3 DEF IInv

LEMMA InitInv == Init => IInv
<1>1. Init => Starting(0)
  BY TotalType DEF Init, CallInit, Starting
<1>. QED  BY <1>1, FirstStart
------------------------------------------------------------------------------
\* Neither a loss of the enclave nor a call that fails touches what the adders
\* have done.
Untouched == UNCHANGED <<tcs, global_counter, global_mutex, pc, i, tmp, ret, counter>>

LEMMA UntouchedKeeps ==
    ASSUME CoreInv, Untouched, lost' \in BOOLEAN, aborted' \in BOOLEAN
    PROVE  CoreInv' /\ \A n \in Nat : CountsFrom(n) => CountsFrom(n)'
<1>. USE DEF Untouched, CoreInv
<1>1. TypeOK' /\ ControlInv' /\ TmpInv'
  BY DEF TypeOK, Total, ControlInv, TmpInv
<1>2. \A n \in Nat : CountsFrom(n) => CountsFrom(n)'
  BY AddsUnchanged DEF CountsFrom, Added
<1>. QED  BY <1>1, <1>2

LEMMA CallFailed ==
    ASSUME CoreInv, NEW t \in Adders, EnterFails(t) \/ LostInside(t), NEW n \in Nat, CountsFrom(n)
    PROVE  CoreInv' /\ CountsFrom(n)'
<1>1. Untouched /\ lost' = lost /\ aborted' = TRUE
  BY DEF EnterFails, LostInside, CallFails, Untouched
<1>2. lost' \in BOOLEAN
  BY <1>1 DEF CoreInv, TypeOK
<1>. QED  BY <1>1, <1>2, UntouchedKeeps

LEMMA CoreStep ==
    ASSUME CoreInv, NEW u \in Adders, AdderStep(u), NEW n \in Nat, CountsFrom(n)
    PROVE  CoreInv' /\ CountsFrom(n)'
<1>. USE DEF CoreInv
\* A step that adds nothing.
<1>0. ASSUME \A t \in Adders : Added(t)' = Added(t), global_counter' = global_counter
      PROVE  CountsFrom(n)'
  BY <1>0, AddsUnchanged DEF CountsFrom
<1>1. ASSUME NEW t \in Adders, Enter(t)
      PROVE  CoreInv' /\ CountsFrom(n)'
  <2>. USE <1>1 DEF Enter, AcquireTcs, Goto, Critical, Inside
  <2>1. TypeOK'
    BY DEF TypeOK, Total
  <2>2. ControlInv' /\ TmpInv'
    BY AdderAssumption DEF TypeOK, ControlInv, TmpInv
  <2>3. CountsFrom(n)'
    BY <1>0 DEF TypeOK, Added
  <2>. QED  BY <2>1, <2>2, <2>3
<1>2. ASSUME NEW t \in Adders, EnterFails(t) \/ LostInside(t)
      PROVE  CoreInv' /\ CountsFrom(n)'
  BY <1>2, CallFailed
<1>3. ASSUME NEW t \in Adders, Lock(t)
      PROVE  CoreInv' /\ CountsFrom(n)'
  <2>. USE <1>3 DEF Lock, Goto, Critical, Inside, callVars
  <2>1. TypeOK'
    BY DEF TypeOK, Total
  <2>2. ControlInv' /\ TmpInv'
    BY AdderAssumption DEF TypeOK, ControlInv, TmpInv
  <2>3. CountsFrom(n)'
    BY <1>0 DEF TypeOK, Added
  <2>. QED  BY <2>1, <2>2, <2>3
<1>4. ASSUME NEW t \in Adders, Read(t)
      PROVE  CoreInv' /\ CountsFrom(n)'
  <2>. USE <1>4 DEF Read, Goto, Critical, Inside, callVars
  <2>1. TypeOK'
    BY DEF TypeOK, Total
  <2>2. ControlInv' /\ TmpInv'
    BY AdderAssumption DEF TypeOK, ControlInv, TmpInv
  <2>3. CountsFrom(n)'
    BY <1>0 DEF TypeOK, Added
  <2>. QED  BY <2>1, <2>2, <2>3
<1>5. ASSUME NEW t \in Adders, Write(t)
      PROVE  CoreInv' /\ CountsFrom(n)'
  <2>. USE <1>5 DEF Write, Goto, Critical, Inside, callVars
  <2>1. tmp[t] = global_counter /\ global_mutex = t /\ i[t] < LOOPS_PER_THREAD
    BY DEF TmpInv, ControlInv
  <2>2. Cardinality(Adds') = Cardinality(Adds) + 1
    <3>1. Added(t) < LOOPS_PER_THREAD /\ Added(t)' = Added(t) + 1
      BY <2>1 DEF Added, TypeOK
    <3>2. \A v \in Adders \ {t} : Added(v)' = Added(v)
      BY DEF Added, TypeOK
    <3>. QED  BY <3>1, <3>2, AddsGrow
  <2>3. TypeOK'
    BY <2>1, TotalType DEF TypeOK, Total, Reported
  <2>4. ControlInv' /\ TmpInv'
    BY <2>1, AdderAssumption DEF TypeOK, ControlInv, TmpInv
  <2>5. CountsFrom(n)'
    <3>1. Cardinality(Adds) \in Nat
      BY AddsBound DEF Adds
    <3>. QED  BY <2>1, <2>2, <3>1 DEF CountsFrom
  <2>. QED  BY <2>3, <2>4, <2>5
<1>6. ASSUME NEW t \in Adders, Unlock(t)
      PROVE  CoreInv' /\ CountsFrom(n)'
  <2>. USE <1>6 DEF Unlock, Goto, Critical, Inside, callVars
  <2>1. TypeOK'
    BY AdderAssumption DEF TypeOK, Total, ControlInv
  <2>2. ControlInv' /\ TmpInv'
    BY AdderAssumption DEF TypeOK, ControlInv, TmpInv
  <2>3. CountsFrom(n)'
    BY <1>0 DEF TypeOK, Added
  <2>. QED  BY <2>1, <2>2, <2>3
<1>7. ASSUME NEW t \in Adders, Leave(t)
      PROVE  CoreInv' /\ CountsFrom(n)'
  <2>. USE <1>7 DEF Leave, ReleaseTcs, Goto, Critical, Inside
  <2>1. TypeOK'
    BY DEF TypeOK, Total
  <2>2. ControlInv' /\ TmpInv'
    BY AdderAssumption DEF TypeOK, ControlInv, TmpInv
  <2>3. CountsFrom(n)'
    BY <1>0 DEF TypeOK, Added
  <2>. QED  BY <2>1, <2>2, <2>3
<1>8. ASSUME NEW t \in Adders, Store(t)
      PROVE  CoreInv' /\ CountsFrom(n)'
  <2>. USE <1>8 DEF Store, Goto, Critical, Inside, callVars
  <2>1. TypeOK'
    BY DEF TypeOK, Total
  <2>2. ControlInv' /\ TmpInv'
    BY AdderAssumption DEF TypeOK, ControlInv, TmpInv
  <2>3. CountsFrom(n)'
    BY <1>0 DEF TypeOK, Added
  <2>. QED  BY <2>1, <2>2, <2>3
<1>. QED
  BY <1>1, <1>2, <1>3, <1>4, <1>5, <1>6, <1>7, <1>8 DEF AdderStep

\* A step that leaves the global counter, the results and the App's counter as
\* they are keeps what is said about them.
LEMMA ReportKept ==
    ASSUME SoleReport, ReportInv, UNCHANGED <<global_counter, ret, counter>>,
           \A t \in Adders : pc'[t] = "done" => pc[t] = "done"
    PROVE  SoleReport' /\ ReportInv'
  BY DEF SoleReport, ReportInv, Total

LEMMA UntouchedInv ==
    ASSUME IInv, Untouched, lost' \in BOOLEAN, aborted' \in BOOLEAN
    PROVE  IInv'
<1>1. CoreInv' /\ (CountsFrom(0) => CountsFrom(0)')
  BY UntouchedKeeps DEF IInv
<1>2. Cardinality(Adds) \in Nat /\ Cardinality(Adds') \in Nat
  BY AddsBound DEF Adds
<1>3. NoLostUpdate'
  BY <1>1, <1>2 DEF IInv, NoLostUpdate, CountsFrom
<1>4. SoleReport' /\ ReportInv'
  BY ReportKept DEF IInv, Untouched
<1>. QED  BY <1>1, <1>3, <1>4 DEF IInv

LEMMA StepInv ==
    ASSUME IInv, [Next]_vars
    PROVE  IInv'
<1>. USE DEF IInv, CoreInv
<1>1. ASSUME NEW t \in Adders, AdderStep(t)
      PROVE  IInv'
  <2>1. CoreInv' /\ CountsFrom(0)'
    <3>1. CountsFrom(0)
      BY AddsBound DEF NoLostUpdate, CountsFrom, Adds
    <3>. HIDE DEF CoreInv
    <3>. QED  BY <1>1, <3>1, CoreStep
  <2>2. NoLostUpdate' /\ Cardinality(Adds') \in Nat /\ Cardinality(Adds') <= Total
    <3>1. Adds' \in SUBSET (Adders \X (1..LOOPS_PER_THREAD))
      BY DEF Adds
    <3>2. Cardinality(Adds') \in Nat /\ Cardinality(Adds') <= Total
      BY <3>1, AddsBound
    <3>. QED  BY <2>1, <3>2 DEF NoLostUpdate, CountsFrom
  <2>3. CASE Write(t)
    <3>1. tmp[t] = global_counter
      BY <2>3 DEF Write, Goto, TmpInv
    <3>2. global_counter' <= Total /\ global_counter' = global_counter + 1
      BY <2>2, <2>3, <3>1 DEF Write, NoLostUpdate
    <3>. USE <2>3 DEF Write, Goto
    <3>3. SoleReport' /\ ReportInv'
      BY <3>1, <3>2, TotalType DEF SoleReport, ReportInv, TypeOK, Total, Reported
    <3>. QED  BY <2>1, <2>2, <3>3
  <2>4. CASE Store(t)
    <3>1. SoleReport' /\ ReportInv'
      BY <2>4, TotalType DEF Store, Goto, SoleReport, ReportInv, TypeOK, Total
    <3>. QED  BY <2>1, <2>2, <3>1
  <2>5. CASE Enter(t) \/ EnterFails(t) \/ LostInside(t) \/ Lock(t) \/ Read(t) \/ Unlock(t) \/ Leave(t)
    <3>1. /\ UNCHANGED <<global_counter, ret, counter>>
          /\ \A u \in Adders : pc'[u] = "done" => pc[u] = "done"
      BY <2>5 DEF Enter, EnterFails, LostInside, Lock, Read, Unlock, Leave, Goto, TypeOK
    <3>. QED  BY <2>1, <2>2, <3>1, ReportKept
  <2>. QED  BY <1>1, <2>3, <2>4, <2>5 DEF AdderStep
<1>2. CASE Lose \/ UNCHANGED vars
  <2>1. Untouched /\ lost' \in BOOLEAN /\ aborted' \in BOOLEAN
    BY <1>2 DEF Lose, LoseEnclave, vars, callVars, Untouched, TypeOK
  <2>. QED  BY <2>1, UntouchedInv
<1>. QED  BY <1>1, <1>2 DEF Next, Stopped

\* Once the counter has passed the total of one call no ECALL returns it again.
QuietInv(n) == CoreInv /\ CountsFrom(n) /\ counter = Total /\ \A t \in Adders : ret[t] = 0

LEMMA QuietStep ==
    ASSUME NEW n \in Nat, n >= Total, QuietInv(n), NEW t \in Adders, AdderStep(t)
    PROVE  QuietInv(n)'
<1>. USE DEF QuietInv
<1>1. CoreInv' /\ CountsFrom(n)' /\ Total' = Total
  BY CoreStep DEF Total
<1>2. ret \in [Adders -> {0, Total}] /\ Cardinality(Adds) \in Nat /\ Total \in Nat
  BY TotalType, AddsBound DEF CoreInv, TypeOK, Adds
<1>3. CASE Write(t)
  <2>1. tmp[t] + 1 # Total
    <3>1. tmp[t] = n + Cardinality(Adds)
      BY <1>3 DEF CoreInv, TmpInv, Write, Goto, CountsFrom
    <3>. QED  BY <1>2, <3>1
  <2>2. \A u \in Adders : ret'[u] = ret[u]
    BY <1>2, <1>3, <2>1 DEF Write, Reported
  <2>. QED  BY <1>1, <1>3, <2>2 DEF Write
<1>4. CASE Store(t)
  BY <1>1, <1>4 DEF Store
<1>5. CASE Enter(t) \/ EnterFails(t) \/ LostInside(t) \/ Lock(t) \/ Read(t) \/ Unlock(t) \/ Leave(t)
  <2>1. UNCHANGED <<ret, counter>>
    BY <1>5 DEF Enter, EnterFails, LostInside, Lock, Read, Unlock, Leave
  <2>. QED  BY <1>1, <2>1
<1>. QED  BY <1>3, <1>4, <1>5 DEF AdderStep

\* What the adders leave behind when they are joined.
LEMMA JoinedClean ==
    ASSUME CoreInv, Joined, NEW n \in Nat, CountsFrom(n)
    PROVE  tcs = {} /\ global_mutex = NoOwner /\ global_counter = n + Total
<1>1. tcs = {} /\ global_mutex = NoOwner
  BY DEF CoreInv, TypeOK, ControlInv, Joined, Critical, Inside
<1>2. \A t \in Adders : Added(t) = LOOPS_PER_THREAD
  BY DEF CoreInv, Joined, ControlInv, Added
<1>. QED  BY <1>1, <1>2, AddsComplete DEF CoreInv, CountsFrom

LEMMA JoinedTotal ==
    ASSUME IInv, Joined
    PROVE  counter = Total
<1>1. CASE Adders = {}
  <2>1. Total = 0
    BY <1>1, FS_EmptySet, AdderAssumption DEF Total
  <2>. QED  BY <2>1 DEF IInv, CoreInv, TypeOK
<1>2. CASE Adders # {}
  <2>1. CoreInv /\ CountsFrom(0)
    BY AddsBound DEF IInv, NoLostUpdate, CountsFrom, Adds
  <2>2. global_counter = Total
    BY <2>1, JoinedClean, TotalType
  <2>3. PICK t \in Adders : ret[t] = Total
    BY <1>2, <2>2 DEF IInv, ReportInv
  <2>4. ret[t] # 0 /\ pc[t] = "done"
    BY <1>2, <2>3, TotalType DEF Joined
  <2>. QED  BY <2>4 DEF IInv, ReportInv
<1>. QED  BY <1>1, <1>2
------------------------------------------------------------------------------
LEMMA Invariance == Spec => []IInv
<1>. QED  BY InitInv, StepInv, PTL DEF Spec

\* The statics and locals of the adders keep their types.
THEOREM TypeCorrect == Spec => []TypeOK
<1>. QED  BY Invariance, PTL DEF IInv, CoreInv

\* global_counter is the number of additions made: the unlocked-looking
\* read, increment and write back of ecall_increase_counter lose none.
THEOREM NoLostUpdateAlways == Spec => []NoLostUpdate
<1>. QED  BY Invariance, PTL DEF IInv, CoreInv

\* At most one ECALL of ecall_increase_counter returns a non-zero result, so
\* the App's static counter has a single writer.
THEOREM SoleReportAlways == Spec => []SoleReport
<1>. QED  BY Invariance, PTL DEF IInv, CoreInv

\* The assertion of ecall_thread_functions after the joins of the adders.
THEOREM AssertHoldsAlways == Spec => []AssertHolds
<1>1. IInv => AssertHolds
  BY JoinedTotal DEF AssertHolds
<1>. QED  BY Invariance, <1>1, PTL
------------------------------------------------------------------------------
\* Steps that the abstract counter does not see.
LEMMA AtomicStutter ==
    ASSUME \A u \in Adders : Added(u)' = Added(u),
           UNCHANGED <<global_counter, ret, counter>>
    PROVE  UNCHANGED Atomic!vars
<1>1. [t \in Adders |-> Added(t)]' = [t \in Adders |-> Added(t)]
  OBVIOUS
<1>. QED  BY <1>1 DEF Atomic!vars

LEMMA AtomicStep ==
    ASSUME IInv, [Next]_vars
    PROVE  [Atomic!Next]_(Atomic!vars)
<1>. USE DEF IInv, CoreInv
<1>. DEFINE added == [t \in Adders |-> Added(t)]
<1>1. ASSUME NEW t \in Adders, Write(t)
      PROVE  Atomic!Add(t)
  <2>. USE <1>1 DEF Write, Goto
  <2>1. tmp[t] = global_counter /\ i[t] < LOOPS_PER_THREAD
    BY DEF TmpInv, ControlInv, Critical
  <2>2. Added(t) = i[t] /\ Added(t)' = i[t] + 1
    BY DEF Added, TypeOK
  <2>3. added' = [added EXCEPT ![t] = @ + 1]
    BY <2>2 DEF Added, TypeOK
  <2>4. /\ global_counter + 1 # Total => ret' = ret
        /\ global_counter + 1 = Total => ret' = [ret EXCEPT ![t] = Total]
    BY <2>1 DEF Reported, TypeOK
  <2>5. added[t] < LOOPS_PER_THREAD
    BY <2>1, <2>2
  <2>6. global_counter' = global_counter + 1 /\ counter' = counter
    BY <2>1
  <2>7. \/ global_counter + 1 # Total /\ ret' = ret
        \/ global_counter + 1 = Total /\ ret' = [ret EXCEPT ![t] = Total]
    BY <2>4
  <2>. HIDE <1>1
  <2>. QED  BY <2>3, <2>5, <2>6, <2>7 DEF Atomic!Add
<1>2. ASSUME NEW t \in Adders, Store(t)
      PROVE  Atomic!Publish(t) \/ UNCHANGED Atomic!vars
  <2>. USE <1>2 DEF Store, Goto
  <2>1. \A u \in Adders : Added(u)' = Added(u)
    BY DEF Added, TypeOK
  <2>2. added' = added
    BY <2>1
  <2>3. CASE ret[t] = 0
    BY <2>1, <2>3, AtomicStutter
  <2>4. CASE ret[t] # 0
    <3>1. added[t] = LOOPS_PER_THREAD
      BY DEF ControlInv, Added
    <3>. QED  BY <2>2, <2>4, <3>1 DEF Atomic!Publish
  <2>. QED  BY <2>3, <2>4
<1>3. ASSUME NEW t \in Adders,
             Enter(t) \/ EnterFails(t) \/ LostInside(t) \/ Lock(t) \/ Read(t) \/ Unlock(t) \/ Leave(t)
      PROVE  UNCHANGED Atomic!vars
  <2>1. \A u \in Adders : Added(u)' = Added(u)
    BY <1>3 DEF Enter, EnterFails, LostInside, Lock, Read, Unlock, Leave, Goto, Added, TypeOK
  <2>2. UNCHANGED <<global_counter, ret, counter>>
    BY <1>3 DEF Enter, EnterFails, LostInside, Lock, Read, Unlock, Leave
  <2>. QED  BY <2>1, <2>2, AtomicStutter
<1>4. ASSUME UNCHANGED vars
      PROVE  UNCHANGED Atomic!vars
  BY <1>4, AtomicStutter DEF vars, Added
<1>5. ASSUME Lose
      PROVE  UNCHANGED Atomic!vars
  BY <1>5, AtomicStutter DEF Lose, Added
<1>. QED
  BY <1>1, <1>2, <1>3, <1>4, <1>5 DEF Next, AdderStep, Stopped, Atomic!Next

\* The locked additions of ecall_increase_counter and the unlocked copy in
\* increase_counter implement the abstract atomic counter.
THEOREM ImplementsAtomicCounter == Spec => AtomicSpec
<1>1. Init => Atomic!Init
  BY DEF Init, Atomic!Init, Added
<1>. QED
  BY <1>1, Invariance, AtomicStep, PTL DEF Spec, AtomicSpec, Atomic!Spec
==============================================================================
