--------------------------- MODULE IncreaseCounter ---------------------------
(***************************************************************************)
(* The mutex half of ecall_thread_functions: every adder thread of the App *)
(* runs increase_counter, which makes one ECALL of ecall_increase_counter. *)
(* Inside, the thread adds one to the enclave's global_counter             *)
(* LOOPS_PER_THREAD times under global_mutex; the one whose addition       *)
(* reaches the grand total returns it, all others return 0, and the App    *)
(* copies a non-zero result to its own, unprotected, static counter.       *)
(*                                                                         *)
(* The source writes the grand total as 4*LOOPS_PER_THREAD and starts four *)
(* threads; here the 4 is the number of Adders.                            *)
(***************************************************************************)
EXTENDS EnclaveCall

CONSTANTS Adders, LOOPS_PER_THREAD,
          NoOwner                       \* the mutex has no owner

ASSUME AdderAssumption ==
    /\ IsFiniteSet(Adders)
    /\ LOOPS_PER_THREAD \in Nat \ {0}
    /\ NoOwner \notin Adders

VARIABLES global_counter, global_mutex, \* statics of the enclave
          pc, i, tmp, ret,              \* per thread: control point and locals
          counter                       \* static of the App

vars == <<callVars, global_counter, global_mutex, pc, i, tmp, ret, counter>>

Total == Cardinality(Adders) * LOOPS_PER_THREAD

Inside == {"loop", "read", "write", "unlock"}       \* control is in the enclave

\* A step of t inside the enclave, into it or out of it.
Goto(t, from, to) == ~lost /\ pc[t] = from /\ pc' = [pc EXCEPT ![t] = to]

Init ==
    /\ CallInit
    /\ global_counter = 0 /\ global_mutex = NoOwner /\ counter = 0
    /\ pc  = [t \in Adders |-> "start"]
    /\ i   = [t \in Adders |-> 0]
    /\ tmp = [t \in Adders |-> 0]
    /\ ret = [t \in Adders |-> 0]
------------------------------------------------------------------------------
\* increase_counter makes the ECALL; ecall_increase_counter sets up its locals.
Enter(t) ==
    /\ Goto(t, "start", "loop")
    /\ AcquireTcs(t)
    /\ UNCHANGED <<global_counter, global_mutex, i, tmp, ret, counter>>

\* The ECALL cannot be made: cnr stays 0 and increase_counter aborts.
EnterFails(t) ==
    /\ pc[t] = "start"
    /\ CallFails
    /\ UNCHANGED <<global_counter, global_mutex, pc, i, tmp, ret, counter>>

\* Mutation: the mutex does not exclude.
LockNoWait(t) ==
    /\ Goto(t, "loop", "read")
    /\ i[t] < LOOPS_PER_THREAD
    /\ global_mutex' = t
    /\ UNCHANGED <<callVars, global_counter, i, tmp, ret, counter>>

\* The loop test and sgx_thread_mutex_lock.
Lock(t) ==
    /\ Goto(t, "loop", "read")
    /\ i[t] < LOOPS_PER_THREAD
    /\ global_mutex = NoOwner
    /\ global_mutex' = t
    /\ UNCHANGED <<callVars, global_counter, i, tmp, ret, counter>>

Read(t) ==
    /\ Goto(t, "read", "write")
    /\ tmp' = [tmp EXCEPT ![t] = global_counter]
    /\ UNCHANGED <<callVars, global_counter, global_mutex, i, ret, counter>>

\* Mutation: the test for the total is off by one and an inequality.
ReportedEarly(n, r) == IF n >= Total - 1 THEN n ELSE r

\* The value of ret after the addition that made the counter n.
Reported(n, r) == IF n = Total THEN n ELSE r

Write(t) ==
    /\ Goto(t, "write", "unlock")
    /\ tmp' = [tmp EXCEPT ![t] = @ + 1]
    /\ global_counter' = tmp[t] + 1
    /\ ret' = [ret EXCEPT ![t] = Reported(tmp[t] + 1, @)]
    /\ UNCHANGED <<callVars, global_mutex, i, counter>>

Unlock(t) ==
    /\ Goto(t, "unlock", "loop")
    /\ global_mutex' = NoOwner
    /\ i' = [i EXCEPT ![t] = @ + 1]
    /\ UNCHANGED <<callVars, global_counter, tmp, ret, counter>>

\* The loop ends and the ECALL returns ret to the App.
Leave(t) ==
    /\ Goto(t, "loop", "returned")
    /\ i[t] >= LOOPS_PER_THREAD
    /\ ReleaseTcs(t)
    /\ UNCHANGED <<global_counter, global_mutex, i, tmp, ret, counter>>

\* The ECALL fails under way, which a thread that sleeps because another one
\* has the mutex does not notice.
LostInside(t) ==
    /\ lost /\ pc[t] \in Inside
    /\ pc[t] = "loop" => global_mutex = NoOwner
    /\ CallFails
    /\ UNCHANGED <<global_counter, global_mutex, pc, i, tmp, ret, counter>>

\* Mutation: the result is copied whatever it is.
StoreAlways(t) ==
    /\ pc[t] = "returned" /\ pc' = [pc EXCEPT ![t] = "done"]
    /\ counter' = ret[t]
    /\ UNCHANGED <<callVars, global_counter, global_mutex, i, tmp, ret>>

\* Back in increase_counter: if (cnr != 0) counter = cnr.
Store(t) ==
    /\ pc[t] = "returned" /\ pc' = [pc EXCEPT ![t] = "done"]
    /\ counter' = IF ret[t] # 0 THEN ret[t] ELSE counter
    /\ UNCHANGED <<callVars, global_counter, global_mutex, i, tmp, ret>>

AdderStep(t) ==
    \/ Enter(t) \/ EnterFails(t) \/ LostInside(t)
    \/ Lock(t) \/ Read(t) \/ Write(t) \/ Unlock(t)
    \/ Leave(t) \/ Store(t)

Joined == \A t \in Adders : pc[t] = "done"

\* Nothing runs any more: every adder was joined, or abort() was called.
Stopped == (aborted \/ Joined) /\ UNCHANGED vars

Lose ==
    /\ LoseEnclave
    /\ UNCHANGED <<global_counter, global_mutex, pc, i, tmp, ret, counter>>

Next ==
    \/ ~aborted /\ \E t \in Adders : AdderStep(t)
    \/ ~aborted /\ Lose
    \/ Stopped

Spec == Init /\ [][Next]_vars
------------------------------------------------------------------------------
Critical == {"read", "write", "unlock"}             \* between lock and unlock

\* Additions of t that took effect, and all of them as pairs <<t, k>>.
Added(t) == IF pc[t] = "unlock" THEN i[t] + 1 ELSE i[t]
Adds     == {p \in Adders \X (1..LOOPS_PER_THREAD) : p[2] <= Added(p[1])}

\* Type invariant of the two statics, the locals and the runtime's state.
TypeOK ==
    /\ tcs \in SUBSET Adders /\ lost \in BOOLEAN /\ aborted \in BOOLEAN
    /\ global_counter \in Nat /\ global_mutex \in Adders \cup {NoOwner}
    /\ pc  \in [Adders -> Inside \cup {"start", "returned", "done"}]
    /\ i   \in [Adders -> 0..LOOPS_PER_THREAD]
    /\ tmp \in [Adders -> Nat]
    /\ ret \in [Adders -> {0, Total}]
    /\ counter \in {0, Total}

\* "mutually exclusive adding": the read of global_counter into tmp and the
\* write back lose no other thread's addition.
NoLostUpdate == global_counter = Cardinality(Adds)

\* The App's static counter is written without a lock.  That is no data race
\* because at most one adder ever comes back with a non-zero result.
SoleReport == \A t, u \in Adders : ret[t] # 0 /\ ret[u] # 0 => t = u

\* assert(counter == 4*LOOPS_PER_THREAD) once all adders are joined.
AssertHolds == Joined => counter = Total

\* The locked read-modify-write implements an atomic addition.
Atomic == INSTANCE AtomicCounter WITH
    Loops <- LOOPS_PER_THREAD, Goal <- Total, total <- global_counter, result <- ret,
    added <- [t \in Adders |-> Added(t)], published <- counter

AtomicSpec == Atomic!Spec
==============================================================================
