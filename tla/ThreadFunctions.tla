--------------------------- MODULE ThreadFunctions ---------------------------
(***************************************************************************)
(* ecall_thread_functions, called ROUNDS times on one enclave: it starts   *)
(* the adders, joins them, asserts the grand total, starts the producer    *)
(* and the consumers and joins them.  The adders are those of              *)
(* IncreaseCounter, the others those of CondBuffer; the two share the pool *)
(* of TCSs, and the statics on both sides of the enclave border keep their *)
(* values from one call to the next.                                       *)
(*                                                                         *)
(* A thread that was created and one not created yet take no step that     *)
(* others see before their ECALL, so all threads of a phase start at once. *)
(***************************************************************************)
EXTENDS Integers, FiniteSets

CONSTANTS Adders, Producer, Consumers, LOOPS_PER_THREAD, BUFFER_SIZE, TCS_NUM,
          NoOwner,
          ROUNDS                        \* bound: calls of ecall_thread_functions

ASSUME ThreadsAssumption ==
    /\ IsFiniteSet(Adders) /\ IsFiniteSet(Consumers) /\ Producer \notin Consumers
    /\ NoOwner \notin Adders \cup Consumers \cup {Producer}
    /\ {LOOPS_PER_THREAD, BUFFER_SIZE, TCS_NUM} \subseteq Nat \ {0}
    /\ ROUNDS \in Nat

VARIABLES phase, round,                 \* the thread that makes the calls
          tcs, lost, aborted,
          global_counter, global_mutex, counter, apc, ai, tmp, ret,
          buf, occupied, nextin, nextout, mutex, more, less, bpc, bi

Adding    == INSTANCE IncreaseCounter WITH pc <- apc, i <- ai
Buffering == INSTANCE CondBuffer WITH pc <- bpc, i <- bi

callVars  == <<tcs, lost, aborted>>
addLocals == <<apc, ai, tmp, ret>>
bufLocals == <<bpc, bi>>
statics   == <<global_counter, global_mutex, counter,
               buf, occupied, nextin, nextout, mutex, more, less>>
bufVars   == <<buf, occupied, nextin, nextout, mutex, more, less, bufLocals>>
addVars   == <<global_counter, global_mutex, counter, addLocals>>
vars      == <<phase, round, callVars, addVars, bufVars>>

Init ==
    /\ phase = "idle" /\ round = 0
    /\ Adding!Init
    /\ Buffering!Init
------------------------------------------------------------------------------
\* The call: thread adder1(increase_counter) and so on.
StartAdders ==
    /\ phase = "idle" /\ phase' = "adding"
    /\ round < ROUNDS
    /\ apc' = [t \in Adders |-> "start"]
    /\ ai'  = [t \in Adders |-> 0]
    /\ tmp' = [t \in Adders |-> 0]
    /\ ret' = [t \in Adders |-> 0]
    /\ UNCHANGED <<round, callVars, statics, bufLocals>>

AdderRuns ==
    /\ phase = "adding"
    /\ \E t \in Adders : Adding!AdderStep(t)
    /\ UNCHANGED <<phase, round, bufVars>>

\* Mutation: one adder is not joined.
JoinAddersButOne ==
    /\ phase = "adding" /\ phase' = "buffering"
    /\ Cardinality({t \in Adders : apc[t] # "done"}) <= 1
    /\ aborted' = (counter # Adding!Total)
    /\ bpc' = [t \in Buffering!Threads |-> "start"]
    /\ bi'  = [t \in Buffering!Threads |-> 0]
    /\ UNCHANGED <<round, tcs, lost, statics, addLocals>>

\* The joins of the adders, the assertion, and the next five threads.
JoinAdders ==
    /\ phase = "adding" /\ phase' = "buffering"
    /\ Adding!Joined
    /\ aborted' = (counter # Adding!Total)
    /\ bpc' = [t \in Buffering!Threads |-> "start"]
    /\ bi'  = [t \in Buffering!Threads |-> 0]
    /\ UNCHANGED <<round, tcs, lost, statics, addLocals>>

BufferThreadRuns ==
    /\ phase = "buffering"
    /\ Buffering!Running
    /\ UNCHANGED <<phase, round, addVars>>

\* Mutation: the producer is not joined.
JoinConsumersOnly ==
    /\ phase = "buffering" /\ phase' = "idle"
    /\ \A c \in Consumers : bpc[c] = "done"
    /\ round' = round + 1
    /\ UNCHANGED <<callVars, statics, addLocals, bufLocals>>

\* The last joins; the call returns.
JoinBufferThreads ==
    /\ phase = "buffering" /\ phase' = "idle"
    /\ Buffering!Joined
    /\ round' = round + 1
    /\ UNCHANGED <<callVars, statics, addLocals, bufLocals>>

\* The enclave may be lost at any time, between two calls too.
Lose ==
    /\ Adding!LoseEnclave
    /\ UNCHANGED <<phase, round, addVars, bufVars>>

Running ==
    /\ ~aborted
    /\ StartAdders \/ AdderRuns \/ JoinAdders \/ BufferThreadRuns \/ JoinBufferThreads

Stopped == (aborted \/ (phase = "idle" /\ round = ROUNDS)) /\ UNCHANGED vars

Next == Running \/ (~aborted /\ Lose) \/ Stopped

Spec == Init /\ [][Next]_vars

\* The operating system keeps running some thread that can run.
FairSpec == Spec /\ WF_vars(Running)
------------------------------------------------------------------------------
\* Nothing of a call outlives it: between calls no thread is in the enclave,
\* both mutexes are free, nobody sleeps and the ring is empty, wherever in the
\* ring the next call will start.
CleanBetweenCalls ==
    phase = "idle" =>
        /\ tcs = {} /\ global_mutex = NoOwner /\ mutex = NoOwner
        /\ more = {} /\ less = {}
        /\ occupied = 0 /\ nextin = nextout /\ \A k \in Buffering!Slots : buf[k] = 0

\* The enclave's total grows with every call while the App's copy is the one
\* the first call made: only the first call tests the addition of that call.
\* So the assertion after the joins never fails, in whichever call.
StaleCopy ==
    phase # "adding" =>
        /\ global_counter = (IF phase = "idle" THEN round ELSE round + 1) * Adding!Total
        /\ counter = IF global_counter = 0 THEN 0 ELSE Adding!Total

\* The buffer is never over- or underfull and its contents agree with the
\* threads' progress in every call, also in one that starts mid-ring.
BufferIntact == phase = "buffering" => Buffering!RingIntact /\ Buffering!NoLostWakeup

\* Every call returns, or the process is aborted: also when there are too few
\* TCSs because threads that sleep keep theirs, and when the enclave is lost
\* while all but one of the threads sleep.
CallsReturn == phase # "idle" ~> phase = "idle" \/ aborted
==============================================================================
