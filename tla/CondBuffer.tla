----------------------------- MODULE CondBuffer ------------------------------
(***************************************************************************)
(* The condition-variable half of ecall_thread_functions: one producer and *)
(* several consumers of the App, each making one ECALL, share the          *)
(* enclave's ring buffer cond_buffer_t.  The producer puts                 *)
(* 4*LOOPS_PER_THREAD items, every consumer takes LOOPS_PER_THREAD; the 4  *)
(* of the source is the number of Consumers here.                          *)
(*                                                                         *)
(* sgx_thread_cond_wait releases the mutex and joins the wait set in one   *)
(* step; sgx_thread_cond_signal moves one waiter, any of them, out of the  *)
(* set, and that thread must win the mutex again before it goes on.  The   *)
(* runtime's own queues are first-in first-out, one of the orders allowed  *)
(* here.                                                                   *)
(***************************************************************************)
EXTENDS EnclaveCall

CONSTANTS Producer, Consumers, LOOPS_PER_THREAD, BUFFER_SIZE,
          NoOwner                       \* the mutex has no owner

Threads == Consumers \cup {Producer}

ASSUME BufferAssumption ==
    /\ IsFiniteSet(Consumers) /\ Producer \notin Consumers
    /\ LOOPS_PER_THREAD \in Nat \ {0}
    /\ BUFFER_SIZE \in Nat \ {0}
    /\ NoOwner \notin Threads

VARIABLES buf, occupied, nextin, nextout,   \* cond_buffer_t
          mutex, more, less,                \* its mutex and wait sets
          pc, i                             \* per thread

ring == <<buf, occupied, nextin, nextout>>
vars == <<callVars, ring, mutex, more, less, pc, i>>

Slots == 0..BUFFER_SIZE-1

Critical == {"test", "access", "signal", "unlock"}   \* owner of the mutex
Inside   == Critical \cup {"loop", "waiting", "signalled"}

\* Mutation: the producer's loop test is <= .
LoopsOffByOne(t) ==
    IF t = Producer THEN Cardinality(Consumers) * LOOPS_PER_THREAD + 1
                    ELSE LOOPS_PER_THREAD

Loops(t) ==
    IF t = Producer THEN Cardinality(Consumers) * LOOPS_PER_THREAD
                    ELSE LOOPS_PER_THREAD

\* A step of t inside the enclave, into it or out of it.
Goto(t, from, to) == ~lost /\ pc[t] = from /\ pc' = [pc EXCEPT ![t] = to]

RingInit ==
    /\ buf = [k \in Slots |-> 0]
    /\ occupied = 0 /\ nextin = 0 /\ nextout = 0
    /\ mutex = NoOwner /\ more = {} /\ less = {}

Init ==
    /\ CallInit
    /\ RingInit
    /\ pc = [t \in Threads |-> "start"]
    /\ i  = [t \in Threads |-> 0]
------------------------------------------------------------------------------
\* data_producer and data_consumer make their ECALL.
Enter(t) ==
    /\ Goto(t, "start", "loop")
    /\ AcquireTcs(t)
    /\ UNCHANGED <<ring, mutex, more, less, i>>

\* Mutation: the status of the ECALL is not looked at.
StatusIgnored(t) ==
    /\ pc[t] = "start" /\ pc' = [pc EXCEPT ![t] = "done"]
    /\ UNCHANGED <<callVars, ring, mutex, more, less, i>>

\* The ECALL cannot be made and its caller aborts.
EnterFails(t) ==
    /\ pc[t] = "start"
    /\ CallFails
    /\ UNCHANGED <<ring, mutex, more, less, pc, i>>

\* The ECALL fails under way.  A thread that sleeps, on a condition or because
\* another one has the mutex, does not notice.
LostInside(t) ==
    /\ lost /\ pc[t] \in Inside \ {"waiting"}
    /\ pc[t] \in {"loop", "signalled"} => mutex = NoOwner
    /\ CallFails
    /\ UNCHANGED <<ring, mutex, more, less, pc, i>>

\* The loop test and sgx_thread_mutex_lock.
Lock(t) ==
    /\ Goto(t, "loop", "test")
    /\ i[t] < Loops(t)
    /\ mutex = NoOwner /\ mutex' = t
    /\ UNCHANGED <<callVars, ring, more, less, i>>

\* Mutation: an if where the source has a while.
RelockNoRetest(t) ==
    /\ Goto(t, "signalled", "access")
    /\ mutex = NoOwner /\ mutex' = t
    /\ UNCHANGED <<callVars, ring, more, less, i>>

\* The last part of sgx_thread_cond_wait of a thread that was signalled.  The
\* while loop makes it test the buffer again.
Relock(t) ==
    /\ Goto(t, "signalled", "test")
    /\ mutex = NoOwner /\ mutex' = t
    /\ UNCHANGED <<callVars, ring, more, less, i>>

ProducerWaits ==
    /\ Goto(Producer, "test", "waiting")
    /\ occupied >= BUFFER_SIZE
    /\ less' = less \cup {Producer}
    /\ mutex' = NoOwner
    /\ UNCHANGED <<callVars, ring, more, i>>

ProducerMayPut ==
    /\ Goto(Producer, "test", "access")
    /\ occupied < BUFFER_SIZE
    /\ UNCHANGED <<callVars, ring, mutex, more, less, i>>

Put ==
    /\ Goto(Producer, "access", "signal")
    /\ buf' = [buf EXCEPT ![nextin] = nextin]
    /\ nextin' = (nextin + 1) % BUFFER_SIZE
    /\ occupied' = occupied + 1
    /\ UNCHANGED <<callVars, nextout, mutex, more, less, i>>

ConsumerWaits(c) ==
    /\ Goto(c, "test", "waiting")
    /\ occupied <= 0
    /\ more' = more \cup {c}
    /\ mutex' = NoOwner
    /\ UNCHANGED <<callVars, ring, less, i>>

ConsumerMayTake(c) ==
    /\ Goto(c, "test", "access")
    /\ occupied > 0
    /\ UNCHANGED <<callVars, ring, mutex, more, less, i>>

\* Mutation: ++nextout for nextout++, the wrong slot is cleared.
TakeNextSlot(c) ==
    /\ Goto(c, "access", "signal")
    /\ buf' = [buf EXCEPT ![(nextout + 1) % BUFFER_SIZE] = 0]
    /\ nextout' = (nextout + 1) % BUFFER_SIZE
    /\ occupied' = occupied - 1
    /\ UNCHANGED <<callVars, nextin, mutex, more, less, i>>

\* Mutation: the consumer takes back the item put last.
TakeNewest(c) ==
    /\ Goto(c, "access", "signal")
    /\ buf' = [buf EXCEPT ![(nextin - 1) % BUFFER_SIZE] = 0]
    /\ nextin' = (nextin - 1) % BUFFER_SIZE
    /\ occupied' = occupied - 1
    /\ UNCHANGED <<callVars, nextout, mutex, more, less, i>>

Take(c) ==
    /\ Goto(c, "access", "signal")
    /\ buf' = [buf EXCEPT ![nextout] = 0]
    /\ nextout' = (nextout + 1) % BUFFER_SIZE
    /\ occupied' = occupied - 1
    /\ UNCHANGED <<callVars, nextin, mutex, more, less, i>>

\* sgx_thread_cond_signal by t on the condition whose wait set is W: wakes one
\* waiter, does nothing when there is none.
Signal(t, W) ==
    /\ ~lost /\ pc[t] = "signal"
    /\ \/ /\ W = {} /\ UNCHANGED W
          /\ pc' = [pc EXCEPT ![t] = "unlock"]
       \/ \E w \in W :
             /\ W' = W \ {w}
             /\ pc' = [pc EXCEPT ![t] = "unlock", ![w] = "signalled"]

\* Mutation: the producer signals only when the buffer was empty.
SignalMoreOnFirst ==
    /\ IF occupied = 1
       THEN Signal(Producer, more)
       ELSE Goto(Producer, "signal", "unlock") /\ UNCHANGED more
    /\ UNCHANGED <<callVars, ring, mutex, less, i>>

SignalMore ==
    /\ Signal(Producer, more)
    /\ UNCHANGED <<callVars, ring, mutex, less, i>>

\* Mutation: a consumer signals its own condition.
SignalLessToMore(c) ==
    /\ Signal(c, more)
    /\ UNCHANGED <<callVars, ring, mutex, less, i>>

SignalLess(c) ==
    /\ Signal(c, less)
    /\ UNCHANGED <<callVars, ring, mutex, more, i>>

Unlock(t) ==
    /\ Goto(t, "unlock", "loop")
    /\ mutex' = NoOwner
    /\ i' = [i EXCEPT ![t] = @ + 1]
    /\ UNCHANGED <<callVars, ring, more, less>>

\* The loop ends, the ECALL returns and the App's thread with it.
Leave(t) ==
    /\ Goto(t, "loop", "done")
    /\ i[t] >= Loops(t)
    /\ ReleaseTcs(t)
    /\ UNCHANGED <<ring, mutex, more, less, i>>

ThreadStep(t) ==
    \/ Enter(t) \/ EnterFails(t) \/ LostInside(t)
    \/ Lock(t) \/ Relock(t) \/ Unlock(t) \/ Leave(t)

ProducerStep == ProducerWaits \/ ProducerMayPut \/ Put \/ SignalMore

ConsumerStep(c) ==
    ConsumerWaits(c) \/ ConsumerMayTake(c) \/ Take(c) \/ SignalLess(c)

Joined == \A t \in Threads : pc[t] = "done"

Running ==
    /\ ~aborted
    /\ \/ \E t \in Threads : ThreadStep(t)
       \/ ProducerStep
       \/ \E c \in Consumers : ConsumerStep(c)

\* Nothing runs any more: every thread was joined, or abort() was called.
Stopped == (aborted \/ Joined) /\ UNCHANGED vars

Lose ==
    /\ LoseEnclave
    /\ UNCHANGED <<ring, mutex, more, less, pc, i>>

Next == Running \/ (~aborted /\ Lose) \/ Stopped

Spec == Init /\ [][Next]_vars
------------------------------------------------------------------------------
\* Items t has put or taken so far.
Moved(t) == IF pc[t] \in {"signal", "unlock"} THEN i[t] + 1 ELSE i[t]

\* All items taken, as pairs <<consumer, k>>.
Taken == {p \in Consumers \X (1..LOOPS_PER_THREAD) : p[2] <= Moved(p[1])}

\* The consumers that will still look at the buffer.
Awake == {c \in Consumers : pc[c] \in {"test", "access", "signalled"}}

\* The slots that hold an item, in the order they are taken.
Filled(n) == (nextout + n - 1) % BUFFER_SIZE

\* Type invariant of the buffer, the wait sets and the threads.
TypeOK ==
    /\ tcs \in SUBSET Threads /\ lost \in BOOLEAN /\ aborted \in BOOLEAN
    /\ buf \in [Slots -> Slots] /\ occupied \in Int
    /\ nextin \in Slots /\ nextout \in Slots
    /\ mutex \in Threads \cup {NoOwner}
    /\ more \in SUBSET Consumers /\ less \in SUBSET {Producer}
    /\ pc \in [Threads -> Inside \cup {"start", "done"}]
    /\ i \in [Threads -> Nat] /\ \A t \in Threads : i[t] <= Loops(t)

\* The producer never overwrites an item that was not taken, no consumer takes
\* from an empty buffer, however the threads interleave between the test of
\* occupied and its use, and whoever takes an item between a signal and the
\* moment the signalled thread has the mutex again.
WithinCapacity == occupied \in 0..BUFFER_SIZE

\* The buffer is what the threads have put and not yet taken: their loop
\* counters agree with occupied, the slots from nextout up to nextin hold what
\* the producer wrote, all others were cleared by the consumer that took them.
RingIntact ==
    /\ occupied = Moved(Producer) - Cardinality(Taken)
    /\ nextin = (nextout + occupied) % BUFFER_SIZE
    /\ \A k \in Slots :
          buf[k] = IF \E n \in 1..occupied : Filled(n) = k THEN k ELSE 0

\* No wakeup is lost.  While consumers sleep, every item in the buffer has a
\* consumer that is awake and will look again, or a signal about to be sent;
\* and a sleeping producer means that the buffer is still full, or that a
\* consumer is about to signal it.
NoLostWakeup ==
    /\ more # {} =>
         occupied <= Cardinality(Awake) + (IF pc[Producer] = "signal" THEN 1 ELSE 0)
    /\ less # {} =>
         occupied = BUFFER_SIZE \/ \E c \in Consumers : pc[c] = "signal"

\* The threads never all sleep, or are gone, while there is work left to do.
NoDeadlock == Joined \/ \E t \in Threads : pc[t] \notin {"waiting", "done"}

\* All items have been taken when the App has joined the threads.
DrainedAtJoin == Joined => occupied = 0 /\ buf = [k \in Slots |-> 0]

\* The ring buffer implements a bounded first-in first-out channel.
Channel == INSTANCE BoundedChannel WITH
    Capacity <- BUFFER_SIZE, sent <- Moved(Producer),
    channel <- [n \in 1..occupied |-> buf[Filled(n)]]

ChannelSpec == Channel!Spec
==============================================================================
