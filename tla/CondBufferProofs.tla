-------------------------- MODULE CondBufferProofs ---------------------------
(***************************************************************************)
(* Proofs about CondBuffer for every number of consumers, loops and TCSs   *)
(* and every size of the buffer, whichever ECALLs fail and whenever the    *)
(* enclave is lost: its safety properties, and that it implements          *)
(* BoundedChannel.                                                         *)
(***************************************************************************)
EXTENDS CondBuffer, FiniteSetTheorems, SequenceTheorems, TLAPS

Total == Cardinality(Consumers) * LOOPS_PER_THREAD

\* Control points agree with the mutex, the wait sets, the loop counters and
\* the TCSs.
ControlInv ==
    /\ \A t \in Threads : pc[t] \in Critical <=> mutex = t
    /\ \A c \in Consumers : pc[c] = "waiting" <=> c \in more
    /\ pc[Producer] = "waiting" <=> Producer \in less
    /\ \A t \in Threads :
          pc[t] \in Critical \cup {"waiting", "signalled"} => i[t] < Loops(t)
    /\ \A t \in Threads : pc[t] = "done" => i[t] = Loops(t)
    /\ tcs = {t \in Threads : pc[t] \in Inside}

\* The test of occupied is still true when the thread acts on it.
AccessInv ==
    /\ pc[Producer] = "access" => occupied < BUFFER_SIZE
    /\ \A c \in Consumers : pc[c] = "access" => occupied > 0

\* True wherever in the ring the threads start.
IInv ==
    /\ TypeOK
    /\ ControlInv
    /\ AccessInv
    /\ WithinCapacity
    /\ RingIntact
    /\ NoLostWakeup
------------------------------------------------------------------------------
\* A place of the ring reached from another by less than one round.
LEMMA Wrap ==
    ASSUME NEW a \in Slots, NEW n \in 0..BUFFER_SIZE
    PROVE  (a + n) % BUFFER_SIZE =
               IF a + n < BUFFER_SIZE THEN a + n ELSE a + n - BUFFER_SIZE
<1>1. ASSUME NEW k \in 0..BUFFER_SIZE-1
      PROVE  k % BUFFER_SIZE = k
  BY BufferAssumption
<1>2. ASSUME NEW k \in BUFFER_SIZE..2*BUFFER_SIZE-1
      PROVE  k % BUFFER_SIZE = k - BUFFER_SIZE
  BY BufferAssumption
<1>. QED  BY <1>1, <1>2, BufferAssumption DEF Slots

LEMMA NextSlot ==
    ASSUME NEW a \in Slots
    PROVE  /\ (a + 1) % BUFFER_SIZE = IF a + 1 < BUFFER_SIZE THEN a + 1 ELSE 0
           /\ (a + 1) % BUFFER_SIZE \in Slots
<1>1. 1 \in 0..BUFFER_SIZE
  BY BufferAssumption
<1>2. (a + 1) % BUFFER_SIZE =
          IF a + 1 < BUFFER_SIZE THEN a + 1 ELSE a + 1 - BUFFER_SIZE
  BY <1>1, Wrap
<1>. HIDE DEF Slots
<1>. DEFINE m == (a + 1) % BUFFER_SIZE
<1>3. m = IF a + 1 < BUFFER_SIZE THEN a + 1 ELSE a + 1 - BUFFER_SIZE
  BY <1>2
<1>. HIDE DEF m
<1>4. m = (IF a + 1 < BUFFER_SIZE THEN a + 1 ELSE 0) /\ m \in Slots
  BY <1>3, BufferAssumption DEF Slots
<1>. QED  BY <1>4 DEF m

LEMMA NextMod ==
    ASSUME NEW a \in Nat
    PROVE  (a + 1) % BUFFER_SIZE = ((a % BUFFER_SIZE) + 1) % BUFFER_SIZE
<1>. DEFINE q == a \div BUFFER_SIZE
            r == a % BUFFER_SIZE
<1>1. q \in Int /\ r \in Slots /\ a = BUFFER_SIZE * q + r
  BY BufferAssumption DEF Slots
<1>. HIDE DEF q, r
<1>2. CASE r = BUFFER_SIZE - 1
  <2>1. a + 1 = BUFFER_SIZE * (q + 1)
    BY <1>1, <1>2, BufferAssumption
  <2>2. (BUFFER_SIZE * (q + 1)) % BUFFER_SIZE = 0
    BY <1>1, BufferAssumption
  <2>3. (r + 1) % BUFFER_SIZE = 0
    BY <1>1, <1>2, BufferAssumption
  <2>. QED  BY <2>1, <2>2, <2>3 DEF r
<1>3. CASE r < BUFFER_SIZE - 1
  <2>1. (BUFFER_SIZE * q + (r + 1)) % BUFFER_SIZE = r + 1
    BY <1>1, <1>3, BufferAssumption DEF Slots
  <2>2. (r + 1) % BUFFER_SIZE = r + 1
    BY <1>1, <1>3, BufferAssumption DEF Slots
  <2>. QED  BY <1>1, <2>1, <2>2, BufferAssumption DEF r, Slots
<1>. QED  BY <1>1, <1>2, <1>3, BufferAssumption DEF Slots

LEMMA LoopsType ==
    /\ Cardinality(Consumers) \in Nat
    /\ Total \in Nat
    /\ Loops(Producer) = Total
    /\ \A c \in Consumers : Loops(c) = LOOPS_PER_THREAD
    /\ \A t \in Threads : Loops(t) \in Nat
<1>1. Cardinality(Consumers) \in Nat
  BY FS_CardinalityType, BufferAssumption
<1>2. \A m, n \in Nat : m * n \in Nat
  OBVIOUS
<1>3. Total \in Nat
  BY <1>1, <1>2, BufferAssumption DEF Total
<1>. QED  BY <1>1, <1>3, BufferAssumption DEF Total, Loops, Threads

\* Any set of takes is finite and has at most Total elements.
LEMMA TakenBound ==
    /\ IsFiniteSet(Taken)
    /\ Cardinality(Taken) \in Nat
    /\ Cardinality(Taken) <= Total
<1>1. /\ IsFiniteSet(1..LOOPS_PER_THREAD)
      /\ Cardinality(1..LOOPS_PER_THREAD) = LOOPS_PER_THREAD
  BY FS_Interval, BufferAssumption
<1>2. /\ IsFiniteSet(Consumers \X (1..LOOPS_PER_THREAD))
      /\ Cardinality(Consumers \X (1..LOOPS_PER_THREAD)) = Total
  BY <1>1, FS_Product, BufferAssumption DEF Total
<1>3. Taken \subseteq Consumers \X (1..LOOPS_PER_THREAD)
  BY DEF Taken
<1>. QED  BY <1>2, <1>3, FS_Subset, FS_CardinalityType

\* Total items are taken when every consumer has taken all of its own, and
\* only then.
LEMMA TakenComplete ==
    ASSUME TypeOK
    PROVE  Cardinality(Taken) = Total <=>
               \A c \in Consumers : Moved(c) >= LOOPS_PER_THREAD
<1>. DEFINE All == Consumers \X (1..LOOPS_PER_THREAD)
<1>1. /\ IsFiniteSet(1..LOOPS_PER_THREAD)
      /\ Cardinality(1..LOOPS_PER_THREAD) = LOOPS_PER_THREAD
  BY FS_Interval, BufferAssumption
<1>2. IsFiniteSet(All) /\ Cardinality(All) = Total
  BY <1>1, FS_Product, BufferAssumption DEF Total
<1>3. Taken \subseteq All
  BY DEF Taken
<1>4. Cardinality(Taken) = Total <=> Taken = All
  BY <1>2, <1>3, FS_Subset, FS_CardinalityType
<1>5. \A c \in Consumers : Moved(c) \in Nat
  BY DEF Moved, TypeOK, Threads
<1>6. Taken = All <=> \A c \in Consumers : \A k \in 1..LOOPS_PER_THREAD : k <= Moved(c)
  <2>1. ASSUME Taken = All, NEW c \in Consumers, NEW k \in 1..LOOPS_PER_THREAD
        PROVE  k <= Moved(c)
    <3>1. <<c, k>> \in Taken
      BY <2>1
    <3>. QED  BY <3>1 DEF Taken
  <2>2. ASSUME \A c \in Consumers : \A k \in 1..LOOPS_PER_THREAD : k <= Moved(c)
        PROVE  Taken = All
    BY <2>2 DEF Taken
  <2>. QED  BY <2>1, <2>2
<1>7. ASSUME NEW m \in Nat
      PROVE  m >= LOOPS_PER_THREAD <=> \A k \in 1..LOOPS_PER_THREAD : k <= m
  BY BufferAssumption
<1>. QED  BY <1>4, <1>5, <1>6, <1>7

LEMMA TakenUnchanged ==
    ASSUME \A c \in Consumers : Moved(c)' = Moved(c)
    PROVE  Taken' = Taken
  BY DEF Taken

\* One consumer's next take is exactly one more element of Taken.
LEMMA TakenGrows ==
    ASSUME TypeOK, NEW c \in Consumers,
           Moved(c) < LOOPS_PER_THREAD,
           Moved(c)' = Moved(c) + 1,
           \A d \in Consumers \ {c} : Moved(d)' = Moved(d)
    PROVE  Cardinality(Taken') = Cardinality(Taken) + 1
<1>1. \A d \in Consumers : Moved(d) \in Nat
  BY DEF TypeOK, Moved, Threads
<1>2. Taken' = Taken \cup {<<c, Moved(c) + 1>>}
  BY <1>1, BufferAssumption DEF Taken
<1>3. <<c, Moved(c) + 1>> \notin Taken
  BY <1>1 DEF Taken
<1>. QED  BY <1>2, <1>3, TakenBound, FS_AddElement

LEMMA AwakeType == IsFiniteSet(Awake) /\ Cardinality(Awake) \in Nat
  BY FS_Subset, FS_CardinalityType, BufferAssumption DEF Awake
------------------------------------------------------------------------------
\* Filled(1), Filled(2), ... go around the ring from nextout to just before
\* nextin, and meet no slot twice.
LEMMA FilledPlace ==
    ASSUME TypeOK, NEW n \in 1..BUFFER_SIZE
    PROVE  /\ Filled(n) = IF nextout + n - 1 < BUFFER_SIZE
                          THEN nextout + n - 1 ELSE nextout + n - 1 - BUFFER_SIZE
           /\ Filled(n) \in Slots
<1>1. nextout \in Slots /\ n - 1 \in 0..BUFFER_SIZE /\ nextout + n - 1 = nextout + (n - 1)
  BY BufferAssumption DEF TypeOK, Slots
<1>2. Filled(n) = IF nextout + n - 1 < BUFFER_SIZE
                  THEN nextout + n - 1 ELSE nextout + n - 1 - BUFFER_SIZE
  BY <1>1, Wrap DEF Filled
<1>. QED  BY <1>1, <1>2, BufferAssumption DEF Slots

\* After a take every item left is one place nearer to nextout.
LEMMA FilledShift ==
    ASSUME TypeOK, nextout' = (nextout + 1) % BUFFER_SIZE, NEW n \in 1..BUFFER_SIZE-1
    PROVE  Filled(n)' = Filled(n + 1)
<1>1. nextout' = IF nextout + 1 < BUFFER_SIZE THEN nextout + 1 ELSE 0
  BY NextSlot DEF TypeOK
<1>2. nextout' \in Slots /\ n - 1 \in 0..BUFFER_SIZE
  BY NextSlot, BufferAssumption DEF TypeOK
<1>3. (nextout' + (n - 1)) % BUFFER_SIZE =
          IF nextout' + (n - 1) < BUFFER_SIZE
          THEN nextout' + (n - 1) ELSE nextout' + (n - 1) - BUFFER_SIZE
  BY <1>2, Wrap
<1>4. nextout' + n - 1 = nextout' + (n - 1)
  BY <1>2 DEF Slots
<1>5. /\ n + 1 \in 1..BUFFER_SIZE
      /\ Filled(n + 1) = IF nextout + n < BUFFER_SIZE
                         THEN nextout + n ELSE nextout + n - BUFFER_SIZE
  <2>1. n + 1 \in 1..BUFFER_SIZE /\ nextout + (n + 1) - 1 = nextout + n
    BY BufferAssumption DEF TypeOK, Slots
  <2>. QED  BY <2>1, FilledPlace
<1>6. Filled(n)' = (nextout' + (n - 1)) % BUFFER_SIZE
  BY <1>4 DEF Filled
<1>7. Filled(n)' = IF nextout' + (n - 1) < BUFFER_SIZE
                   THEN nextout' + (n - 1) ELSE nextout' + (n - 1) - BUFFER_SIZE
  BY <1>3, <1>6
<1>8. nextout \in Slots
  BY DEF TypeOK
<1>. QED  BY <1>1, <1>5, <1>7, <1>8, BufferAssumption DEF Slots

LEMMA RingKept ==
    ASSUME IInv, UNCHANGED ring, \A t \in Threads : Moved(t)' = Moved(t)
    PROVE  WithinCapacity' /\ RingIntact'
<1>1. Taken' = Taken
  BY TakenUnchanged DEF Threads
<1>. QED
  BY <1>1 DEF IInv, WithinCapacity, RingIntact, ring, Threads, Filled

LEMMA PutRing ==
    ASSUME IInv, Put
    PROVE  WithinCapacity' /\ RingIntact' /\ nextin' \in Slots
<1>. USE DEF IInv
<1>1. occupied \in 0..BUFFER_SIZE-1 /\ occupied' = occupied + 1
  BY BufferAssumption DEF Put, Goto, AccessInv, WithinCapacity
<1>2. Moved(Producer) \in Nat /\ Moved(Producer)' = Moved(Producer) + 1
  BY DEF Put, Goto, TypeOK, Moved, Threads
<1>3. \A c \in Consumers : Moved(c)' = Moved(c)
  BY BufferAssumption DEF Put, Goto, TypeOK, Moved, Threads
<1>4. occupied' = Moved(Producer)' - Cardinality(Taken')
  BY <1>1, <1>2, <1>3, TakenUnchanged, TakenBound DEF RingIntact
<1>6. nextin = Filled(occupied + 1)
  BY <1>1 DEF RingIntact, Filled, TypeOK, Slots
<1>7. nextin' = (nextout' + occupied') % BUFFER_SIZE
  <2>1. nextin = IF nextout + occupied < BUFFER_SIZE
                 THEN nextout + occupied ELSE nextout + occupied - BUFFER_SIZE
    <3>1. occupied \in 0..BUFFER_SIZE /\ nextout \in Slots
      BY <1>1, BufferAssumption DEF TypeOK
    <3>2. (nextout + occupied) % BUFFER_SIZE =
              IF nextout + occupied < BUFFER_SIZE
              THEN nextout + occupied ELSE nextout + occupied - BUFFER_SIZE
      BY <3>1, Wrap
    <3>. QED  BY <3>2 DEF RingIntact
  <2>2. nextin' = IF nextin + 1 < BUFFER_SIZE THEN nextin + 1 ELSE 0
    BY NextSlot DEF Put, TypeOK
  <2>3. occupied + 1 \in 0..BUFFER_SIZE
    BY <1>1, BufferAssumption
  <2>4. (nextout + (occupied + 1)) % BUFFER_SIZE =
            IF nextout + (occupied + 1) < BUFFER_SIZE
            THEN nextout + (occupied + 1) ELSE nextout + (occupied + 1) - BUFFER_SIZE
    BY <2>3, Wrap DEF TypeOK
  <2>5. nextout' = nextout
    BY DEF Put
  <2>. QED  BY <1>1, <2>1, <2>2, <2>4, <2>5, BufferAssumption DEF TypeOK, Slots
<1>8. \A n \in 1..occupied+1 : Filled(n)' = Filled(n)
  BY DEF Put, Filled
<1>9. \A k \in Slots :
         buf'[k] = IF \E n \in 1..occupied' : Filled(n)' = k THEN k ELSE 0
  <2>1. buf' = [buf EXCEPT ![nextin] = nextin]
    BY DEF Put
  <2>2. ASSUME NEW k \in Slots
        PROVE  (\E n \in 1..occupied' : Filled(n)' = k)
                 <=> (k = nextin \/ \E n \in 1..occupied : Filled(n) = k)
    BY <1>1, <1>6, <1>8
  <2>. QED  BY <2>1, <2>2 DEF RingIntact, TypeOK
<1>10. nextin' \in Slots
  BY NextSlot DEF Put, TypeOK
<1>. QED  BY <1>1, <1>4, <1>7, <1>9, <1>10, BufferAssumption DEF WithinCapacity, RingIntact

LEMMA TakeRing ==
    ASSUME IInv, NEW c \in Consumers, Take(c)
    PROVE  WithinCapacity' /\ RingIntact' /\ nextout' \in Slots
<1>. USE DEF IInv
<1>1. occupied \in 1..BUFFER_SIZE /\ occupied' = occupied - 1
  BY DEF Take, Goto, AccessInv, WithinCapacity
<1>2. /\ Moved(c) \in Nat /\ Moved(c) < LOOPS_PER_THREAD
      /\ Moved(c)' = Moved(c) + 1
  BY LoopsType DEF Take, Goto, TypeOK, Moved, Threads, ControlInv, Critical
<1>3. \A t \in Threads \ {c} : Moved(t)' = Moved(t)
  BY DEF Take, Goto, TypeOK, Moved
<1>4. Moved(Producer)' = Moved(Producer) /\ Moved(Producer) \in Nat
  BY <1>3, BufferAssumption DEF Threads, Moved, TypeOK
<1>5. Cardinality(Taken') = Cardinality(Taken) + 1
  BY <1>2, <1>3, TakenGrows, BufferAssumption DEF Threads
<1>6. occupied' = Moved(Producer)' - Cardinality(Taken')
  BY <1>1, <1>4, <1>5, TakenBound DEF RingIntact
<1>8. nextout' = IF nextout + 1 < BUFFER_SIZE THEN nextout + 1 ELSE 0
  BY NextSlot DEF Take, TypeOK
<1>9. nextout' \in Slots
  BY NextSlot DEF Take, TypeOK
<1>10. nextin' = (nextout' + occupied') % BUFFER_SIZE
  <2>1. nextin = IF nextout + occupied < BUFFER_SIZE
                 THEN nextout + occupied ELSE nextout + occupied - BUFFER_SIZE
    <3>1. occupied \in 0..BUFFER_SIZE /\ nextout \in Slots
      BY <1>1, BufferAssumption DEF TypeOK
    <3>2. (nextout + occupied) % BUFFER_SIZE =
              IF nextout + occupied < BUFFER_SIZE
              THEN nextout + occupied ELSE nextout + occupied - BUFFER_SIZE
      BY <3>1, Wrap
    <3>. QED  BY <3>2 DEF RingIntact
  <2>2. occupied - 1 \in 0..BUFFER_SIZE
    BY <1>1, BufferAssumption
  <2>3. (nextout' + occupied') % BUFFER_SIZE =
            IF nextout' + occupied' < BUFFER_SIZE
            THEN nextout' + occupied' ELSE nextout' + occupied' - BUFFER_SIZE
    BY <1>1, <1>9, <2>2, Wrap
  <2>4. nextin' = nextin
    BY DEF Take
  <2>. QED  BY <1>1, <1>8, <2>1, <2>3, <2>4, BufferAssumption DEF TypeOK, Slots
<1>11. \A n \in 1..occupied' : n + 1 \in 2..occupied /\ Filled(n)' = Filled(n + 1)
  BY <1>1, FilledShift, BufferAssumption DEF Take
<1>12. Filled(1) = nextout
  <2>1. 1 \in 1..BUFFER_SIZE
    BY BufferAssumption
  <2>2. Filled(1) = IF nextout + 1 - 1 < BUFFER_SIZE
                    THEN nextout + 1 - 1 ELSE nextout + 1 - 1 - BUFFER_SIZE
    BY <2>1, FilledPlace
  <2>. QED  BY <2>2, BufferAssumption DEF TypeOK, Slots
<1>13. \A n \in 2..occupied : Filled(n) # nextout
  <2>1. SUFFICES ASSUME NEW n \in 2..occupied PROVE Filled(n) # nextout
    OBVIOUS
  <2>2. n \in 1..BUFFER_SIZE
    BY <1>1, BufferAssumption
  <2>3. Filled(n) = IF nextout + n - 1 < BUFFER_SIZE
                    THEN nextout + n - 1 ELSE nextout + n - 1 - BUFFER_SIZE
    BY <2>2, FilledPlace
  <2>. QED  BY <1>1, <2>3, BufferAssumption DEF TypeOK, Slots
<1>14. \A k \in Slots :
          buf'[k] = IF \E n \in 1..occupied' : Filled(n)' = k THEN k ELSE 0
  <2>1. buf' = [buf EXCEPT ![nextout] = 0]
    BY DEF Take
  <2>2. ASSUME NEW k \in Slots
        PROVE  (\E n \in 1..occupied' : Filled(n)' = k)
                 <=> (k # nextout /\ \E n \in 1..occupied : Filled(n) = k)
    <3>1. ASSUME NEW n \in 1..occupied, Filled(n) = k, k # nextout
          PROVE  n - 1 \in 1..occupied' /\ Filled(n - 1)' = k
      <4>1. n # 1
        BY <3>1, <1>12
      <4>2. n - 1 \in 1..occupied' /\ (n - 1) + 1 = n
        BY <4>1, <1>1
      <4>. QED  BY <3>1, <4>2, <1>11
    <3>2. ASSUME NEW n \in 1..occupied', Filled(n)' = k
          PROVE  n + 1 \in 1..occupied /\ Filled(n + 1) = k /\ k # nextout
      BY <3>2, <1>1, <1>11, <1>13
    <3>. QED  BY <3>1, <3>2
  <2>. QED  BY <2>1, <2>2 DEF RingIntact, TypeOK
<1>15. WithinCapacity'
  BY <1>1, BufferAssumption DEF WithinCapacity
<1>. QED  BY <1>6, <1>9, <1>10, <1>14, <1>15 DEF RingIntact
------------------------------------------------------------------------------
\* A step that changes neither the buffer nor the wait sets, and neither puts a
\* consumer to sleep nor spends a signal, loses no wakeup.
LEMMA WakeupKept ==
    ASSUME IInv, UNCHANGED <<occupied, more, less>>, Awake \subseteq Awake',
           \A t \in Threads : pc[t] = "signal" <=> pc'[t] = "signal"
    PROVE  NoLostWakeup'
<1>1. /\ Cardinality(Awake) \in Nat /\ Cardinality(Awake') \in Nat
      /\ Cardinality(Awake) <= Cardinality(Awake')
  <2>1. Awake' \subseteq Consumers
    BY DEF Awake
  <2>. QED  BY <2>1, AwakeType, FS_Subset, FS_CardinalityType, BufferAssumption
<1>. QED  BY <1>1 DEF IInv, NoLostWakeup, WithinCapacity, Threads

\* The ring is empty, at any place, and all threads are about to start.
RingClean ==
    /\ buf = [k \in Slots |-> 0]
    /\ occupied = 0 /\ nextin = nextout /\ nextout \in Slots
    /\ mutex = NoOwner /\ more = {} /\ less = {}

Starting ==
    /\ tcs = {} /\ lost \in BOOLEAN /\ aborted = FALSE
    /\ RingClean
    /\ pc = [t \in Threads |-> "start"]
    /\ i  = [t \in Threads |-> 0]

LEMMA StartInv == Starting => IInv
<1>. SUFFICES ASSUME Starting PROVE IInv
  OBVIOUS
<1>. USE DEF Starting, RingClean
<1>1. TypeOK
  <2>1. 0 \in Slots /\ \A t \in Threads : 0 <= Loops(t)
    BY LoopsType, BufferAssumption DEF Slots
  <2>2. pc \in [Threads -> Inside \cup {"start", "done"}]
    BY DEF Inside
  <2>3. buf \in [Slots -> Slots] /\ i \in [Threads -> Nat] /\ \A t \in Threads : i[t] <= Loops(t)
    BY <2>1
  <2>4. occupied \in Int /\ nextin \in Slots /\ nextout \in Slots
    BY <2>1
  <2>5. /\ tcs \in SUBSET Threads /\ lost \in BOOLEAN /\ aborted \in BOOLEAN
        /\ mutex \in Threads \cup {NoOwner}
        /\ more \in SUBSET Consumers /\ less \in SUBSET {Producer}
    OBVIOUS
  <2>. HIDE DEF Starting, RingClean
  <2>. QED  BY <2>2, <2>3, <2>4, <2>5 DEF TypeOK
<1>2. ControlInv /\ AccessInv /\ NoLostWakeup
  BY LoopsType, BufferAssumption
  DEF ControlInv, AccessInv, NoLostWakeup, Critical, Inside, Threads
<1>3. WithinCapacity
  BY BufferAssumption DEF WithinCapacity
<1>4. \A t \in Threads : Moved(t) = 0
  BY DEF Moved
<1>5. Taken = {}
  BY <1>4 DEF Taken, Threads
<1>6. nextin = (nextout + occupied) % BUFFER_SIZE
  <2>1. 0 \in 0..BUFFER_SIZE
    BY BufferAssumption
  <2>2. (nextout + 0) % BUFFER_SIZE =
            IF nextout + 0 < BUFFER_SIZE THEN nextout + 0 ELSE nextout + 0 - BUFFER_SIZE
    BY <2>1, Wrap
  <2>. QED  BY <2>2, BufferAssumption DEF Slots
<1>7. RingIntact
  BY <1>4, <1>5, <1>6, FS_EmptySet DEF RingIntact, Threads
<1>. QED  BY <1>1, <1>2, <1>3, <1>7 DEF IInv

LEMMA InitInv == Init => IInv
<1>1. Init => RingClean
  BY BufferAssumption DEF Init, RingInit, RingClean, Slots
<1>2. Init => Starting
  BY <1>1 DEF Init, CallInit, Starting
<1>. QED  BY <1>2, StartInv
------------------------------------------------------------------------------
\* Steps of one thread that leave the buffer and the wait sets alone.
LEMMA QuietStep ==
    ASSUME IInv, NEW t \in Threads,
           \/ Enter(t) \/ Lock(t) \/ Relock(t) \/ Unlock(t) \/ Leave(t)
           \/ t = Producer /\ ProducerMayPut
           \/ t \in Consumers /\ ConsumerMayTake(t)
    PROVE  WithinCapacity' /\ RingIntact' /\ NoLostWakeup'
<1>1. UNCHANGED ring /\ UNCHANGED <<occupied, more, less>>
  BY DEF Enter, Lock, Relock, Unlock, Leave, ProducerMayPut, ConsumerMayTake, ring
<1>2. \A u \in Threads : Moved(u)' = Moved(u)
  BY DEF IInv, TypeOK, Enter, Lock, Relock, Unlock, Leave,
         ProducerMayPut, ConsumerMayTake, Goto, Moved
<1>3. /\ Awake \subseteq Awake'
      /\ \A u \in Threads : pc[u] = "signal" <=> pc'[u] = "signal"
  BY BufferAssumption
  DEF IInv, TypeOK, Enter, Lock, Relock, Unlock, Leave,
      ProducerMayPut, ConsumerMayTake, Goto, Awake, Threads
<1>. QED  BY <1>1, <1>2, <1>3, RingKept, WakeupKept

\* Neither a loss of the enclave nor a call that fails touches what the threads
\* have done.
Untouched == UNCHANGED <<tcs, ring, mutex, more, less, pc, i>>

LEMMA UntouchedKeeps ==
    ASSUME IInv, Untouched, lost' \in BOOLEAN, aborted' \in BOOLEAN
    PROVE  IInv'
<1>. USE DEF IInv, Untouched
<1>1. TypeOK' /\ ControlInv' /\ AccessInv'
  BY DEF TypeOK, ControlInv, AccessInv, ring
<1>2. \A u \in Threads : Moved(u)' = Moved(u)
  BY DEF Moved
<1>3. Awake' = Awake
  BY DEF Awake
<1>4. WithinCapacity' /\ RingIntact'
  BY <1>2, RingKept
<1>5. NoLostWakeup'
  BY <1>3, WakeupKept DEF ring
<1>. QED  BY <1>1, <1>4, <1>5

LEMMA StepInv ==
    ASSUME IInv, [Next]_vars
    PROVE  IInv'
<1>. USE DEF IInv
<1>1. ASSUME NEW t \in Threads, Enter(t)
      PROVE  IInv'
  <2>. USE <1>1 DEF Enter, AcquireTcs, Goto, Critical, Inside
  <2>1. TypeOK'
    BY DEF TypeOK, ring
  <2>2. ControlInv' /\ AccessInv'
    BY BufferAssumption DEF TypeOK, ControlInv, AccessInv, Threads, ring
  <2>. QED  BY <2>1, <2>2, QuietStep
<1>2. ASSUME NEW t \in Threads, EnterFails(t) \/ LostInside(t)
      PROVE  IInv'
  <2>1. Untouched /\ lost' = lost /\ aborted' = TRUE
    BY <1>2 DEF EnterFails, LostInside, CallFails, Untouched
  <2>. QED  BY <2>1, UntouchedKeeps DEF TypeOK
<1>3. ASSUME NEW t \in Threads, Lock(t) \/ Relock(t)
      PROVE  IInv'
  <2>. USE <1>3 DEF Lock, Relock, callVars, Goto, Critical, Inside
  <2>1. TypeOK'
    BY DEF TypeOK, ring
  <2>2. ControlInv' /\ AccessInv'
    BY BufferAssumption DEF TypeOK, ControlInv, AccessInv, Threads, ring
  <2>. QED  BY <2>1, <2>2, QuietStep
<1>4. ASSUME NEW t \in Threads, Unlock(t)
      PROVE  IInv'
  <2>. USE <1>4 DEF Unlock, callVars, Goto, Critical, Inside
  <2>1. i[t] \in Nat /\ i[t] + 1 <= Loops(t)
    BY LoopsType DEF ControlInv, TypeOK
  <2>2. TypeOK'
    BY <2>1 DEF TypeOK, ring
  <2>3. ControlInv' /\ AccessInv'
    BY BufferAssumption DEF TypeOK, ControlInv, AccessInv, Threads, ring
  <2>. QED  BY <2>2, <2>3, QuietStep
<1>5. ASSUME NEW t \in Threads, Leave(t)
      PROVE  IInv'
  <2>. USE <1>5 DEF Leave, ReleaseTcs, Goto, Critical, Inside
  <2>1. TypeOK'
    BY DEF TypeOK, ring
  <2>2. i[t] = Loops(t)
    BY LoopsType DEF TypeOK
  <2>3. ControlInv' /\ AccessInv'
    BY <2>2, BufferAssumption
    DEF TypeOK, ControlInv, AccessInv, Threads, ring
  <2>. QED  BY <2>1, <2>3, QuietStep
<1>6. CASE ProducerWaits
  <2>. USE <1>6 DEF ProducerWaits, callVars, Goto, Critical, Inside
  <2>1. TypeOK'
    BY DEF TypeOK, ring, Threads
  <2>2. ControlInv' /\ AccessInv'
    BY BufferAssumption DEF TypeOK, ControlInv, AccessInv, Threads, ring
  <2>3. \A u \in Threads : Moved(u)' = Moved(u)
    BY DEF TypeOK, Moved
  <2>4. Awake' = Awake
    BY BufferAssumption DEF TypeOK, Awake, Threads
  <2>5. NoLostWakeup'
    BY <2>4, BufferAssumption DEF TypeOK, NoLostWakeup, WithinCapacity, Threads, ring
  <2>. QED  BY <2>1, <2>2, <2>3, <2>5, RingKept
<1>7. CASE ProducerMayPut
  <2>. USE <1>7 DEF ProducerMayPut, callVars, Goto, Critical, Inside
  <2>1. TypeOK'
    BY DEF TypeOK, ring, Threads
  <2>2. ControlInv' /\ AccessInv'
    BY BufferAssumption DEF TypeOK, ControlInv, AccessInv, Threads, ring
  <2>. QED  BY <2>1, <2>2, QuietStep DEF Threads
<1>8. CASE Put
  <2>. USE <1>8 DEF Put, callVars, Goto, Critical, Inside
  <2>1. TypeOK'
    BY PutRing DEF TypeOK, Threads
  <2>2. ControlInv'
    BY BufferAssumption DEF TypeOK, ControlInv, Threads
  <2>3. AccessInv'
    BY BufferAssumption DEF TypeOK, ControlInv, AccessInv, Threads
  <2>4. Awake' = Awake
    BY BufferAssumption DEF TypeOK, Awake, Threads
  <2>5. less = {}
    BY DEF ControlInv, TypeOK
  <2>6. NoLostWakeup'
    BY <2>4, <2>5, AwakeType, BufferAssumption DEF TypeOK, NoLostWakeup, Threads
  <2>. QED  BY <2>1, <2>2, <2>3, <2>6, PutRing
<1>9. CASE SignalMore
  <2>. USE <1>9 DEF SignalMore, Signal, callVars, Critical, Inside
  <2>1. TypeOK'
    BY DEF TypeOK, ring, Threads
  <2>2. ControlInv' /\ AccessInv'
    BY BufferAssumption DEF TypeOK, ControlInv, AccessInv, Threads, ring
  <2>3. \A u \in Threads : Moved(u)' = Moved(u)
    BY BufferAssumption DEF TypeOK, ControlInv, Moved, Threads
  <2>4. NoLostWakeup'
    <3>1. CASE more = {}
      BY <3>1, BufferAssumption DEF TypeOK, NoLostWakeup, Threads, ring
    <3>2. ASSUME NEW w \in more, more' = more \ {w},
                 pc' = [pc EXCEPT ![Producer] = "unlock", ![w] = "signalled"]
          PROVE  NoLostWakeup'
      <4>1. w \in Consumers /\ w \notin Awake
        BY DEF TypeOK, ControlInv, Awake
      <4>2. Awake' = Awake \cup {w}
        BY <3>2, <4>1, BufferAssumption DEF TypeOK, Awake, Threads
      <4>3. Cardinality(Awake') = Cardinality(Awake) + 1
        BY <4>1, <4>2, AwakeType, FS_AddElement
      <4>4. pc[Producer] = "signal" /\ pc'[Producer] = "unlock"
        BY <3>2, <4>1, BufferAssumption DEF TypeOK, Threads
      <4>5. \A c \in Consumers : pc[c] = "signal" <=> pc'[c] = "signal"
        BY <3>2, <4>1, BufferAssumption DEF TypeOK, ControlInv, Threads
      <4>6. occupied' = occupied /\ less' = less
        BY DEF ring
      <4>7. occupied <= Cardinality(Awake) + 1
        BY <4>4 DEF NoLostWakeup
      <4>8. less' # {} =>
              occupied' = BUFFER_SIZE \/ \E c \in Consumers : pc'[c] = "signal"
        BY <4>5, <4>6 DEF NoLostWakeup
      <4>9. occupied \in Int /\ Cardinality(Awake) \in Nat
        BY AwakeType DEF TypeOK
      <4>. HIDE <1>9
      <4>. QED
        BY <4>3, <4>4, <4>6, <4>7, <4>8, <4>9 DEF NoLostWakeup
    <3>. QED  BY <3>1, <3>2
  <2>. QED  BY <2>1, <2>2, <2>3, <2>4, RingKept
<1>10. ASSUME NEW c \in Consumers, ConsumerWaits(c)
       PROVE  IInv'
  <2>. USE <1>10 DEF ConsumerWaits, callVars, Goto, Critical, Inside
  <2>1. TypeOK'
    BY DEF TypeOK, ring, Threads
  <2>2. ControlInv' /\ AccessInv'
    BY BufferAssumption DEF TypeOK, ControlInv, AccessInv, Threads, ring
  <2>3. \A u \in Threads : Moved(u)' = Moved(u)
    BY DEF TypeOK, Moved
  <2>4. IsFiniteSet(Awake') /\ Cardinality(Awake') \in Nat
    <3>1. Awake' \subseteq Consumers
      BY DEF Awake
    <3>. QED  BY <3>1, FS_Subset, FS_CardinalityType, BufferAssumption
  <2>5. occupied' = 0
    BY BufferAssumption DEF WithinCapacity, ring
  <2>6. NoLostWakeup'
    BY <2>4, <2>5, BufferAssumption DEF TypeOK, NoLostWakeup, Threads, ring
  <2>. QED  BY <2>1, <2>2, <2>3, <2>6, RingKept DEF Threads
<1>11. ASSUME NEW c \in Consumers, ConsumerMayTake(c)
       PROVE  IInv'
  <2>. USE <1>11 DEF ConsumerMayTake, callVars, Goto, Critical, Inside
  <2>1. TypeOK'
    BY DEF TypeOK, ring, Threads
  <2>2. ControlInv' /\ AccessInv'
    BY BufferAssumption DEF TypeOK, ControlInv, AccessInv, Threads, ring
  <2>. QED  BY <2>1, <2>2, QuietStep DEF Threads
<1>12. ASSUME NEW c \in Consumers, Take(c)
       PROVE  IInv'
  <2>. USE <1>12 DEF Take, callVars, Goto, Critical, Inside
  <2>1. 0 \in Slots /\ nextout' \in Slots /\ occupied' \in Int
    BY TakeRing, BufferAssumption DEF Slots, TypeOK
  <2>2. TypeOK'
    <3>1. buf' \in [Slots -> Slots] /\ nextin' \in Slots
      BY <2>1 DEF TypeOK
    <3>2. pc' \in [Threads -> Inside \cup {"start", "done"}]
      BY DEF TypeOK
    <3>. QED  BY <2>1, <3>1, <3>2 DEF TypeOK
  <2>3. ControlInv'
    BY BufferAssumption DEF TypeOK, ControlInv, Threads
  <2>4. AccessInv'
    BY BufferAssumption DEF TypeOK, ControlInv, AccessInv, Threads
  <2>5. Cardinality(Awake') = Cardinality(Awake) - 1
    <3>1. c \in Awake /\ Awake' = Awake \ {c}
      BY BufferAssumption DEF TypeOK, Awake, Threads
    <3>. QED  BY <3>1, AwakeType, FS_RemoveElement
  <2>6. pc'[Producer] = pc[Producer] /\ pc'[c] = "signal"
    BY BufferAssumption DEF TypeOK, Threads
  <2>7. NoLostWakeup'
    BY <2>5, <2>6, AwakeType DEF TypeOK, NoLostWakeup
  <2>. QED  BY <2>2, <2>3, <2>4, <2>7, TakeRing
<1>13. ASSUME NEW c \in Consumers, SignalLess(c)
       PROVE  IInv'
  <2>. USE <1>13 DEF SignalLess, Signal, callVars, Critical, Inside
  <2>1. TypeOK'
    BY DEF TypeOK, ring, Threads
  <2>2. ControlInv' /\ AccessInv'
    BY BufferAssumption DEF TypeOK, ControlInv, AccessInv, Threads, ring
  <2>3. \A u \in Threads : Moved(u)' = Moved(u)
    BY BufferAssumption DEF TypeOK, ControlInv, Moved, Threads
  <2>4. Awake' = Awake /\ less' = {}
    BY BufferAssumption DEF TypeOK, Awake, Threads
  <2>5. pc[Producer] = "signal" <=> pc'[Producer] = "signal"
    BY BufferAssumption DEF TypeOK, ControlInv, Threads
  <2>6. NoLostWakeup'
    BY <2>4, <2>5 DEF NoLostWakeup, ring
  <2>. QED  BY <2>1, <2>2, <2>3, <2>6, RingKept
<1>14. CASE Lose \/ UNCHANGED vars
  <2>1. Untouched /\ lost' \in BOOLEAN /\ aborted' \in BOOLEAN
    BY <1>14 DEF Lose, LoseEnclave, vars, callVars, ring, Untouched, TypeOK
  <2>. QED  BY <2>1, UntouchedKeeps
<1>. QED
  BY <1>1, <1>2, <1>3, <1>4, <1>5, <1>6, <1>7, <1>8, <1>9, <1>10, <1>11, <1>12, <1>13, <1>14
  DEF Next, Running, Stopped, ThreadStep, ProducerStep, ConsumerStep

THEOREM Invariance == Spec => []IInv
  BY InitInv, StepInv, PTL DEF Spec
------------------------------------------------------------------------------
\* Type correctness of the ring buffer, its mutex and its wait sets.
THEOREM TypeCorrect == Spec => []TypeOK
<1>1. IInv => TypeOK
  BY DEF IInv
<1>. QED  BY Invariance, <1>1, PTL

\* Whatever happens between the test of occupied and its use, and between a
\* signal and the relock of the thread it wakes, the producer overwrites no item
\* and no consumer takes from an empty buffer.
THEOREM WithinCapacityAlways == Spec => []WithinCapacity
<1>1. IInv => WithinCapacity
  BY DEF IInv
<1>. QED  BY Invariance, <1>1, PTL

\* The slots hold exactly what was put and not yet taken.
THEOREM RingIntactAlways == Spec => []RingIntact
<1>1. IInv => RingIntact
  BY DEF IInv
<1>. QED  BY Invariance, <1>1, PTL

\* One signal per item and per freed slot is enough: no wakeup is lost.
THEOREM NoLostWakeupAlways == Spec => []NoLostWakeup
<1>1. IInv => NoLostWakeup
  BY DEF IInv
<1>. QED  BY Invariance, <1>1, PTL

\* The threads never all sleep, or are gone, while there is work left to do: a
\* sleeping consumer would leave the buffer empty with all items put, and so all
\* of them taken; a sleeping producer would leave it full with all of them taken.
THEOREM NoDeadlockAlways == Spec => []NoDeadlock
<1>1. IInv => NoDeadlock
  <2>. SUFFICES ASSUME IInv, ~Joined, \A t \in Threads : pc[t] \in {"waiting", "done"}
                PROVE  FALSE
    BY DEF NoDeadlock
  <2>. USE DEF IInv
  <2>1. /\ \A t \in Threads : Moved(t) = i[t]
        /\ \A t \in Threads : pc[t] # "signal"
        /\ i[Producer] \in Nat /\ i[Producer] <= Total
    BY LoopsType DEF Moved, TypeOK, Threads
  <2>2. occupied = i[Producer] - Cardinality(Taken)
    BY <2>1 DEF RingIntact, Threads
  <2>3. Awake = {}
    BY DEF Awake, Threads
  <2>4. Cardinality(Awake) = 0
    BY <2>3, FS_EmptySet
  <2>5. more # {} => occupied = 0
    BY <2>1, <2>4, BufferAssumption DEF NoLostWakeup, WithinCapacity, Threads
  <2>6. less # {} => occupied = BUFFER_SIZE
    BY <2>1 DEF NoLostWakeup, Threads
  <2>7. CASE \E c \in Consumers : pc[c] = "waiting"
    <3>1. PICK c \in Consumers : pc[c] = "waiting"
      BY <2>7
    <3>2. occupied = 0
      BY <2>5, <3>1 DEF ControlInv
    <3>3. less = {}
      BY <2>6, <3>2, BufferAssumption
    <3>4. i[Producer] = Total
      BY <3>3, LoopsType DEF ControlInv, Threads
    <3>5. Cardinality(Taken) = Total
      BY <2>2, <3>2, <3>4, TakenBound, LoopsType
    <3>6. i[c] >= LOOPS_PER_THREAD
      BY <2>1, <3>5, TakenComplete DEF Threads
    <3>7. i[c] < LOOPS_PER_THREAD
      BY <3>1, LoopsType DEF ControlInv, Threads
    <3>8. i[c] \in Nat /\ LOOPS_PER_THREAD \in Nat
      BY BufferAssumption DEF TypeOK, Threads
    <3>. QED  BY <3>6, <3>7, <3>8
  <2>8. CASE \A c \in Consumers : pc[c] = "done"
    <3>1. \A c \in Consumers : Moved(c) >= LOOPS_PER_THREAD
      BY <2>1, <2>8, LoopsType, BufferAssumption DEF ControlInv, Threads
    <3>2. Cardinality(Taken) = Total
      BY <3>1, TakenComplete
    <3>3. occupied <= 0
      BY <2>1, <2>2, <3>2, LoopsType
    <3>4. pc[Producer] = "waiting"
      BY <2>8 DEF Joined, Threads
    <3>5. occupied = BUFFER_SIZE
      BY <2>6, <3>4 DEF ControlInv
    <3>. QED  BY <3>3, <3>5, BufferAssumption
  <2>. QED  BY <2>7, <2>8 DEF Threads
<1>. QED  BY Invariance, <1>1, PTL

\* What the threads leave behind when they are joined.
LEMMA JoinedClean ==
    ASSUME IInv, Joined
    PROVE  tcs = {} /\ RingClean
<1>. USE DEF IInv, Joined
<1>1. \A c \in Consumers : Moved(c) >= LOOPS_PER_THREAD
  BY LoopsType, BufferAssumption DEF Moved, ControlInv, Threads
<1>2. Moved(Producer) = Total
  BY LoopsType DEF Moved, ControlInv, Threads
<1>3. occupied = 0
  BY <1>1, <1>2, TakenComplete, LoopsType DEF RingIntact
<1>4. \A k \in Slots : buf[k] = 0
  BY <1>3 DEF RingIntact
<1>5. buf = [k \in Slots |-> 0]
  BY <1>4 DEF TypeOK
<1>6. nextin = nextout /\ nextout \in Slots
  <2>1. 0 \in 0..BUFFER_SIZE /\ nextout \in Slots
    BY BufferAssumption DEF TypeOK
  <2>2. (nextout + 0) % BUFFER_SIZE =
            IF nextout + 0 < BUFFER_SIZE THEN nextout + 0 ELSE nextout + 0 - BUFFER_SIZE
    BY <2>1, Wrap
  <2>. QED  BY <1>3, <2>1, <2>2, BufferAssumption DEF RingIntact, Slots
<1>7. mutex = NoOwner /\ tcs = {}
  BY DEF ControlInv, TypeOK, Critical, Inside
<1>8. more = {} /\ less = {}
  BY DEF ControlInv, TypeOK, Threads
<1>. QED  BY <1>3, <1>5, <1>6, <1>7, <1>8 DEF RingClean

\* Once every thread is joined all items were taken and the ring is cleared.
THEOREM DrainedAtJoinAlways == Spec => []DrainedAtJoin
<1>1. IInv => DrainedAtJoin
  BY JoinedClean DEF DrainedAtJoin, RingClean
<1>. QED  BY Invariance, <1>1, PTL
------------------------------------------------------------------------------
\* A sequence that is another one with an item added, or its first one removed.
LEMMA IsAppend ==
    ASSUME NEW S, NEW s \in Seq(S), NEW t \in Seq(S), NEW e \in S,
           Len(t) = Len(s) + 1, t[Len(s) + 1] = e,
           \A n \in 1..Len(s) : t[n] = s[n]
    PROVE  t = Append(s, e)
<1>1. /\ Append(s, e) \in Seq(S)
      /\ Len(Append(s, e)) = Len(s) + 1
      /\ \A n \in 1..Len(s) : Append(s, e)[n] = s[n]
      /\ Append(s, e)[Len(s) + 1] = e
  BY AppendProperties
<1>2. \A n \in 1..Len(t) : t[n] = Append(s, e)[n]
  BY <1>1
<1>. QED  BY <1>1, <1>2, SeqEqual

LEMMA IsTail ==
    ASSUME NEW S, NEW s \in Seq(S), NEW t \in Seq(S),
           Len(s) = Len(t) + 1, \A n \in 1..Len(t) : t[n] = s[n + 1]
    PROVE  s # <<>> /\ t = Tail(s)
<1>1. s # <<>>
  OBVIOUS
<1>2. /\ Tail(s) \in Seq(S) /\ Len(Tail(s)) = Len(s) - 1
      /\ \A n \in 1..Len(Tail(s)) : Tail(s)[n] = s[n + 1]
  BY <1>1, HeadTailProperties
<1>. QED  BY <1>1, <1>2, SeqEqual

\* When the ring starts at slot 0 the producer's place in it is the number of its
\* items, as in the abstract channel.
ProducerInv == nextin = Moved(Producer) % BUFFER_SIZE

LEMMA ProducerInvInit == Init => ProducerInv
<1>1. Init => Moved(Producer) = 0
  BY DEF Init, Moved, Threads
<1>2. 0 % BUFFER_SIZE = 0
  BY BufferAssumption
<1>. QED  BY <1>1, <1>2 DEF Init, RingInit, ProducerInv

\* A step that is no put leaves the producer's number of items alone.
LEMMA SentKept ==
    ASSUME IInv, [Next]_vars
    PROVE  Put \/ (nextin' = nextin /\ Moved(Producer)' = Moved(Producer))
<1>1. ASSUME NEW t \in Threads,
             \/ ThreadStep(t) \/ ProducerWaits \/ ProducerMayPut \/ SignalMore
             \/ t \in Consumers /\ ConsumerStep(t)
      PROVE  nextin' = nextin /\ Moved(Producer)' = Moved(Producer)
  <2>1. nextin' = nextin
    BY <1>1 DEF ThreadStep, Enter, EnterFails, LostInside, Lock, Relock, Unlock, Leave, ProducerWaits,
       ProducerMayPut, SignalMore, ConsumerStep, ConsumerWaits, ConsumerMayTake, Take, SignalLess,
       ring
  <2>2. Moved(Producer)' = Moved(Producer)
    BY <1>1, BufferAssumption
    DEF ThreadStep, Enter, EnterFails, LostInside, Lock, Relock, Unlock, Leave, ProducerWaits,
        ProducerMayPut, SignalMore, ConsumerStep, ConsumerWaits, ConsumerMayTake, Take, SignalLess,
        Signal, Goto, Moved, Threads, IInv, TypeOK, ControlInv
  <2>. QED  BY <2>1, <2>2
<1>2. CASE Lose \/ UNCHANGED vars
  BY <1>2 DEF Lose, vars, ring, Moved
<1>. QED  BY <1>1, <1>2 DEF Next, Running, Stopped, ProducerStep, Threads

LEMMA ProducerInvStep ==
    ASSUME IInv, ProducerInv, [Next]_vars
    PROVE  ProducerInv'
<1>1. CASE Put
  <2>1. Moved(Producer) \in Nat /\ Moved(Producer)' = Moved(Producer) + 1
    BY <1>1 DEF Put, Goto, IInv, TypeOK, Moved, Threads
  <2>. QED  BY <1>1, <2>1, NextMod DEF Put, ProducerInv
<1>2. CASE nextin' = nextin /\ Moved(Producer)' = Moved(Producer)
  BY <1>2 DEF ProducerInv
<1>. QED  BY <1>1, <1>2, SentKept

LEMMA ProducerInvariance == Spec => []ProducerInv
  BY Invariance, ProducerInvInit, ProducerInvStep, PTL DEF Spec

Items == [n \in 1..occupied |-> buf[Filled(n)]]

\* The channel the ring stands for lists the occupied slots, each of which holds
\* its own number.
ItemsAreSlots ==
    /\ Items \in Seq(Slots)
    /\ Len(Items) = occupied
    /\ \A n \in 1..occupied : Items[n] = Filled(n)

LEMMA ItemsInv == IInv => ItemsAreSlots
<1>. SUFFICES ASSUME IInv PROVE ItemsAreSlots
  OBVIOUS
<1>. USE DEF IInv
<1>1. occupied \in Nat /\ \A n \in 1..occupied : n \in 1..BUFFER_SIZE
  BY BufferAssumption DEF WithinCapacity
<1>2. \A n \in 1..occupied : Filled(n) \in Slots
  BY <1>1, FilledPlace
<1>3. \A n \in 1..occupied : buf[Filled(n)] = Filled(n)
  BY <1>2 DEF RingIntact
<1>4. Items = [n \in 1..occupied |-> Filled(n)]
  BY <1>3 DEF Items
<1>. HIDE DEF IInv
<1>. QED  BY <1>1, <1>2, <1>4 DEF ItemsAreSlots

LEMMA ChannelStep ==
    ASSUME IInv, ProducerInv, ItemsAreSlots, ItemsAreSlots', [Next]_vars
    PROVE  [Channel!Next]_(Channel!vars)
<1>1. CASE Put
  <2>1. occupied \in Nat /\ occupied < BUFFER_SIZE /\ occupied' = occupied + 1
    BY <1>1, BufferAssumption DEF IInv, AccessInv, WithinCapacity, Put, Goto
  <2>2. Moved(Producer)' = Moved(Producer) + 1
    BY <1>1 DEF Put, Goto, IInv, TypeOK, Moved, Threads
  <2>3. \A n \in 1..occupied : Filled(n)' = Filled(n)
    BY <1>1 DEF Put, Filled
  <2>4. Filled(occupied)' = nextin
    <3>1. nextout' + occupied' - 1 = nextout + occupied
      BY <1>1, <2>1 DEF Put, IInv, TypeOK, Slots
    <3>2. nextin = (nextout + occupied) % BUFFER_SIZE
      BY DEF IInv, RingIntact
    <3>. QED  BY <3>1, <3>2 DEF Filled
  <2>5. nextin \in Slots /\ nextin = Moved(Producer) % BUFFER_SIZE
    BY DEF IInv, TypeOK, ProducerInv
  <2>6. Items' = Append(Items, nextin)
    <3>1. /\ Items \in Seq(Slots) /\ Items' \in Seq(Slots)
          /\ Len(Items) = occupied /\ Len(Items') = occupied + 1
      BY <2>1 DEF ItemsAreSlots, Slots
    <3>2. \A n \in 1..occupied : Items'[n] = Items[n]
      BY <2>1, <2>3 DEF ItemsAreSlots
    <3>3. Items'[occupied + 1] = nextin
      <4>1. \A n \in 1..occupied' : Items'[n] = Filled(n)'
        BY DEF ItemsAreSlots
      <4>2. Items'[occupied'] = Filled(occupied)'
        BY <2>1, <4>1
      <4>. QED  BY <2>1, <2>4, <4>2
    <3>. QED  BY <2>5, <3>1, <3>2, <3>3, IsAppend
  <2>7. Channel!Send
    BY <2>1, <2>2, <2>5, <2>6 DEF Channel!Send, Items, ItemsAreSlots
  <2>. QED  BY <2>7 DEF Channel!Next
<1>2. ASSUME NEW c \in Consumers, Take(c)
      PROVE  Channel!Next
  <2>1. occupied \in Nat /\ occupied > 0 /\ occupied' = occupied - 1
    BY <1>2, BufferAssumption DEF IInv, AccessInv, WithinCapacity, Take, Goto
  <2>2. Moved(Producer)' = Moved(Producer)
    BY <1>2, BufferAssumption DEF Take, Goto, IInv, TypeOK, Moved, Threads
  <2>3. \A n \in 1..occupied' : n \in 1..BUFFER_SIZE-1
    BY <2>1, BufferAssumption DEF IInv, WithinCapacity
  <2>4. \A n \in 1..occupied' : Filled(n)' = Filled(n + 1)
    BY <1>2, <2>3, FilledShift DEF Take, IInv
  <2>5. Items # <<>> /\ Items' = Tail(Items)
    <3>1. /\ Items \in Seq(Slots) /\ Items' \in Seq(Slots)
          /\ Len(Items') = occupied' /\ Len(Items) = occupied' + 1
      BY <2>1 DEF ItemsAreSlots, Slots
    <3>2. \A n \in 1..occupied' : Items'[n] = Items[n + 1]
      BY <2>1, <2>4 DEF ItemsAreSlots
    <3>. QED  BY <3>1, <3>2, IsTail
  <2>6. Channel!Receive
    BY <2>2, <2>5 DEF Channel!Receive, Items
  <2>. QED  BY <2>6 DEF Channel!Next
<1>3. ASSUME UNCHANGED ring, Moved(Producer)' = Moved(Producer)
      PROVE  UNCHANGED Channel!vars
  BY <1>3 DEF Channel!vars, ring, Filled
<1>4. ASSUME NEW t \in Threads,
             \/ ThreadStep(t) \/ ProducerWaits \/ ProducerMayPut \/ SignalMore
             \/ t \in Consumers /\ (ConsumerWaits(t) \/ ConsumerMayTake(t) \/ SignalLess(t))
      PROVE  UNCHANGED ring /\ Moved(Producer)' = Moved(Producer)
  <2>1. UNCHANGED ring
    BY <1>4 DEF ThreadStep, Enter, EnterFails, LostInside, Lock, Relock, Unlock, Leave, ProducerWaits,
       ProducerMayPut, SignalMore, ConsumerWaits, ConsumerMayTake, SignalLess
  <2>2. Put => FALSE
    BY <2>1, BufferAssumption DEF Put, ring, IInv, WithinCapacity
  <2>. QED  BY <2>1, <2>2, SentKept
<1>5. ASSUME Lose \/ UNCHANGED vars
      PROVE  UNCHANGED Channel!vars
  BY <1>5, <1>3 DEF Lose, vars, Moved
<1>. QED
  BY <1>1, <1>2, <1>3, <1>4, <1>5
  DEF Next, Running, Stopped, ProducerStep, ConsumerStep, Threads

\* However producer, consumers, waits and signals interleave, the ring buffer is
\* a bounded first-in first-out channel.
THEOREM ImplementsChannel == Spec => ChannelSpec
<1>1. Init => Channel!Init
  <2>. SUFFICES ASSUME Init PROVE Channel!Init
    OBVIOUS
  <2>1. occupied = 0 /\ Moved(Producer) = 0
    BY DEF Init, RingInit, Moved, Threads
  <2>2. ItemsAreSlots
    BY InitInv, ItemsInv
  <2>3. Items = <<>>
    BY <2>1, <2>2 DEF ItemsAreSlots
  <2>. QED  BY <2>1, <2>3 DEF Channel!Init, Items
<1>. QED
  BY <1>1, Invariance, ProducerInvariance, ItemsInv, ChannelStep, PTL DEF Spec, ChannelSpec, Channel!Spec
==============================================================================
