------------------------ MODULE EnclaveBridgeProofs --------------------------
(***************************************************************************)
(* Proofs about EnclaveBridge for every table of functions, whatever their *)
(* declarations and bodies.  If the functions free their own blocks and    *)
(* test the status of their calls (BlocksAssumption, StatusAssumption),    *)
(* nothing is left on the enclave's heap, and no failure goes unnoticed,   *)
(* however the calls are nested and wherever one of them fails.  If the    *)
(* tests expect what declarations and bodies promise (TestsAssumption), no *)
(* test fails.                                                             *)
(***************************************************************************)
EXTENDS EnclaveBridge, SequenceTheorems, FiniteSetTheorems, TLAPS

\* The call that a frame waits for or has just made.
CallOf(f) == Body(f.fn)[f.pc]
Pending(f) == f.pc \in DOMAIN Body(f.fn) /\ CallOf(f).op = "call"

\* Its arguments are as they were passed, except what the callee shares.
Isolated(f) ==
    /\ DOMAIN f.args = DOMAIN CallOf(f).args
    /\ \A i \in DOMAIN f.args : Shared(CallOf(f).fn, i) \/ f.args[i] = CallOf(f).args[i]

\* Every frame but the top one waits for the function of the frame above it,
\* which has a parameter for each argument.
Chained(s) ==
    \A k \in 2..Len(s) :
        /\ Pending(s[k]) /\ Isolated(s[k]) /\ CallOf(s[k]).fn = s[k - 1].fn
        /\ DOMAIN s[k - 1].par = DOMAIN s[k].args

\* The top frame has a status only at the call that returned it.
TopOK(f) ==
    /\ f.pc \in 1..Len(Body(f.fn)) + 1
    /\ f.status # "none" => Pending(f)
    /\ f.status \in Errors => Isolated(f)

\* From the sample at the bottom on, App and enclave alternate.
Alternate(s) == \A k \in 1..Len(s) : IsEcall(s[k].fn) <=> (Len(s) - k) % 2 = 1

StackInv(s) ==
    /\ s \in Seq(Frames) /\ Chained(s) /\ Alternate(s)
    /\ s # <<>> => TopOK(s[1])

IInv ==
    /\ StackInv(stack) /\ enclave \in Errors \cup {"alive"}
    /\ aborted \in BOOLEAN /\ runs \in 0..MAX_SAMPLES
------------------------------------------------------------------------------
\* What the three ways of changing a stack do to it.
LEMMA Basics ==
    ASSUME NEW s \in Seq(Frames)
    PROVE  /\ Len(s) \in Nat /\ DOMAIN s = 1..Len(s)
           /\ \A k \in 1..Len(s) : s[k] \in Frames
           /\ s # <<>> => Len(s) > 0 /\ Head(s) = s[1]
           /\ s = <<>> => Len(s) = 0
  BY EmptySeq, LenProperties

LEMMA SetTop ==
    ASSUME NEW s \in Seq(Frames), s # <<>>, NEW r \in Frames
    PROVE  LET t == [s EXCEPT ![1] = r]
           IN  /\ t \in Seq(Frames) /\ t # <<>> /\ Len(t) = Len(s) /\ t[1] = r
               /\ \A k \in 2..Len(s) : t[k] = s[k]
<1>. DEFINE t == [s EXCEPT ![1] = r]
<1>1. Len(s) \in Nat /\ 1 \in 1..Len(s)
  BY Basics
<1>2. /\ t \in Seq(Frames) /\ Len(t) = Len(s)
      /\ \A k \in 1..Len(s) : t[k] = IF k = 1 THEN r ELSE s[k]
  BY <1>1, ExceptSeq
<1>. HIDE DEF t
<1>3. t # <<>>
  BY <1>1, <1>2, EmptySeq
<1>. QED  BY <1>1, <1>2, <1>3 DEF t

LEMMA Pop ==
    ASSUME NEW s \in Seq(Frames), s # <<>>
    PROVE  /\ Tail(s) \in Seq(Frames) /\ Len(Tail(s)) = Len(s) - 1
           /\ \A k \in 1..Len(s)-1 : Tail(s)[k] = s[k + 1]
  BY HeadTailProperties

LEMMA Push ==
    ASSUME NEW s \in Seq(Frames), NEW r \in Frames
    PROVE  LET t == <<r>> \o s
           IN  /\ t \in Seq(Frames) /\ t # <<>> /\ Len(t) = Len(s) + 1 /\ t[1] = r
               /\ \A k \in 2..Len(s)+1 : t[k] = s[k - 1]
<1>. DEFINE t == <<r>> \o s
<1>1. Len(s) \in Nat
  BY Basics
<1>2. /\ t \in Seq(Frames) /\ Len(t) = Len(s) + 1
      /\ \A k \in 1..Len(s)+1 : t[k] = IF k <= 1 THEN <<r>>[k] ELSE s[k - 1]
  BY <1>1, ConcatProperties
<1>. HIDE DEF t
<1>3. t # <<>>
  BY <1>1, <1>2, EmptySeq
<1>. QED  BY <1>1, <1>2, <1>3 DEF t
------------------------------------------------------------------------------
\* The top frame may change as long as it is the same function's with the same
\* number of parameters.
LEMMA TopChanges ==
    ASSUME NEW s, StackInv(s), s # <<>>,
           NEW r \in Frames, r.fn = s[1].fn, DOMAIN r.par = DOMAIN s[1].par, TopOK(r)
    PROVE  StackInv([s EXCEPT ![1] = r])
<1>. DEFINE t == [s EXCEPT ![1] = r]
<1>1. s \in Seq(Frames) /\ Len(s) \in Nat /\ Len(s) > 0
  BY Basics DEF StackInv
<1>2. /\ t \in Seq(Frames) /\ t # <<>> /\ Len(t) = Len(s) /\ t[1] = r
      /\ \A k \in 2..Len(s) : t[k] = s[k]
  BY <1>1, SetTop
<1>. HIDE DEF t
<1>3. \A k \in 1..Len(s) : t[k].fn = s[k].fn /\ DOMAIN t[k].par = DOMAIN s[k].par
  BY <1>1, <1>2
<1>4. Chained(t)
  <2>. SUFFICES ASSUME NEW k \in 2..Len(s)
                PROVE  /\ Pending(t[k]) /\ Isolated(t[k]) /\ CallOf(t[k]).fn = t[k - 1].fn
                       /\ DOMAIN t[k - 1].par = DOMAIN t[k].args
    BY <1>2 DEF Chained
  <2>1. t[k] = s[k] /\ k - 1 \in 1..Len(s)
    BY <1>1, <1>2
  <2>. QED  BY <1>3, <2>1 DEF StackInv, Chained
<1>5. Alternate(t)
  BY <1>2, <1>3 DEF StackInv, Alternate
<1>. QED  BY <1>2, <1>4, <1>5 DEF StackInv, t

\* The top frame goes; the next one, if there is one, has its call as it made it.
LEMMA TopGoes ==
    ASSUME NEW s, StackInv(s), s # <<>>
    PROVE  LET t == Tail(s)
           IN  /\ StackInv(t)
               /\ t # <<>> => Len(s) > 1 /\ t[1] = s[2] /\ Pending(t[1]) /\ Isolated(t[1])
<1>. DEFINE t == Tail(s)
<1>1. s \in Seq(Frames) /\ Len(s) \in Nat /\ Len(s) > 0
  BY Basics DEF StackInv
<1>2. /\ t \in Seq(Frames) /\ Len(t) = Len(s) - 1
      /\ \A k \in 1..Len(s)-1 : t[k] = s[k + 1]
  BY <1>1, Pop
<1>. HIDE DEF t
<1>3. t # <<>> => Len(t) > 0
  BY <1>2, Basics
<1>4. t # <<>> => Len(s) > 1 /\ t[1] = s[2] /\ Pending(t[1]) /\ Isolated(t[1])
  BY <1>1, <1>2, <1>3 DEF StackInv, Chained
<1>5. t # <<>> => TopOK(t[1])
  <2>. SUFFICES ASSUME t # <<>> PROVE t[1].pc \in 1..Len(Body(t[1].fn)) + 1
    BY <1>4 DEF TopOK
  <2>1. t[1] \in Frames
    BY <1>2, <1>3, Basics
  <2>2. Body(t[1].fn) \in Seq(Operations)
    BY <2>1, BridgeAssumption DEF Frames, Body
  <2>. QED  BY <1>4, <2>2, LenProperties DEF Pending
<1>6. Chained(t)
  <2>. SUFFICES ASSUME NEW k \in 2..Len(s)-1
                PROVE  /\ Pending(t[k]) /\ Isolated(t[k]) /\ CallOf(t[k]).fn = t[k - 1].fn
                       /\ DOMAIN t[k - 1].par = DOMAIN t[k].args
    BY <1>2 DEF Chained
  <2>1. t[k] = s[k + 1] /\ t[k - 1] = s[k] /\ k + 1 \in 2..Len(s) /\ (k + 1) - 1 = k
    BY <1>1, <1>2
  <2>. QED  BY <2>1 DEF StackInv, Chained
<1>7. Alternate(t)
  <2>. SUFFICES ASSUME NEW k \in 1..Len(t) PROVE IsEcall(t[k].fn) <=> (Len(t) - k) % 2 = 1
    BY DEF Alternate
  <2>1. t[k] = s[k + 1] /\ k + 1 \in 1..Len(s) /\ Len(t) - k = Len(s) - (k + 1)
    BY <1>1, <1>2
  <2>. QED  BY <2>1 DEF StackInv, Alternate
<1>. QED  BY <1>2, <1>4, <1>5, <1>6, <1>7 DEF StackInv, t

\* A call that ends, successfully or not, leaves its caller with a status.
LEMMA TopFails ==
    ASSUME NEW s, StackInv(s), s # <<>>, NEW status \in Statuses
    PROVE  StackInv([Tail(s) EXCEPT ![1].status = status])
<1>. DEFINE t == Tail(s)
<1>1. /\ StackInv(t)
      /\ t # <<>> => Pending(t[1]) /\ Isolated(t[1])
  BY TopGoes
<1>. HIDE DEF t
<1>2. CASE t = <<>>
  <2>1. [t EXCEPT ![1].status = status] = <<>>
    BY <1>2
  <2>. QED  BY <1>1, <1>2, <2>1 DEF t
<1>3. CASE t # <<>>
  <2>. DEFINE r == [t[1] EXCEPT !.status = status]
  <2>1. t[1] \in Frames /\ TopOK(t[1])
    BY <1>1, <1>3, Basics DEF StackInv
  <2>2. r \in Frames /\ r.fn = t[1].fn /\ r.pc = t[1].pc /\ r.par = t[1].par /\ r.args = t[1].args
    BY <2>1 DEF Frames
  <2>3. TopOK(r)
    BY <1>1, <1>3, <2>1, <2>2 DEF TopOK, Pending, Isolated, CallOf
  <2>4. StackInv([t EXCEPT ![1] = r])
    BY <1>1, <1>3, <2>2, <2>3, TopChanges
  <2>. QED  BY <2>4 DEF t
<1>. QED  BY <1>2, <1>3

\* A new frame, for the function that the top frame is about to call.
LEMMA TopCalls ==
    ASSUME NEW s, StackInv(s), s # <<>>, Pending(s[1]), Isolated(s[1]),
           NEW r \in Frames, r.fn = CallOf(s[1]).fn, DOMAIN r.par = DOMAIN s[1].args, TopOK(r)
    PROVE  StackInv(<<r>> \o s)
<1>. DEFINE t == <<r>> \o s
<1>1. s \in Seq(Frames) /\ Len(s) \in Nat /\ Len(s) > 0 /\ s[1] \in Frames
  BY Basics DEF StackInv
<1>2. /\ t \in Seq(Frames) /\ t # <<>> /\ Len(t) = Len(s) + 1 /\ t[1] = r
      /\ \A k \in 2..Len(s)+1 : t[k] = s[k - 1]
  BY <1>1, Push
<1>. HIDE DEF t
<1>3. Chained(t)
  <2>. SUFFICES ASSUME NEW k \in 2..Len(s)+1
                PROVE  /\ Pending(t[k]) /\ Isolated(t[k]) /\ CallOf(t[k]).fn = t[k - 1].fn
                       /\ DOMAIN t[k - 1].par = DOMAIN t[k].args
    BY <1>2 DEF Chained
  <2>1. t[k] = s[k - 1]
    BY <1>2
  <2>2. CASE k = 2
    BY <1>2, <2>1, <2>2
  <2>3. CASE k # 2
    <3>1. t[k - 1] = s[(k - 1) - 1] /\ k - 1 \in 2..Len(s)
      BY <1>1, <1>2, <2>3
    <3>. QED  BY <2>1, <3>1 DEF StackInv, Chained
  <2>. QED  BY <2>2, <2>3
<1>4. IsEcall(r.fn) <=> ~IsEcall(s[1].fn)
  <2>. DEFINE f == s[1].fn
  <2>1. r.fn \in Function /\ f \in Function
    BY <1>1 DEF Frames
  <2>2. s[1].pc \in DOMAIN Code[f].body /\ Code[f].body[s[1].pc].op = "call"
        /\ r.fn = Code[f].body[s[1].pc].fn
    BY DEF Pending, CallOf, Body
  <2>3. \A k \in DOMAIN Code[f].body :
            Code[f].body[k].op = "call" => Code[Code[f].body[k].fn].side # Code[f].side
    BY <2>1, BridgeAssumption
  <2>4. Code[r.fn].side # Code[f].side
    BY <2>2, <2>3
  <2>. QED  BY <2>1, <2>4, BridgeAssumption DEF IsEcall
<1>5. Alternate(t)
  <2>. SUFFICES ASSUME NEW k \in 1..Len(s)+1 PROVE IsEcall(t[k].fn) <=> (Len(s) + 1 - k) % 2 = 1
    BY <1>2 DEF Alternate
  <2>1. CASE k = 1
    <3>1. IsEcall(s[1].fn) <=> (Len(s) - 1) % 2 = 1
      BY <1>1 DEF StackInv, Alternate
    <3>2. (Len(s) - 1) % 2 = 1 <=> Len(s) % 2 # 1
      BY <1>1
    <3>3. Len(s) + 1 - k = Len(s)
      BY <1>1, <2>1
    <3>. QED  BY <1>2, <1>4, <2>1, <3>1, <3>2, <3>3
  <2>2. CASE k # 1
    <3>1. t[k] = s[k - 1]
      BY <1>1, <1>2, <2>2
    <3>2. k - 1 \in 1..Len(s) /\ Len(s) + 1 - k = Len(s) - (k - 1)
      BY <1>1, <2>2
    <3>. QED  BY <3>1, <3>2 DEF StackInv, Alternate
  <2>. QED  BY <2>1, <2>2
<1>. QED  BY <1>2, <1>3, <1>5 DEF StackInv, t

\* Sequences of contents.
LEMMA SetInSeq ==
    ASSUME NEW S, NEW s \in Seq(S), NEW i, NEW x \in S
    PROVE  [s EXCEPT ![i] = x] \in Seq(S) /\ DOMAIN [s EXCEPT ![i] = x] = DOMAIN s
<1>1. s \in [1..Len(s) -> S] /\ Len(s) \in Nat
  BY LenProperties
<1>2. [s EXCEPT ![i] = x] \in [1..Len(s) -> S]
  BY <1>1
<1>. QED  BY <1>1, <1>2, SeqDef

LEMMA CopyInType ==
    ASSUME NEW f, NEW args \in Seq(Contents)
    PROVE  CopyIn(f, args) \in Seq(Contents) /\ DOMAIN CopyIn(f, args) = DOMAIN args
<1>1. args \in [1..Len(args) -> Contents] /\ Len(args) \in Nat
  BY LenProperties
<1>2. CopyIn(f, args) \in [1..Len(args) -> Contents]
  BY <1>1 DEF CopyIn, Contents
<1>. QED  BY <1>1, <1>2, SeqDef

LEMMA CopyOutType ==
    ASSUME NEW f, NEW par \in Seq(Contents), NEW args \in Seq(Contents), DOMAIN par = DOMAIN args
    PROVE  CopyOut(f, par, args) \in Seq(Contents)
<1>1. args \in [1..Len(args) -> Contents] /\ Len(args) \in Nat
  BY LenProperties
<1>2. par \in [1..Len(args) -> Contents]
  BY <1>1, LenProperties
<1>3. CopyOut(f, par, args) \in [1..Len(args) -> Contents]
  BY <1>1, <1>2 DEF CopyOut
<1>. QED  BY <1>1, <1>3, SeqDef

\* A function writes to memory it shares with its caller.
LEMMA SharedWrite ==
    ASSUME NEW s, StackInv(s), s # <<>>, NEW on, Shared(s[1].fn, on), NEW x \in Contents
    PROVE  StackInv([s EXCEPT ![2].args[on] = x])
<1>1. s \in Seq(Frames) /\ Len(s) \in Nat /\ Len(s) > 0 /\ DOMAIN s = 1..Len(s)
  BY Basics DEF StackInv
<1>2. CASE Len(s) = 1
  <2>1. [s EXCEPT ![2].args[on] = x] = s
    BY <1>1, <1>2
  <2>. QED  BY <2>1
<1>3. CASE Len(s) # 1
  <2>. DEFINE r == [s[2] EXCEPT !.args = [s[2].args EXCEPT ![on] = x]]
              t == [s EXCEPT ![2] = r]
  <2>1. 2 \in 1..Len(s) /\ s[2] \in Frames
    BY <1>1, <1>3, Basics
  <2>2. [s EXCEPT ![2].args[on] = x] = t
    BY <1>1, <2>1
  <2>3. [s[2].args EXCEPT ![on] = x] \in Seq(Contents)
        /\ DOMAIN [s[2].args EXCEPT ![on] = x] = DOMAIN s[2].args
    BY <2>1, SetInSeq DEF Frames
  <2>4. /\ r \in Frames /\ r.fn = s[2].fn /\ r.pc = s[2].pc /\ r.par = s[2].par
        /\ r.args = [s[2].args EXCEPT ![on] = x]
    BY <2>1, <2>3 DEF Frames
  <2>5. Pending(s[2]) /\ Isolated(s[2]) /\ CallOf(s[2]).fn = s[1].fn
        /\ DOMAIN s[1].par = DOMAIN s[2].args
    BY <1>1, <1>3, <2>1 DEF StackInv, Chained
  <2>6. /\ Pending(r) /\ Isolated(r) /\ CallOf(r) = CallOf(s[2])
        /\ DOMAIN r.args = DOMAIN s[2].args
    BY <2>3, <2>4, <2>5 DEF Pending, Isolated, CallOf
  <2>. HIDE DEF r
  <2>7. /\ t \in Seq(Frames) /\ Len(t) = Len(s)
        /\ \A k \in 1..Len(s) : t[k] = IF k = 2 THEN r ELSE s[k]
    BY <1>1, <2>1, <2>4, ExceptSeq
  <2>. HIDE DEF t
  <2>8. /\ \A k \in 1..Len(s) : t[k].fn = s[k].fn /\ t[k].par = s[k].par
        /\ t[1] = s[1]
    BY <1>1, <2>1, <2>4, <2>7
  <2>9. Chained(t)
    <3>. SUFFICES ASSUME NEW k \in 2..Len(s)
                  PROVE  /\ Pending(t[k]) /\ Isolated(t[k]) /\ CallOf(t[k]).fn = t[k - 1].fn
                         /\ DOMAIN t[k - 1].par = DOMAIN t[k].args
      BY <2>7 DEF Chained
    <3>1. k \in 1..Len(s) /\ k - 1 \in 1..Len(s)
      BY <1>1
    <3>2. t[k - 1].fn = s[k - 1].fn /\ t[k - 1].par = s[k - 1].par
      BY <2>8, <3>1
    <3>3. CASE k = 2
      <4>1. t[k] = r /\ s[k - 1] = s[1]
        BY <2>7, <3>1, <3>3
      <4>. QED  BY <2>5, <2>6, <3>2, <4>1
    <3>4. CASE k # 2
      <4>1. t[k] = s[k]
        BY <2>7, <3>1, <3>4
      <4>. QED  BY <3>2, <4>1 DEF StackInv, Chained
    <3>. QED  BY <3>3, <3>4
  <2>10. Alternate(t)
    BY <2>7, <2>8 DEF StackInv, Alternate
  <2>11. TopOK(t[1])
    BY <2>8 DEF StackInv
  <2>. QED  BY <2>2, <2>7, <2>9, <2>10, <2>11 DEF StackInv
<1>. QED  BY <1>2, <1>3
------------------------------------------------------------------------------
LEMMA EmptyStack == StackInv(<<>>)
<1>1. <<>> \in Seq(Frames) /\ Len(<<>>) = 0
  BY EmptySeq
<1>. QED  BY <1>1 DEF StackInv, Chained, Alternate

LEMMA InitInv == Init => IInv
<1>. SUFFICES ASSUME Init PROVE IInv
  OBVIOUS
<1>2. StackInv(stack)
  BY EmptyStack DEF Init
<1>3. MAX_SAMPLES \in Nat
  BY BridgeAssumption
<1>4. enclave = "alive" /\ aborted = FALSE /\ runs = 0
  BY DEF Init
<1>5. enclave \in Errors \cup {"alive"} /\ runs \in 0..MAX_SAMPLES
  BY <1>3, <1>4
<1>6. aborted \in BOOLEAN
  BY <1>4, Zenon
<1>. QED  BY <1>2, <1>5, <1>6, Zenon DEF IInv

\* What IInv says of the running function.
LEMMA TopFrame ==
    ASSUME IInv, stack # <<>>
    PROVE  /\ stack \in Seq(Frames) /\ Top = stack[1] /\ Top \in Frames /\ TopOK(Top)
           /\ Len(stack) \in Nat /\ Len(stack) > 0 /\ 1 \in DOMAIN stack
           /\ Body(Top.fn) \in Seq(Operations) /\ Top.fn \in Function
<1>1. stack \in Seq(Frames) /\ TopOK(stack[1])
  BY DEF IInv, StackInv
<1>2. Top = stack[1] /\ stack[1] \in Frames /\ Len(stack) \in Nat /\ Len(stack) > 0
      /\ 1 \in DOMAIN stack
  BY <1>1, Basics DEF Top
<1>3. Body(Top.fn) \in Seq(Operations) /\ Top.fn \in Function
  BY <1>2, BridgeAssumption DEF Frames, Body
<1>. QED  BY <1>1, <1>2, <1>3

\* The top frame goes on to its next operation, with no status and perhaps
\* other contents of its parameters.
LEMMA Advances ==
    ASSUME IInv, stack # <<>>, Top.pc \in DOMAIN Body(Top.fn),
           NEW r \in Frames, r.fn = Top.fn, DOMAIN r.par = DOMAIN Top.par,
           r.pc = Top.pc + 1, r.status = "none"
    PROVE  StackInv([stack EXCEPT ![1] = r])
<1>1. r.pc \in 1..Len(Body(r.fn)) + 1
  BY TopFrame, LenProperties
<1>2. TopOK(r)
  BY <1>1 DEF TopOK, Errors
<1>. QED  BY <1>2, TopFrame, TopChanges DEF IInv

\* Only at a call has the running function a status.
LEMMA NoStatus ==
    ASSUME IInv, NEW kind, At(kind), kind # "call"
    PROVE  /\ stack # <<>> /\ Top.status = "none" /\ Top.pc \in DOMAIN Body(Top.fn)
           /\ Op \in Operations /\ Op.op = kind
<1>1. stack # <<>> /\ Top.pc \in DOMAIN Body(Top.fn) /\ Op = CallOf(Top) /\ Op.op = kind
  BY DEF At, Op, CallOf
<1>2. Op \in Operations
  BY <1>1, TopFrame, LenProperties, ElementOfSeq DEF Op
<1>. QED  BY <1>1, <1>2, TopFrame DEF TopOK, Pending

\* The frame after Advance.
LEMMA AdvanceTop ==
    ASSUME IInv, stack # <<>>
    PROVE  LET r == [Top EXCEPT !.pc = @ + 1]
           IN  /\ Advance = [stack EXCEPT ![1] = r]
               /\ r \in Frames /\ r.fn = Top.fn /\ r.par = Top.par /\ r.args = Top.args
               /\ r.pc = Top.pc + 1 /\ r.status = Top.status
<1>1. Top = stack[1] /\ Top \in Frames
  BY TopFrame
<1>2. Advance = [stack EXCEPT ![1] = [Top EXCEPT !.pc = @ + 1]]
  BY <1>1 DEF Advance
<1>. QED  BY <1>1, <1>2 DEF Frames

LEMMA TestStep == IInv /\ Test => IInv'
<1>. SUFFICES ASSUME IInv, Test PROVE IInv'
  OBVIOUS
<1>1. StackInv(Advance)
  <2>1. stack # <<>> /\ Top.status = "none" /\ Top.pc \in DOMAIN Body(Top.fn)
    BY NoStatus DEF Test
  <2>. QED  BY <2>1, AdvanceTop, Advances
<1>. QED  BY <1>1 DEF IInv, Test

LEMMA FreeStep == IInv /\ Free => IInv'
<1>. SUFFICES ASSUME IInv, Free PROVE IInv'
  OBVIOUS
<1>1. StackInv(Advance)
  <2>1. stack # <<>> /\ Top.status = "none" /\ Top.pc \in DOMAIN Body(Top.fn)
    BY NoStatus DEF Free
  <2>. QED  BY <2>1, AdvanceTop, Advances
<1>. QED  BY <1>1 DEF IInv, Free

\* Whichever way the enclave dies.
LEMMA DiesStep ==
    ASSUME IInv, stack # <<>>, NEW status \in Errors, EnclaveDies(status),
           UNCHANGED runs, aborted' \in BOOLEAN
    PROVE  IInv'
<1>1. StackInv([Tail(stack) EXCEPT ![1].status = status])
  BY TopFails DEF IInv, Statuses
<1>. QED  BY <1>1 DEF IInv, EnclaveDies

LEMMA MallocStep == IInv /\ Malloc => IInv'
<1>. SUFFICES ASSUME IInv, Malloc PROVE IInv'
  OBVIOUS
<1>1. stack # <<>> /\ Top.status = "none" /\ Top.pc \in DOMAIN Body(Top.fn)
  BY NoStatus DEF Malloc
<1>2. CASE stack' = Advance /\ UNCHANGED enclave
  <2>1. StackInv(Advance)
    BY <1>1, AdvanceTop, Advances
  <2>. QED  BY <1>2, <2>1 DEF IInv, Malloc
<1>3. CASE EnclaveDies("SGX_ERROR_ENCLAVE_CRASHED")
  BY <1>1, <1>3, DiesStep DEF Malloc, Errors, IInv
<1>. QED  BY <1>2, <1>3 DEF Malloc

LEMMA WriteStep == IInv /\ Write => IInv'
<1>. SUFFICES ASSUME IInv, Write PROVE IInv'
  OBVIOUS
<1>. DEFINE on == Op.on
            r  == [Top EXCEPT !.pc = @ + 1]
<1>1. /\ stack # <<>> /\ Top.status = "none" /\ Top.pc \in DOMAIN Body(Top.fn)
      /\ Op.is \in Contents
  <2>1. /\ stack # <<>> /\ Top.status = "none" /\ Top.pc \in DOMAIN Body(Top.fn)
        /\ Op \in Operations /\ Op.op = "write"
    BY NoStatus DEF Write
  <2>. QED  BY <2>1 DEF Operations
<1>2. /\ Advance = [stack EXCEPT ![1] = r] /\ r \in Frames /\ r.fn = Top.fn
      /\ r.par = Top.par /\ r.pc = Top.pc + 1 /\ r.status = "none"
  BY <1>1, AdvanceTop
<1>3. StackInv(Advance)
  BY <1>1, <1>2, Advances
<1>4. /\ Advance \in Seq(Frames) /\ Advance # <<>> /\ Advance[1] = r /\ DOMAIN Advance = 1..Len(stack)
      /\ Len(Advance) = Len(stack)
  BY <1>1, <1>2, TopFrame, SetTop, Basics
<1>5. CASE Shared(Top.fn, on)
  <2>1. stack' = [Advance EXCEPT ![2].args[on] = Op.is]
    BY <1>5 DEF Write
  <2>2. StackInv([Advance EXCEPT ![2].args[on] = Op.is])
    BY <1>1, <1>2, <1>3, <1>4, <1>5, SharedWrite
  <2>. QED  BY <2>1, <2>2 DEF IInv, Write
<1>6. CASE ~Shared(Top.fn, on)
  <2>. DEFINE q == [r EXCEPT !.par = [r.par EXCEPT ![on] = Op.is]]
  <2>1. stack' = [Advance EXCEPT ![1].par[on] = Op.is]
    BY <1>6 DEF Write
  <2>2. [Advance EXCEPT ![1].par[on] = Op.is] = [stack EXCEPT ![1] = q]
    <3>1. [Advance EXCEPT ![1].par[on] = Op.is] = [Advance EXCEPT ![1] = q]
      BY <1>4
    <3>. QED  BY <1>2, <3>1
  <2>3. /\ q \in Frames /\ q.fn = Top.fn /\ DOMAIN q.par = DOMAIN Top.par
        /\ q.pc = Top.pc + 1 /\ q.status = "none"
    <3>1. [r.par EXCEPT ![on] = Op.is] \in Seq(Contents)
      BY <1>1, <1>2, SetInSeq DEF Frames
    <3>. QED  BY <1>2, <3>1 DEF Frames
  <2>. HIDE DEF q
  <2>4. StackInv([stack EXCEPT ![1] = q])
    BY <1>1, <2>3, Advances
  <2>. QED  BY <2>1, <2>2, <2>4 DEF IInv, Write
<1>. QED  BY <1>5, <1>6
------------------------------------------------------------------------------
\* The operation of a call, made or returned.
LEMMA CallOp ==
    ASSUME IInv, At("call")
    PROVE  /\ stack # <<>> /\ Pending(Top) /\ Op = CallOf(Top)
           /\ Op.fn \in Function /\ Op.args \in Seq(Contents)
<1>1. stack # <<>> /\ Pending(Top) /\ Op = CallOf(Top) /\ Op.op = "call"
  BY DEF At, Op, CallOf, Pending
<1>2. Op \in Operations
  BY <1>1, TopFrame, LenProperties, ElementOfSeq DEF Op, Pending
<1>. QED  BY <1>1, <1>2 DEF Operations

LEMMA CallFailsStep == IInv /\ CallFails => IInv'
<1>. SUFFICES ASSUME IInv, CallFails PROVE IInv'
  OBVIOUS
<1>1. PICK status \in Refusals(Op.fn) :
          stack' = [stack EXCEPT ![1].args = Op.args, ![1].status = status]
  BY DEF CallFails
<1>2. status \in Errors
  BY <1>1 DEF Refusals, Errors, IInv
<1>3. /\ stack # <<>> /\ Pending(Top) /\ Op = CallOf(Top) /\ Op.args \in Seq(Contents)
  BY CallOp DEF CallFails, Calling
<1>. DEFINE r == [Top EXCEPT !.args = Op.args, !.status = status]
<1>4. stack' = [stack EXCEPT ![1] = r]
  BY <1>1, <1>3, TopFrame
<1>5. /\ r \in Frames /\ r.fn = Top.fn /\ r.pc = Top.pc /\ r.par = Top.par
      /\ r.args = Op.args /\ r.status = status
  BY <1>2, <1>3, TopFrame DEF Frames, Statuses
<1>. HIDE DEF r
<1>6. TopOK(r)
  BY <1>2, <1>3, <1>5, TopFrame DEF TopOK, Pending, Isolated, CallOf
<1>7. StackInv(stack')
  BY <1>3, <1>4, <1>5, <1>6, TopFrame, TopChanges DEF IInv
<1>. QED  BY <1>7 DEF IInv, CallFails

LEMMA CallEntersStep == IInv /\ CallEnters => IInv'
<1>. SUFFICES ASSUME IInv, CallEnters PROVE IInv'
  OBVIOUS
<1>. DEFINE f == Op.fn
            s == [stack EXCEPT ![1].args = Op.args]
            q == [Top EXCEPT !.args = Op.args]
            r == Frame(f, CopyIn(f, Op.args))
<1>1. /\ stack # <<>> /\ Pending(Top) /\ Op = CallOf(Top) /\ Op.args \in Seq(Contents)
      /\ Top.status = "none" /\ f \in Function
  BY CallOp DEF CallEnters, Calling
<1>2. s = [stack EXCEPT ![1] = q]
  BY <1>1, TopFrame
<1>3. /\ q \in Frames /\ q.fn = Top.fn /\ q.pc = Top.pc /\ q.par = Top.par
      /\ q.args = Op.args /\ q.status = "none"
  BY <1>1, TopFrame DEF Frames
<1>4. Pending(q) /\ Isolated(q) /\ CallOf(q) = Op
  BY <1>1, <1>3 DEF Pending, Isolated, CallOf
<1>. HIDE DEF q
<1>5. TopOK(q)
  <2>1. q.pc \in 1..Len(Body(q.fn)) + 1
    BY <1>1, <1>3, TopFrame DEF TopOK
  <2>2. q.status \notin Errors
    BY <1>3 DEF Errors
  <2>. QED  BY <1>4, <2>1, <2>2 DEF TopOK
<1>6. StackInv(s) /\ s # <<>> /\ s[1] = q /\ Len(s) = Len(stack)
  BY <1>1, <1>2, <1>3, <1>5, TopFrame, TopChanges, SetTop DEF IInv
<1>. HIDE DEF s
<1>7. /\ r \in Frames /\ r.fn = f /\ DOMAIN r.par = DOMAIN Op.args
      /\ r.pc = 1 /\ r.status = "none"
  <2>1. CopyIn(f, Op.args) \in Seq(Contents) /\ DOMAIN CopyIn(f, Op.args) = DOMAIN Op.args
    BY <1>1, CopyInType
  <2>2. <<>> \in Seq(Contents)
    BY EmptySeq
  <2>. QED  BY <1>1, <2>1, <2>2 DEF Frame, Frames
<1>. HIDE DEF r
<1>8. TopOK(r)
  <2>1. Body(f) \in Seq(Operations)
    BY <1>1, BridgeAssumption DEF Body
  <2>2. r.pc \in 1..Len(Body(r.fn)) + 1
    BY <1>7, <2>1, LenProperties
  <2>. QED  BY <1>7, <2>2 DEF TopOK, Errors
<1>9. StackInv(<<r>> \o s)
  BY <1>3, <1>4, <1>6, <1>7, <1>8, TopCalls
<1>. QED  BY <1>9 DEF IInv, CallEnters, r, s
------------------------------------------------------------------------------
\* What the caller of the running function gets back.
LEMMA ReturnStep == IInv /\ Return => IInv'
<1>. SUFFICES ASSUME IInv, Return PROVE IInv'
  OBVIOUS
<1>. DEFINE t == Tail(stack)
            r == [t[1] EXCEPT !.status = "SGX_SUCCESS",
                              !.args = CopyOut(Top.fn, Top.par, t[1].args)]
<1>1. stack # <<>> /\ Len(stack) > 1 /\ stack \in Seq(Frames) /\ Top = stack[1] /\ Top \in Frames
  BY TopFrame DEF Return, AtEnd
<1>2. /\ StackInv(t) /\ t \in Seq(Frames) /\ Len(t) = Len(stack) - 1
      /\ t # <<>> => t[1] = stack[2] /\ Pending(t[1]) /\ Isolated(t[1])
  BY <1>1, TopGoes, Pop DEF IInv
<1>3. t # <<>> /\ t[1] \in Frames /\ 1 \in DOMAIN t
  <2>. HIDE DEF t
  <2>1. Len(t) \in Nat /\ Len(t) > 0
    BY <1>1, <1>2, TopFrame
  <2>. QED  BY <1>2, <2>1, Basics
<1>4. DOMAIN Top.par = DOMAIN t[1].args
  <2>1. 2 \in 2..Len(stack)
    BY <1>1, TopFrame
  <2>. QED  BY <1>1, <1>2, <1>3, <2>1 DEF IInv, StackInv, Chained
<1>5. stack' = [t EXCEPT ![1] = r]
  BY <1>3 DEF Return
<1>6. CopyOut(Top.fn, Top.par, t[1].args) \in Seq(Contents)
  BY <1>1, <1>3, <1>4, CopyOutType DEF Frames
<1>7. /\ r \in Frames /\ r.fn = t[1].fn /\ r.pc = t[1].pc /\ r.par = t[1].par
      /\ r.status = "SGX_SUCCESS"
  BY <1>3, <1>6 DEF Frames, Statuses
<1>. HIDE DEF r, t
<1>8. TopOK(r)
  <2>1. TopOK(t[1])
    BY <1>2, <1>3 DEF StackInv
  <2>. QED  BY <1>2, <1>3, <1>7, <2>1 DEF TopOK, Pending, CallOf, Errors
<1>9. StackInv(stack')
  BY <1>2, <1>3, <1>5, <1>7, <1>8, TopChanges
<1>. QED  BY <1>9 DEF IInv, Return

LEMMA ReturnToLostStep == IInv /\ ReturnToLost => IInv'
<1>. SUFFICES ASSUME IInv, ReturnToLost PROVE IInv'
  OBVIOUS
<1>1. stack # <<>> /\ Len(stack) > 1 /\ Len(stack) \in Nat /\ stack \in Seq(Frames)
  BY TopFrame DEF ReturnToLost, AtEnd
<1>2. StackInv(Tail(stack)) /\ Tail(stack) # <<>>
  <2>. DEFINE t == Tail(stack)
  <2>1. Len(t) = Len(stack) - 1 /\ t \in Seq(Frames)
    BY <1>1, Pop
  <2>2. t # <<>>
    <3>. HIDE DEF t
    <3>1. Len(t) > 0
      BY <1>1, <2>1
    <3>. QED  BY <2>1, <3>1, Basics
  <2>. QED  BY <1>1, <2>2, TopGoes DEF IInv
<1>3. enclave \in Statuses
  BY DEF IInv, ReturnToLost, Statuses
<1>4. StackInv([Tail(Tail(stack)) EXCEPT ![1].status = enclave])
  BY <1>2, <1>3, TopFails
<1>. QED  BY <1>4 DEF IInv, ReturnToLost

LEMMA AcceptStep == IInv /\ Accept => IInv'
<1>. SUFFICES ASSUME IInv, Accept PROVE IInv'
  OBVIOUS
<1>. DEFINE r == [Top EXCEPT !.pc = @ + 1]
            q == [r EXCEPT !.status = "none"]
<1>1. stack # <<>> /\ Top.pc \in DOMAIN Body(Top.fn)
  BY CallOp DEF Accept, Called, Pending
<1>2. /\ Advance = [stack EXCEPT ![1] = r] /\ r \in Frames /\ r.fn = Top.fn
      /\ r.par = Top.par /\ r.pc = Top.pc + 1
  BY <1>1, AdvanceTop
<1>3. stack' = [stack EXCEPT ![1] = q]
  <2>1. Advance[1] = r /\ 1 \in DOMAIN Advance
    BY <1>1, <1>2, TopFrame, SetTop, Basics
  <2>2. stack' = [Advance EXCEPT ![1] = q]
    BY <2>1 DEF Accept
  <2>. QED  BY <1>2, <2>2
<1>4. q \in Frames /\ q.fn = Top.fn /\ q.par = Top.par /\ q.pc = Top.pc + 1 /\ q.status = "none"
  BY <1>2 DEF Frames
<1>. HIDE DEF q
<1>5. StackInv(stack')
  BY <1>1, <1>3, <1>4, Advances
<1>. QED  BY <1>5 DEF IInv, Accept

LEMMA GiveUpStep == IInv /\ GiveUp => IInv'
<1>. SUFFICES ASSUME IInv, GiveUp PROVE IInv'
  OBVIOUS
<1>1. CASE IsEcall(Top.fn)
  <2>1. stack # <<>>
    BY CallOp DEF GiveUp, Called
  <2>2. EnclaveDies("SGX_ERROR_ENCLAVE_CRASHED") /\ UNCHANGED <<aborted, runs>>
    BY <1>1 DEF GiveUp
  <2>. QED  BY <2>1, <2>2, DiesStep DEF Errors, IInv
<1>2. CASE ~IsEcall(Top.fn)
  <2>1. stack' = <<>> /\ aborted' = TRUE /\ enclave' = enclave /\ runs' = runs
    BY <1>2 DEF GiveUp
  <2>. QED  BY <2>1, EmptyStack DEF IInv
<1>. QED  BY <1>1, <1>2

LEMMA LoseEnclaveStep == IInv /\ LoseEnclave => IInv'
<1>. SUFFICES ASSUME IInv, LoseEnclave PROVE IInv'
  OBVIOUS
<1>1. CASE stack # <<>> /\ IsEcall(Top.fn)
  BY <1>1, DiesStep DEF LoseEnclave, Errors, IInv
<1>2. CASE ~(stack # <<>> /\ IsEcall(Top.fn))
  BY <1>2 DEF LoseEnclave, Errors, IInv
<1>. QED  BY <1>1, <1>2

LEMMA StartStep == IInv /\ (\E f \in Samples : Start(f)) => IInv'
<1>. SUFFICES ASSUME IInv, NEW f \in Samples, Start(f) PROVE IInv'
  OBVIOUS
<1>. DEFINE r == Frame(f, <<>>)
<1>1. f \in Function /\ Code[f].side = "app" /\ Body(f) \in Seq(Operations) /\ MAX_SAMPLES \in Nat
  BY BridgeAssumption DEF Body
<1>2. r \in Frames /\ r.fn = f /\ r.pc = 1 /\ r.status = "none"
  BY <1>1, EmptySeq DEF Frame, Frames
<1>. HIDE DEF r
<1>3. TopOK(r)
  BY <1>1, <1>2, LenProperties DEF TopOK, Errors
<1>4. <<r>> \in Seq(Frames) /\ Len(<<r>>) = 1 /\ <<r>>[1] = r
  BY <1>2
<1>5. StackInv(<<r>>)
  <2>1. Chained(<<r>>)
    BY <1>4 DEF Chained
  <2>2. Alternate(<<r>>)
    BY <1>1, <1>2, <1>4 DEF Alternate, IsEcall
  <2>. QED  BY <1>3, <1>4, <2>1, <2>2 DEF StackInv
<1>6. runs' \in 0..MAX_SAMPLES
  BY <1>1 DEF Start, IInv
<1>. QED  BY <1>5, <1>6 DEF IInv, Start, r

LEMMA StepInv == IInv /\ [Next]_vars => IInv'
<1>. SUFFICES ASSUME IInv, [Next]_vars PROVE IInv'
  OBVIOUS
<1>1. CASE SampleEnds
  BY <1>1, EmptyStack DEF SampleEnds, IInv
<1>2. CASE UNCHANGED vars
  BY <1>2 DEF IInv, vars
<1>3. CASE Finished
  BY <1>2, <1>3 DEF Finished
<1>. QED
  BY <1>1, <1>2, <1>3, TestStep, WriteStep, MallocStep, FreeStep, CallFailsStep, CallEntersStep,
     ReturnStep, ReturnToLostStep, AcceptStep, GiveUpStep, LoseEnclaveStep, StartStep
     DEF Next, Step

\* The invariant implies the properties.
LEMMA InvType == IInv => TypeOK
<1>. SUFFICES ASSUME IInv PROVE TypeOK
  OBVIOUS
<1>1. stack \in Seq(Frames) /\ DOMAIN stack = 1..Len(stack) /\ Len(stack) \in Nat
      /\ \A k \in 1..Len(stack) : stack[k] \in Frames
  BY Basics DEF IInv, StackInv
<1>2. ASSUME NEW k \in 1..Len(stack)
      PROVE  stack[k].pc \in 1..Len(Body(stack[k].fn)) + 1
  <2>1. CASE k = 1
    <3>1. stack # <<>>
      BY <1>1
    <3>. QED  BY <2>1, <3>1 DEF IInv, StackInv, TopOK
  <2>2. CASE k # 1
    <3>1. Pending(stack[k])
      BY <1>1, <2>2 DEF IInv, StackInv, Chained
    <3>2. Body(stack[k].fn) \in Seq(Operations)
      BY <1>1, BridgeAssumption DEF Frames, Body
    <3>. QED  BY <3>1, <3>2, LenProperties DEF Pending
  <2>. QED  BY <2>1, <2>2
<1>. QED  BY <1>1, <1>2 DEF TypeOK, IInv, StackInv, Alternate
------------------------------------------------------------------------------
\* Where a step leaves the frames: t has the lowest n frames of s, at the same
\* operations.
Bottom(s, j) == s[Len(s) + 1 - j]

SameBelow(s, t, n) ==
    /\ n <= Len(s) /\ n <= Len(t)
    /\ \A j \in 1..n : Bottom(t, j).fn = Bottom(s, j).fn /\ Bottom(t, j).pc = Bottom(s, j).pc

LEMMA SetTopBelow ==
    ASSUME NEW s \in Seq(Frames), s # <<>>, NEW r \in Frames
    PROVE  LET t == [s EXCEPT ![1] = r]
           IN  t \in Seq(Frames) /\ Len(t) = Len(s) /\ t[1] = r /\ SameBelow(s, t, Len(s) - 1)
<1>. DEFINE t == [s EXCEPT ![1] = r]
<1>1. /\ t \in Seq(Frames) /\ Len(t) = Len(s) /\ t[1] = r /\ Len(s) \in Nat /\ Len(s) > 0
      /\ \A k \in 2..Len(s) : t[k] = s[k]
  BY SetTop, Basics
<1>. HIDE DEF t
<1>2. \A j \in 1..Len(s)-1 : Len(s) + 1 - j \in 2..Len(s)
  BY <1>1
<1>3. \A j \in 1..Len(s)-1 : Bottom(t, j) = Bottom(s, j)
  BY <1>1, <1>2 DEF Bottom
<1>4. SameBelow(s, t, Len(s) - 1)
  BY <1>1, <1>3 DEF SameBelow
<1>. QED  BY <1>1, <1>4 DEF t

LEMMA PushBelow ==
    ASSUME NEW s \in Seq(Frames), NEW r \in Frames
    PROVE  LET t == <<r>> \o s
           IN  t \in Seq(Frames) /\ Len(t) = Len(s) + 1 /\ t[1] = r /\ SameBelow(s, t, Len(s))
<1>. DEFINE t == <<r>> \o s
<1>1. /\ t \in Seq(Frames) /\ Len(t) = Len(s) + 1 /\ t[1] = r /\ Len(s) \in Nat
      /\ \A k \in 2..Len(s)+1 : t[k] = s[k - 1]
  BY Push, Basics
<1>. HIDE DEF t
<1>2. \A j \in 1..Len(s) : /\ Len(t) + 1 - j \in 2..Len(s)+1
                           /\ (Len(t) + 1 - j) - 1 = Len(s) + 1 - j
  BY <1>1
<1>3. \A j \in 1..Len(s) : Bottom(t, j) = Bottom(s, j)
  BY <1>1, <1>2 DEF Bottom
<1>. QED  BY <1>1, <1>3 DEF SameBelow, t

LEMMA PopBelow ==
    ASSUME NEW s \in Seq(Frames), s # <<>>
    PROVE  Len(Tail(s)) = Len(s) - 1 /\ SameBelow(s, Tail(s), Len(s) - 1)
<1>. DEFINE t == Tail(s)
<1>1. /\ t \in Seq(Frames) /\ Len(t) = Len(s) - 1 /\ Len(s) \in Nat /\ Len(s) > 0
      /\ \A k \in 1..Len(s)-1 : t[k] = s[k + 1]
  BY Pop, Basics
<1>. HIDE DEF t
<1>2. \A j \in 1..Len(s)-1 : /\ Len(t) + 1 - j \in 1..Len(s)-1
                             /\ (Len(t) + 1 - j) + 1 = Len(s) + 1 - j
  BY <1>1
<1>3. \A j \in 1..Len(s)-1 : Bottom(t, j) = Bottom(s, j)
  BY <1>1, <1>2 DEF Bottom
<1>. QED  BY <1>1, <1>3 DEF SameBelow, t

\* The same frames, of which the top one returned a status to the one below.
LEMMA PopStatus ==
    ASSUME NEW s, StackInv(s), s # <<>>, Len(s) > 1, NEW r \in Frames, r.fn = s[2].fn, r.pc = s[2].pc
    PROVE  LET t == [Tail(s) EXCEPT ![1] = r]
           IN  t \in Seq(Frames) /\ Len(t) = Len(s) - 1 /\ t[1] = r /\ SameBelow(s, t, Len(s) - 1)
<1>. DEFINE u == Tail(s)
            t == [u EXCEPT ![1] = r]
<1>1. s \in Seq(Frames) /\ Len(s) \in Nat
  BY Basics DEF StackInv
<1>2. u \in Seq(Frames) /\ Len(u) = Len(s) - 1 /\ u[1] = s[2] /\ SameBelow(s, u, Len(s) - 1)
  BY <1>1, Pop, PopBelow
<1>. HIDE DEF u
<1>3. u # <<>>
  BY <1>1, <1>2, EmptySeq
<1>4. t \in Seq(Frames) /\ Len(t) = Len(u) /\ t[1] = r /\ SameBelow(u, t, Len(u) - 1)
  BY <1>2, <1>3, SetTopBelow
<1>. HIDE DEF t
<1>5. ASSUME NEW j \in 1..Len(u)
      PROVE  Bottom(t, j).fn = Bottom(u, j).fn /\ Bottom(t, j).pc = Bottom(u, j).pc
  <2>1. CASE j = Len(u)
    <3>1. Bottom(t, j) = t[1] /\ Bottom(u, j) = u[1]
      BY <1>1, <1>2, <1>4, <2>1 DEF Bottom
    <3>. QED  BY <1>2, <1>4, <3>1
  <2>2. CASE j # Len(u)
    BY <1>1, <1>2, <1>4, <2>2 DEF SameBelow
  <2>. QED  BY <2>1, <2>2
<1>6. SameBelow(s, t, Len(s) - 1)
  BY <1>1, <1>2, <1>4, <1>5 DEF SameBelow
<1>. QED  BY <1>2, <1>4, <1>6 DEF t, u

\* Steps in which the top frame stays: it is at the operation n afterwards.
Stays(n, status) ==
    /\ stack # <<>> /\ Len(stack') = Len(stack) /\ SameBelow(stack, stack', Len(stack) - 1)
    /\ stack'[1].fn = Top.fn /\ stack'[1].pc = n /\ stack'[1].status = status

\* It goes, and its caller has a status.
Goes(status) ==
    /\ Len(stack) > 1 /\ Len(stack') = Len(stack) - 1 /\ SameBelow(stack, stack', Len(stack) - 1)
    /\ stack'[1].fn = stack[2].fn /\ stack'[1].pc = stack[2].pc /\ stack'[1].status = status
    /\ Pending(stack'[1])

LEMMA StaysIf ==
    ASSUME IInv, stack # <<>>, NEW r \in Frames, stack' = [stack EXCEPT ![1] = r], r.fn = Top.fn
    PROVE  Stays(r.pc, r.status)
  BY TopFrame, SetTopBelow DEF Stays

LEMMA AdvanceStays ==
    ASSUME IInv, NEW kind, At(kind), kind # "call", stack' = Advance
    PROVE  Stays(Top.pc + 1, "none")
<1>. DEFINE r == [Top EXCEPT !.pc = @ + 1]
<1>1. stack # <<>> /\ Top.status = "none"
  BY NoStatus
<1>2. /\ stack' = [stack EXCEPT ![1] = r] /\ r \in Frames /\ r.fn = Top.fn
      /\ r.pc = Top.pc + 1 /\ r.status = "none"
  BY <1>1, AdvanceTop
<1>. HIDE DEF r
<1>. QED  BY <1>1, <1>2, StaysIf

LEMMA AcceptStays ==
    ASSUME IInv, Accept
    PROVE  Stays(Top.pc + 1, "none")
<1>. DEFINE r == [Top EXCEPT !.pc = @ + 1]
            q == [r EXCEPT !.status = "none"]
<1>1. stack # <<>>
  BY DEF Accept, Called, At
<1>2. Advance = [stack EXCEPT ![1] = r] /\ r \in Frames /\ r.fn = Top.fn /\ r.pc = Top.pc + 1
  BY <1>1, AdvanceTop
<1>3. stack' = [stack EXCEPT ![1] = q]
  <2>1. Advance[1] = r /\ 1 \in DOMAIN Advance
    BY <1>1, <1>2, TopFrame, SetTop, Basics
  <2>2. stack' = [Advance EXCEPT ![1] = q]
    BY <2>1 DEF Accept
  <2>. QED  BY <1>2, <2>2
<1>4. q \in Frames /\ q.fn = Top.fn /\ q.pc = Top.pc + 1 /\ q.status = "none"
  BY <1>2 DEF Frames
<1>. HIDE DEF q
<1>. QED  BY <1>1, <1>3, <1>4, StaysIf

LEMMA CallFailsStays ==
    ASSUME IInv, CallFails
    PROVE  /\ \E status \in Refusals(Op.fn) : Stays(Top.pc, status)
           /\ Top.status = "none" /\ Pending(Top) /\ Op = CallOf(Top)
<1>1. PICK status \in Refusals(Op.fn) :
          stack' = [stack EXCEPT ![1].args = Op.args, ![1].status = status]
  BY DEF CallFails
<1>2. status \in Errors
  BY <1>1 DEF Refusals, Errors, IInv
<1>3. stack # <<>> /\ Pending(Top) /\ Op = CallOf(Top) /\ Op.args \in Seq(Contents) /\ Top.status = "none"
  BY CallOp DEF CallFails, Calling
<1>. DEFINE r == [Top EXCEPT !.args = Op.args, !.status = status]
<1>4. stack' = [stack EXCEPT ![1] = r]
  BY <1>1, <1>3, TopFrame
<1>5. r \in Frames /\ r.fn = Top.fn /\ r.pc = Top.pc /\ r.status = status
  BY <1>2, <1>3, TopFrame DEF Frames, Statuses
<1>. HIDE DEF r
<1>. QED  BY <1>1, <1>3, <1>4, <1>5, StaysIf

LEMMA GoesIf ==
    ASSUME IInv, stack # <<>>, Len(stack) > 1, NEW r \in Frames, stack' = [Tail(stack) EXCEPT ![1] = r],
           r.fn = stack[2].fn, r.pc = stack[2].pc
    PROVE  Goes(r.status)
<1>1. stack \in Seq(Frames) /\ Len(stack) \in Nat
  BY TopFrame
<1>2. Pending(stack[2])
  BY <1>1 DEF IInv, StackInv, Chained
<1>3. Pending(r)
  BY <1>2 DEF Pending, CallOf
<1>. QED  BY <1>3, PopStatus DEF Goes, IInv

\* An ECALL has a caller below it.
LEMMA EcallAbove ==
    ASSUME IInv, stack # <<>>, IsEcall(Top.fn)
    PROVE  Len(stack) > 1 /\ ~IsEcall(stack[2].fn)
<1>1. /\ Len(stack) \in Nat /\ Len(stack) > 0 /\ Top = stack[1]
      /\ \A k \in 1..Len(stack) : IsEcall(stack[k].fn) <=> (Len(stack) - k) % 2 = 1
  BY TopFrame DEF IInv, StackInv, Alternate
<1>2. (Len(stack) - 1) % 2 = 1
  BY <1>1
<1>3. Len(stack) > 1 /\ (Len(stack) - 2) % 2 # 1
  BY <1>1, <1>2
<1>. QED  BY <1>1, <1>3

LEMMA DiesGoes ==
    ASSUME IInv, stack # <<>>, IsEcall(Top.fn), NEW status \in Errors, EnclaveDies(status)
    PROVE  Goes(status)
<1>. DEFINE t == Tail(stack)
            r == [t[1] EXCEPT !.status = status]
<1>1. Len(stack) > 1 /\ Len(stack) \in Nat /\ stack \in Seq(Frames)
  BY EcallAbove, TopFrame
<1>2. t \in Seq(Frames) /\ Len(t) = Len(stack) - 1 /\ t[1] = stack[2]
  BY <1>1, Pop
<1>3. t[1] \in Frames /\ 1 \in DOMAIN t
  <2>. HIDE DEF t
  <2>. QED  BY <1>1, <1>2, Basics
<1>4. stack' = [t EXCEPT ![1] = r]
  BY <1>3 DEF EnclaveDies
<1>5. r \in Frames /\ r.fn = stack[2].fn /\ r.pc = stack[2].pc /\ r.status = status
  BY <1>2, <1>3 DEF Frames, Statuses
<1>. HIDE DEF r
<1>. QED  BY <1>1, <1>4, <1>5, GoesIf

LEMMA ReturnGoes ==
    ASSUME IInv, Return
    PROVE  Goes("SGX_SUCCESS")
<1>. DEFINE t == Tail(stack)
            r == [t[1] EXCEPT !.status = "SGX_SUCCESS",
                              !.args = CopyOut(Top.fn, Top.par, t[1].args)]
<1>1. stack # <<>> /\ Len(stack) > 1 /\ Len(stack) \in Nat /\ stack \in Seq(Frames)
      /\ Top = stack[1] /\ Top \in Frames
  BY TopFrame DEF Return, AtEnd
<1>2. t \in Seq(Frames) /\ Len(t) = Len(stack) - 1 /\ t[1] = stack[2]
  BY <1>1, Pop
<1>3. t[1] \in Frames /\ 1 \in DOMAIN t
  <2>. HIDE DEF t
  <2>. QED  BY <1>1, <1>2, Basics
<1>4. DOMAIN Top.par = DOMAIN t[1].args
  <2>1. 2 \in 2..Len(stack)
    BY <1>1
  <2>. QED  BY <1>1, <1>2, <2>1 DEF IInv, StackInv, Chained
<1>5. stack' = [t EXCEPT ![1] = r]
  BY <1>3 DEF Return
<1>6. CopyOut(Top.fn, Top.par, t[1].args) \in Seq(Contents)
  BY <1>1, <1>3, <1>4, CopyOutType DEF Frames
<1>7. r \in Frames /\ r.fn = stack[2].fn /\ r.pc = stack[2].pc /\ r.status = "SGX_SUCCESS"
  BY <1>2, <1>3, <1>6 DEF Frames, Statuses
<1>. HIDE DEF r
<1>. QED  BY <1>1, <1>5, <1>7, GoesIf

LEMMA WriteStays ==
    ASSUME IInv, Write
    PROVE  Stays(Top.pc + 1, "none")
<1>. DEFINE on == Op.on
            r  == [Top EXCEPT !.pc = @ + 1]
<1>1. stack # <<>> /\ Top.status = "none" /\ Op.is \in Contents
  <2>1. stack # <<>> /\ Top.status = "none" /\ Op \in Operations /\ Op.op = "write"
    BY NoStatus DEF Write
  <2>. QED  BY <2>1 DEF Operations
<1>2. /\ Advance = [stack EXCEPT ![1] = r] /\ r \in Frames /\ r.fn = Top.fn
      /\ r.pc = Top.pc + 1 /\ r.status = "none"
  BY <1>1, AdvanceTop
<1>. HIDE DEF r
<1>3. /\ Advance \in Seq(Frames) /\ Advance[1] = r /\ DOMAIN Advance = 1..Len(stack)
      /\ Len(Advance) = Len(stack) /\ SameBelow(stack, Advance, Len(stack) - 1)
      /\ Len(stack) \in Nat /\ Len(stack) > 0
  BY <1>1, <1>2, TopFrame, SetTopBelow, Basics
<1>4. CASE Shared(Top.fn, on)
  <2>1. stack' = [Advance EXCEPT ![2].args[on] = Op.is]
    BY <1>4 DEF Write
  <2>2. /\ DOMAIN stack' = DOMAIN Advance
        /\ \A k \in 1..Len(stack) : stack'[k].fn = Advance[k].fn /\ stack'[k].pc = Advance[k].pc
                                    /\ stack'[k].status = Advance[k].status
    <3>1. \A k \in 1..Len(stack) : Advance[k] \in Frames
      BY <1>3, Basics
    <3>. QED  BY <1>3, <2>1, <3>1 DEF Frames
  <2>3. stack' \in Seq(Frames)
    BY WriteStep DEF IInv, StackInv
  <2>4. Len(stack') = Len(stack)
    BY <1>3, <2>2, <2>3, LenProperties
  <2>5. \A j \in 1..Len(stack)-1 : Len(stack) + 1 - j \in 1..Len(stack)
    BY <1>3
  <2>6. SameBelow(stack, stack', Len(stack) - 1)
    BY <1>3, <2>2, <2>4, <2>5 DEF SameBelow, Bottom
  <2>7. 1 \in 1..Len(stack)
    BY <1>3
  <2>. QED  BY <1>1, <1>2, <1>3, <2>2, <2>4, <2>6, <2>7 DEF Stays
<1>5. CASE ~Shared(Top.fn, on)
  <2>. DEFINE q == [r EXCEPT !.par = [r.par EXCEPT ![on] = Op.is]]
  <2>1. stack' = [Advance EXCEPT ![1].par[on] = Op.is]
    BY <1>5 DEF Write
  <2>2. stack' = [stack EXCEPT ![1] = q]
    <3>1. [Advance EXCEPT ![1].par[on] = Op.is] = [Advance EXCEPT ![1] = q]
      BY <1>3
    <3>. QED  BY <1>2, <2>1, <3>1
  <2>3. q \in Frames /\ q.fn = Top.fn /\ q.pc = Top.pc + 1 /\ q.status = "none"
    <3>1. [r.par EXCEPT ![on] = Op.is] \in Seq(Contents)
      BY <1>1, <1>2, SetInSeq DEF Frames
    <3>. QED  BY <1>2, <3>1 DEF Frames
  <2>. HIDE DEF q
  <2>. QED  BY <1>1, <2>2, <2>3, StaysIf
<1>. QED  BY <1>4, <1>5

\* A frame is added on top, before its first operation.
LEMMA CallEntersAdds ==
    ASSUME IInv, CallEnters
    PROVE  /\ stack # <<>> /\ Op.fn \in Function
           /\ Len(stack') = Len(stack) + 1 /\ SameBelow(stack, stack', Len(stack))
           /\ stack'[1].fn = Op.fn /\ stack'[1].pc = 1 /\ stack'[1].status = "none"
           /\ Top.status = "none" /\ Pending(Top)
<1>. DEFINE f == Op.fn
            s == [stack EXCEPT ![1].args = Op.args]
            q == [Top EXCEPT !.args = Op.args]
            r == Frame(f, CopyIn(f, Op.args))
<1>1. /\ stack # <<>> /\ Pending(Top) /\ Op = CallOf(Top) /\ Op.args \in Seq(Contents)
      /\ Top.status = "none" /\ f \in Function
  BY CallOp DEF CallEnters, Calling
<1>2. s = [stack EXCEPT ![1] = q]
  BY <1>1, TopFrame
<1>3. q \in Frames /\ q.fn = Top.fn /\ q.pc = Top.pc
  BY <1>1, TopFrame DEF Frames
<1>. HIDE DEF q
<1>4. /\ s \in Seq(Frames) /\ Len(s) = Len(stack) /\ s[1] = q
      /\ SameBelow(stack, s, Len(stack) - 1) /\ Len(stack) \in Nat /\ Len(stack) > 0
  BY <1>1, <1>2, <1>3, TopFrame, SetTopBelow
<1>. HIDE DEF s
<1>5. r \in Frames /\ r.fn = f /\ r.pc = 1 /\ r.status = "none"
  <2>1. CopyIn(f, Op.args) \in Seq(Contents)
    BY <1>1, CopyInType
  <2>2. <<>> \in Seq(Contents)
    BY EmptySeq
  <2>. QED  BY <1>1, <2>1, <2>2 DEF Frame, Frames
<1>6. stack' = <<r>> \o s
  BY DEF CallEnters, r, s
<1>. HIDE DEF r
<1>7. Len(stack') = Len(s) + 1 /\ stack'[1] = r /\ SameBelow(s, stack', Len(s))
  BY <1>4, <1>5, <1>6, PushBelow
<1>8. ASSUME NEW j \in 1..Len(stack)
      PROVE  Bottom(s, j).fn = Bottom(stack, j).fn /\ Bottom(s, j).pc = Bottom(stack, j).pc
  <2>1. CASE j = Len(stack)
    <3>1. Bottom(s, j) = q /\ Bottom(stack, j) = Top
      BY <1>1, <1>4, <2>1, TopFrame DEF Bottom
    <3>. QED  BY <1>3, <3>1
  <2>2. CASE j # Len(stack)
    BY <1>4, <2>2 DEF SameBelow
  <2>. QED  BY <2>1, <2>2
<1>9. SameBelow(stack, stack', Len(stack))
  BY <1>4, <1>7, <1>8 DEF SameBelow
<1>. QED  BY <1>1, <1>4, <1>5, <1>7, <1>9

\* The OCALL and the ECALL around it go.
LEMMA ReturnToLostTop ==
    ASSUME IInv, ReturnToLost
    PROVE  stack' # <<>> => ~IsEcall(stack'[1].fn)
<1>. SUFFICES ASSUME stack' # <<>> PROVE ~IsEcall(stack'[1].fn)
  OBVIOUS
<1>1. /\ stack # <<>> /\ Len(stack) \in Nat /\ stack \in Seq(Frames) /\ Top = stack[1]
      /\ ~IsEcall(Top.fn) /\ Len(stack) > 1
  BY TopFrame DEF ReturnToLost, AtEnd
<1>2. Len(stack) % 2 = 1
  <2>1. (Len(stack) - 1) % 2 # 1
    BY <1>1 DEF IInv, StackInv, Alternate
  <2>. QED  BY <1>1, <2>1
<1>3. /\ stack' \in Seq(Frames) /\ Len(stack') \in Nat /\ Len(stack') > 0
      /\ \A k \in 1..Len(stack') : IsEcall(stack'[k].fn) <=> (Len(stack') - k) % 2 = 1
  BY ReturnToLostStep, Basics DEF IInv, StackInv, Alternate
<1>4. Len(stack') = Len(stack) - 2
  <2>. DEFINE t == Tail(stack)
              u == Tail(t)
  <2>1. t \in Seq(Frames) /\ Len(t) = Len(stack) - 1
    BY <1>1, Pop
  <2>. HIDE DEF t
  <2>2. t # <<>>
    BY <1>1, <2>1, EmptySeq
  <2>3. u \in Seq(Frames) /\ Len(u) = Len(t) - 1
    BY <2>1, <2>2, Pop
  <2>4. stack' = [u EXCEPT ![1].status = enclave]
    BY DEF ReturnToLost, t, u
  <2>. HIDE DEF u
  <2>5. DOMAIN stack' = DOMAIN u
    BY <2>4
  <2>6. Len(stack') = Len(u)
    BY <1>3, <2>3, <2>5, Basics
  <2>. QED  BY <1>1, <2>1, <2>3, <2>6
<1>5. (Len(stack') - 1) % 2 # 1
  BY <1>1, <1>2, <1>4
<1>. QED  BY <1>3, <1>5
------------------------------------------------------------------------------
\* A caller that will give up: its call returned a status it does not accept.
Forsaken(f) == Pending(f) /\ f.status # "none" /\ f.status \notin CallOf(f).ok /\ ~IsEcall(f.fn)

\* To an ECALL a call returns only if the enclave is still there.
Answered(f) == IsEcall(f.fn) => f.status \in {"none", "SGX_SUCCESS", "SGX_ERROR_UNEXPECTED"}

\* A failure that is not tolerated is on its way to abort().
Noticed ==
    /\ stack # <<>> => Answered(stack[1])
    /\ \/ failed \subseteq Tolerated
       \/ aborted
       \/ stack # <<>> /\ Forsaken(stack[1])

LEMMA NoticedInit == Init => Noticed
  BY Zenon DEF Init, Noticed

LEMMA StaysAnswered ==
    ASSUME NEW n, Stays(n, "none")
    PROVE  stack' # <<>> => Answered(stack'[1])
  BY DEF Stays, Answered

LEMMA AppAnswers ==
    ASSUME NEW s, s # <<>> => ~IsEcall(s[1].fn)
    PROVE  s # <<>> => Answered(s[1])
  BY DEF Answered

\* A call at which the top frame is, in terms of that frame.
LEMMA AtCall ==
    ASSUME IInv, stack # <<>>, Pending(stack[1])
    PROVE  /\ At("call") /\ Op = CallOf(stack[1]) /\ ~AtEnd /\ Top = stack[1]
           /\ \A kind : kind # "call" => ~At(kind)
  BY TopFrame DEF At, AtEnd, Op, CallOf, Pending

\* The steps that a forsaken caller does not take leave the failures alone.
LEMMA QuietNoticed ==
    ASSUME IInv, Noticed, UNCHANGED <<failed, aborted>>,
           stack # <<>> => ~Forsaken(stack[1]) \/ (stack' # <<>> /\ Forsaken(stack'[1])),
           stack' # <<>> => Answered(stack'[1])
    PROVE  Noticed'
  BY Zenon DEF Noticed

\* A failure accepted by the function that runs.
LEMMA AcceptedTolerated ==
    ASSUME IInv, Noticed, stack # <<>>, Pending(Top), Top.status \in CallOf(Top).ok,
           Top.status # "SGX_SUCCESS", Top.status # "none"
    PROVE  <<CallOf(Top).fn, Top.status>> \in Tolerated
<1>. DEFINE f == Top.fn
            k == Top.pc
<1>1. f \in Function /\ Top = stack[1] /\ Top \in Frames
  BY TopFrame
<1>2. k \in DOMAIN Code[f].body /\ Code[f].body[k].op = "call" /\ CallOf(Top) = Code[f].body[k]
  BY DEF Pending, CallOf, Body
<1>3. Top.status \in CallOf(Top).ok \cap Errors
  BY <1>1 DEF Frames, Statuses
<1>4. \/ Code[f].side = "enclave" /\ Top.status # "SGX_ERROR_UNEXPECTED"
      \/ <<CallOf(Top).fn, Top.status>> \in Tolerated
  BY <1>1, <1>2, <1>3, StatusAssumption
<1>5. Code[f].side = "enclave" => Top.status = "SGX_ERROR_UNEXPECTED"
  BY <1>1 DEF Noticed, Answered, IsEcall
<1>. QED  BY <1>4, <1>5

\* No caller in the App accepts that its ECALL has crashed.
LEMMA CrashForsakes ==
    ASSUME IInv, Goes("SGX_ERROR_ENCLAVE_CRASHED"), ~IsEcall(stack[2].fn), stack \in Seq(Frames)
    PROVE  Forsaken(stack'[1])
<1>. DEFINE f == stack'[1].fn
            k == stack'[1].pc
            st == "SGX_ERROR_ENCLAVE_CRASHED"
<1>1. f \in Function /\ ~IsEcall(f) /\ Code[f].side \in {"app", "enclave"}
  <2>1. 2 \in 1..Len(stack)
    BY Basics DEF Goes
  <2>2. stack[2] \in Frames
    BY <2>1, Basics
  <2>3. stack[2].fn \in Function
    BY <2>2 DEF Frames
  <2>. QED  BY <2>3, BridgeAssumption DEF Goes
<1>2. /\ k \in DOMAIN Code[f].body /\ Code[f].body[k].op = "call"
      /\ CallOf(stack'[1]) = Code[f].body[k]
  BY DEF Goes, Pending, CallOf, Body
<1>3. <<Code[f].body[k].fn, st>> \notin Tolerated
  BY DEF Tolerated
<1>4. st \notin Code[f].body[k].ok
  BY <1>1, <1>2, <1>3, StatusAssumption DEF Errors, IsEcall
<1>5. stack'[1].status = st /\ Pending(stack'[1])
  BY DEF Goes
<1>. QED  BY <1>1, <1>2, <1>4, <1>5 DEF Forsaken

\* Only ECALLs allocate on the enclave's heap.
LEMMA HeapInside ==
    ASSUME IInv, NEW kind \in {"malloc", "free"}, At(kind)
    PROVE  /\ stack # <<>> /\ IsEcall(Top.fn) /\ Top.status = "none"
           /\ Top.fn \in Function /\ Top.pc \in DOMAIN Body(Top.fn) /\ Body(Top.fn)[Top.pc].op = kind
<1>1. stack # <<>> /\ Top.status = "none" /\ Top.pc \in DOMAIN Body(Top.fn) /\ Op.op = kind
  BY NoStatus
<1>2. Body(Top.fn)[Top.pc].op = kind
  BY <1>1 DEF Op
<1>3. Top.fn \in Function
  BY <1>1, TopFrame
<1>. QED  BY <1>1, <1>2, <1>3, BlocksAssumption, BridgeAssumption DEF Body, IsEcall

LEMMA NoticedStep ==
    ASSUME IInv, Noticed, [Next]_vars
    PROVE  Noticed'
<1>0. stack # <<>> => Top = stack[1] /\ stack \in Seq(Frames)
  BY TopFrame
<1>1. ASSUME NEW kind, At(kind), kind # "call"
      PROVE  stack # <<>> /\ ~Forsaken(stack[1])
  BY <1>0, <1>1, NoStatus DEF Forsaken
<1>2. ASSUME AtEnd
      PROVE  stack # <<>> /\ ~Forsaken(stack[1])
  BY <1>0, <1>2, AtCall DEF AtEnd, Forsaken
<1>3. CASE Test \/ Free
  <2>1. ~Forsaken(stack[1]) /\ Stays(Top.pc + 1, "none") /\ UNCHANGED <<failed, aborted>>
    BY <1>1, <1>3, AdvanceStays DEF Test, Free
  <2>. QED  BY <2>1, StaysAnswered, QuietNoticed
<1>4. CASE Write
  <2>1. ~Forsaken(stack[1]) /\ Stays(Top.pc + 1, "none") /\ UNCHANGED <<failed, aborted>>
    BY <1>1, <1>4, WriteStays DEF Write
  <2>. QED  BY <2>1, StaysAnswered, QuietNoticed
<1>5. CASE Malloc
  <2>1. stack # <<>> /\ ~Forsaken(stack[1]) /\ UNCHANGED <<failed, aborted>>
    BY <1>1, <1>5 DEF Malloc
  <2>2. CASE stack' = Advance
    <3>1. Stays(Top.pc + 1, "none")
      BY <1>5, <2>2, AdvanceStays DEF Malloc
    <3>. QED  BY <2>1, <3>1, StaysAnswered, QuietNoticed
  <2>3. CASE EnclaveDies("SGX_ERROR_ENCLAVE_CRASHED")
    <3>1. Goes("SGX_ERROR_ENCLAVE_CRASHED") /\ ~IsEcall(stack[2].fn)
      BY <1>5, <2>1, <2>3, HeapInside, DiesGoes, EcallAbove DEF Malloc, Errors
    <3>2. stack' # <<>> => Answered(stack'[1])
      BY <3>1 DEF Goes, Answered
    <3>. QED  BY <2>1, <3>2, QuietNoticed
  <2>. QED  BY <1>5, <2>2, <2>3 DEF Malloc
<1>6. CASE CallFails
  <2>1. PICK status \in Refusals(Op.fn) : Stays(Top.pc, status)
    BY <1>6, CallFailsStays
  <2>2. stack # <<>> /\ ~Forsaken(stack[1]) /\ Pending(Top) /\ Op = CallOf(Top)
        /\ UNCHANGED <<failed, aborted>>
    BY <1>0, <1>6, <2>1, CallFailsStays DEF CallFails, Forsaken, Stays
  <2>3. IsEcall(Top.fn) => ~IsEcall(Op.fn)
    <3>. DEFINE f == Top.fn
                k == Top.pc
    <3>1. f \in Function
      BY <2>2, TopFrame
    <3>2. k \in DOMAIN Code[f].body /\ Code[f].body[k].op = "call" /\ Op = Code[f].body[k]
      BY <2>2 DEF Pending, CallOf, Body
    <3>. QED  BY <3>1, <3>2, BridgeAssumption DEF IsEcall
  <2>4. IsEcall(Top.fn) => status = "SGX_ERROR_UNEXPECTED"
    BY <2>1, <2>3 DEF Refusals
  <2>5. Answered(stack'[1])
    BY <2>1, <2>4 DEF Stays, Answered
  <2>. QED  BY <2>2, <2>5, QuietNoticed
<1>7. CASE CallEnters
  <2>1. stack # <<>> /\ ~Forsaken(stack[1]) /\ Answered(stack'[1]) /\ UNCHANGED <<failed, aborted>>
    BY <1>0, <1>7, CallEntersAdds DEF Forsaken, Answered, CallEnters
  <2>. QED  BY <2>1, QuietNoticed
<1>8. CASE Return
  <2>1. ~Forsaken(stack[1]) /\ Goes("SGX_SUCCESS") /\ UNCHANGED <<failed, aborted>>
    BY <1>2, <1>8, ReturnGoes DEF Return
  <2>2. Answered(stack'[1])
    BY <2>1 DEF Goes, Answered
  <2>. QED  BY <2>1, <2>2, QuietNoticed
<1>9. CASE ReturnToLost
  <2>1. ~Forsaken(stack[1]) /\ UNCHANGED <<failed, aborted>>
    BY <1>2, <1>9 DEF ReturnToLost
  <2>2. stack' # <<>> => Answered(stack'[1])
    BY <1>9, ReturnToLostTop DEF Answered
  <2>. QED  BY <2>1, <2>2, QuietNoticed
<1>10. CASE Accept
  <2>1. /\ stack # <<>> /\ Pending(Top) /\ Op = CallOf(Top) /\ Top.status # "none"
        /\ Top.status \in CallOf(Top).ok
    BY <1>10, CallOp DEF Accept, Called
  <2>2. ~Forsaken(stack[1]) /\ aborted' = aborted
    BY <1>0, <1>10, <2>1 DEF Forsaken, Accept
  <2>3. Stays(Top.pc + 1, "none")
    BY <1>10, AcceptStays
  <2>4. failed \subseteq Tolerated => failed' \subseteq Tolerated
    BY <1>10, <2>1, AcceptedTolerated DEF Accept, Remember
  <2>. QED  BY <2>2, <2>3, <2>4, StaysAnswered, Zenon DEF Noticed
<1>11. CASE GiveUp
  <2>1. CASE IsEcall(Top.fn)
    <3>1. stack # <<>> /\ EnclaveDies("SGX_ERROR_ENCLAVE_CRASHED")
      BY <1>11, <2>1, CallOp DEF GiveUp, Called
    <3>2. Goes("SGX_ERROR_ENCLAVE_CRASHED") /\ ~IsEcall(stack[2].fn)
      BY <2>1, <3>1, DiesGoes, EcallAbove DEF Errors
    <3>3. Forsaken(stack'[1]) /\ Answered(stack'[1])
      BY <1>0, <3>1, <3>2, CrashForsakes DEF Answered, Forsaken
    <3>4. stack' # <<>>
      <4>1. stack' \in Seq(Frames) /\ Len(stack') # 0
        BY <1>0, <1>11, <3>1, <3>2, GiveUpStep, Basics DEF IInv, StackInv, Goes
      <4>. QED  BY <4>1, Basics
    <3>. QED  BY <3>3, <3>4 DEF Noticed
  <2>2. CASE ~IsEcall(Top.fn)
    BY <1>11, <2>2 DEF GiveUp, Noticed
  <2>. QED  BY <2>1, <2>2
<1>12. CASE SampleEnds
  <2>1. ~Forsaken(stack[1]) /\ UNCHANGED <<failed, aborted>> /\ stack' = <<>>
    BY <1>2, <1>12 DEF SampleEnds
  <2>. QED  BY <2>1, QuietNoticed
<1>13. CASE LoseEnclave
  <2>1. CASE stack # <<>> /\ IsEcall(Top.fn)
    <3>1. Goes("SGX_ERROR_ENCLAVE_LOST") /\ ~IsEcall(stack[2].fn) /\ UNCHANGED <<failed, aborted>>
      BY <1>13, <2>1, DiesGoes, EcallAbove DEF LoseEnclave, Errors
    <3>2. Answered(stack'[1]) /\ ~Forsaken(stack[1])
      BY <1>0, <2>1, <3>1 DEF Goes, Answered, Forsaken
    <3>. QED  BY <3>1, <3>2, QuietNoticed
  <2>2. CASE ~(stack # <<>> /\ IsEcall(Top.fn))
    <3>1. stack' = stack /\ UNCHANGED <<failed, aborted>>
      BY <1>13, <2>2 DEF LoseEnclave
    <3>. QED  BY <3>1 DEF Noticed, Forsaken, Answered, Pending, CallOf, Body, IsEcall
  <2>. QED  BY <2>1, <2>2
<1>14. ASSUME NEW f \in Samples, Start(f)
       PROVE  Noticed'
  <2>1. stack' = <<Frame(f, <<>>)>> /\ failed' = {} /\ ~IsEcall(f)
    BY <1>14, BridgeAssumption DEF Start, IsEcall
  <2>2. ~IsEcall(stack'[1].fn)
    BY <2>1 DEF Frame
  <2>. QED  BY <2>1, <2>2 DEF Noticed, Answered
<1>15. CASE UNCHANGED vars
  BY <1>15 DEF vars, Noticed, Forsaken, Answered, Pending, CallOf, Body, IsEcall
<1>. QED
  BY <1>3, <1>4, <1>5, <1>6, <1>7, <1>8, <1>9, <1>10, <1>11, <1>12, <1>13, <1>14, <1>15
  DEF Next, Step, Finished
------------------------------------------------------------------------------
\* The blocks of a frame: its stub's and those of the operations it is past.
Held(f) == Buffers(f.fn) + Blocks(f.fn, f.pc - 1)

\* h is the sum of the blocks of all frames; there are none without an ECALL.
\* t[j] is the sum over the lowest j frames.
Accounts(s, h) ==
    \E t \in [0..Len(s) -> Nat] :
        /\ t[0] = 0 /\ h = t[Len(s)]
        /\ \A j \in 1..Len(s) : t[j] = t[j - 1] + Held(Bottom(s, j))
        /\ \A j \in 0..Len(s) : t[j] > 0 => \E k \in 1..j : IsEcall(Bottom(s, k).fn)

\* Once the enclave is gone its heap is, and no ECALL runs any more.
HeapInv ==
    /\ heap \in Nat
    /\ aborted => stack = <<>>
    /\ ~aborted /\ enclave = "alive" => Accounts(stack, heap)
    /\ enclave # "alive" => heap = 0 /\ (stack # <<>> => ~IsEcall(stack[1].fn))

\* One operation more.
LEMMA NextBlock ==
    ASSUME NEW f \in Function, NEW n \in DOMAIN Code[f].body
    PROVE  Blocks(f, n) = Blocks(f, n - 1) +
               (CASE Code[f].body[n].op = "malloc" -> 1
                  [] Code[f].body[n].op = "free" -> -1
                  [] OTHER -> 0)
<1>. DEFINE Ops(kind, m) == {k \in 1..m : Code[f].body[k].op = kind}
<1>1. n \in Nat /\ n > 0
  BY BridgeAssumption, LenProperties
<1>2. ASSUME NEW kind
      PROVE  /\ Cardinality(Ops(kind, n - 1)) \in Nat
             /\ Cardinality(Ops(kind, n)) = Cardinality(Ops(kind, n - 1)) +
                    (IF Code[f].body[n].op = kind THEN 1 ELSE 0)
  <2>1. IsFiniteSet(1..(n - 1))
    BY <1>1, FS_Interval
  <2>2. Ops(kind, n - 1) \subseteq 1..(n - 1)
    OBVIOUS
  <2>3. IsFiniteSet(Ops(kind, n - 1)) /\ Cardinality(Ops(kind, n - 1)) \in Nat
    BY <2>1, <2>2, FS_Subset, FS_CardinalityType
  <2>4. CASE Code[f].body[n].op = kind
    <3>1. Ops(kind, n) = Ops(kind, n - 1) \cup {n} /\ n \notin Ops(kind, n - 1)
      BY <1>1, <2>4
    <3>. HIDE DEF Ops
    <3>. QED  BY <2>3, <2>4, <3>1, FS_AddElement
  <2>5. CASE Code[f].body[n].op # kind
    <3>1. Ops(kind, n) = Ops(kind, n - 1)
      BY <1>1, <2>5
    <3>. HIDE DEF Ops
    <3>. QED  BY <2>3, <2>5, <3>1
  <2>. HIDE DEF Ops
  <2>. QED  BY <2>4, <2>5
<1>3. \A m : Blocks(f, m) = Cardinality(Ops("malloc", m)) - Cardinality(Ops("free", m))
  BY DEF Blocks
<1>. HIDE DEF Ops
<1>4. /\ Cardinality(Ops("malloc", n - 1)) \in Nat /\ Cardinality(Ops("free", n - 1)) \in Nat
      /\ Cardinality(Ops("malloc", n)) = Cardinality(Ops("malloc", n - 1)) +
             (IF Code[f].body[n].op = "malloc" THEN 1 ELSE 0)
      /\ Cardinality(Ops("free", n)) = Cardinality(Ops("free", n - 1)) +
             (IF Code[f].body[n].op = "free" THEN 1 ELSE 0)
  BY <1>2
<1>. QED  BY <1>3, <1>4

\* Before its first operation and after its last one a body has no blocks, and
\* an OCALL never has.
LEMMA BlocksType ==
    ASSUME NEW f \in Function
    PROVE  /\ \A n \in 0..Len(Body(f)) : Blocks(f, n) \in Nat
           /\ Blocks(f, 0) = 0 /\ Blocks(f, Len(Body(f))) = 0
           /\ ~IsEcall(f) => \A n \in 0..Len(Body(f)) : Blocks(f, n) = 0
           /\ Buffers(f) \in {0, 1} /\ (~IsEcall(f) => Buffers(f) = 0)
<1>0. Len(Body(f)) \in Nat /\ Body(f) = Code[f].body /\ DOMAIN Body(f) = 1..Len(Body(f))
  BY BridgeAssumption, LenProperties DEF Body
<1>. DEFINE Ops(kind, m) == {k \in 1..m : Code[f].body[k].op = kind}
<1>1. ASSUME NEW n \in Nat
      PROVE  Blocks(f, n) \in Int
  <2>1. \A kind : IsFiniteSet(Ops(kind, n))
    <3>1. IsFiniteSet(1..n)
      BY FS_Interval
    <3>. QED  BY <3>1, FS_Subset
  <2>2. \A kind : Cardinality(Ops(kind, n)) \in Nat
    BY <2>1, FS_CardinalityType
  <2>3. Blocks(f, n) = Cardinality(Ops("malloc", n)) - Cardinality(Ops("free", n))
    BY DEF Blocks
  <2>. HIDE DEF Ops
  <2>. QED  BY <2>2, <2>3
<1>2. Blocks(f, 0) = 0
  <2>1. \A kind : Ops(kind, 0) = {}
    OBVIOUS
  <2>2. Blocks(f, 0) = Cardinality(Ops("malloc", 0)) - Cardinality(Ops("free", 0))
    BY DEF Blocks
  <2>. HIDE DEF Ops
  <2>. QED  BY <2>1, <2>2, FS_EmptySet
<1>3. ASSUME ~IsEcall(f), NEW n \in 0..Len(Body(f))
      PROVE  Blocks(f, n) = 0
  <2>1. Code[f].side = "app"
    BY <1>3, BridgeAssumption DEF IsEcall
  <2>2. \A k \in 1..n : k \in DOMAIN Code[f].body
    BY <1>0
  <2>3. Ops("malloc", n) = {} /\ Ops("free", n) = {}
    BY <2>1, <2>2, BlocksAssumption
  <2>4. Blocks(f, n) = Cardinality(Ops("malloc", n)) - Cardinality(Ops("free", n))
    BY DEF Blocks
  <2>. HIDE DEF Ops
  <2>5. Cardinality(Ops("malloc", n)) = 0 /\ Cardinality(Ops("free", n)) = 0
    BY <2>3, FS_EmptySet
  <2>. QED  BY <2>4, <2>5
<1>4. Buffers(f) \in {0, 1} /\ (~IsEcall(f) => Buffers(f) = 0)
  BY DEF Buffers
<1>. QED  BY <1>0, <1>1, <1>2, <1>3, <1>4, BlocksAssumption

LEMMA HeldType ==
    ASSUME NEW f, f.fn \in Function, f.pc \in 1..Len(Body(f.fn)) + 1
    PROVE  Held(f) \in Nat /\ (Held(f) > 0 => IsEcall(f.fn))
<1>1. Len(Body(f.fn)) \in Nat
  BY BridgeAssumption, LenProperties DEF Body
<1>2. f.pc - 1 \in 0..Len(Body(f.fn))
  BY <1>1
<1>3. /\ Blocks(f.fn, f.pc - 1) \in Nat /\ Buffers(f.fn) \in {0, 1}
      /\ ~IsEcall(f.fn) => Blocks(f.fn, f.pc - 1) = 0 /\ Buffers(f.fn) = 0
  BY <1>2, BlocksType
<1>. QED  BY <1>3 DEF Held

\* Only the top frame's part of the sum changes.
LEMMA Recount ==
    ASSUME NEW s, NEW u, NEW n \in Nat, NEW h, Accounts(s, h), SameBelow(s, u, n),
           Len(s) \in {n, n + 1}, Len(u) \in {n, n + 1},
           Len(u) = n + 1 => Held(u[1]) \in Nat /\ (Held(u[1]) > 0 => IsEcall(u[1].fn)),
           Len(s) = n + 1 => Held(s[1]) \in Nat
    PROVE  Accounts(u, h - (IF Len(s) = n THEN 0 ELSE Held(s[1]))
                         + (IF Len(u) = n THEN 0 ELSE Held(u[1])))
<1>1. PICK t \in [0..Len(s) -> Nat] :
        /\ t[0] = 0 /\ h = t[Len(s)]
        /\ \A j \in 1..Len(s) : t[j] = t[j - 1] + Held(Bottom(s, j))
        /\ \A j \in 0..Len(s) : t[j] > 0 => \E k \in 1..j : IsEcall(Bottom(s, k).fn)
  BY DEF Accounts
<1>2. \A j \in 1..n : Held(Bottom(u, j)) = Held(Bottom(s, j)) /\ Bottom(u, j).fn = Bottom(s, j).fn
  BY DEF SameBelow, Held
<1>3. t[n] = h - (IF Len(s) = n THEN 0 ELSE Held(s[1])) /\ t[n] \in Nat
  <2>1. CASE Len(s) = n
    BY <1>1, <2>1
  <2>2. CASE Len(s) = n + 1
    <3>1. Bottom(s, n + 1) = s[1] /\ n + 1 \in 1..Len(s) /\ n \in 0..Len(s) /\ (n + 1) - 1 = n
      BY <2>2 DEF Bottom
    <3>2. h = t[n] + Held(s[1]) /\ t[n] \in Nat
      BY <1>1, <2>2, <3>1
    <3>. QED  BY <2>2, <3>2
  <2>. QED  BY <2>1, <2>2
<1>4. CASE Len(u) = n
  <2>. DEFINE v == [j \in 0..n |-> t[j]]
  <2>1. 0..n \subseteq 0..Len(s) /\ 1..n \subseteq 1..Len(s)
    OBVIOUS
  <2>2. v \in [0..Len(u) -> Nat] /\ v[0] = 0 /\ v[Len(u)] = t[n]
    <3>1. \A j \in 0..n : t[j] \in Nat
      BY <1>1, <2>1
    <3>. QED  BY <1>1, <1>4, <3>1
  <2>3. \A j \in 1..Len(u) : v[j] = v[j - 1] + Held(Bottom(u, j))
    BY <1>1, <1>2, <1>4, <2>1
  <2>4. \A j \in 0..Len(u) : v[j] > 0 => \E k \in 1..j : IsEcall(Bottom(u, k).fn)
    BY <1>1, <1>2, <1>4, <2>1
  <2>5. Accounts(u, t[n])
    BY <2>2, <2>3, <2>4 DEF Accounts
  <2>. QED  BY <1>3, <1>4, <2>5
<1>5. CASE Len(u) = n + 1
  <2>. DEFINE g == Held(u[1])
              v == [j \in 0..n + 1 |-> IF j <= n THEN t[j] ELSE t[n] + g]
  <2>0. g \in Nat /\ (g > 0 => IsEcall(u[1].fn)) /\ Bottom(u, n + 1) = u[1]
    BY <1>5 DEF Bottom
  <2>1. 0..n \subseteq 0..Len(s) /\ 1..n \subseteq 1..Len(s)
    OBVIOUS
  <2>. HIDE DEF g
  <2>2. v \in [0..Len(u) -> Nat] /\ v[0] = 0 /\ v[Len(u)] = t[n] + g
    <3>1. \A j \in 0..n : t[j] \in Nat
      BY <1>1, <2>1
    <3>2. t[n] + g \in Nat
      BY <1>3, <2>0
    <3>3. v \in [0..n + 1 -> Nat]
      BY <3>1, <3>2
    <3>. QED  BY <1>1, <1>5, <3>3
  <2>3. ASSUME NEW j \in 1..Len(u)
        PROVE  v[j] = v[j - 1] + Held(Bottom(u, j))
    <3>1. CASE j = n + 1
      <4>1. v[j] = t[n] + g /\ v[j - 1] = t[n]
        BY <3>1
      <4>. QED  BY <2>0, <3>1, <4>1 DEF g
    <3>2. CASE j # n + 1
      <4>1. j \in 1..n /\ j - 1 \in 0..n
        BY <1>5, <3>2
      <4>. QED  BY <1>1, <1>2, <2>1, <4>1
    <3>. QED  BY <3>1, <3>2
  <2>4. ASSUME NEW j \in 0..Len(u), v[j] > 0
        PROVE  \E k \in 1..j : IsEcall(Bottom(u, k).fn)
    <3>1. CASE j = n + 1
      <4>1. t[n] > 0 \/ g > 0
        BY <1>3, <2>0, <2>4, <3>1
      <4>2. CASE g > 0
        BY <2>0, <3>1, <4>2
      <4>3. CASE t[n] > 0
        <5>1. PICK k \in 1..n : IsEcall(Bottom(s, k).fn)
          BY <1>1, <2>1, <4>3
        <5>. QED  BY <1>2, <3>1, <5>1
      <4>. QED  BY <4>1, <4>2, <4>3
    <3>2. CASE j # n + 1
      <4>1. j \in 0..n /\ t[j] > 0
        BY <1>5, <2>4, <3>2
      <4>2. PICK k \in 1..j : IsEcall(Bottom(s, k).fn)
        BY <1>1, <2>1, <4>1
      <4>. QED  BY <1>2, <4>1, <4>2
    <3>. QED  BY <3>1, <3>2
  <2>5. Accounts(u, t[n] + g)
    BY <2>2, <2>3, <2>4 DEF Accounts
  <2>6. Len(u) # n
    BY <1>5
  <2>. QED  BY <1>3, <2>5, <2>6 DEF g
<1>. QED  BY <1>4, <1>5

LEMMA TopHeld ==
    ASSUME NEW s, StackInv(s), s # <<>>
    PROVE  /\ Held(s[1]) \in Nat /\ (Held(s[1]) > 0 => IsEcall(s[1].fn))
           /\ s[1].fn \in Function /\ s[1].pc \in Nat
<1>1. s[1] \in Frames /\ s[1].pc \in 1..Len(Body(s[1].fn)) + 1
  BY Basics DEF StackInv, TopOK
<1>. QED  BY <1>1, HeldType DEF Frames

LEMMA StaysAccounts ==
    ASSUME IInv, StackInv(stack'), NEW n, NEW status, Stays(n, status), Accounts(stack, heap), heap \in Nat
    PROVE  /\ Accounts(stack', heap - Held(stack[1]) + Held(stack'[1]))
           /\ Held(stack[1]) \in Nat /\ Held(stack'[1]) \in Nat
           /\ Held(stack[1]) = Buffers(Top.fn) + Blocks(Top.fn, Top.pc - 1)
           /\ Held(stack'[1]) = Buffers(Top.fn) + Blocks(Top.fn, n - 1)
<1>. DEFINE s == stack
            u == stack'
            m == Len(stack) - 1
<1>1. s # <<>> /\ Len(s) \in Nat /\ Len(s) > 0 /\ Len(u) = Len(s) /\ Top = stack[1]
  BY TopFrame DEF Stays
<1>2. u # <<>>
  BY <1>1, EmptySeq
<1>3. /\ Held(s[1]) \in Nat /\ Held(u[1]) \in Nat
      /\ Held(u[1]) > 0 => IsEcall(u[1].fn)
  BY <1>1, <1>2, TopHeld DEF IInv
<1>4. m \in Nat /\ Len(s) = m + 1 /\ Len(u) = m + 1 /\ SameBelow(s, u, m)
  BY <1>1 DEF Stays
<1>. HIDE DEF s, u, m
<1>5. Len(s) # m /\ Len(u) # m
  BY <1>4
<1>6. Accounts(u, heap - (IF Len(s) = m THEN 0 ELSE Held(s[1]))
                       + (IF Len(u) = m THEN 0 ELSE Held(u[1])))
  <2>1. Accounts(s, heap)
    BY DEF s
  <2>. QED  BY <1>3, <1>4, <2>1, Recount
<1>7. Accounts(u, heap - Held(s[1]) + Held(u[1]))
  BY <1>5, <1>6
<1>. QED  BY <1>1, <1>3, <1>7 DEF s, u, Held, Stays

\* The top frame goes on to its next operation.
LEMMA AdvanceAccounts ==
    ASSUME IInv, StackInv(stack'), Stays(Top.pc + 1, "none"), Top.pc \in DOMAIN Body(Top.fn),
           Accounts(stack, heap), heap \in Nat
    PROVE  /\ Op.op = "malloc" => Accounts(stack', heap + 1)
           /\ Op.op = "free" => Accounts(stack', heap - 1)
           /\ Op.op \notin {"malloc", "free"} => Accounts(stack', heap)
<1>1. /\ Accounts(stack', heap - Held(stack[1]) + Held(stack'[1]))
      /\ Held(stack[1]) \in Nat /\ Held(stack'[1]) \in Nat
      /\ Held(stack[1]) = Buffers(Top.fn) + Blocks(Top.fn, Top.pc - 1)
      /\ Held(stack'[1]) = Buffers(Top.fn) + Blocks(Top.fn, (Top.pc + 1) - 1)
  BY StaysAccounts
<1>2. Top.fn \in Function /\ Top.pc \in Nat /\ Op = Code[Top.fn].body[Top.pc]
      /\ Top.pc \in DOMAIN Code[Top.fn].body /\ Top.pc \in 1..Len(Body(Top.fn)) /\ Len(Body(Top.fn)) \in Nat
  BY TopFrame, LenProperties DEF Frames, Op, Body, Stays
<1>3. Blocks(Top.fn, Top.pc) = Blocks(Top.fn, Top.pc - 1) +
          (CASE Op.op = "malloc" -> 1 [] Op.op = "free" -> -1 [] OTHER -> 0)
  BY <1>2, NextBlock
<1>4. Blocks(Top.fn, Top.pc - 1) \in Nat /\ Blocks(Top.fn, Top.pc) \in Nat /\ Buffers(Top.fn) \in {0, 1}
  BY <1>2, BlocksType
<1>5. (Top.pc + 1) - 1 = Top.pc
  BY <1>2
<1>. DEFINE a == Held(stack[1])
            b == Held(stack'[1])
            d == CASE Op.op = "malloc" -> 1 [] Op.op = "free" -> -1 [] OTHER -> 0
<1>6. b = a + d /\ d \in {1, -1, 0}
  BY <1>1, <1>3, <1>4, <1>5
<1>7. a \in Nat /\ b \in Nat /\ Accounts(stack', heap - a + b)
  BY <1>1
<1>. HIDE DEF a, b, d
<1>8. heap - a + b = heap + d
  BY <1>6, <1>7
<1>9. Accounts(stack', heap + d)
  BY <1>7, <1>8
<1>10. /\ Op.op = "malloc" => d = 1
       /\ Op.op = "free" => d = -1
       /\ Op.op \notin {"malloc", "free"} => d = 0
  BY DEF d
<1>. QED  BY <1>9, <1>10

\* The frame that is left gave its blocks back.
LEMMA EndHolds ==
    ASSUME IInv, AtEnd
    PROVE  stack # <<>> /\ Held(stack[1]) = Buffers(Top.fn) /\ Buffers(Top.fn) \in {0, 1}
<1>1. stack # <<>> /\ Top = stack[1] /\ Top.fn \in Function /\ Top.pc \notin DOMAIN Body(Top.fn)
      /\ Top.pc \in 1..Len(Body(Top.fn)) + 1
  BY TopFrame DEF AtEnd, TopOK
<1>2. Len(Body(Top.fn)) \in Nat /\ DOMAIN Body(Top.fn) = 1..Len(Body(Top.fn))
  BY <1>1, TopFrame, LenProperties
<1>3. Top.pc - 1 = Len(Body(Top.fn))
  BY <1>1, <1>2
<1>4. Blocks(Top.fn, Top.pc - 1) = 0 /\ Buffers(Top.fn) \in {0, 1}
  BY <1>1, <1>3, BlocksType
<1>. QED  BY <1>1, <1>4 DEF Held

LEMMA GoneAccounts ==
    ASSUME IInv, NEW status, Goes(status), AtEnd, Accounts(stack, heap), heap \in Nat
    PROVE  Accounts(stack', heap - Buffers(Top.fn))
<1>. DEFINE s == stack
            u == stack'
            m == Len(stack) - 1
<1>1. Len(s) \in Nat /\ m \in Nat /\ Len(s) = m + 1 /\ Len(u) = m /\ SameBelow(s, u, m)
  BY EndHolds, TopFrame DEF Goes
<1>2. Held(s[1]) = Buffers(Top.fn) /\ Buffers(Top.fn) \in {0, 1}
  BY EndHolds
<1>. HIDE DEF s, u, m
<1>3. Len(s) # m /\ Len(u) # m + 1
  BY <1>1
<1>4. Accounts(s, heap)
  BY DEF s
<1>5. Accounts(u, heap - (IF Len(s) = m THEN 0 ELSE Held(s[1]))
                       + (IF Len(u) = m THEN 0 ELSE Held(u[1])))
  BY <1>1, <1>2, <1>3, <1>4, Recount
<1>6. heap - Held(s[1]) + 0 = heap - Buffers(Top.fn)
  BY <1>2
<1>. QED  BY <1>1, <1>3, <1>5, <1>6 DEF u

LEMMA AddedAccounts ==
    ASSUME IInv, StackInv(stack'), CallEnters, Accounts(stack, heap), heap \in Nat
    PROVE  Accounts(stack', heap + Buffers(Op.fn))
<1>. DEFINE s == stack
            u == stack'
            m == Len(stack)
<1>1. /\ m \in Nat /\ Len(s) = m /\ Len(u) = m + 1 /\ SameBelow(s, u, m)
      /\ u[1].fn = Op.fn /\ u[1].pc = 1 /\ Op.fn \in Function
  BY CallEntersAdds, TopFrame
<1>2. u # <<>>
  BY <1>1, EmptySeq
<1>3. Held(u[1]) \in Nat /\ (Held(u[1]) > 0 => IsEcall(u[1].fn))
  BY <1>2, TopHeld
<1>4. Held(u[1]) = Buffers(Op.fn) /\ Buffers(Op.fn) \in {0, 1}
  <2>1. Blocks(Op.fn, 0) = 0 /\ Buffers(Op.fn) \in {0, 1}
    BY <1>1, BlocksType
  <2>2. Held(u[1]) = Buffers(Op.fn) + Blocks(Op.fn, 0)
    BY <1>1 DEF Held
  <2>. QED  BY <2>1, <2>2
<1>. HIDE DEF s, u, m
<1>5. Len(u) # m /\ Len(s) # m + 1
  BY <1>1
<1>6. Accounts(s, heap)
  BY DEF s
<1>7. Accounts(u, heap - (IF Len(s) = m THEN 0 ELSE Held(s[1]))
                       + (IF Len(u) = m THEN 0 ELSE Held(u[1])))
  BY <1>1, <1>3, <1>5, <1>6, Recount
<1>8. heap - 0 + Held(u[1]) = heap + Buffers(Op.fn)
  BY <1>4
<1>. QED  BY <1>1, <1>5, <1>7, <1>8 DEF u

LEMMA EmptyAccounts == Accounts(<<>>, 0)
<1>. SUFFICES ASSUME NEW s, Len(s) = 0 PROVE Accounts(s, 0)
  BY EmptySeq
<1>. DEFINE t == [j \in 0..0 |-> 0]
<1>1. t \in [0..0 -> Nat] /\ t[0] = 0 /\ (\A j \in 0..0 : t[j] = 0) /\ 1..0 = {}
  OBVIOUS
<1>. HIDE DEF t
<1>. QED  BY <1>1 DEF Accounts

\* The top frame is the only one and ends.
LEMMA LastAccounts ==
    ASSUME IInv, AtEnd, Len(stack) = 1, Accounts(stack, heap)
    PROVE  heap = 0
<1>1. stack[1] = Top /\ ~IsEcall(Top.fn)
  <2>1. stack # <<>>
    BY DEF AtEnd
  <2>. QED  BY <2>1, TopFrame, EcallAbove
<1>2. Held(stack[1]) = 0
  BY <1>1, EndHolds DEF Buffers
<1>3. PICK t \in [0..1 -> Nat] :
        /\ t[0] = 0 /\ heap = t[1]
        /\ \A j \in 1..1 : t[j] = t[j - 1] + Held(Bottom(stack, j))
  BY DEF Accounts
<1>4. t[1] = t[0] + Held(Bottom(stack, 1)) /\ Bottom(stack, 1) = stack[1]
  <2>1. t[1] = t[1 - 1] + Held(Bottom(stack, 1))
    BY <1>3
  <2>. QED  BY <2>1 DEF Bottom
<1>. QED  BY <1>2, <1>3, <1>4

LEMMA AccountsType ==
    ASSUME NEW s \in Seq(Frames), NEW h, Accounts(s, h)
    PROVE  h \in Nat /\ (h > 0 => \E k \in DOMAIN s : IsEcall(s[k].fn))
<1>1. Len(s) \in Nat /\ DOMAIN s = 1..Len(s)
  BY Basics
<1>2. PICK t \in [0..Len(s) -> Nat] :
        /\ h = t[Len(s)]
        /\ \A j \in 0..Len(s) : t[j] > 0 => \E k \in 1..j : IsEcall(Bottom(s, k).fn)
  BY DEF Accounts
<1>3. ASSUME h > 0
      PROVE  \E k \in DOMAIN s : IsEcall(s[k].fn)
  <2>1. PICK k \in 1..Len(s) : IsEcall(Bottom(s, k).fn)
    BY <1>1, <1>2, <1>3
  <2>2. Len(s) + 1 - k \in DOMAIN s
    BY <1>1
  <2>. QED  BY <2>1, <2>2 DEF Bottom
<1>. QED  BY <1>1, <1>2, <1>3

LEMMA HeapInit == Init => HeapInv
<1>. SUFFICES ASSUME Init PROVE HeapInv
  OBVIOUS
<1>1. stack = <<>> /\ enclave = "alive" /\ heap = 0 /\ ~aborted
  BY DEF Init
<1>. QED  BY <1>1, EmptyAccounts DEF HeapInv

\* The enclave is gone after the step, its heap with it.
LEMMA GoneHeap ==
    ASSUME enclave' # "alive", heap' = 0, aborted' => stack' = <<>>,
           stack' # <<>> => ~IsEcall(stack'[1].fn)
    PROVE  HeapInv'
  BY DEF HeapInv

\* The enclave is as alive as before, the process goes on.
LEMMA SameHeap ==
    ASSUME HeapInv, IInv', UNCHANGED <<enclave, aborted>>, ~aborted,
           enclave = "alive" => Accounts(stack', heap'),
           enclave # "alive" => heap' = 0 /\ (stack' # <<>> => ~IsEcall(stack'[1].fn))
    PROVE  HeapInv'
<1>1. CASE enclave = "alive"
  <2>1. stack' \in Seq(Frames)
    BY DEF IInv, StackInv
  <2>2. Accounts(stack', heap')
    BY <1>1
  <2>3. heap' \in Nat
    BY <2>1, <2>2, AccountsType
  <2>. QED  BY <1>1, <2>2, <2>3 DEF HeapInv
<1>2. CASE enclave # "alive"
  BY <1>2 DEF HeapInv
<1>. QED  BY <1>1, <1>2

LEMMA HeapStep ==
    ASSUME IInv, HeapInv, [Next]_vars
    PROVE  HeapInv'
<1>0. IInv' /\ StackInv(stack')
  BY StepInv DEF IInv
<1>1. stack # <<>> => Top = stack[1] /\ stack \in Seq(Frames) /\ ~aborted
  BY TopFrame DEF HeapInv
<1>2. ASSUME NEW kind, At(kind)
      PROVE  stack # <<>> /\ Top.pc \in DOMAIN Body(Top.fn) /\ Op.op = kind
  BY <1>2 DEF At
\* A step over an operation that leaves the heap alone.
<1>3. ASSUME Stays(Top.pc + 1, "none"), UNCHANGED <<enclave, heap, aborted>>,
             NEW kind \in {"test", "write", "call"}, At(kind)
      PROVE  HeapInv'
  <2>1. stack # <<>> /\ Top.pc \in DOMAIN Body(Top.fn) /\ Op.op \notin {"malloc", "free"}
    BY <1>2, <1>3
  <2>2. enclave = "alive" => Accounts(stack', heap)
    BY <1>0, <1>1, <1>3, <2>1, AdvanceAccounts DEF HeapInv
  <2>3. enclave # "alive" => ~IsEcall(stack'[1].fn)
    BY <1>1, <1>3, <2>1 DEF HeapInv, Stays
  <2>. QED  BY <1>0, <1>1, <1>3, <2>1, <2>2, <2>3, SameHeap DEF HeapInv
<1>4. CASE Test
  BY <1>3, <1>4, AdvanceStays DEF Test
<1>5. CASE Write
  BY <1>3, <1>5, WriteStays DEF Write
<1>6. CASE Accept
  BY <1>3, <1>6, AcceptStays DEF Accept, Called
<1>7. CASE Free
  <2>1. stack # <<>> /\ IsEcall(Top.fn) /\ Op.op = "free" /\ Top.pc \in DOMAIN Body(Top.fn)
    BY <1>2, <1>7, HeapInside DEF Free
  <2>2. enclave = "alive"
    BY <1>1, <2>1 DEF HeapInv
  <2>3. Stays(Top.pc + 1, "none")
    BY <1>7, AdvanceStays DEF Free
  <2>4. Accounts(stack', heap - 1)
    BY <1>0, <1>1, <2>1, <2>2, <2>3, AdvanceAccounts DEF HeapInv
  <2>. QED  BY <1>0, <1>1, <1>7, <2>1, <2>2, <2>4, SameHeap DEF Free
<1>8. CASE Malloc
  <2>1. stack # <<>> /\ IsEcall(Top.fn) /\ Op.op = "malloc" /\ Top.pc \in DOMAIN Body(Top.fn)
    BY <1>2, <1>8, HeapInside DEF Malloc
  <2>2. enclave = "alive" /\ ~aborted
    BY <1>1, <2>1 DEF HeapInv
  <2>3. CASE stack' = Advance /\ heap' = heap + 1 /\ UNCHANGED enclave
    <3>1. Stays(Top.pc + 1, "none")
      BY <1>8, <2>3, AdvanceStays DEF Malloc
    <3>2. Accounts(stack', heap + 1)
      BY <1>0, <2>1, <2>2, <3>1, AdvanceAccounts DEF HeapInv
    <3>. QED  BY <1>0, <1>8, <2>2, <2>3, <3>2, SameHeap DEF Malloc
  <2>4. CASE EnclaveDies("SGX_ERROR_ENCLAVE_CRASHED")
    <3>1. Goes("SGX_ERROR_ENCLAVE_CRASHED") /\ ~IsEcall(stack[2].fn)
      BY <2>1, <2>4, DiesGoes, EcallAbove DEF Errors
    <3>2. ~aborted' /\ ~IsEcall(stack'[1].fn)
      BY <1>8, <2>2, <3>1 DEF Malloc, Goes
    <3>. QED  BY <2>4, <3>2, GoneHeap DEF EnclaveDies
  <2>. QED  BY <1>8, <2>3, <2>4 DEF Malloc
<1>9. CASE CallFails
  <2>1. PICK status \in Refusals(Op.fn) : Stays(Top.pc, status)
    BY <1>9, CallFailsStays
  <2>2. stack # <<>> /\ UNCHANGED <<enclave, heap, aborted>>
    BY <1>9, <2>1 DEF CallFails, Stays
  <2>3. enclave = "alive" => Accounts(stack', heap)
    <3>. SUFFICES ASSUME enclave = "alive" PROVE Accounts(stack', heap)
      OBVIOUS
    <3>1. Accounts(stack, heap) /\ heap \in Nat
      BY <1>1, <2>2 DEF HeapInv
    <3>2. /\ Accounts(stack', heap - Held(stack[1]) + Held(stack'[1]))
          /\ Held(stack[1]) \in Nat /\ Held(stack'[1]) = Held(stack[1])
      BY <1>0, <2>1, <3>1, StaysAccounts
    <3>3. heap - Held(stack[1]) + Held(stack'[1]) = heap
      BY <3>1, <3>2
    <3>. QED  BY <3>2, <3>3
  <2>4. enclave # "alive" => heap = 0 /\ ~IsEcall(stack'[1].fn)
    BY <1>1, <2>1, <2>2 DEF HeapInv, Stays
  <2>. QED  BY <1>0, <1>1, <2>2, <2>3, <2>4, SameHeap
<1>10. CASE CallEnters
  <2>1. /\ stack # <<>> /\ stack'[1].fn = Op.fn /\ UNCHANGED <<enclave, aborted>>
        /\ heap' = heap + Buffers(Op.fn)
    BY <1>10, CallEntersAdds DEF CallEnters
  <2>2. enclave = "alive" => Accounts(stack', heap')
    BY <1>0, <1>1, <1>10, <2>1, AddedAccounts DEF HeapInv
  <2>3. enclave # "alive" => ~IsEcall(Op.fn) /\ Buffers(Op.fn) = 0 /\ heap' = 0
    BY <1>10, <2>1 DEF CallEnters, Buffers, HeapInv
  <2>. QED  BY <1>0, <1>1, <2>1, <2>2, <2>3, SameHeap
<1>11. CASE Return
  <2>1. /\ AtEnd /\ stack # <<>> /\ Goes("SGX_SUCCESS") /\ UNCHANGED <<enclave, aborted>>
        /\ heap' = heap - Buffers(Top.fn) /\ (IsEcall(Top.fn) \/ enclave = "alive")
    BY <1>11, ReturnGoes DEF Return, AtEnd
  <2>2. enclave = "alive"
    BY <1>1, <2>1 DEF HeapInv
  <2>3. Accounts(stack', heap')
    BY <1>1, <2>1, <2>2, GoneAccounts DEF HeapInv
  <2>. QED  BY <1>0, <1>1, <2>1, <2>2, <2>3, SameHeap
<1>12. CASE ReturnToLost
  <2>1. stack # <<>> /\ enclave # "alive" /\ UNCHANGED <<enclave, heap, aborted>>
    BY <1>12 DEF ReturnToLost, AtEnd
  <2>2. stack' # <<>> => ~IsEcall(stack'[1].fn)
    BY <1>12, ReturnToLostTop
  <2>. QED  BY <1>0, <1>1, <2>1, <2>2, SameHeap DEF HeapInv
<1>13. CASE GiveUp
  <2>1. stack # <<>>
    BY <1>13 DEF GiveUp, Called, At
  <2>2. CASE IsEcall(Top.fn)
    <3>1. EnclaveDies("SGX_ERROR_ENCLAVE_CRASHED") /\ aborted' = aborted
      BY <1>13, <2>2 DEF GiveUp
    <3>2. Goes("SGX_ERROR_ENCLAVE_CRASHED") /\ ~IsEcall(stack[2].fn)
      BY <2>1, <2>2, <3>1, DiesGoes, EcallAbove DEF Errors
    <3>3. ~aborted' /\ ~IsEcall(stack'[1].fn)
      BY <1>1, <2>1, <3>1, <3>2 DEF Goes
    <3>. QED  BY <3>1, <3>3, GoneHeap DEF EnclaveDies
  <2>3. CASE ~IsEcall(Top.fn)
    <3>1. stack' = <<>> /\ aborted' = TRUE /\ UNCHANGED <<enclave, heap>>
      BY <1>13, <2>3 DEF GiveUp
    <3>. QED  BY <3>1 DEF HeapInv
  <2>. QED  BY <2>2, <2>3
<1>14. CASE SampleEnds
  <2>1. /\ stack # <<>> /\ AtEnd /\ Len(stack) = 1 /\ stack' = <<>>
        /\ UNCHANGED <<enclave, heap, aborted>>
    BY <1>14 DEF SampleEnds, AtEnd
  <2>2. enclave = "alive" => heap = 0
    BY <1>1, <2>1, LastAccounts DEF HeapInv
  <2>3. enclave = "alive" => Accounts(stack', heap')
    BY <2>1, <2>2, EmptyAccounts
  <2>. QED  BY <1>0, <1>1, <2>1, <2>3, SameHeap DEF HeapInv
<1>15. CASE LoseEnclave
  <2>1. CASE stack # <<>> /\ IsEcall(Top.fn)
    <3>1. EnclaveDies("SGX_ERROR_ENCLAVE_LOST") /\ ~aborted'
      BY <1>15, <2>1 DEF LoseEnclave
    <3>2. Goes("SGX_ERROR_ENCLAVE_LOST") /\ ~IsEcall(stack[2].fn)
      BY <2>1, <3>1, DiesGoes, EcallAbove DEF Errors
    <3>3. ~IsEcall(stack'[1].fn) /\ enclave' # "alive" /\ heap' = 0
      BY <3>1, <3>2 DEF Goes, EnclaveDies
    <3>. QED  BY <3>1, <3>3, GoneHeap
  <2>2. CASE ~(stack # <<>> /\ IsEcall(Top.fn))
    <3>1. stack' = stack /\ enclave' # "alive" /\ heap' = 0 /\ ~aborted'
      BY <1>15, <2>2 DEF LoseEnclave
    <3>2. stack' # <<>> => ~IsEcall(stack'[1].fn)
      BY <1>1, <2>2, <3>1
    <3>. QED  BY <3>1, <3>2, GoneHeap
  <2>. QED  BY <2>1, <2>2
<1>16. ASSUME NEW f \in Samples, Start(f)
       PROVE  HeapInv'
  <2>1. /\ stack = <<>> /\ ~aborted /\ UNCHANGED <<enclave, heap, aborted>>
        /\ stack' = <<Frame(f, <<>>)>> /\ ~IsEcall(f) /\ f \in Function
    BY <1>16, BridgeAssumption DEF Start, IsEcall
  <2>2. /\ Len(stack') = 1 /\ stack'[1].fn = f /\ stack'[1].pc = 1
    BY <2>1 DEF Frame
  <2>3. Held(stack'[1]) = 0
    BY <2>1, <2>2, BlocksType DEF Held
  <2>4. enclave = "alive" => Accounts(stack', heap)
    <3>. SUFFICES ASSUME enclave = "alive" PROVE Accounts(stack', heap)
      OBVIOUS
    <3>. DEFINE s == stack
                u == stack'
                n == 0
    <3>1. Accounts(s, heap) /\ Len(s) = n /\ heap \in Nat
      BY <2>1, EmptySeq DEF HeapInv
    <3>2. n \in Nat /\ Len(u) = n + 1 /\ Len(u) # n /\ Len(s) # n + 1
          /\ Held(u[1]) \in Nat /\ ~(Held(u[1]) > 0) /\ Held(u[1]) = 0 /\ SameBelow(s, u, n)
      BY <2>2, <2>3, <3>1 DEF SameBelow
    <3>. HIDE DEF s, u, n
    <3>3. Accounts(u, heap - (IF Len(s) = n THEN 0 ELSE Held(s[1]))
                           + (IF Len(u) = n THEN 0 ELSE Held(u[1])))
      BY <3>1, <3>2, Recount
    <3>4. heap - 0 + 0 = heap
      BY <3>1
    <3>. QED  BY <3>1, <3>2, <3>3, <3>4 DEF u
  <2>. QED  BY <1>0, <2>1, <2>2, <2>4, SameHeap DEF HeapInv
<1>17. CASE UNCHANGED vars
  BY <1>17 DEF vars, HeapInv
<1>. QED
  BY <1>4, <1>5, <1>6, <1>7, <1>8, <1>9, <1>10, <1>11, <1>12, <1>13, <1>14, <1>15, <1>16, <1>17
  DEF Next, Step, Finished
------------------------------------------------------------------------------
\* The parameters of g, called by c, hold what g's body has left there so far;
\* those it shares are in c's variables.
Passed(g, c) ==
    \A i \in DOMAIN CallOf(c).args :
        Left(g.fn, CallOf(c).args, g.pc, i, IF Shared(g.fn, i) THEN c.args[i] ELSE g.par[i])

\* args is what a call may leave behind.
Answer(call, status, args) ==
    /\ DOMAIN args = DOMAIN call.args
    /\ \A i \in DOMAIN args : Given(call.fn, call.args, status, i, args[i])

\* A frame has the results of the call it has made last; before they are accepted
\* it is still at that call.
Results(f) ==
    IF f.status = "none"
    THEN \A j \in 1..f.pc-1 :
             LastCall(f.fn, f.pc, j) =>
                 \E status \in Body(f.fn)[j].ok : Answer(Body(f.fn)[j], status, f.args)
    ELSE Answer(CallOf(f), f.status, f.args)

\* All frames have their parameters; the sample at the bottom has none.
Supplied(s) ==
    /\ \A k \in 2..Len(s) : Passed(s[k - 1], s[k])
    /\ s # <<>> => Code[s[Len(s)].fn].params = <<>>

DataInv == Supplied(stack) /\ (stack # <<>> => Results(stack[1]))

\* What one operation does to what is left of a parameter.
LEMMA LeftFirst ==
    ASSUME NEW f, NEW args, NEW i
    PROVE  Left(f, args, 1, i, IF Attr(f, i) \in {"out", "return"} THEN "zero" ELSE args[i])
  BY DEF Left

LEMMA LeftNext ==
    ASSUME NEW f, NEW args, NEW n \in Nat \ {0}, NEW i, ~Writes(f, n, i),
           NEW v, Left(f, args, n, i, v)
    PROVE  Left(f, args, n + 1, i, v)
<1>1. \A k : k \in 1..n+1-1 /\ Writes(f, k, i) <=> k \in 1..n-1 /\ Writes(f, k, i)
  <2>1. \A k : k \in 1..n+1-1 <=> k = n \/ k \in 1..n-1
    OBVIOUS
  <2>. QED  BY <2>1
<1>2. {k \in 1..n+1-1 : Writes(f, k, i)} = {k \in 1..n-1 : Writes(f, k, i)}
  BY <1>1, Zenon
<1>. QED  BY <1>2 DEF Left

LEMMA LeftWritten ==
    ASSUME NEW f, NEW args, NEW n \in Nat \ {0}, NEW i, Writes(f, n, i)
    PROVE  Left(f, args, n + 1, i, Body(f)[n].is)
<1>. DEFINE writes == {k \in 1..n+1-1 : Writes(f, k, i)}
<1>1. n \in writes /\ \A k \in writes : k <= n
  OBVIOUS
<1>2. writes # {}
  BY <1>1
<1>. QED  BY <1>1, <1>2 DEF Left

\* A call has an argument for each parameter of the function it calls.
LEMMA ArgsFit ==
    ASSUME NEW f \in Frames, Pending(f)
    PROVE  /\ CallOf(f) \in Operations /\ CallOf(f).fn \in Function
           /\ CallOf(f).args \in Seq(Contents)
           /\ DOMAIN CallOf(f).args = DOMAIN Code[CallOf(f).fn].params
           /\ \A i \in DOMAIN CallOf(f).args : Attr(CallOf(f).fn, i) \in Attributes
<1>1. f.fn \in Function /\ Body(f.fn) \in Seq(Operations) /\ f.pc \in DOMAIN Body(f.fn)
  BY BridgeAssumption DEF Frames, Body, Pending
<1>2. CallOf(f) \in Operations /\ CallOf(f).op = "call"
  BY <1>1, LenProperties, ElementOfSeq DEF CallOf, Pending
<1>3. CallOf(f).fn \in Function /\ CallOf(f).args \in Seq(Contents)
  BY <1>2 DEF Operations
<1>4. Len(CallOf(f).args) = Len(Code[CallOf(f).fn].params)
  BY <1>1, <1>2, TestsAssumption DEF CallOf
<1>5. Code[CallOf(f).fn].params \in Seq(Attributes)
  BY <1>3, BridgeAssumption
<1>. QED  BY <1>2, <1>3, <1>4, <1>5, LenProperties, ElementOfSeq DEF Attr

\* The frames below may change where their callee's parameters are.
LEMMA SuppliedAgain ==
    ASSUME NEW s \in Seq(Frames), s # <<>>, Supplied(s),
           NEW t \in Seq(Frames), Len(t) = Len(s), t[1].fn = s[1].fn,
           Len(s) > 1 => /\ Passed(t[1], t[2]) /\ t[2].fn = s[2].fn /\ t[2].pc = s[2].pc
                         /\ t[2].par = s[2].par,
           \A k \in 3..Len(s) : t[k] = s[k]
    PROVE  Supplied(t)
<1>1. Len(s) \in Nat /\ Len(s) > 0
  BY Basics
<1>2. ASSUME NEW k \in 2..Len(s) PROVE Passed(t[k - 1], t[k])
  <2>1. Passed(s[k - 1], s[k])
    BY DEF Supplied
  <2>2. CASE k = 2
    BY <1>1, <2>2
  <2>3. CASE k = 3
    <3>1. t[3] = s[3] /\ k - 1 = 2
      BY <1>1, <2>3
    <3>2. t[2].fn = s[2].fn /\ t[2].pc = s[2].pc /\ t[2].par = s[2].par
      BY <1>1, <2>3
    <3>. QED  BY <2>1, <2>3, <3>1, <3>2 DEF Passed
  <2>4. CASE k > 3
    <3>1. t[k] = s[k] /\ t[k - 1] = s[k - 1]
      BY <1>1, <2>4
    <3>. QED  BY <2>1, <3>1
  <2>. QED  BY <2>2, <2>3, <2>4
<1>3. t[Len(s)].fn = s[Len(s)].fn
  <2>1. Len(s) = 1 \/ Len(s) = 2 \/ Len(s) \in 3..Len(s)
    BY <1>1
  <2>. QED  BY <1>1, <2>1
<1>. QED  BY <1>2, <1>3 DEF Supplied

LEMMA SuppliedTop ==
    ASSUME NEW s \in Seq(Frames), s # <<>>, Supplied(s),
           NEW r \in Frames, r.fn = s[1].fn, Len(s) > 1 => Passed(r, s[2])
    PROVE  Supplied([s EXCEPT ![1] = r])
<1>. DEFINE t == [s EXCEPT ![1] = r]
<1>1. /\ t \in Seq(Frames) /\ Len(t) = Len(s) /\ t[1] = r
      /\ \A k \in 2..Len(s) : t[k] = s[k]
  BY SetTop
<1>2. Len(s) \in Nat
  BY Basics
<1>. HIDE DEF t
<1>3. Len(s) > 1 => t[2] = s[2]
  BY <1>1, <1>2
<1>4. \A k \in 3..Len(s) : t[k] = s[k]
  BY <1>1, <1>2
<1>5. Supplied(t)
  BY <1>1, <1>3, <1>4, SuppliedAgain
<1>. QED  BY <1>5 DEF t

LEMMA SuppliedPop ==
    ASSUME NEW s \in Seq(Frames), s # <<>>, Supplied(s)
    PROVE  Supplied(Tail(s))
<1>. DEFINE t == Tail(s)
<1>1. Len(s) \in Nat /\ Len(s) > 0
  BY Basics
<1>2. /\ t \in Seq(Frames) /\ Len(t) = Len(s) - 1
      /\ \A k \in 1..Len(s)-1 : t[k] = s[k + 1]
  BY Pop
<1>. HIDE DEF t
<1>3. ASSUME NEW k \in 2..Len(t) PROVE Passed(t[k - 1], t[k])
  <2>1. t[k] = s[k + 1] /\ t[k - 1] = s[(k + 1) - 1] /\ k + 1 \in 2..Len(s)
    BY <1>1, <1>2
  <2>. QED  BY <2>1 DEF Supplied
<1>4. ASSUME t # <<>> PROVE Code[t[Len(t)].fn].params = <<>>
  <2>1. Len(t) > 0
    BY <1>2, <1>4, Basics
  <2>2. t[Len(t)] = s[Len(s)]
    BY <1>1, <1>2, <2>1
  <2>. QED  BY <2>2 DEF Supplied
<1>5. Supplied(t)
  BY <1>3, <1>4 DEF Supplied
<1>. QED  BY <1>5 DEF t

LEMMA SuppliedPush ==
    ASSUME NEW s \in Seq(Frames), s # <<>>, Supplied(s), NEW r \in Frames, Passed(r, s[1])
    PROVE  Supplied(<<r>> \o s)
<1>. DEFINE t == <<r>> \o s
<1>1. Len(s) \in Nat /\ Len(s) > 0
  BY Basics
<1>2. /\ t \in Seq(Frames) /\ t # <<>> /\ Len(t) = Len(s) + 1 /\ t[1] = r
      /\ \A k \in 2..Len(s)+1 : t[k] = s[k - 1]
  BY Push
<1>. HIDE DEF t
<1>3. ASSUME NEW k \in 2..Len(t) PROVE Passed(t[k - 1], t[k])
  <2>1. CASE k = 2
    BY <1>1, <1>2, <2>1
  <2>2. CASE k # 2
    <3>1. t[k] = s[k - 1] /\ t[k - 1] = s[(k - 1) - 1] /\ k - 1 \in 2..Len(s)
      BY <1>1, <1>2, <2>2
    <3>. QED  BY <3>1 DEF Supplied
  <2>. QED  BY <2>1, <2>2
<1>4. t[Len(t)] = s[Len(s)]
  BY <1>1, <1>2
<1>5. Supplied(t)
  BY <1>3, <1>4 DEF Supplied
<1>. QED  BY <1>5 DEF t
------------------------------------------------------------------------------
\* The results of the last call stay until the next one.
LEMMA ResultsStay ==
    ASSUME NEW r \in Frames, r.pc \in DOMAIN Body(r.fn), CallOf(r).op # "call",
           r.status = "none", Results(r),
           NEW q \in Frames, q.fn = r.fn, q.args = r.args, q.pc = r.pc + 1, q.status = "none"
    PROVE  Results(q)
<1>1. r.pc \in Nat
  BY DEF Frames
<1>. SUFFICES ASSUME NEW j \in 1..q.pc-1, LastCall(r.fn, r.pc + 1, j)
              PROVE  \E status \in Body(r.fn)[j].ok : Answer(Body(r.fn)[j], status, r.args)
  BY DEF Results
<1>2. j # r.pc
  BY DEF LastCall, CallOf
<1>3. j \in 1..r.pc-1
  BY <1>1, <1>2
<1>4. LastCall(r.fn, r.pc, j)
  <2>1. \A l \in j+1..r.pc-1 : l \in j+1..r.pc+1-1
    BY <1>1
  <2>. QED  BY <1>1, <1>3, <2>1 DEF LastCall
<1>. QED  BY <1>3, <1>4 DEF Results

\* An accepted call is the last one.
LEMMA ResultsAccepted ==
    ASSUME NEW r \in Frames, Pending(r), r.status # "none", r.status \in CallOf(r).ok, Results(r),
           NEW q \in Frames, q.fn = r.fn, q.args = r.args, q.pc = r.pc + 1, q.status = "none"
    PROVE  Results(q)
<1>1. r.pc \in Nat
  BY DEF Frames
<1>. SUFFICES ASSUME NEW j \in 1..q.pc-1, LastCall(r.fn, r.pc + 1, j)
              PROVE  \E status \in Body(r.fn)[j].ok : Answer(Body(r.fn)[j], status, r.args)
  BY DEF Results
<1>2. j = r.pc
  <2>. SUFFICES ASSUME j # r.pc PROVE FALSE
    OBVIOUS
  <2>1. r.pc \in j+1..r.pc+1-1
    BY <1>1
  <2>. QED  BY <2>1 DEF LastCall, Pending, CallOf
<1>. QED  BY <1>2 DEF Results, CallOf

\* After a failure the caller's variables are as they were passed, the shared
\* ones excepted.
LEMMA ResultsFailed ==
    ASSUME NEW r \in Frames, Isolated(r), r.status \in Errors
    PROVE  Results(r)
<1>1. r.status # "none"
  BY DEF Errors
<1>. QED  BY <1>1 DEF Results, Answer, Isolated, Given

\* A frame that fails leaves the others as they are, and its caller with the
\* failure.
LEMMA FailsData ==
    ASSUME NEW s, StackInv(s), s # <<>>, Supplied(s), NEW status \in Errors
    PROVE  LET t == [Tail(s) EXCEPT ![1].status = status]
           IN  Supplied(t) /\ (t # <<>> => Results(t[1]))
<1>. DEFINE u == Tail(s)
            t == [u EXCEPT ![1].status = status]
<1>1. /\ StackInv(u) /\ u \in Seq(Frames) /\ Supplied(u)
      /\ u # <<>> => Pending(u[1]) /\ Isolated(u[1])
  BY TopGoes, SuppliedPop DEF StackInv
<1>. HIDE DEF u
<1>2. CASE u = <<>>
  <2>1. t = <<>>
    BY <1>2
  <2>. QED  BY <1>1, <1>2, <2>1 DEF u
<1>3. CASE u # <<>>
  <2>. DEFINE r == [u[1] EXCEPT !.status = status]
  <2>1. u[1] \in Frames /\ t = [u EXCEPT ![1] = r] /\ Len(u) \in Nat
    BY <1>1, <1>3, Basics
  <2>2. /\ r \in Frames /\ r.fn = u[1].fn /\ r.pc = u[1].pc /\ r.par = u[1].par
        /\ r.args = u[1].args /\ r.status = status
    BY <2>1 DEF Frames, Statuses
  <2>. HIDE DEF r, t
  <2>3. Isolated(r)
    BY <1>1, <1>3, <2>2 DEF Isolated, CallOf
  <2>4. Len(u) > 1 => Passed(r, u[2])
    <3>1. Len(u) > 1 => Passed(u[1], u[2])
      BY <1>1, <2>1, 2 - 1 = 1 DEF Supplied
    <3>. QED  BY <2>2, <3>1 DEF Passed
  <2>5. Supplied(t)
    BY <1>1, <1>3, <2>1, <2>2, <2>4, SuppliedTop
  <2>6. t[1] = r
    BY <1>1, <1>3, <2>1, <2>2, SetTop
  <2>. QED  BY <2>2, <2>3, <2>5, <2>6, ResultsFailed DEF t, u
<1>. QED  BY <1>2, <1>3
------------------------------------------------------------------------------
\* What the two invariants say of the running function's parameters.
LEMMA TopPassed ==
    ASSUME IInv, DataInv, stack # <<>>
    PROVE  /\ Results(Top)
           /\ Len(stack) > 1 => /\ Passed(Top, stack[2]) /\ stack[2] \in Frames
                                /\ Pending(stack[2]) /\ Isolated(stack[2])
                                /\ CallOf(stack[2]).fn = Top.fn
                                /\ DOMAIN Top.par = DOMAIN stack[2].args
           /\ Len(stack) = 1 => Code[Top.fn].params = <<>>
<1>1. /\ stack \in Seq(Frames) /\ Top = stack[1] /\ Len(stack) \in Nat
      /\ \A k \in 1..Len(stack) : stack[k] \in Frames
  BY TopFrame, Basics
<1>2. ASSUME Len(stack) > 1
      PROVE  /\ Passed(Top, stack[2]) /\ stack[2] \in Frames
             /\ Pending(stack[2]) /\ Isolated(stack[2]) /\ CallOf(stack[2]).fn = Top.fn
             /\ DOMAIN Top.par = DOMAIN stack[2].args
  <2>1. 2 \in 2..Len(stack) /\ 2 \in 1..Len(stack) /\ 2 - 1 = 1
    BY <1>1, <1>2
  <2>. QED  BY <1>1, <2>1, Zenon DEF DataInv, Supplied, IInv, StackInv, Chained
<1>. QED  BY <1>1, <1>2 DEF DataInv, Supplied

LEMMA TopChangesData ==
    ASSUME IInv, DataInv, stack # <<>>,
           NEW r \in Frames, r.fn = Top.fn, Len(stack) > 1 => Passed(r, stack[2]), Results(r),
           stack' = [stack EXCEPT ![1] = r]
    PROVE  DataInv'
<1>1. stack \in Seq(Frames) /\ Top = stack[1]
  BY TopFrame
<1>2. Supplied(stack')
  BY <1>1, SuppliedTop DEF DataInv
<1>3. stack'[1] = r
  BY <1>1, SetTop
<1>. QED  BY <1>2, <1>3 DEF DataInv

LEMMA OneOrMore ==
    ASSUME NEW n \in Nat, n > 0
    PROVE  n = 1 \/ (n > 1 /\ 2 \in 1..n /\ 2 \in 2..n)
  OBVIOUS

\* An operation that is neither a call nor a write.
LEMMA PlainData ==
    ASSUME IInv, DataInv, NEW kind, At(kind), kind \notin {"call", "write"}, stack' = Advance
    PROVE  DataInv'
<1>. DEFINE r == [Top EXCEPT !.pc = @ + 1]
<1>1. /\ stack # <<>> /\ Top.status = "none" /\ Top.pc \in DOMAIN Body(Top.fn)
      /\ CallOf(Top) = Op /\ Op.op = kind
  BY NoStatus DEF Op, CallOf
<1>2. /\ Advance = [stack EXCEPT ![1] = r] /\ r \in Frames /\ r.fn = Top.fn
      /\ r.par = Top.par /\ r.args = Top.args /\ r.pc = Top.pc + 1 /\ r.status = "none"
  BY <1>1, AdvanceTop
<1>. HIDE DEF r
<1>3. Top \in Frames /\ Top.pc \in Nat \ {0}
  BY <1>1, TopFrame DEF TopOK
<1>4. Results(r)
  BY <1>1, <1>2, <1>3, TopPassed, ResultsStay
<1>5. Len(stack) > 1 => Passed(r, stack[2])
  <2>1. \A i : ~Writes(Top.fn, Top.pc, i)
    BY <1>1 DEF Writes, CallOf
  <2>. QED  BY <1>1, <1>2, <1>3, <2>1, TopPassed, LeftNext DEF Passed
<1>. QED  BY <1>1, <1>2, <1>4, <1>5, TopChangesData

LEMMA WriteData == IInv /\ DataInv /\ Write => DataInv'
<1>. SUFFICES ASSUME IInv, DataInv, Write PROVE DataInv'
  OBVIOUS
<1>. DEFINE on == Op.on
            x  == Op.is
            r  == [Top EXCEPT !.pc = @ + 1]
<1>1. /\ stack # <<>> /\ Top.status = "none" /\ Top.pc \in DOMAIN Body(Top.fn)
      /\ CallOf(Top) = Op /\ Op = Body(Top.fn)[Top.pc] /\ Op.op = "write" /\ x \in Contents
  <2>1. /\ stack # <<>> /\ Top.status = "none" /\ Top.pc \in DOMAIN Body(Top.fn)
        /\ Op \in Operations /\ Op.op = "write"
    BY NoStatus DEF Write
  <2>. QED  BY <2>1 DEF Operations, Op, CallOf
<1>2. /\ Advance = [stack EXCEPT ![1] = r] /\ r \in Frames /\ r.fn = Top.fn
      /\ r.par = Top.par /\ r.args = Top.args /\ r.pc = Top.pc + 1 /\ r.status = "none"
  BY <1>1, AdvanceTop
<1>3. /\ stack \in Seq(Frames) /\ Top = stack[1] /\ Top \in Frames /\ Top.pc \in Nat \ {0}
      /\ Len(stack) \in Nat /\ Len(stack) > 0
  BY <1>1, TopFrame DEF TopOK
<1>4. /\ Advance \in Seq(Frames) /\ Advance # <<>> /\ Advance[1] = r /\ Len(Advance) = Len(stack)
      /\ DOMAIN Advance = 1..Len(stack) /\ \A k \in 2..Len(stack) : Advance[k] = stack[k]
  BY <1>1, <1>2, <1>3, SetTop, Basics
<1>. HIDE DEF r
\* What is left of each parameter.
<1>5. ASSUME Len(stack) > 1, NEW i \in DOMAIN CallOf(stack[2]).args
      PROVE  LET now == IF Shared(Top.fn, i) THEN stack[2].args[i] ELSE Top.par[i]
             IN  Left(Top.fn, CallOf(stack[2]).args, r.pc, i, IF i = on THEN x ELSE now)
  <2>1. Writes(Top.fn, Top.pc, i) <=> i = on
    BY <1>1 DEF Writes
  <2>2. Left(Top.fn, CallOf(stack[2]).args, Top.pc, i,
             IF Shared(Top.fn, i) THEN stack[2].args[i] ELSE Top.par[i])
    BY <1>1, <1>5, TopPassed DEF Passed
  <2>3. CASE i = on
    <3>1. Left(Top.fn, CallOf(stack[2]).args, Top.pc + 1, i, Body(Top.fn)[Top.pc].is)
      BY <1>3, <2>1, <2>3, LeftWritten
    <3>. QED  BY <1>1, <1>2, <2>3, <3>1
  <2>4. CASE i # on
    BY <1>2, <1>3, <2>1, <2>2, <2>4, LeftNext
  <2>. QED  BY <2>3, <2>4
<1>6. CASE Shared(Top.fn, on)
  <2>1. stack' = [Advance EXCEPT ![2].args[on] = x]
    BY <1>6 DEF Write
  <2>2. Results(r)
    <3>1. Results(Top) /\ CallOf(Top).op # "call"
      BY <1>1, TopPassed
    <3>. HIDE DEF on, x
    <3>. QED  BY <1>1, <1>2, <1>3, <3>1, ResultsStay
  <2>3. CASE Len(stack) = 1
    <3>1. [Advance EXCEPT ![2].args[on] = x] = Advance
      BY <1>4, <2>3
    <3>2. stack' = [stack EXCEPT ![1] = r] /\ ~(Len(stack) > 1)
      BY <1>2, <2>1, <2>3, <3>1
    <3>3. stack # <<>> /\ r \in Frames /\ r.fn = Top.fn
      BY <1>1, <1>2
    <3>. QED  BY <2>2, <3>2, <3>3, TopChangesData, Zenon
  <2>4. CASE Len(stack) # 1
    <3>. DEFINE c == [stack[2] EXCEPT !.args = [stack[2].args EXCEPT ![on] = x]]
    <3>1. Len(stack) > 1 /\ 2 \in 1..Len(stack) /\ 2 \in 2..Len(stack)
      <4>1. Len(stack) \in Nat /\ Len(stack) > 0
        BY <1>3
      <4>. QED  BY <2>4, <4>1, OneOrMore, Zenon
    <3>2. /\ stack[2] \in Frames /\ Isolated(stack[2]) /\ CallOf(stack[2]).fn = Top.fn
          /\ DOMAIN Top.par = DOMAIN stack[2].args
      BY <1>1, <3>1, TopPassed
    <3>3. /\ [stack[2].args EXCEPT ![on] = x] \in Seq(Contents)
          /\ DOMAIN [stack[2].args EXCEPT ![on] = x] = DOMAIN stack[2].args
      BY <1>1, <3>2, SetInSeq DEF Frames
    <3>4. /\ c \in Frames /\ c.fn = stack[2].fn /\ c.pc = stack[2].pc /\ c.par = stack[2].par
          /\ c.args = [stack[2].args EXCEPT ![on] = x]
      BY <3>2, <3>3 DEF Frames
    <3>5. stack' = [Advance EXCEPT ![2] = c]
      BY <1>4, <2>1, <3>1
    <3>. HIDE DEF c
    <3>6. /\ stack' \in Seq(Frames) /\ Len(stack') = Len(stack)
          /\ \A k \in 1..Len(stack) : stack'[k] = IF k = 2 THEN c ELSE Advance[k]
      BY <1>4, <3>1, <3>4, <3>5, ExceptSeq
    <3>7. /\ stack'[1] = r /\ stack'[2] = c /\ \A k \in 3..Len(stack) : stack'[k] = stack[k]
      BY <1>3, <1>4, <3>1, <3>6
    <3>8. Passed(r, c)
      <4>. SUFFICES ASSUME NEW i \in DOMAIN CallOf(c).args
                    PROVE  Left(r.fn, CallOf(c).args, r.pc, i,
                                IF Shared(r.fn, i) THEN c.args[i] ELSE r.par[i])
        BY DEF Passed
      <4>1. CallOf(c) = CallOf(stack[2])
        BY <3>4 DEF CallOf
      <4>2. i \in DOMAIN stack[2].args
        BY <3>2, <4>1 DEF Isolated
      <4>3. c.args[i] = IF i = on THEN x ELSE stack[2].args[i]
        BY <3>4, <4>2
      <4>4. Left(Top.fn, CallOf(stack[2]).args, r.pc, i, IF i = on THEN x
                 ELSE IF Shared(Top.fn, i) THEN stack[2].args[i] ELSE Top.par[i])
        BY <1>5, <3>1, <4>1
      <4>5. (IF i = on THEN x ELSE IF Shared(Top.fn, i) THEN stack[2].args[i] ELSE Top.par[i])
            = (IF Shared(r.fn, i) THEN c.args[i] ELSE r.par[i])
        BY <1>2, <1>6, <4>3
      <4>. QED  BY <1>2, <4>1, <4>4, <4>5
    <3>9. Supplied(stack')
      BY <1>1, <1>2, <1>3, <3>4, <3>6, <3>7, <3>8, SuppliedAgain DEF DataInv
    <3>. QED  BY <2>2, <3>7, <3>9 DEF DataInv
  <2>. QED  BY <2>3, <2>4
<1>7. CASE ~Shared(Top.fn, on)
  <2>. DEFINE q == [r EXCEPT !.par = [r.par EXCEPT ![on] = x]]
  <2>1. stack' = [stack EXCEPT ![1] = q]
    <3>1. stack' = [Advance EXCEPT ![1].par[on] = x]
      BY <1>7 DEF Write
    <3>2. [Advance EXCEPT ![1].par[on] = x] = [Advance EXCEPT ![1] = q]
      BY <1>3, <1>4
    <3>. QED  BY <1>2, <3>1, <3>2
  <2>2. /\ q \in Frames /\ q.fn = Top.fn /\ q.args = Top.args /\ q.pc = Top.pc + 1
        /\ q.status = "none" /\ q.par = [Top.par EXCEPT ![on] = x]
    <3>1. [r.par EXCEPT ![on] = x] \in Seq(Contents)
      BY <1>1, <1>2, SetInSeq DEF Frames
    <3>. QED  BY <1>2, <3>1 DEF Frames
  <2>. HIDE DEF q
  <2>3. Results(q)
    BY <1>1, <1>3, <2>2, TopPassed, ResultsStay
  <2>4. ASSUME Len(stack) > 1 PROVE Passed(q, stack[2])
    <3>. SUFFICES ASSUME NEW i \in DOMAIN CallOf(stack[2]).args
                  PROVE  Left(q.fn, CallOf(stack[2]).args, q.pc, i,
                              IF Shared(q.fn, i) THEN stack[2].args[i] ELSE q.par[i])
      BY DEF Passed
    <3>1. i \in DOMAIN Top.par
      BY <1>1, <2>4, TopPassed DEF Isolated
    <3>2. q.par[i] = IF i = on THEN x ELSE Top.par[i]
      BY <2>2, <3>1
    <3>3. Left(Top.fn, CallOf(stack[2]).args, r.pc, i, IF i = on THEN x
               ELSE IF Shared(Top.fn, i) THEN stack[2].args[i] ELSE Top.par[i])
      BY <1>5, <2>4
    <3>4. (IF i = on THEN x ELSE IF Shared(Top.fn, i) THEN stack[2].args[i] ELSE Top.par[i])
          = (IF Shared(q.fn, i) THEN stack[2].args[i] ELSE q.par[i])
      BY <1>7, <2>2, <3>2
    <3>. QED  BY <1>2, <2>2, <3>3, <3>4
  <2>. QED  BY <1>1, <2>1, <2>2, <2>3, <2>4, TopChangesData
<1>. QED  BY <1>6, <1>7

LEMMA CallFailsData == IInv /\ DataInv /\ CallFails => DataInv'
<1>. SUFFICES ASSUME IInv, DataInv, CallFails PROVE DataInv'
  OBVIOUS
<1>1. PICK status \in Refusals(Op.fn) :
          stack' = [stack EXCEPT ![1].args = Op.args, ![1].status = status]
  BY DEF CallFails
<1>2. status \in Errors
  BY <1>1 DEF Refusals, Errors, IInv
<1>3. stack # <<>> /\ Op = CallOf(Top) /\ Op.args \in Seq(Contents)
  BY CallOp DEF CallFails, Calling
<1>. DEFINE r == [Top EXCEPT !.args = Op.args, !.status = status]
<1>4. stack' = [stack EXCEPT ![1] = r]
  BY <1>1, <1>3, TopFrame
<1>5. /\ r \in Frames /\ r.fn = Top.fn /\ r.pc = Top.pc /\ r.par = Top.par
      /\ r.args = Op.args /\ r.status = status
  BY <1>2, <1>3, TopFrame DEF Frames, Statuses
<1>. HIDE DEF r
<1>6. Results(r)
  BY <1>2, <1>3, <1>5, ResultsFailed DEF Isolated, CallOf
<1>7. Len(stack) > 1 => Passed(r, stack[2])
  BY <1>3, <1>5, TopPassed DEF Passed
<1>. QED  BY <1>3, <1>4, <1>5, <1>6, <1>7, TopChangesData

\* The copies that a call gets are what its declaration promises.
LEMMA CallEntersData == IInv /\ DataInv /\ CallEnters => DataInv'
<1>. SUFFICES ASSUME IInv, DataInv, CallEnters PROVE DataInv'
  OBVIOUS
<1>. DEFINE f == Op.fn
            s == [stack EXCEPT ![1].args = Op.args]
            q == [Top EXCEPT !.args = Op.args]
            r == Frame(f, CopyIn(f, Op.args))
<1>1. /\ stack # <<>> /\ Pending(Top) /\ Op = CallOf(Top) /\ Op.args \in Seq(Contents)
      /\ f \in Function
  BY CallOp DEF CallEnters, Calling
<1>2. s = [stack EXCEPT ![1] = q]
  BY <1>1, TopFrame
<1>3. q \in Frames /\ q.fn = Top.fn /\ q.pc = Top.pc /\ q.par = Top.par /\ q.args = Op.args
  BY <1>1, TopFrame DEF Frames
<1>. HIDE DEF q
<1>4. Supplied(s) /\ s \in Seq(Frames) /\ s # <<>> /\ s[1] = q
  <2>1. Len(stack) > 1 => Passed(q, stack[2])
    BY <1>1, <1>3, TopPassed DEF Passed
  <2>. QED  BY <1>1, <1>2, <1>3, <2>1, TopFrame, SuppliedTop, SetTop DEF DataInv
<1>. HIDE DEF s
<1>5. /\ r \in Frames /\ r.fn = f /\ r.par = CopyIn(f, Op.args) /\ r.pc = 1 /\ r.status = "none"
  <2>1. CopyIn(f, Op.args) \in Seq(Contents)
    BY <1>1, CopyInType
  <2>2. <<>> \in Seq(Contents)
    BY EmptySeq
  <2>. QED  BY <1>1, <2>1, <2>2 DEF Frame, Frames
<1>. HIDE DEF r
<1>6. CallOf(q) = Op
  BY <1>1, <1>3 DEF CallOf
<1>7. Passed(r, q)
  <2>. SUFFICES ASSUME NEW i \in DOMAIN Op.args
                PROVE  Left(f, Op.args, 1, i, IF Shared(f, i) THEN Op.args[i]
                                              ELSE CopyIn(f, Op.args)[i])
    BY <1>3, <1>5, <1>6 DEF Passed
  <2>1. Attr(f, i) \in Attributes
    BY <1>1, TopFrame, ArgsFit
  <2>2. (IF Shared(f, i) THEN Op.args[i] ELSE CopyIn(f, Op.args)[i])
        = IF Attr(f, i) \in {"out", "return"} THEN "zero" ELSE Op.args[i]
    BY <2>1 DEF CopyIn, Shared, Attributes
  <2>. QED  BY <2>2, LeftFirst
<1>8. Supplied(<<r>> \o s)
  BY <1>4, <1>5, <1>7, SuppliedPush
<1>9. Results(r)
  BY <1>5 DEF Results
<1>10. (<<r>> \o s)[1] = r
  BY <1>4, <1>5, Push
<1>. QED  BY <1>8, <1>9, <1>10 DEF DataInv, CallEnters, r, s

\* What the stub copies back, or the callee has written to shared memory.
LEMMA ReturnData == IInv /\ DataInv /\ Return => DataInv'
<1>. SUFFICES ASSUME IInv, DataInv, Return PROVE DataInv'
  OBVIOUS
<1>. DEFINE t == Tail(stack)
            args == CopyOut(Top.fn, Top.par, t[1].args)
            r == [t[1] EXCEPT !.status = "SGX_SUCCESS", !.args = args]
<1>1. /\ stack # <<>> /\ Len(stack) > 1 /\ stack \in Seq(Frames) /\ Top = stack[1]
      /\ Top \in Frames /\ Len(stack) \in Nat /\ TopOK(Top) /\ Body(Top.fn) \in Seq(Operations)
  BY TopFrame DEF Return, AtEnd
<1>2. /\ Passed(Top, stack[2]) /\ stack[2] \in Frames /\ Pending(stack[2]) /\ Isolated(stack[2])
      /\ CallOf(stack[2]).fn = Top.fn /\ DOMAIN Top.par = DOMAIN stack[2].args
  BY <1>1, TopPassed
<1>3. /\ t \in Seq(Frames) /\ Len(t) = Len(stack) - 1 /\ t[1] = stack[2] /\ t # <<>>
      /\ 1 \in DOMAIN t /\ Supplied(t)
  <2>1. /\ t \in Seq(Frames) /\ Len(t) = Len(stack) - 1 /\ t[1] = stack[2] /\ Supplied(t)
    BY <1>1, Pop, SuppliedPop DEF DataInv
  <2>. HIDE DEF t
  <2>2. Len(t) \in Nat /\ Len(t) > 0
    BY <1>1, <2>1
  <2>. QED  BY <2>1, <2>2, Basics
<1>4. stack' = [t EXCEPT ![1] = r]
  BY <1>3 DEF Return
<1>5. args \in Seq(Contents) /\ DOMAIN args = DOMAIN CallOf(stack[2]).args
  <2>1. DOMAIN args = DOMAIN t[1].args
    BY DEF CopyOut
  <2>2. args \in Seq(Contents)
    BY <1>1, <1>2, <1>3, CopyOutType DEF Frames
  <2>. QED  BY <1>2, <1>3, <2>1, <2>2 DEF Isolated
<1>6. /\ r \in Frames /\ r.fn = stack[2].fn /\ r.pc = stack[2].pc /\ r.par = stack[2].par
      /\ r.args = args /\ r.status = "SGX_SUCCESS"
  BY <1>2, <1>3, <1>5 DEF Frames, Statuses
<1>7. Top.pc = Len(Body(Top.fn)) + 1
  BY <1>1, LenProperties DEF Return, AtEnd, TopOK
<1>. DEFINE call == CallOf(stack[2])
<1>8. ASSUME NEW i \in DOMAIN call.args
      PROVE  Given(call.fn, call.args, "SGX_SUCCESS", i, args[i])
  <2>1. Attr(Top.fn, i) \in Attributes
    BY <1>2, ArgsFit
  <2>2. i \in DOMAIN t[1].args
    BY <1>2, <1>3 DEF Isolated
  <2>3. args[i] = IF Attr(Top.fn, i) \in {"out", "inout", "return"} THEN Top.par[i]
                  ELSE stack[2].args[i]
    BY <1>3, <2>2 DEF CopyOut
  <2>4. Left(Top.fn, call.args, Len(Body(Top.fn)) + 1, i,
             IF Shared(Top.fn, i) THEN stack[2].args[i] ELSE Top.par[i])
    BY <1>2, <1>7 DEF Passed
  <2>5. Shared(Top.fn, i) \/ stack[2].args[i] = call.args[i]
    BY <1>2, <2>2, <1>3 DEF Isolated
  <2>6. "SGX_SUCCESS" \notin Errors
    BY DEF Errors
  <2>7. CASE Attr(Top.fn, i) \in {"in", "value"}
    BY <1>2, <2>3, <2>5, <2>6, <2>7 DEF Given, Shared
  <2>8. CASE Attr(Top.fn, i) \notin {"in", "value"}
    <3>1. args[i] = IF Shared(Top.fn, i) THEN stack[2].args[i] ELSE Top.par[i]
      BY <2>1, <2>3, <2>8 DEF Attributes, Shared
    <3>2. Left(call.fn, call.args, Len(Body(call.fn)) + 1, i, args[i])
      BY <1>2, <2>4, <3>1
    <3>. QED  BY <1>2, <2>6, <2>8, <3>2 DEF Given
  <2>. QED  BY <2>7, <2>8
<1>. HIDE DEF r, t, args
<1>9. Results(r)
  <2>1. CallOf(r) = call
    BY <1>6 DEF CallOf
  <2>2. r.status # "none" /\ DOMAIN r.args = DOMAIN call.args
    BY <1>5, <1>6
  <2>3. \A i \in DOMAIN r.args : Given(call.fn, call.args, r.status, i, r.args[i])
    BY <1>6, <1>8, <2>2
  <2>. HIDE DEF call
  <2>. QED  BY <2>1, <2>2, <2>3 DEF Results, Answer
<1>10. Len(t) > 1 => Passed(r, t[2])
  <2>1. Len(t) > 1 => Passed(t[1], t[2])
    BY <1>1, <1>3, 2 - 1 = 1 DEF Supplied
  <2>. QED  BY <1>3, <1>6, <2>1 DEF Passed
<1>11. Supplied(stack')
  BY <1>3, <1>4, <1>6, <1>10, SuppliedTop
<1>12. stack'[1] = r
  BY <1>3, <1>4, <1>6, SetTop
<1>. QED  BY <1>9, <1>11, <1>12 DEF DataInv

LEMMA ReturnToLostData == IInv /\ DataInv /\ ReturnToLost => DataInv'
<1>. SUFFICES ASSUME IInv, DataInv, ReturnToLost PROVE DataInv'
  OBVIOUS
<1>1. stack # <<>> /\ Len(stack) > 1 /\ Len(stack) \in Nat /\ stack \in Seq(Frames)
  BY TopFrame DEF ReturnToLost, AtEnd
<1>2. StackInv(Tail(stack)) /\ Tail(stack) # <<>> /\ Supplied(Tail(stack))
  <2>. DEFINE t == Tail(stack)
  <2>1. Len(t) = Len(stack) - 1 /\ t \in Seq(Frames)
    BY <1>1, Pop
  <2>2. t # <<>>
    <3>. HIDE DEF t
    <3>1. Len(t) > 0
      BY <1>1, <2>1
    <3>. QED  BY <2>1, <3>1, Basics
  <2>. QED  BY <1>1, <2>2, TopGoes, SuppliedPop DEF IInv, DataInv
<1>3. enclave \in Errors
  BY DEF IInv, ReturnToLost
<1>. QED  BY <1>2, <1>3, FailsData DEF DataInv, ReturnToLost

LEMMA AcceptData == IInv /\ DataInv /\ Accept => DataInv'
<1>. SUFFICES ASSUME IInv, DataInv, Accept PROVE DataInv'
  OBVIOUS
<1>. DEFINE r == [Top EXCEPT !.pc = @ + 1]
            q == [r EXCEPT !.status = "none"]
<1>1. /\ stack # <<>> /\ Pending(Top) /\ Op = CallOf(Top) /\ Top.status # "none"
      /\ Top.status \in Op.ok
  BY CallOp DEF Accept, Called
<1>2. /\ Advance = [stack EXCEPT ![1] = r] /\ r \in Frames /\ r.fn = Top.fn
      /\ r.par = Top.par /\ r.args = Top.args /\ r.pc = Top.pc + 1
  BY <1>1, AdvanceTop
<1>3. stack' = [stack EXCEPT ![1] = q]
  <2>1. Advance[1] = r /\ 1 \in DOMAIN Advance
    BY <1>1, <1>2, TopFrame, SetTop, Basics
  <2>2. stack' = [Advance EXCEPT ![1] = q]
    BY <2>1 DEF Accept
  <2>. QED  BY <1>2, <2>2
<1>4. /\ q \in Frames /\ q.fn = Top.fn /\ q.par = Top.par /\ q.args = Top.args
      /\ q.pc = Top.pc + 1 /\ q.status = "none"
  BY <1>2 DEF Frames
<1>. HIDE DEF q, r
<1>5. Top \in Frames /\ Top.pc \in Nat \ {0}
  BY <1>1, TopFrame DEF TopOK
<1>6. Results(q)
  BY <1>1, <1>4, <1>5, TopPassed, ResultsAccepted
<1>7. Len(stack) > 1 => Passed(q, stack[2])
  <2>1. \A i : ~Writes(Top.fn, Top.pc, i)
    BY <1>1 DEF Writes, CallOf, Pending
  <2>. QED  BY <1>1, <1>4, <1>5, <2>1, TopPassed, LeftNext DEF Passed
<1>. QED  BY <1>1, <1>3, <1>4, <1>6, <1>7, TopChangesData

\* Whichever way the enclave dies.
LEMMA DiesData ==
    ASSUME IInv, DataInv, stack # <<>>, NEW status \in Errors, EnclaveDies(status)
    PROVE  DataInv'
  BY FailsData DEF IInv, DataInv, EnclaveDies

LEMMA EmptyData == Supplied(<<>>)
<1>1. Len(<<>>) = 0
  BY EmptySeq
<1>. QED  BY <1>1 DEF Supplied

LEMMA DataInit == Init => DataInv
  BY EmptyData DEF Init, DataInv

LEMMA StartData ==
    ASSUME NEW f \in Samples, Start(f)
    PROVE  DataInv'
<1>. DEFINE r == Frame(f, <<>>)
<1>1. f \in Function /\ Code[f].params = <<>>
  BY BridgeAssumption
<1>2. r.fn = f /\ r.pc = 1 /\ r.status = "none"
  BY DEF Frame
<1>. HIDE DEF r
<1>3. Len(<<r>>) = 1 /\ <<r>>[1] = r
  OBVIOUS
<1>4. Supplied(<<r>>)
  BY <1>1, <1>2, <1>3 DEF Supplied
<1>5. Results(r)
  BY <1>2 DEF Results
<1>. QED  BY <1>3, <1>4, <1>5 DEF DataInv, Start, r

LEMMA DataStep == IInv /\ DataInv /\ [Next]_vars => DataInv'
<1>. SUFFICES ASSUME IInv, DataInv, [Next]_vars PROVE DataInv'
  OBVIOUS
<1>1. CASE Test
  BY <1>1, PlainData DEF Test
<1>2. CASE Free
  BY <1>2, PlainData DEF Free
<1>3. CASE Malloc
  <2>1. CASE stack' = Advance
    BY <1>3, <2>1, PlainData DEF Malloc
  <2>2. CASE EnclaveDies("SGX_ERROR_ENCLAVE_CRASHED")
    BY <1>3, <2>2, DiesData DEF Malloc, At, Errors
  <2>. QED  BY <1>3, <2>1, <2>2 DEF Malloc
<1>4. CASE GiveUp
  <2>1. CASE IsEcall(Top.fn)
    BY <1>4, <2>1, DiesData DEF GiveUp, Called, At, Errors
  <2>2. CASE ~IsEcall(Top.fn)
    BY <1>4, <2>2, EmptyData DEF GiveUp, DataInv
  <2>. QED  BY <2>1, <2>2
<1>5. CASE LoseEnclave
  <2>1. CASE stack # <<>> /\ IsEcall(Top.fn)
    BY <1>5, <2>1, DiesData DEF LoseEnclave, Errors
  <2>2. CASE ~(stack # <<>> /\ IsEcall(Top.fn))
    BY <1>5, <2>2 DEF LoseEnclave, DataInv
  <2>. QED  BY <2>1, <2>2
<1>6. CASE SampleEnds
  BY <1>6, EmptyData DEF SampleEnds, DataInv
<1>7. CASE UNCHANGED vars
  BY <1>7 DEF vars, DataInv
<1>. QED
  BY <1>1, <1>2, <1>3, <1>4, <1>5, <1>6, <1>7, WriteData, CallFailsData, CallEntersData,
     ReturnData, ReturnToLostData, AcceptData, StartData DEF Next, Step, Finished

\* With the right data each test comes out as the table has it.
LEMMA DataTests == IInv /\ DataInv => TestsHold
<1>. SUFFICES ASSUME IInv, DataInv, At("test") PROVE Holds(Op)
  BY DEF TestsHold
<1>. DEFINE f == Top.fn
<1>1. /\ stack # <<>> /\ Top.status = "none" /\ Top.pc \in DOMAIN Body(f)
      /\ Op \in Operations /\ Op.op = "test" /\ Op = Body(f)[Top.pc]
  BY NoStatus DEF Op
<1>2. /\ stack \in Seq(Frames) /\ Top \in Frames /\ f \in Function /\ Results(Top)
      /\ Len(stack) \in Nat /\ Len(stack) > 0
      /\ Top.par \in Seq(Contents) /\ Top.args \in Seq(Contents)
  BY <1>1, TopFrame, TopPassed DEF Frames
<1>3. Expected(f, Top.pc)
  BY <1>1, <1>2, TestsAssumption
<1>4. Op.what \in {"value", "result", "outside", "within"}
  BY <1>1 DEF Operations
<1>5. CASE Op.what = "value"
  <2>1. /\ Op.on \subseteq DOMAIN Code[f].params
        /\ \A g \in Function : \A j \in DOMAIN Body(g) :
               Body(g)[j].op = "call" /\ Body(g)[j].fn = f =>
                   \A i \in Op.on : \A v \in Contents :
                       Left(f, Body(g)[j].args, Top.pc, i, v) => v = Op.is
    BY <1>1, <1>3, <1>5 DEF Expected
  <2>2. CASE Len(stack) = 1
    <3>1. Op.on = {}
      BY <1>1, <2>1, <2>2, TopPassed
    <3>. QED  BY <3>1 DEF Holds
  <2>3. CASE Len(stack) > 1
    <3>. DEFINE c == stack[2]
                A == CallOf(c).args
    <3>1. /\ Passed(Top, c) /\ c \in Frames /\ Pending(c) /\ Isolated(c) /\ CallOf(c).fn = f
          /\ DOMAIN Top.par = DOMAIN c.args
      BY <1>1, <2>3, TopPassed
    <3>2. c.fn \in Function /\ c.pc \in DOMAIN Body(c.fn) /\ CallOf(c) = Body(c.fn)[c.pc]
          /\ CallOf(c).op = "call" /\ c.args \in Seq(Contents)
      BY <3>1 DEF Frames, Pending, CallOf
    <3>3. DOMAIN A = DOMAIN Code[f].params /\ DOMAIN c.args = DOMAIN A
      BY <3>1, ArgsFit DEF Isolated
    <3>4. ASSUME NEW i \in Op.on PROVE Value(i) = Op.is
      <4>1. i \in DOMAIN A /\ i \in DOMAIN c.args /\ i \in DOMAIN Top.par
        BY <2>1, <3>1, <3>3
      <4>2. Value(i) = IF Shared(f, i) THEN c.args[i] ELSE Top.par[i]
        BY DEF Value
      <4>3. Value(i) \in Contents
        <5>1. c.args[i] \in Contents
          <6>. HIDE DEF c
          <6>. QED  BY <3>2, <4>1, LenProperties, ElementOfSeq
        <5>2. Top.par[i] \in Contents
          BY <1>2, <4>1, LenProperties, ElementOfSeq
        <5>3. CASE Shared(f, i)
          <6>1. Value(i) = c.args[i]
            BY <4>2, <5>3
          <6>. QED  BY <5>1, <6>1, Zenon
        <5>4. CASE ~Shared(f, i)
          <6>1. Value(i) = Top.par[i]
            BY <4>2, <5>4
          <6>. QED  BY <5>2, <6>1, Zenon
        <5>. QED  BY <5>3, <5>4
      <4>4. Left(f, A, Top.pc, i, Value(i))
        BY <3>1, <4>1, <4>2 DEF Passed
      <4>. QED  BY <2>1, <3>1, <3>2, <4>3, <4>4
    <3>. QED  BY <1>5, <3>4 DEF Holds
  <2>4. Len(stack) \in Nat /\ Len(stack) > 0
    BY <1>2
  <2>5. Len(stack) = 1 \/ Len(stack) > 1
    BY <2>4, OneOrMore, Zenon
  <2>. QED  BY <2>2, <2>3, <2>5, Zenon
<1>6. CASE Op.what = "result"
  <2>1. PICK j \in 1..Top.pc-1 :
            /\ LastCall(f, Top.pc, j) /\ Op.on \subseteq DOMAIN Body(f)[j].args
            /\ \A status \in Body(f)[j].ok : \A i \in Op.on : \A v \in Contents :
                   Given(Body(f)[j].fn, Body(f)[j].args, status, i, v) => v = Op.is
    BY <1>1, <1>3, <1>6 DEF Expected
  <2>2. PICK status \in Body(f)[j].ok : Answer(Body(f)[j], status, Top.args)
    BY <1>1, <1>2, <2>1 DEF Results
  <2>3. ASSUME NEW i \in Op.on PROVE Top.args[i] = Op.is
    <3>1. i \in DOMAIN Top.args
      BY <2>1, <2>2 DEF Answer
    <3>2. Top.args[i] \in Contents
      BY <1>2, <3>1, LenProperties, ElementOfSeq
    <3>. QED  BY <2>1, <2>2, <3>1, <3>2 DEF Answer
  <2>. QED  BY <1>6, <2>3 DEF Holds
<1>7. CASE Op.what = "outside"
  BY <1>1, <1>3, <1>7 DEF Expected, Holds
<1>8. CASE Op.what = "within"
  BY <1>1, <1>3, <1>8 DEF Expected, Holds
<1>. QED  BY <1>4, <1>5, <1>6, <1>7, <1>8
------------------------------------------------------------------------------
LEMMA Invariance == Spec => [](IInv /\ Noticed /\ HeapInv /\ DataInv)
<1>1. Init => IInv /\ Noticed /\ HeapInv /\ DataInv
  BY InitInv, NoticedInit, HeapInit, DataInit
<1>2. (IInv /\ Noticed /\ HeapInv /\ DataInv) /\ [Next]_vars
          => (IInv /\ Noticed /\ HeapInv /\ DataInv)'
  BY StepInv, NoticedStep, HeapStep, DataStep
<1>. QED  BY <1>1, <1>2, PTL DEF Spec

\* Type correctness, and that the App and the enclave take turns on the stack,
\* for every table of functions in which calls cross the border.
THEOREM TypeCorrect == Spec => []TypeOK
<1>. QED  BY Invariance, InvType, PTL

\* When a sample has ended without abort(), no call failed but the tolerated
\* ones: every other failure, a crash of the enclave in the middle of an ECALL
\* included, reaches a caller in the App that gives up.
THEOREM FailuresNoticedAlways == Spec => []FailuresNoticed
<1>1. Noticed => FailuresNoticed
  BY Zenon DEF Noticed, FailuresNoticed
<1>. QED  BY Invariance, <1>1, PTL

\* The blocks on the enclave's heap are those of the ECALLs on the stack: those
\* of their stubs and those that their bodies have allocated so far.
THEOREM HeapBalancedAlways == Spec => []HeapBalanced
<1>1. IInv /\ HeapInv => HeapBalanced
  <2>. SUFFICES ASSUME IInv, HeapInv, heap > 0, ~aborted
                PROVE  \E k \in DOMAIN stack : IsEcall(stack[k].fn)
    BY DEF HeapBalanced, HeapInv
  <2>1. enclave = "alive" /\ Accounts(stack, heap)
    BY DEF HeapInv
  <2>. QED  BY <2>1, AccountsType DEF IInv, StackInv
<1>. QED  BY Invariance, <1>1, PTL

\* No test of the App or of an enclave function fails: whatever is refused, lost
\* or crashes, a function that runs has the data that the declarations and the
\* bodies promise when each is taken by itself.
THEOREM TestsHoldAlways == Spec => []TestsHold
<1>. QED  BY Invariance, DataTests, PTL
==============================================================================
