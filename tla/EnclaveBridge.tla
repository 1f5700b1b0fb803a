---------------------------- MODULE EnclaveBridge ----------------------------
(***************************************************************************)
(* Calls across the boundary of the enclave, and the samples of the SDK    *)
(* that make them.  Code is a table with the declaration of each function  *)
(* (its side, the attributes of its parameters, whether it is public, what *)
(* ECALLs it allows) and its body, a sequence of operations; see module    *)
(* Edger8rSamples.  One thread runs: its call stack alternates between the *)
(* App and the enclave, and the top of the stack is its first frame.       *)
(*                                                                         *)
(* The stubs that edger8r generates from the EDL files and the runtime of  *)
(* the SDK are not in the repository and are modelled from their use.  An  *)
(* enclave can be lost at any time (a power transition) and dies when its  *)
(* code aborts; memory for the copies of a call's buffers can run out.     *)
(***************************************************************************)
EXTENDS Integers, Sequences, FiniteSets

CONSTANTS
    Function,               \* all functions
    Code,                   \* their declarations and bodies
    Samples,                \* the functions that the App's main thread may call
    MAX_SAMPLES             \* bound: samples run one after the other

Attributes == {"user_check", "value", "return", "in", "out", "inout"}
Contents   == {"caller", "callee", "zero", "overwritten"}
Errors     == {"SGX_ERROR_OUT_OF_MEMORY", "SGX_ERROR_UNEXPECTED",
               "SGX_ERROR_ECALL_NOT_ALLOWED", "SGX_ERROR_ENCLAVE_LOST",
               "SGX_ERROR_ENCLAVE_CRASHED"}
Statuses   == Errors \cup {"SGX_SUCCESS"}

\* What the bodies consist of.
Operations ==
    [op : {"test"}, what : {"value", "result", "outside", "within"}, on : SUBSET Nat, is : Contents]
    \cup [op : {"write"}, on : Nat, is : Contents]
    \cup [op : {"malloc", "free"}]
    \cup [op : {"call"}, fn : Function, args : Seq(Contents), ok : SUBSET Statuses]

ASSUME BridgeAssumption ==
    /\ Samples \subseteq Function /\ MAX_SAMPLES \in Nat
    /\ \A f \in Function :
           /\ Code[f].side \in {"app", "enclave"} /\ Code[f].public \in BOOLEAN
           /\ Code[f].params \in Seq(Attributes) /\ Code[f].allow \subseteq Function
           /\ Code[f].body \in Seq(Operations)
           /\ \A k \in DOMAIN Code[f].body :
                  Code[f].body[k].op = "call" => Code[Code[f].body[k].fn].side # Code[f].side
    /\ \A f \in Samples : Code[f].side = "app" /\ Code[f].params = <<>>

\* Blocks that the first n operations of f have allocated and not given back.
Blocks(f, n) ==
    Cardinality({k \in 1..n : Code[f].body[k].op = "malloc"})
        - Cardinality({k \in 1..n : Code[f].body[k].op = "free"})

\* A body frees its own blocks, all of them before it ends; an OCALL has none on
\* the enclave's heap.
ASSUME BlocksAssumption ==
    \A f \in Function :
        /\ \A n \in 0..Len(Code[f].body) : Blocks(f, n) >= 0
        /\ Blocks(f, Len(Code[f].body)) = 0
        /\ Code[f].side = "app" =>
               \A k \in DOMAIN Code[f].body : Code[f].body[k].op \notin {"malloc", "free"}

\* The failures after which a caller goes on: the direct call of the private
\* ECALL, and lines that were not printed.
Tolerated == {<<"ecall_function_private", "SGX_ERROR_ECALL_NOT_ALLOWED">>,
              <<"ocall_print_string", "SGX_ERROR_UNEXPECTED">>}

\* Those are the only failures a caller accepts.  An OCALL can fail in one way
\* only: an ECALL whose enclave is gone does not go on.
ASSUME StatusAssumption ==
    \A f \in Function : \A k \in DOMAIN Code[f].body :
        Code[f].body[k].op = "call" =>
            \A status \in Code[f].body[k].ok \cap Errors :
                \/ Code[f].side = "enclave" /\ status # "SGX_ERROR_UNEXPECTED"
                \/ <<Code[f].body[k].fn, status>> \in Tolerated

VARIABLES
    stack,                  \* frames, the running function first
    enclave,                \* "alive", or the status of all further ECALLs
    heap,                   \* blocks allocated on the enclave's heap
    aborted,                \* abort() ended the process
    failed,                 \* calls of this sample that failed: callee and status
    runs                    \* samples started

vars == <<stack, enclave, heap, aborted, failed, runs>>

\* A frame: args are the caller's variables for its current call, status what
\* that call returned; par are the function's own parameters.
Frame(f, par) == [fn |-> f, pc |-> 1, par |-> par, args |-> <<>>, status |-> "none"]

Init ==
    /\ stack = <<>> /\ enclave = "alive" /\ heap = 0
    /\ aborted = FALSE /\ failed = {} /\ runs = 0
------------------------------------------------------------------------------
Top == Head(stack)
Body(f) == Code[f].body
Op == Body(Top.fn)[Top.pc]
At(kind) == stack # <<>> /\ Top.pc \in DOMAIN Body(Top.fn) /\ Op.op = kind
AtEnd == stack # <<>> /\ Top.pc \notin DOMAIN Body(Top.fn)

IsEcall(f) == Code[f].side = "enclave"
Attr(f, i) == Code[f].params[i]

\* Buffers for which the stub of f allocates memory on the enclave's heap.
Buffers(f) ==
    IF IsEcall(f) /\ \E i \in DOMAIN Code[f].params : Attr(f, i) \in {"in", "out", "inout"}
    THEN 1 ELSE 0

\* Mutation: the buffer of an [out] parameter is not cleared.
CopyInUncleared(f, args) ==
    [i \in DOMAIN args |-> IF Attr(f, i) = "return" THEN "zero" ELSE args[i]]

\* What the callee gets: a copy, except that the buffer of an [out] parameter
\* is cleared.
CopyIn(f, args) ==
    [i \in DOMAIN args |-> IF Attr(f, i) \in {"in", "inout", "value"} THEN args[i] ELSE "zero"]

\* What the caller's variables hold after a successful call.
CopyOut(f, par, args) ==
    [i \in DOMAIN args |-> IF Attr(f, i) \in {"out", "inout", "return"} THEN par[i] ELSE args[i]]

\* A [user_check] parameter is the caller's own memory.
Shared(f, i) == Attr(f, i) = "user_check"
Value(i) == IF Shared(Top.fn, i) THEN stack[2].args[i] ELSE Top.par[i]

\* The ECALLs that an OCALL may make are listed in its declaration; outside of
\* OCALLs the public ones can be called.
Allowed(f) ==
    IF Len(stack) = 1 THEN Code[f].public ELSE f \in Code[Top.fn].allow

\* Errors that the call of f can return with before f has started.
Refusals(f) ==
    IF ~IsEcall(f)
    THEN IF Code[f].params = <<>> THEN {} ELSE {"SGX_ERROR_UNEXPECTED"}
    ELSE CASE enclave # "alive" -> {enclave}
           [] enclave = "alive" /\ ~Allowed(f) -> {"SGX_ERROR_ECALL_NOT_ALLOWED"}
           [] OTHER -> IF Buffers(f) = 0 THEN {} ELSE {"SGX_ERROR_OUT_OF_MEMORY"}
------------------------------------------------------------------------------
\* What the declarations and the bodies promise, each body taken by itself.
Writes(f, k, i) == Body(f)[k].op = "write" /\ Body(f)[k].on = i

\* v is what parameter i of f, called with args, holds before operation n: what
\* f wrote there last, or what its declaration says it is passed.
Left(f, args, n, i, v) ==
    LET writes == {k \in 1..n-1 : Writes(f, k, i)}
    IN  IF writes = {}
        THEN v = IF Attr(f, i) \in {"out", "return"} THEN "zero" ELSE args[i]
        ELSE \E k \in writes : v = Body(f)[k].is /\ \A j \in writes : j <= k

\* v is what the caller of f may find in args[i] when it is told this status.
Given(f, args, status, i, v) ==
    CASE status \in Errors -> Shared(f, i) \/ v = args[i]
      [] status \notin Errors /\ Attr(f, i) \in {"in", "value"} -> v = args[i]
      [] OTHER -> Left(f, args, Len(Body(f)) + 1, i, v)

\* The call whose results operation k of f looks at.
LastCall(f, k, j) ==
    j < k /\ Body(f)[j].op = "call" /\ \A l \in j+1..k-1 : Body(f)[l].op # "call"

\* A test expects of the parameters what the calls of f in the table, and the
\* writes in f, leave there; of the last call what its callee promises.
Expected(f, k) ==
    LET test == Body(f)[k]
    IN  CASE test.what = "value" ->
                 /\ test.on \subseteq DOMAIN Code[f].params
                 /\ \A g \in Function : \A j \in DOMAIN Body(g) :
                        Body(g)[j].op = "call" /\ Body(g)[j].fn = f =>
                            \A i \in test.on : \A v \in Contents :
                                Left(f, Body(g)[j].args, k, i, v) => v = test.is
          [] test.what = "result" ->
                 \E j \in 1..k-1 :
                     /\ LastCall(f, k, j) /\ test.on \subseteq DOMAIN Body(f)[j].args
                     /\ \A status \in Body(f)[j].ok : \A i \in test.on : \A v \in Contents :
                            Given(Body(f)[j].fn, Body(f)[j].args, status, i, v) => v = test.is
          [] test.what = "outside" -> \A i \in test.on : Shared(f, i)
          [] test.what = "within"  -> \A i \in test.on : Attr(f, i) \in {"in", "out", "inout"}

\* A call has an argument for each parameter, and a test expects what is promised.
ASSUME TestsAssumption ==
    \A f \in Function : \A k \in DOMAIN Body(f) :
        /\ Body(f)[k].op = "call" =>
               Len(Body(f)[k].args) = Len(Code[Body(f)[k].fn].params)
        /\ Body(f)[k].op = "test" => Expected(f, k)
------------------------------------------------------------------------------
Start(f) ==
    /\ stack = <<>> /\ ~aborted /\ runs < MAX_SAMPLES
    /\ stack' = <<Frame(f, <<>>)>>
    /\ failed' = {} /\ runs' = runs + 1
    /\ UNCHANGED <<enclave, heap, aborted>>

Advance == [stack EXCEPT ![1].pc = @ + 1]

\* What a test of a function is about: its parameters, where they lie, or the
\* variables of the call it made last.
Holds(test) ==
    \A i \in test.on :
        CASE test.what = "value"   -> Value(i) = test.is
          [] test.what = "result"  -> Top.args[i] = test.is
          [] test.what = "outside" -> Shared(Top.fn, i)
          [] test.what = "within"  -> Attr(Top.fn, i) \in {"in", "out", "inout"}

\* assert(), or a condition that leads to abort().  TestsHold says that none
\* fails, so what happens then is left out.
Test ==
    /\ At("test")
    /\ stack' = Advance
    /\ UNCHANGED <<enclave, heap, aborted, failed, runs>>

Write ==
    /\ At("write")
    /\ stack' = IF Shared(Top.fn, Op.on)
                THEN [Advance EXCEPT ![2].args[Op.on] = Op.is]
                ELSE [Advance EXCEPT ![1].par[Op.on] = Op.is]
    /\ UNCHANGED <<enclave, heap, aborted, failed, runs>>

\* The ECALL that is running ends; so does every later one at once.
EnclaveDies(status) ==
    /\ enclave' = status /\ heap' = 0
    /\ stack' = [Tail(stack) EXCEPT ![1].status = status]

\* malloc or new: without memory the enclave aborts, or faults if it goes on
\* with NULL because NDEBUG is defined.
Malloc ==
    /\ At("malloc")
    /\ \/ stack' = Advance /\ heap' = heap + 1 /\ UNCHANGED enclave
       \/ EnclaveDies("SGX_ERROR_ENCLAVE_CRASHED")
    /\ UNCHANGED <<aborted, failed, runs>>

\* Mutation: the block is not given back.
FreeNothing ==
    /\ At("free")
    /\ stack' = Advance
    /\ UNCHANGED <<enclave, heap, aborted, failed, runs>>

Free ==
    /\ At("free")
    /\ stack' = Advance /\ heap' = heap - 1
    /\ UNCHANGED <<enclave, aborted, failed, runs>>
------------------------------------------------------------------------------
Calling == At("call") /\ Top.status = "none"
Called  == At("call") /\ Top.status # "none"

CallFails ==
    /\ Calling
    /\ \E status \in Refusals(Op.fn) :
           stack' = [stack EXCEPT ![1].args = Op.args, ![1].status = status]
    /\ UNCHANGED <<enclave, heap, aborted, failed, runs>>

CallEnters ==
    /\ Calling
    /\ IsEcall(Op.fn) => enclave = "alive" /\ Allowed(Op.fn)
    /\ stack' = <<Frame(Op.fn, CopyIn(Op.fn, Op.args))>>
                    \o [stack EXCEPT ![1].args = Op.args]
    /\ heap' = heap + Buffers(Op.fn)
    /\ UNCHANGED <<enclave, aborted, failed, runs>>

Return ==
    /\ AtEnd /\ Len(stack) > 1
    /\ IsEcall(Top.fn) \/ enclave = "alive"
    /\ stack' = [Tail(stack) EXCEPT ![1].status = "SGX_SUCCESS",
                                    ![1].args = CopyOut(Top.fn, Top.par, @)]
    /\ heap' = heap - Buffers(Top.fn)
    /\ UNCHANGED <<enclave, aborted, failed, runs>>

\* An OCALL cannot return into an enclave that is no more: the ECALL around it
\* fails.
ReturnToLost ==
    /\ AtEnd /\ Len(stack) > 1
    /\ ~IsEcall(Top.fn) /\ enclave # "alive"
    /\ stack' = [Tail(Tail(stack)) EXCEPT ![1].status = enclave]
    /\ UNCHANGED <<enclave, heap, aborted, failed, runs>>

\* Of a call that failed the sample's run keeps a record.
Remember ==
    failed' = IF Top.status = "SGX_SUCCESS" THEN failed
              ELSE failed \cup {<<Op.fn, Top.status>>}

\* The caller goes on with the statuses in Op.ok.
Accept ==
    /\ Called /\ Top.status \in Op.ok
    /\ stack' = [Advance EXCEPT ![1].status = "none"]
    /\ Remember
    /\ UNCHANGED <<enclave, heap, aborted, runs>>

\* Mutation: the status is not looked at.
GiveUpNever ==
    /\ Called /\ Top.status \notin Op.ok
    /\ stack' = [Advance EXCEPT ![1].status = "none"]
    /\ Remember
    /\ UNCHANGED <<enclave, heap, aborted, runs>>

\* abort(): of the process, or of the enclave.
GiveUp ==
    /\ Called /\ Top.status \notin Op.ok
    /\ IF IsEcall(Top.fn)
       THEN EnclaveDies("SGX_ERROR_ENCLAVE_CRASHED") /\ UNCHANGED aborted
       ELSE stack' = <<>> /\ aborted' = TRUE /\ UNCHANGED <<enclave, heap>>
    /\ Remember
    /\ UNCHANGED runs

SampleEnds ==
    /\ AtEnd /\ Len(stack) = 1
    /\ stack' = <<>>
    /\ UNCHANGED <<enclave, heap, aborted, failed, runs>>

\* "Power transition occurred."
LoseEnclave ==
    /\ enclave = "alive" /\ ~aborted
    /\ IF stack # <<>> /\ IsEcall(Top.fn)
       THEN EnclaveDies("SGX_ERROR_ENCLAVE_LOST")
       ELSE enclave' = "SGX_ERROR_ENCLAVE_LOST" /\ heap' = 0 /\ UNCHANGED stack
    /\ UNCHANGED <<aborted, failed, runs>>

Step ==
    \/ Test \/ Write \/ Malloc \/ Free
    \/ CallFails \/ CallEnters \/ Return \/ ReturnToLost \/ Accept \/ GiveUp \/ SampleEnds

Finished == stack = <<>> /\ (aborted \/ runs = MAX_SAMPLES) /\ UNCHANGED vars

Next == Step \/ LoseEnclave \/ (\E f \in Samples : Start(f)) \/ Finished

Spec == Init /\ [][Next]_vars
------------------------------------------------------------------------------
Frames == [fn : Function, pc : Nat, par : Seq(Contents), args : Seq(Contents),
           status : Statuses \cup {"none"}]

\* Type invariant: App and enclave alternate on the stack, from the sample up.
TypeOK ==
    /\ stack \in Seq(Frames)
    /\ \A k \in DOMAIN stack :
           /\ IsEcall(stack[k].fn) <=> (Len(stack) - k) % 2 = 1
           /\ stack[k].pc \in 1..Len(Body(stack[k].fn)) + 1
    /\ enclave \in Errors \cup {"alive"}
    /\ aborted \in BOOLEAN /\ runs \in 0..MAX_SAMPLES

\* Every assertion of the App and of the enclave holds, and so does every other
\* condition that would end the process, whatever was lost or refused before:
\* a function that runs has got the data its declaration promises, and a call
\* that returned successfully has left the promised result.
TestsHold == At("test") => Holds(Op)

\* A sample that ran to its end had no call fail, at whatever depth, except
\* the direct call of the private ECALL and lines that were not printed.
FailuresNoticed ==
    stack = <<>> /\ ~aborted => failed \subseteq Tolerated

\* As long as the process lives, no ECALL that is over has left a block on the
\* enclave's heap, its own or the stub's; and none is given back twice.
HeapBalanced ==
    /\ heap \in Nat
    /\ heap > 0 /\ ~aborted => \E k \in DOMAIN stack : IsEcall(stack[k].fn)
==============================================================================
