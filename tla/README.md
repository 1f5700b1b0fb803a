# A verification of sgx_benchmark

`sgx_benchmark` measures what an SGX enclave costs: entering and leaving it
(switching), memory management with EDMM, and memory access.  It has grown out
of the SDK's sample enclave and still carries that sample's tests of the
trusted thread library and of the edger8r attributes.  This directory models
the parts of it whose correctness is not evident from a test run, checks them
with TLC and proves theorems about them with TLAPS.

All paths below are relative to `src/sgx_benchmark/`.

## 1. The system

| Part | Where | State | Operations |
|---|---|---|---|
| main program | `App/App.cpp` 389-473 | `global_eid`, the enclaves that exist | parse arguments, create the enclave, run one benchmark, destroy it; the create_enclave loop |
| switching benchmark | `App/App.cpp` 184-261, `Enclave/Enclave.cpp` 60-96 | the App's buffer, the buffers its ECALLs leave on the enclave's heap | loops of empty ECALLs and OCALLs, with and without a buffer to copy |
| memory management | `App/App.cpp` 263-342, `Enclave/Enclave.cpp` 98-195 | `pp`, the mappings and regions, the program break | six operations `num` times each, on both sides |
| memory access functions | `Enclave/Enclave.cpp` 197-306 | `seed`, the memory | sequential and random access in elements of 1, 4 and 8 bytes |
| memory access benchmark | `App/App.cpp` 344-386, `Enclave/Enclave.cpp` 308-345 | `global_t_mem`, `global_u_mem` and their sizes | prepare, access in sequence, access at random, for the App's and for the enclave's memory, for six sizes |
| mutex sample | `{App,Enclave}/TrustedLibrary/Thread.cpp` | `global_counter`, `global_mutex`; `counter` in the App | four adders |
| condition variable sample | the same | `buffer` (`cond_buffer_t`) | a producer, four consumers |
| `ecall_thread_functions` | `App/TrustedLibrary/Thread.cpp` 71-98 | its threads | start and join the two groups, assert in between |
| edger8r samples | `{App,Enclave}/Edger8rSyntax` | the call stack across the border, each frame's variables and copies, the enclave's heap | 4 samples on the App's side, 25 ECALLs, 5 OCALLs: arrays, pointers, strings and scalars passed with each attribute, nested and private calls |
| Libc, Libcxx samples | `{App,Enclave}/TrustedLibrary/Libc*.cpp` | the same | malloc and free, cpuid; exceptions, `std::map` |
| configuration, build, scripts | `Enclave/*.xml`, `Makefile`, `run_*.sh` | none | number of TCSs, heap size, NDEBUG, the arguments used |

How they interact.  The App calls into the enclave (ECALL); each call holds a thread
control structure (TCS) of the enclave until it returns, also while it waits in an
OCALL, and when none is free the call fails with `SGX_ERROR_OUT_OF_TCS`.  The enclave
may be lost at any time, after which calls fail with `SGX_ERROR_ENCLAVE_LOST`.  The
thread sample calls `abort()` on any status that is not success; the benchmarks ignore
every status.  The threads of the App share the statics of the enclave.  The memory
access benchmark hands the address of a buffer of the App to the enclave, which keeps it
between calls.  The App's memory management function always ends with the ECALL of its
enclave counterpart.  `main` creates an enclave, runs the one benchmark it was asked for
on it and destroys it.  The samples are declared in `App.h` but `main` calls none of
them: they may be run in any order. A sample's calls alternate between App and enclave:
its ECALLs make OCALLs, one of which makes ECALLs again.

What is hard.

- Threads: nine threads in two groups, a mutex, a second mutex with two
  condition variables, a result that a thread of the App copies without a lock,
  statics that outlive a call, a pool of TCSs that sleeping threads keep, and an
  enclave that may be lost while they sleep.
- Units: the access functions mix blocks and elements; their bounds and counts
  hold or fail by arithmetic that no test looks at.
- Lifetime: the enclave keeps a pointer to memory the App frees; it frees its
  own memory only just before it needs it; a generator must start again so that
  two runs can be compared.
- Partial failure: six operations in a row, each of which may fail half way,
  with a different way out in each; an enclave that is lost while its ECALL runs,
  at any depth of nested calls; statuses that nobody looks at.
- Copies: what a function sees and what its caller gets back depends on an
  attribute in another file; the samples' assertions, on both sides, rest on it.
- Widths and edges: `page_num * 4096` in an `int`; block sizes that `atoi` makes of
  anything.

What makes each part correct.

- Adders: no addition is lost, exactly one adder learns of the total, the App's
  assertion holds, the locked additions are atomic additions.
- Buffer: never over- or underfull, contents and indices agree with the
  threads' progress, no wakeup lost, no deadlock, drained when all are joined;
  it is a bounded FIFO channel.
- `ecall_thread_functions`: a call leaves nothing behind but the statics, each
  call returns or the process is aborted, whatever fails and whoever sleeps.
- Access functions: inside the memory, even passes, the bytes asked for, all of
  the memory, and an end.
- Access benchmark: the App's buffer is used only while it lives, the enclave's
  own memory is the one of the current size and the only one allocated, the compared
  runs do the same work, and the heap for one memory is enough for all.
- Memory management: an average printed for a positive `num` is an average, in pages
  of the size asked for, restriction is measured on extended pages, cleanup misses
  nothing, no failure on one side leaves anything on the other.
- Main program: the handle that is used is that of the one enclave that exists, no
  enclave survives the program, a printed time is that of the crossings it is
  divided by, and the program comes to an end, if not always to a good one.
- Samples: the assertions hold, no failure goes unnoticed at any depth, the heap is
  given back.

## 2. The modules

| Module | Models | Composed of, or refines |
|---|---|---|
| `EnclaveCall` | the runtime's TCS pool, the loss of the enclave and failing calls, from their use (external) | extended by `IncreaseCounter` and `CondBuffer` |
| `IncreaseCounter` | `increase_counter`, `ecall_increase_counter` | refines `AtomicCounter` |
| `AtomicCounter` | abstract: indivisible additions, one report | |
| `CondBuffer` | `data_producer`, `data_consumer` and their ECALLs | refines `BoundedChannel` |
| `BoundedChannel` | abstract: a bounded FIFO channel | |
| `ThreadFunctions` | `ecall_thread_functions`, called again and again | instances of `IncreaseCounter` and `CondBuffer` over one TCS pool |
| `MemoryAccess` | the access functions and `get_random` | |
| `MemoryAccessBench` | `memory_access_benchmark`, the prepare ECALLs | an instance of `MemoryAccess` |
| `MemoryManagement` | both memory management functions | |
| `EnclaveBridge` | a call stack across the border: copying, refusals, allow lists, loss of the enclave; the stubs and the runtime are external | runs the tables of the next |
| `Edger8rSamples` | the functions of the eight files of the edger8r samples and of `Libc.cpp`, as tables | used by `MCEnclaveBridge` |
| `BenchMain` | `main`, `initialize_enclave`, `switching_benchmark`, the calls of the other benchmarks | |
| `MC*` | values for TLC | extend the module they are named for |
| `*Proofs` | theorems and proofs | extend the module they are named for |

Definitions marked "Mutation" are small plausible bugs.  No specification uses
them; each has the parameters of a definition of the model, and putting it in
that definition's place must make TLC find a certain property violated.

### Correspondence

*Granularity.*  In the thread modules an action is what one thread does between
two points at which another thread can make a difference: the lock, the read,
the write back, the unlock; the test of `occupied`, the access, the signal, the
unlock.  Accesses under the mutex could be merged; they are separate so that the
model does not assume what the mutex is there for.  `sgx_thread_cond_wait`
releases the mutex and joins the wait set in one step (`ProducerWaits`,
`ConsumerWaits`); its second half is `Relock`.  A signal moves any one waiter
out of the wait set, though the SDK's queues are FIFO: the properties do not
need the order.  The wait sets hold threads that sleep in an OCALL, so they keep
their TCS.

*TCS pool, failing calls.*  `tcs` is the set of threads inside.  Every caller aborts on
any status but `SGX_SUCCESS`, so `CallFails` is the failing ECALL, for whatever reason,
together with the `abort()`, which stops everything; `EnterFails` is a call that fails
before it gets inside, with a TCS free or not.  `LoseEnclave` (`Lose` in the other
modules) may destroy the enclave at any time.  From then on nobody moves inside: a
thread that runs there, or that waits for a mutex that is free, finds its ECALL failed
(`LostInside`); a thread that sleeps in an OCALL is told nothing, so that it stays
where it is until another thread aborts the process.

*`ThreadFunctions`.*  `phase` is the point of the calling thread.  The statics
keep their values from call to call, the threads' locals start anew.

*`MemoryAccess`.*  The three types of elements are one definition: `Width` bytes
per element, `Step` elements per block, `Length` the upper bound for an index
and `need` the variable `num_need_access`.  A memory is a function from its
bytes to the number of accesses.  `get_random` is a deterministic sequence: the
first time its n-th output after `seed = 0` is asked for it may be any value of
`RandomValues`, from then on it is that value.

*`MemoryAccessBench`.*  `at` is the next statement of the loop body, with those of
the ECALL that prepares the enclave's own memory as steps of their own (`FreeT`,
`MemalignT`, `WarmT`; `Body` has their order); an access ECALL runs the instance of
`MemoryAccess` on the memory it is for.  `heap` counts the free bytes of the enclave's
heap, `global_t_mem` names the block the pointer points to: `memalign` gives NULL when
the heap has not enough left, and it is the warm-up write through NULL that the enclave
does not survive.  A prepare ECALL fills the memory, and the counts of accesses start
from there.  When the enclave has `crashed`, all later ECALLs return an error that the
App ignores.  After `free(mem)` the counts of the App's buffer
are kept, for the comparison in `SameWork`.

*`MemoryManagement`.*  One state machine for both functions, with `OnFailure` and
`After` for the two ways they go on.  `faults` is the set of calls that may fail in an
execution, one of `FaultSets`; a call in it may also succeed, and succeed only at a
second attempt.  TLC is given all sets of two calls, the proofs take any sets. `num` is
any int, as `main` takes what `atoi` returns: 0 ends the process at the first division,
and with a negative number the loops make no call and every line is printed.  `size` is
what the running function has for `page_num * 4096`: the overflow is undefined, so it is
the product or the product wrapped to an `int` (`Sizes`), chosen anew by each of the two
functions.  `pp` is the array of pointers, which either side may fail to get
(`PpMissing`: the App ends at the first write, the enclave is lost).  In the enclave's
cleanup an element that was never written is a pointer to nothing that is allocated,
which the SDK refuses.

*`EnclaveBridge`* is the machine, `Edger8rSamples` the programs.  A function's entry
holds its side, whether it is public, what it allows, the attributes of its
parameters as in the EDL files, and its body: a sequence of tests (the assertions and
the conditions that lead to `abort()`), writes, `malloc` and `free`, and calls with
the statuses the caller accepts.  A parameter list has one entry for each array
element, for a string or a scalar, and for a return value.  Contents are told apart by
who wrote them: `caller` (what the caller passed at this place), `callee` (what the
function is to make of it), `zero` (a cleared `[out]` buffer), `overwritten` (a
string after `memset`).  A frame is a function's control point, its parameters (its
own copies unless `[user_check]`), and the variables and status of its current call.
`LoseEnclave` ends the enclave at any step; an OCALL that is running then goes on and
finds no enclave to return to (`ReturnToLost`).  `SGX_ERROR_OUT_OF_MEMORY` and a failed
`malloc` or `new` are possible wherever memory is needed.

*`BenchMain`.*  `pc` is the statement of `main`; a benchmark is a sequence of phases, one
for each loop between two time stamps with the line it prints, the warm-up
loop included.  `n` counts the calls of the phase, `good` the crossings
that did what the line is about, `inside` and `i` are the buffer and the loop counter
of an `ecall_ocall_*` function, whose buffer is never freed (`leaked`).  `faults`
records what went wrong, by the phase where it did: a creation, an allocation on
either side, memory for a copy, the loss of the enclave.  `MemalignFails` is the App's
failed `memalign`: the assertion ends the process (`aborted`), or with `NDEBUG` the
enclave dies of the NULL it is given.  The enclave's own assertion, in the OCALL loops, is
in every build, as the Makefile's `Enclave_C_Flags` do not define `NDEBUG`.  `PpMissing`
is `pp == NULL` on either side of memory management, which traps the App or the
enclave.  `AccessOutcomes` says what an
access ECALL does with any block size, as far as `main` can tell; what it does in
detail is `MemoryAccess`.

## 3. What is checked

| Run | Instance | Distinct states | Shows |
|---|---|---|---|
| `adders` | 4 adders as in the source, 3 loops, 4 TCSs | 190 147 | all safety properties of `IncreaseCounter` and the refinement |
| `buffer` | 4 consumers as in the source, 2 loops, 3 slots, 5 TCSs | 36 938 | all safety properties of `CondBuffer` and the refinement |
| `thread_functions` | 2 adders, 2 consumers, 3 slots, 3 calls | 13 970 | what a call leaves to the next |
| `thread_functions_fair` | 3 adders, 2 consumers, 1 slot, 2 TCSs, 2 calls | 65 398 | every call returns or aborts; calls that find no TCS, an enclave lost while threads sleep |
| `access` | 7 block sizes, 6 memory sizes, 6 byte counts | 38 893 | bounds, even passes, completeness for single elements, end |
| `access_total` | blocks of 8 to 32 bytes | violation | finding 1 |
| `access_cover` | blocks of 8 and 16 bytes | violation | finding 2 |
| `bench` | 3 sizes, 3 block sizes, 2 heaps, both builds, failing allocations | 7 974 | lifetime on both sides, same work, heap, end |
| `management` | -2, 0, 1 and 3 regions, 6 page numbers, any two calls may fail | 721 869 | averages, order of protections, cleanup, what is left, pages as printed, end |
| `management_average` | the same, any one call may fail | violation | finding 3 |
| `samples` | the 5 samples, any two in a row, lost enclaves, failing allocations | 1 296 | assertions, failures noticed, heap |
| `main` | 5 kinds of commands with 2 to 5 arguments, 8 more block sizes, a `num` of 0 and of -1, both builds, three accidents | 145 218 | life of the enclave, meaning of the lines, end |

*Bounds.*  The sources' 4 adders and 4 consumers are kept where safety is checked.  500
loops become 2 or 3: an adder's loop has no state but its counter, and what is special
is the last addition, with which any other adder's steps interleave.  The 50 slots
become 1 or 3: the ring is empty, partly filled, full and wraps several times in each
run, and the total is no multiple of 3, so that a call of `ThreadFunctions` starts at
another slot than the one before.  Memory sizes are a few blocks with and without a
remainder; `MaxDraws` bounds the random accesses of one call, as each multiplies the
states, and a handful of draws already includes repeated, first and last positions.  The
heaps of `bench` hold 60 and 72 bytes for memories of 24, 48 and 72: one just holds the
largest, the other all but the largest, and neither holds the last two of a run at once.
Two faults in an execution are enough for a failed call followed by a failed cleanup.
In `management` an `int` has 8 bits (`INT_MAX` 127) and a page 4 bytes, so that the page
numbers meet every case: 31 and -1 pages fit, 32 and 64 wrap to a negative size and to
zero, 65 to one page, -40 to 24.  `MAX_SAMPLES` is 2: a sample leaves nothing to the
next but the enclave, alive or lost, so a third meets no new state.  In `main`, `LOOPS`
is 10, the least that has a warm-up iteration, `CREATE_LOOPS` 3, and `MAX_FAULTS` 3:
what excuses a line is at most one fault of its own phase, one allocation and one loss.
The block sizes there are -8, 0, 1, 3, 4, 8, 32, 64 and 72, the memories 64 and 128
bytes: a block may be larger than one memory, and than both.  `ROUNDS` is the number of
calls of `ecall_thread_functions`: the second differs from the first (the total was
reached before), the third from neither.

*Symmetry* is used in `adders`, `buffer` and `thread_functions`, whose threads are
interchangeable, and not with the liveness property.

*Fairness.*  `FairSpec` is weak fairness of the whole next-state relation (of its
part that does something): some thread that can run is run.  No thread, lock or
condition queue is assumed to be fair, and none needs to be, because all loops
are bounded and every wakeup is paid for by a signal.  The benchmarks are
sequential programs.  `FairSpec` leaves `Lose` and `LoseEnclave` out: the loss of an
enclave is possible, never due.  `samples` checks safety only.

*Types.*  Type invariants are proved (section 4) where a module has one, and no run
repeats them.

*Deadlock* is checked in every run.  The systems stop only where the code does,
after the last join, at the end of a benchmark, after `abort()`; those states have
a stuttering step of their own.

## 4. What is proved

`IncreaseCounterProofs` proves, for every finite set of adders, every number of
loops and every number of TCSs, that `Spec` implies `[]TypeOK`, `[]NoLostUpdate`,
`[]SoleReport`, `[]AssertHolds` and the refinement `AtomicSpec`, also when calls fail
and the enclave is lost at any point.

The properties are not inductive.  The invariant `IInv` adds to them

- `ControlInv`: exactly the owner of the mutex is between lock and unlock, the
  loop counter is below its bound there and at it after the loop, and `tcs` is the
  set of threads inside.  Without it two adders could be at `write`.
- `TmpInv`: an adder about to write back has read the current value.
- `ReportInv`: the total is reported when it is reached and not before, and is in
  `counter` once the adder that reported it is done.

The heart of the proof is counting.  The additions made are a set of pairs of an
adder and a number up to its count; the global counter is the cardinality of
that set.  It is a subset of a product of known cardinality, so the counter is
at most the total (`AddsBound`), an addition adds one pair (`AddsGrow`), and when
all adders are done the set is the whole product (`AddsComplete`), so the total
was reached and reported.

Assumed: `AdderAssumption` and `TcsAssumption` (finitely many adders, at least one
loop and one TCS, the value for "no owner" is not an adder), which TLC evaluates
in every run that uses the module.

`CondBufferProofs` proves all safety properties of the ring buffer and the
refinement `ChannelSpec`, for every finite set of consumers, every number of
loops, slots and TCSs.  Its `IInv` adds to the properties

- `ControlInv`: the mutex's owner, the two wait sets, the loop counters and `tcs`
  agree with the control points;
- `AccessInv`: what a thread has tested about `occupied` is still true when it
  acts on it.  This is what the `while` around `sgx_thread_cond_wait` is for:
  with an `if` it is not preserved by `Relock`;
- `ProducerInv`: `nextin` is the number of items put, modulo the size.

Three arguments carry the proof.  *The ring*: `Wrap` and `NextMod` say what `%`
does to places less than a round apart, `FilledPlace` and `FilledShift` that
`Filled(1)`, `Filled(2)`, ... are distinct slots and move up by one with each
take; after that `PutRing` and `TakeRing` are linear arithmetic.
*Conservation*: the items taken are a set of pairs of a consumer and a number,
as the additions are above, and `occupied` is the number put less its cardinality.
*Wakeups*: the set of awake consumers loses one for each item taken and
gains one for each signal that finds a waiter, so the inequality of
`NoLostWakeup` holds after every step; `NoDeadlock` follows from it and from
conservation (a sleeping consumer means an empty buffer with everything put and
so everything taken, a sleeping producer a full one with everything taken).
For the refinement the channel is the sequence of the occupied slots
(`ItemsInv`); `Put` appends to it, `Take` removes its first item, and no other
step changes it.

`ThreadFunctionsProofs` puts the halves together: `[]CleanBetweenCalls`,
`[]StaleCopy` and `[]BufferIntact`, for every number of calls.  The lemmas of the two
modules above are cited through instances of them (`A` and `B`), so nothing is proved
twice.  The invariant says what a half leaves behind for the other and for the next
call: the ring clean with its indices wherever they are (`RingClean`), nobody in the
enclave (`Outside`), and the total of `n` calls in the enclave's counter with the App's
copy of the first call's total (`Counted`).  While the adders run, the first call is
under their `IInv`; a later one is under `QuietInv`, which is weaker where it must be:
the counter starts from the calls before, passes no total again, and so no adder
reports one.  That is why `StaleCopy` holds and why the App's assertion compares an old
value from the second call on.

`MemoryAccessProofs` proves `[]TypeOK`, `[]InBounds`, `[]EvenPasses`, `[]ElementsCovered`
and `[]ElementsProcessed` for
memories, numbers of bytes and blocks of every size.  For the bounds: an element is no larger
than a block, and the lengths count whole blocks, so a block that starts below
the length ends inside the memory (`BlockInMemory`); this is the argument that the
mixed units of finding 2 are harmless to memory safety.  For the passes, `PassInv`
says that a sequential call has made `p` whole passes over the first multiple of the step
that is no less than the length, and one more up to `i`; a call that has returned with as many
blocks asked for as the memory has can therefore have left none out.  `ElementsProcessed`
is about the sum of the accesses to all bytes, a fold over a memory of any size.  The
library's induction over finite sets cannot be used here, since it takes an operator as a
parameter; instead `MinimalSubset` gets a least counterexample from the fact that the
strict subsets of a finite set are a well-founded order.  With it the fold is the
cardinality of the set of numbered accesses (`FoldIsCardinality`), an access adds
as many new members as the element has bytes (`TouchedCardinality`), and `SumInv` is what
the loop keeps: the bytes accessed are those of the blocks asked for and no longer needed.

`MemoryAccessBenchProofs` proves `[]TypeOK`, `[]HostMemoryAlive`,
`[]TrustedMemoryAlive`, `[]EnclaveSurvives` and `[]SameWork` for any increasing sizes,
block sizes and heap.  `InCall` ties the running access function to the statement of the
App that called it, and `Buffer` says what the App's buffer and the enclave's pointer to
it are at each of those statements; a failed `memalign` reaches them only with `NDEBUG`
and kills the enclave at its first write.  `Held` says which size `global_t_mem` has at
each statement, and `Heap` that it is all that the heap lacks; so after `free` the whole
heap is there for the next `memalign` (`FreeTInv`, `MemalignTInv`, `WarmTInv`).  That
the last size is the largest (`LastIsLargest`) makes the heap sufficient for each.
`SameWork` compares two runs that are far apart, and its argument is determinism.
`Situation` is what the future of a call depends on, `After` the situation that follows
it for given outputs of `get_random`.  A call leaves a trace of situations (`Trace`),
which stays one when more outputs are drawn (`Extends`).  The ECALLs on the App's memory
leave their traces behind (`UDone`); those on the enclave's memory start from the same
counts and the same first output, since `seed` is 0 again, and are each at some
situation of the trace they repeat (`Repeats`), so they end where it ended.  Without the
reset of `seed` at the start of a random access the traces would differ (the mutation
`SeedKept`).

`MemoryManagementProofs` proves `[]TypeOK`, `[]AveragesWhereLeftByGoto`,
`[]RestrictsExtended`, `[]CleanupComplete`, `[]PagesAsPrinted` and `[]NothingLeftBehind`
for any int as the number of regions, any page number and any sets of failing calls
(`FaultSets` is a constant about which nothing is assumed).  `Loops` says what each loop has
turned the regions below `i` into, `Break` how far the program break is raised,
`Reports` what a printed line can be, and `Cleaned` that whatever is allocated has its
pointer in `pp`, which is what the cleanup relies on when it comes from the middle
of a loop.  `Paged` says that a size is a number of pages even where the product has
wrapped, which needs the page size to divide the range of an `int` (part of
`ManagementAssumption`; 4096 divides 2^32).  `Progress` follows a side on which no call
fails: it has printed the lines of all operations before the one it is at, and leaves
nothing behind, whatever becomes of the other side.

`EnclaveBridgeProofs` proves `[]TypeOK` for *every* table of functions that is
well-formed, not only the samples'.  Its invariant is about the stack: frames below the
top wait at a call of the frame above (`Chained`) with arguments still as passed, App
and enclave alternate from the sample up (`Alternate`), and the top frame has a status
only at a call (`TopOK`).  The lemmas `TopChanges`, `Push` and `Pop` with their
consequences reduce each action to one of three changes of a stack.  The shared
`[user_check]` memory of a caller is written by its callee only, so it is the one
exception in `Chained`.

Three more properties are about what the bodies do, and hold for every table in which
each body, *taken by itself*, does its part; the proofs are that the parts fit together
however calls nest and wherever one of them fails.

- `[]FailuresNoticed`, for tables that accept only the tolerated failures
  (`StatusAssumption`).  `Noticed`: once a failure has been recorded that is not
  tolerated, the process is aborted or a function of the App is at a call that returned
  a status it does not accept (`Forsaken`), and all it can do is `abort()`.  What makes
  it inductive is that an ECALL which gives up dies at once, with its failure passed to
  its caller, and that an ECALL is never told of a lost enclave (`Answered`).
- `[]HeapBalanced`, for tables whose bodies free their own blocks (`BlocksAssumption`).
  `HeapInv`: the enclave's heap is the sum, over the frames, of the stub's buffer and
  of the blocks the body has allocated so far (`Held`, `Accounts`).  The property
  is restricted to a live process: `abort()` inside a nested OCALL leaves the
  heap as it is, which showed when the proof was first tried without that condition.
- `[]TestsHold`, for tables in which a test expects what the declarations and the
  bodies promise (`TestsAssumption`).  `Left` is what a body has written to a parameter
  before one of its operations, `Given` what its caller may then find for each status;
  both look at one body only.  `DataInv` says that the running system keeps the promise:
  every frame has its parameters (`Passed`), which for `[user_check]` means the frame
  below it, and the top one has the results of its last call (`Results`).  The
  assumption does not mention the copying; `CopyIn` and `CopyOut` are
  shown to do what the declarations say.

`BenchMainProofs` proves `[]TypeOK` (with the bound of three leaked blocks),
`[]HandleValid`, `[]NothingOutlivesMain` and `[]LinesMeanWhatTheySay` for any command
lines, sizes, loops and number of faults.
`PhaseKinds` says that a phase is one of five kinds; with it, `Life` relates `pc`, the
handle, the enclaves and a missing buffer, `Inside` and `Leaks` the OCALL loops to their
phases, and `LossExplained` says what an enclave can have been lost to: an accident, a
failed `memalign` of the App, memory management, or a block size that was not asked for.  On
top of it `Progress` says how many crossings have been good so far, for each kind of
phase, unless a fault excuses the line (`Excused`); a line is printed at the end of a
phase, when the count is complete.

Assumed in all of these are only the named assumptions on the constants
(`BufferAssumption`, `TcsAssumption`, `ThreadsAssumption`; `AccessAssumption`: a memory
holds at least one block; `BenchAssumption`, `ManagementAssumption`, `MainAssumption`; and of
the table `BridgeAssumption`, `StatusAssumption`, `BlocksAssumption`, `TestsAssumption`).
TLC evaluates each of them, those about the table on the whole table of the samples.

All safety properties, action properties and refinements that the passing runs check
are theorems.  Only model-checked are the liveness properties, which need fairness:
`CallsReturn`, `BenchmarkEnds`, the two `Termination`s and `Terminates`.  The provers
have no rule for `WF_` of a whole next-state relation without `ENABLED`.  What is behind
them is partly proved: a bound on what each loop has left to do is in the invariants
(`ControlInv`, `PassInv`, `SumInv`, `Loops`), and `NoDeadlock` is a theorem.

## 5. Findings

1. *Total* (`access_total`).  With blocks of 16, 32 or 64 bytes a call processes
   `bytes_need_access / step` bytes: `num_need_access` is initialised in blocks and
   decremented in elements (`Enclave/Enclave.cpp` 235 and 244, 272 and 281).  The
   README's loop runs until "all 4096MB memory has been processed".
2. *Coverage* (`access_cover`).  For the same block sizes `i64_mem_len` is in blocks
   and bounds an index in elements (237 and 240), so that only the first
   `1/step` of the memory is accessed, whatever its size.  It is this that keeps
   the accesses in bounds (`InBounds`).  The random positions have the same bound.
3. *Averages* (`management_average`).  A failed `sgx_tprotect_rsrv_mem` leaves its
   loop with `break`, and the time of the calls made is printed divided by `num`.

Not findings, but worth knowing: from the second call of `ecall_thread_functions` on,
the assertion compares a value the first call left (`StaleCopy`); the shipped
configuration has one TCS and is not meant for the thread sample, which would abort at
the first call that finds the TCS taken (`CallsReturn` allows it); a negative number of
regions prints lines about calls that were not made (the properties of memory management
speak of a positive one); the OCALL loops with a buffer leave it on the enclave's heap
(three blocks a run, `TypeOK` of `BenchMain`); the only check of the App's `memalign` is
an assertion that the default build compiles out (`EnclaveSurvives` names the case).

## 6. What is not modelled

- Times, and the values of the memory; the quality of `get_random` and its signed
  overflow, which is taken to wrap.
- What is printed: `print_error_message`, formats, the time stamp counter.  Lines are
  modelled where a property is about what they count.
- `Libcxx.cpp`: an exception thrown and caught within one ECALL and a local
  `std::map`; nothing but the C++ library could go wrong there.
- In the samples, the number `checksum_internal` computes, which is only printed;
  `almost_equal` is equality of the value that was passed.
- The CPU affinity that `main` sets, which no other state depends on.
- Build files and scripts, but for the values they give to constants.

The runtime, the generated stubs, the SDK's mutexes and condition variables, the
kernel's and the SDK's memory functions are not in the repository: they are external
and modelled from their use.

## 7. Plan

1. done: the thread samples, their composition, the access functions and
   benchmark, memory management.
2. done: the proofs of both halves of the thread sample with their refinements,
   and of the bounds and passes of the access functions.
3. done: the main program with the switching benchmark, and its proofs.
4. done: the edger8r and Libc samples over a model of the bridge, and its proofs.
5. done: proofs of the access benchmark and of memory management.
6. done: the composition of the thread samples from the proofs of its parts; the
   totals of the access functions, by induction over finite sets; that the compared
   runs of the access benchmark do the same work; what memory management leaves
   behind and prints; the heap, the failures and the tests of the samples, for every
   table whose bodies do their part.
7. done: every failing status and a lost enclave in the thread modules; the enclave's heap
   in the access benchmark; negative numbers of regions and any sets of failing calls in
   memory management; the ends of `main` by assertion and by `pp == NULL`.
8. Left: proofs of progress short of liveness, as a measure that decreases with each
   step of a loop, for the benchmarks that are sequential; tidying of long proofs.
