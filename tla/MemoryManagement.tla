-------------------------- MODULE MemoryManagement ---------------------------
(***************************************************************************)
(* memory_management_benchmark of the App, and the ECALL                   *)
(* ecall_memory_management_benchmark that it ends with.  Each runs six     *)
(* operations, one after the other, num times each: map or allocate        *)
(* regions, extend their protection, restrict it, free them; raise the     *)
(* program break, lower it again.  After each operation it prints the time *)
(* divided by num.  main passes on whatever int it reads: with a negative  *)
(* num the loops do nothing and the lines are printed all the same.        *)
(*                                                                         *)
(* The two differ in what they do when a call fails.  The calls in faults  *)
(* may fail, each time they are made; the kernel and the SGX SDK, which    *)
(* decide that, are not part of the repository.                            *)
(* An uninitialised element of pp is read as NULL or as a pointer to       *)
(* nothing that is allocated.  Without memory for pp the first element's   *)
(* write ends the process, or the enclave.                                 *)
(***************************************************************************)
EXTENDS Integers

CONSTANTS
    Nums, PageNums,         \* what the command line may ask for
    FaultSets,              \* sets of calls that may fail in one execution
    PAGE_SIZE,              \* 4096
    INT_MAX                 \* of int; like PAGE_SIZE, INT_MAX + 1 is a power of two

Sides == {"host", "enclave"}
Operations == {"alloc", "extend", "restrict", "free", "grow", "shrink"}

ASSUME ManagementAssumption ==
    /\ Nums \in SUBSET Int /\ PageNums \in SUBSET Int
    /\ PAGE_SIZE \in Nat \ {0} /\ INT_MAX \in Nat
    /\ (2 * (INT_MAX + 1)) % PAGE_SIZE = 0

VARIABLES
    num, page_num,          \* arguments of both functions
    size,                   \* page_num * 4096 as the running function has it
    faults,                 \* calls that may fail: side, operation, index
    side, op, i,            \* the running function, its operation and counter
    pp,                     \* pp[k] of the running function
    region,                 \* protection of the regions, by side and index
    brk,                    \* raises of the program break not taken back
    reports                 \* lines printed: operation and calls it made

args == <<num, page_num, size>>
vars == <<args, faults, side, op, i, pp, region, brk, reports>>

Indices == 0..num-1

\* How often for (int i = 0; i < num; ++i) goes round.
Passes == IF num > 0 THEN num ELSE 0

\* Mutation: the size is kept in a shorter type.
SizesShort == {(page_num * PAGE_SIZE) % ((INT_MAX + 1) \div 2)}

\* int size = page_num * 4096, whose overflow is undefined: the product may wrap
\* around or, where the compiler uses a wider register, be right.
Sizes ==
    LET product == page_num * PAGE_SIZE
        modulus == 2 * (INT_MAX + 1)
    IN  {product, ((product + INT_MAX + 1) % modulus) - (INT_MAX + 1)}

\* Every call but the two of the enclave's initial heap has an index.
CallsOf(n) ==
    (Sides \X Operations \X (0..n-1)) \cup ({"enclave"} \X {"prepare", "finish"} \X {0})
    \cup (Sides \X {"malloc"} \X {0})

MayFail(o, k) == <<side, o, k>> \in faults

Init ==
    /\ num \in Nums /\ page_num \in PageNums /\ size \in Sizes
    /\ faults \in {F \in FaultSets : F \subseteq CallsOf(num)}
    /\ side = "host" /\ op = "alloc" /\ i = 0
    /\ pp = [k \in Indices |-> "uninitialised"]
    /\ region = [s \in Sides |-> [k \in Indices |-> "none"]]
    /\ brk = [s \in Sides |-> 0]
    /\ reports = {}
------------------------------------------------------------------------------
\* Protection of a region after a successful call of op.
Protection == [alloc |-> "rw", extend |-> "rwx", restrict |-> "r", free |-> "none"]

\* mmap or sgx_alloc_rsrv_mem and the writes to the new pages, mprotect or
\* sgx_tprotect_rsrv_mem, munmap or sgx_free_rsrv_mem, and sbrk.  No memory of
\* size 0 is given, nor of a negative size, which is a huge size_t.
CallSucceeds ==
    /\ op \in Operations /\ i < num
    /\ op = "alloc" => size > 0
    /\ i' = i + 1
    /\ IF op \in DOMAIN Protection
       THEN region' = [region EXCEPT ![side][i] = Protection[op]] /\ UNCHANGED brk
       ELSE /\ brk' = [brk EXCEPT ![side] = IF op = "grow" THEN @ + 1 ELSE @ - 1]
            /\ UNCHANGED region
    /\ pp' = IF op = "alloc" THEN [pp EXCEPT ![i] = "region"] ELSE pp
    /\ UNCHANGED <<args, faults, side, op, reports>>

\* Mutation: the App breaks out of its mprotect loops as the enclave does.
OnFailureBreak(s, o) ==
    CASE o \in {"extend", "restrict"}             -> "break"
      [] s = "host" /\ o \notin {"extend", "restrict"} -> "out"
      [] s = "enclave" /\ o \in {"alloc", "free"} -> "cleanup"
      [] OTHER                                    -> "return"

\* goto out, which in the enclave cleans up, break, or return.
OnFailure(s, o) ==
    CASE s = "host"                               -> "out"
      [] s = "enclave" /\ o \in {"alloc", "free"} -> "cleanup"
      [] s = "enclave" /\ o \in {"extend", "restrict"} -> "break"
      [] OTHER                                    -> "return"

\* The line printed for the operation o, and the pages it is really about.
Line(o) == [side |-> side, op |-> o, made |-> i, pages |-> size \div PAGE_SIZE]

\* Mutation: the App measures mprotect for ever.
AfterRepeats(s, o) ==
    CASE o = "alloc"    -> "extend"
      [] o = "extend"   -> "restrict"
      [] o = "restrict" -> IF s = "host" THEN "extend" ELSE "free"
      [] o = "free"     -> IF s = "host" THEN "grow" ELSE "prepare"
      [] o = "grow"     -> "shrink"
      [] o = "shrink"   -> IF s = "host" THEN "out" ELSE "finish"

\* Mutation: the enclave does not give its initial heap back.
AfterNoFinish(s, o) ==
    CASE o = "alloc"    -> "extend"
      [] o = "extend"   -> "restrict"
      [] o = "restrict" -> "free"
      [] o = "free"     -> IF s = "host" THEN "grow" ELSE "prepare"
      [] o = "grow"     -> "shrink"
      [] o = "shrink"   -> IF s = "host" THEN "out" ELSE "return"

\* The operation after o.
After(s, o) ==
    CASE o = "alloc"    -> "extend"
      [] o = "extend"   -> "restrict"
      [] o = "restrict" -> "free"
      [] o = "free"     -> IF s = "host" THEN "grow" ELSE "prepare"
      [] o = "grow"     -> "shrink"
      [] o = "shrink"   -> IF s = "host" THEN "out" ELSE "finish"

\* The operation's line; dividing by num ends the process if that is 0.
PrintLine ==
    IF num = 0
    THEN op' = "trapped" /\ UNCHANGED <<i, reports>>
    ELSE /\ reports' = reports \cup {Line(op)}
         /\ op' = After(side, op) /\ i' = 0

CallFails ==
    /\ op \in Operations /\ i < num
    /\ MayFail(op, i) \/ (op = "alloc" /\ size <= 0)
    /\ pp' = IF op = "alloc" THEN [pp EXCEPT ![i] = "error"] ELSE pp
    /\ IF OnFailure(side, op) = "break"
       THEN PrintLine
       ELSE op' = OnFailure(side, op) /\ i' = 0 /\ UNCHANGED reports
    /\ UNCHANGED <<args, faults, side, region, brk>>

\* pp = malloc(..) is not checked: pp[0] is written after its region is there.
PpMissing ==
    /\ op = "alloc" /\ i = 0 /\ num > 0
    /\ MayFail("malloc", 0)
    /\ op' = IF side = "host" THEN "trapped" ELSE "crashed"
    /\ region' = [region EXCEPT ![side][0] = IF size > 0 THEN "rw" ELSE @]
    /\ UNCHANGED <<args, faults, side, i, pp, brk, reports>>

Report ==
    /\ op \in Operations /\ i >= num
    /\ PrintLine
    /\ UNCHANGED <<args, faults, side, pp, region, brk>>

\* out: of the App.  pp is freed, the mappings are not; the ECALL is made.
HostOut ==
    /\ side = "host" /\ op = "out"
    /\ side' = "enclave" /\ op' = "alloc" /\ i' = 0
    /\ size' \in Sizes
    /\ pp' = [k \in Indices |-> "uninitialised"]
    /\ UNCHANGED <<num, page_num, faults, region, brk, reports>>

\* sbrk(heap_init_size) uses up the initial heap, sbrk(-heap_init_size) gives
\* it back.
InitialHeap ==
    /\ op \in {"prepare", "finish"}
    /\ \/ /\ brk' = [brk EXCEPT ![side] = IF op = "prepare" THEN @ + 1 ELSE @ - 1]
          /\ op' = IF op = "prepare" THEN "grow" ELSE "return"
       \/ /\ MayFail(op, 0)
          /\ op' = "return" /\ UNCHANGED brk
    /\ UNCHANGED <<args, faults, side, i, pp, region, reports>>

\* Mutation: the cleanup stops at the first region that cannot be freed.
CleanupStops ==
    /\ op = "cleanup" /\ i < num
    /\ \/ /\ pp[i] = "region" /\ region[side][i] # "none"
          /\ region' = [region EXCEPT ![side][i] = "none"]
          /\ i' = i + 1 /\ UNCHANGED op
       \/ /\ pp[i] # "region" \/ region[side][i] = "none" \/ MayFail("free", i)
          /\ op' = "return"
          /\ UNCHANGED <<region, i>>
    /\ UNCHANGED <<args, faults, side, pp, brk, reports>>

\* out: of the enclave, if (pp[i]) sgx_free_rsrv_mem(pp[i], size).  Only a
\* region that is still allocated can be freed; the status is ignored.
Cleanup ==
    /\ op = "cleanup" /\ i < num
    /\ \/ /\ pp[i] = "region" /\ region[side][i] # "none"
          /\ region' = [region EXCEPT ![side][i] = "none"]
       \/ /\ pp[i] # "region" \/ region[side][i] = "none" \/ MayFail("free", i)
          /\ UNCHANGED region
    /\ i' = i + 1
    /\ UNCHANGED <<args, faults, side, op, pp, brk, reports>>

CleanupEnds ==
    /\ op = "cleanup" /\ i >= num
    /\ op' = "return"
    /\ UNCHANGED <<args, faults, side, i, pp, region, brk, reports>>

Running ==
    \/ CallSucceeds \/ CallFails \/ PpMissing \/ Report
    \/ HostOut \/ InitialHeap \/ Cleanup \/ CleanupEnds

Ended == op \in {"return", "trapped", "crashed"}

Finished == Ended /\ UNCHANGED vars

Next == Running \/ Finished

Spec == Init /\ [][Next]_vars

\* One thread runs the benchmark and is not stopped.
FairSpec == Spec /\ WF_vars(Running)
------------------------------------------------------------------------------
\* Type invariant; the program break is never lowered below where it was.
TypeOK ==
    /\ side \in Sides
    /\ op \in Operations \cup {"prepare", "finish", "out", "cleanup", "return",
                             "trapped", "crashed"}
    /\ i \in 0..Passes
    /\ pp \in [Indices -> {"uninitialised", "error", "region"}]
    /\ region \in [Sides -> [Indices -> {"none", "rw", "rwx", "r"}]]
    /\ brk \in [Sides -> 0..Passes + 1]
    /\ reports \in SUBSET [side : Sides, op : Operations, made : 0..Passes, pages : Int]

\* "calculate the average cycles of" each operation: the time that is divided
\* by a positive num is the time of num successful calls.
Average(r) == num > 0 => r.made = num
EveryLineIsAnAverage == \A r \in reports : Average(r)

\* So it is for all lines but those of the enclave's two protection loops,
\* which a failed call leaves and which print their line all the same.  (What
\* is printed for a negative num is an average of nothing.)
AveragesWhereLeftByGoto ==
    \A r \in reports :
        \/ Average(r)
        \/ r.side = "enclave" /\ r.op \in {"extend", "restrict"}

\* "restrict permissions" is measured on pages whose permissions were extended:
\* on the App's side always, in the enclave unless the extension failed.
RestrictsExtended ==
    op = "restrict" =>
        \/ \A k \in Indices : region[side][k] = IF k < i THEN "r" ELSE "rwx"
        \/ side = "enclave" /\ \E k \in Indices : MayFail("extend", k)

\* The enclave's function leaves no region allocated that could be freed,
\* whichever call failed first, and a failed cleanup step does not keep the
\* later regions from being freed.
CleanupComplete ==
    side = "enclave" /\ op = "return" =>
        \A k \in Indices : region["enclave"][k] # "none" => MayFail("free", k)

SizeFits == page_num * PAGE_SIZE \in -(INT_MAX + 1)..INT_MAX

\* A run in which no call fails leaves both sides as they were and prints all
\* twelve lines; what a failing run leaves behind is on the side that failed.
\* Unless num is negative, the size has to be positive and one that an int holds.
NothingLeftBehind ==
    op = "return" =>
        \A s \in Sides :
            \/ num >= 0 /\ (page_num <= 0 \/ ~SizeFits)
            \/ \E f \in faults : f[1] = s
            \/ /\ brk[s] = 0
               /\ \A k \in Indices : region[s][k] = "none"
               /\ \A o \in Operations : \E r \in reports : r.side = s /\ r.op = o

\* "[ %d pages, num: %d]": with a positive num, the regions have as many pages as
\* the line says, as long as their size fits an int; with a size that is zero or
\* negative the first region cannot be had and no line is printed, on either side.
PagesAsPrinted ==
    num > 0 => \A r \in reports : r.pages > 0 /\ (r.pages = page_num \/ ~SizeFits)

\* Whatever fails, the App's benchmark is followed by the enclave's and that
\* returns, unless num is zero or there was no memory for pp: then the process
\* or the enclave is ended.
Termination ==
    <>(Ended /\ (side = "enclave" \/ num = 0 \/ <<"host", "malloc", 0>> \in faults))
==============================================================================
