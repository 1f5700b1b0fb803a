----------------------- MODULE MemoryManagementProofs -------------------------
(***************************************************************************)
(* Proofs about MemoryManagement, for any int as the number of regions,    *)
(* negative ones included, any page number and any set of calls that fail  *)
(* (FaultSets is not restricted): types, what a printed line is            *)
(* about, which protection is restricted, what the enclave leaves          *)
(* allocated and what a run without failures leaves behind.                *)
(***************************************************************************)
EXTENDS MemoryManagement, TLAPS

Ends == {"out", "cleanup", "return", "trapped", "crashed"}
Pcs  == Operations \cup {"prepare", "finish"} \cup Ends

Typed == num \in Int /\ side \in Sides /\ op \in Pcs /\ i \in 0..Passes /\ size \in Int

RegionTyped ==
    /\ pp \in [Indices -> {"uninitialised", "error", "region"}]
    /\ region \in [Sides -> [Indices -> {"none", "rw", "rwx", "r"}]]

\* The program break has been raised and lowered as often as the loops say.
Base == IF side = "host" THEN 0 ELSE 1

Break ==
    /\ brk \in [Sides -> 0..Passes + 1]
    /\ side = "host" => brk["enclave"] = 0
    /\ op \in {"alloc", "extend", "restrict", "free", "prepare"} => brk[side] = 0
    /\ op = "prepare" => i = 0
    /\ op \in {"prepare", "finish"} => side = "enclave"
    /\ op = "grow" => brk[side] = Base + i
    /\ op = "shrink" => brk[side] = Base + (Passes - i)
    /\ op = "finish" => brk[side] = 1

\* A loop after the first is only reached with a size that memory was got for,
\* or with a negative num and then with any.
Size ==
    /\ op = "alloc" /\ i # 0 => size > 0
    /\ op \in {"extend", "restrict", "free", "prepare", "grow", "shrink", "finish"} =>
           num # 0 /\ (num > 0 => size > 0)

Reports ==
    reports \in SUBSET [side : Sides, op : Operations, made : 0..Passes, pages : Int]

\* The regions of the running function: r is allocated where pp says so, and
\* each loop has turned the regions below i into what it makes of them.
ExtendFailed == side = "enclave" /\ \E k \in Indices : MayFail("extend", k)

Loops ==
    /\ op = "alloc" =>
           \A k \in Indices : region[side][k] = IF k < i THEN "rw" ELSE "none"
    /\ op = "extend" =>
           \A k \in Indices : region[side][k] = IF k < i THEN "rwx" ELSE "rw"
    /\ op = "restrict" =>
           \/ \A k \in Indices : region[side][k] = IF k < i THEN "r" ELSE "rwx"
           \/ ExtendFailed
    /\ op \in {"extend", "restrict"} => \A k \in Indices : region[side][k] # "none"
    /\ op = "free" => \A k \in Indices : k < i => region[side][k] = "none"
    /\ op \in {"prepare", "grow", "shrink", "finish"} =>
           \A k \in Indices : region[side][k] = "none"

\* What the cleanup can rely on, and what it has done below i.
Cleaned ==
    /\ side = "host" => \A k \in Indices : region["enclave"][k] = "none"
    /\ op \notin {"trapped", "crashed"} =>
           \A k \in Indices : region[side][k] # "none" => pp[k] = "region"
    /\ side = "enclave" /\ op = "cleanup" =>
           \A k \in Indices : k < i => region[side][k] = "none" \/ MayFail("free", k)
    /\ side = "enclave" /\ op = "return" =>
           \A k \in Indices : region[side][k] = "none" \/ MayFail("free", k)

\* The size of the running function is a number of pages, the one asked for if
\* an int holds it; so it was when each of the lines was printed.
Paged ==
    /\ page_num \in Int
    /\ \E n \in Int : size = n * PAGE_SIZE /\ (SizeFits => n = page_num)
    /\ PagesAsPrinted

\* No call of side s may fail, and its size is one that memory is got for.
Works(s) ==
    /\ num < 0 \/ (page_num > 0 /\ SizeFits)
    /\ \A f \in faults : f[1] # s

\* The operations whose lines have been printed when control is at o.
Before(o) ==
    CASE o = "alloc"    -> {}
      [] o = "extend"   -> {"alloc"}
      [] o = "restrict" -> {"alloc", "extend"}
      [] o = "free"     -> {"alloc", "extend", "restrict"}
      [] o \in {"prepare", "grow"} -> {"alloc", "extend", "restrict", "free"}
      [] o = "shrink"   -> Operations \ {"shrink"}
      [] OTHER          -> Operations

Printed(s, O) == \A o \in O : \E r \in reports : r.side = s /\ r.op = o

NothingLeft(s) == brk[s] = 0 /\ \A k \in Indices : region[s][k] = "none"

\* A side that works has printed the lines of the operations it is done with,
\* and has left nothing behind when it is done with all of them.
Progress ==
    /\ op = "out" => side = "host"
    /\ op \in {"cleanup", "return"} => side = "enclave"
    /\ Works(side) => op # "cleanup"
    /\ Works(side) /\ op \notin {"trapped", "crashed"} => Printed(side, Before(op))
    /\ Works(side) /\ op \in {"out", "return"} => NothingLeft(side)
    /\ Works("host") /\ side = "enclave" => Printed("host", Operations) /\ NothingLeft("host")

IInv ==
    /\ Typed /\ RegionTyped /\ Break /\ Size /\ Reports /\ Loops /\ Cleaned
    /\ Paged /\ Progress
------------------------------------------------------------------------------
LEMMA Constants ==
    /\ Nums \subseteq Int /\ PAGE_SIZE \in Nat \ {0} /\ INT_MAX \in Nat
    /\ (2 * (INT_MAX + 1)) % PAGE_SIZE = 0
    /\ (page_num \in PageNums => page_num \in Int)
  BY ManagementAssumption

LEMMA SizesAreInts ==
    ASSUME page_num \in Int, NEW s \in Sizes
    PROVE  s \in Int
<1>1. PAGE_SIZE \in Int /\ INT_MAX \in Int
  BY Constants
<1>. DEFINE product == page_num * PAGE_SIZE
            modulus == 2 * (INT_MAX + 1)
<1>2. product \in Int
  BY <1>1
<1>3. modulus \in Int /\ modulus > 0
  BY Constants
<1>. HIDE DEF product, modulus
<1>4. ((product + INT_MAX + 1) % modulus) \in Int
  BY <1>1, <1>2, <1>3
<1>5. s = product \/ s = ((product + INT_MAX + 1) % modulus) - (INT_MAX + 1)
  BY DEF Sizes, product, modulus
<1>. QED  BY <1>1, <1>2, <1>4, <1>5

\* A positive multiple of the page size is that many pages.
LEMMA Pages ==
    ASSUME NEW n \in Int, n * PAGE_SIZE > 0
    PROVE  n > 0 /\ (n * PAGE_SIZE) \div PAGE_SIZE = n
<1>1. PAGE_SIZE \in Nat /\ PAGE_SIZE > 0
  BY Constants
<1>2. n > 0
  <2>. SUFFICES ASSUME n <= 0 PROVE n * PAGE_SIZE <= 0
    BY <1>1
  <2>. QED  BY <1>1
<1>3. (n * PAGE_SIZE) \div PAGE_SIZE = n
  BY <1>1
<1>. QED  BY <1>2, <1>3

\* The size is a whole number of pages whether or not the product wraps around,
\* and it is page_num pages when an int holds it.
LEMMA SizesArePages ==
    ASSUME page_num \in Int, NEW s \in Sizes
    PROVE  \E n \in Int : s = n * PAGE_SIZE /\ (SizeFits => n = page_num)
<1>1. PAGE_SIZE \in Int /\ PAGE_SIZE > 0 /\ INT_MAX \in Nat
  BY Constants
<1>. DEFINE product == page_num * PAGE_SIZE
            modulus == 2 * (INT_MAX + 1)
            shifted == product + INT_MAX + 1
<1>2. product \in Int /\ shifted \in Int /\ modulus \in Int /\ modulus > 0
  BY <1>1
<1>3. CASE s = product
  BY <1>3
<1>4. CASE s = (shifted % modulus) - (INT_MAX + 1)
  <2>1. PICK m \in Int : modulus = m * PAGE_SIZE
    <3>1. modulus = PAGE_SIZE * (modulus \div PAGE_SIZE) /\ modulus \div PAGE_SIZE \in Int
      <4>1. modulus % PAGE_SIZE = 0
        BY Constants
      <4>. HIDE DEF modulus
      <4>. QED  BY <1>1, <1>2, <4>1
    <3>. QED  BY <1>1, <3>1
  <2>2. PICK q \in Int : shifted % modulus = shifted - modulus * q
    <3>. HIDE DEF shifted, modulus
    <3>. QED  BY <1>2
  <2>3. s = product - modulus * q
    BY <1>1, <1>2, <1>4, <2>2
  <2>4. s = (page_num - m * q) * PAGE_SIZE
    <3>1. modulus * q = (m * q) * PAGE_SIZE
      BY <1>1, <2>1
    <3>. QED  BY <1>1, <2>3, <3>1
  <2>5. SizeFits => s = product
    <3>. SUFFICES ASSUME SizeFits PROVE s = product
      OBVIOUS
    <3>1. shifted >= 0 /\ shifted < modulus
      BY <1>1, <1>2 DEF SizeFits
    <3>2. shifted % modulus = shifted
      <4>. HIDE DEF shifted, modulus
      <4>. QED  BY <1>2, <3>1
    <3>. QED  BY <1>1, <1>2, <1>4, <3>2
  <2>6. CASE SizeFits
    BY <1>3, <2>5, <2>6
  <2>7. CASE ~SizeFits
    BY <2>4, <2>7
  <2>. QED  BY <2>6, <2>7
<1>5. s = product \/ s = (shifted % modulus) - (INT_MAX + 1)
  BY DEF Sizes
<1>. QED  BY <1>3, <1>4, <1>5

\* The arguments and the faults are those of the start.
LEMMA Given ==
    ASSUME Next
    PROVE  /\ num' = num /\ page_num' = page_num /\ faults' = faults
           /\ Indices' = Indices /\ Passes' = Passes
<1>1. num' = num /\ page_num' = page_num /\ faults' = faults
  BY DEF Next, Running, CallSucceeds, CallFails, PpMissing, Report, HostOut, InitialHeap, Cleanup,
      CleanupEnds, Finished, vars, args
<1>. QED  BY <1>1 DEF Indices, Passes

\* A loop's counter reaches num, if num is positive, else it stays at zero.
LEMMA LoopDone ==
    ASSUME num \in Int, i \in 0..Passes
    PROVE  /\ Passes \in Nat
           /\ i < num => num > 0 /\ Passes = num
           /\ i >= num => i = Passes
           /\ num > 0 => Passes = num
  BY DEF Passes

\* What a printed line is followed by.
LEMMA Followed ==
    ASSUME Typed, op \in Operations
    PROVE  /\ op = "alloc" => After(side, op) = "extend"
           /\ op = "extend" => After(side, op) = "restrict"
           /\ op = "restrict" => After(side, op) = "free"
           /\ op = "free" => After(side, op) = IF side = "host" THEN "grow" ELSE "prepare"
           /\ op = "grow" => After(side, op) = "shrink"
           /\ op = "shrink" => After(side, op) = IF side = "host" THEN "out" ELSE "finish"
           /\ After(side, op) \in Pcs
  BY DEF After, Pcs, Operations, Ends

\* Where a failed call goes on.
LEMMA Failed ==
    ASSUME Typed, op \in Operations
    PROVE  /\ side = "host" => OnFailure(side, op) = "out"
           /\ side = "enclave" /\ op \in {"alloc", "free"} => OnFailure(side, op) = "cleanup"
           /\ side = "enclave" /\ op \in {"extend", "restrict"} => OnFailure(side, op) = "break"
           /\ side = "enclave" /\ op \in {"grow", "shrink"} => OnFailure(side, op) = "return"
  BY DEF Typed, OnFailure, Operations, Sides
------------------------------------------------------------------------------
\* A loop that goes on, or one that prints its line.
LEMMA PrintedKinds ==
    ASSUME Typed, op \in Operations, PrintLine
    PROVE  \/ num = 0 /\ op' = "trapped" /\ i' = i /\ reports' = reports
           \/ num # 0 /\ op' = After(side, op) /\ i' = 0 /\ reports' = reports \cup {Line(op)}
  BY DEF PrintLine

LEMMA TypedStep ==
    ASSUME Typed, page_num \in Int, Next
    PROVE  Typed'
<1>0. num' = num /\ page_num' = page_num /\ num \in Int /\ Passes' = Passes
  BY Given DEF Typed
<1>1. 0 \in 0..Passes /\ \A k \in 0..Passes : k < num => k + 1 \in 0..Passes
  BY <1>0 DEF Passes
<1>2. CASE CallSucceeds
  <2>1. i < num /\ i' = i + 1 /\ UNCHANGED <<side, op, size>>
    BY <1>2 DEF CallSucceeds, args
  <2>2. i' \in 0..Passes
    BY <1>1, <2>1, Zenon DEF Typed
  <2>. QED  BY <1>0, <2>1, <2>2, Zenon DEF Typed
<1>3. CASE (CallFails /\ OnFailure(side, op) = "break") \/ Report
  <2>1. op \in Operations /\ PrintLine /\ UNCHANGED <<side, size>>
    BY <1>3 DEF CallFails, Report, args
  <2>2. op' \in Pcs /\ i' \in {0, i}
    BY <2>1, PrintedKinds, Followed DEF Pcs, Ends
  <2>. QED  BY <1>0, <1>1, <2>1, <2>2 DEF Typed
<1>4. CASE CallFails /\ OnFailure(side, op) # "break"
  <2>1. op \in Operations /\ op' = OnFailure(side, op) /\ i' = 0 /\ UNCHANGED <<side, size>>
    BY <1>4 DEF CallFails, args
  <2>2. op' \in Pcs
    BY <1>4, <2>1, Failed DEF Typed, Sides, Operations, Pcs, Ends
  <2>. QED  BY <1>0, <1>1, <2>1, <2>2, Zenon DEF Typed
<1>5. CASE PpMissing
  <2>1. op' \in Pcs /\ UNCHANGED <<side, size, i>>
    BY <1>5 DEF PpMissing, args, Pcs, Ends
  <2>. QED  BY <1>0, <2>1, Zenon DEF Typed
<1>6. CASE HostOut
  <2>1. side' = "enclave" /\ op' = "alloc" /\ i' = 0 /\ size' \in Sizes
    BY <1>6 DEF HostOut
  <2>3. size' \in Int
    BY <2>1, SizesAreInts
  <2>4. op' \in Pcs /\ side' \in Sides
    BY <2>1 DEF Pcs, Operations, Sides
  <2>. QED  BY <1>0, <1>1, <2>1, <2>3, <2>4, Zenon DEF Typed
<1>7. CASE InitialHeap \/ CleanupEnds
  <2>1. op' \in Pcs /\ UNCHANGED <<side, size, i>>
    BY <1>7 DEF InitialHeap, CleanupEnds, args, Pcs, Operations, Ends
  <2>. QED  BY <1>0, <2>1, Zenon DEF Typed
<1>8. CASE Cleanup
  <2>1. i < num /\ i' = i + 1 /\ UNCHANGED <<side, op, size>>
    BY <1>8 DEF Cleanup, args
  <2>2. i' \in 0..Passes
    BY <1>1, <2>1, Zenon DEF Typed
  <2>. QED  BY <1>0, <2>1, <2>2, Zenon DEF Typed
<1>9. CASE Finished
  BY <1>0, <1>9, Zenon DEF Finished, vars, args, Typed
<1>. QED  BY <1>2, <1>3, <1>4, <1>5, <1>6, <1>7, <1>8, <1>9 DEF Next, Running

LEMMA SizeStep ==
    ASSUME Typed, Size, Next
    PROVE  Size'
<1>. USE DEF Size, Operations
<1>0. num' = num /\ num \in Int /\ i \in 0..Passes /\ size \in Int
  BY Given DEF Typed
<1>1. CASE CallSucceeds \/ Cleanup \/ Finished
  BY <1>0, <1>1 DEF CallSucceeds, Cleanup, Finished, vars, args
<1>2. CASE InitialHeap \/ CleanupEnds \/ PpMissing \/ HostOut
  BY <1>0, <1>2 DEF InitialHeap, CleanupEnds, PpMissing, HostOut, args
<1>3. CASE CallFails
  <2>1. size' = size /\ op \in Operations
    BY <1>3 DEF CallFails, args
  <2>2. CASE OnFailure(side, op) = "break"
    <3>1. PrintLine /\ op # "alloc"
      BY <1>3, <2>2, Failed DEF CallFails, Typed, Sides
    <3>. QED  BY <1>0, <2>1, <3>1, PrintedKinds
  <2>3. CASE OnFailure(side, op) # "break"
    <3>1. op' = OnFailure(side, op)
      BY <1>3, <2>3 DEF CallFails
    <3>2. op' \in {"out", "cleanup", "return"}
      BY <2>1, <2>3, <3>1, Failed DEF Typed, Sides
    <3>. QED  BY <3>2
  <2>. QED  BY <2>2, <2>3
<1>4. CASE Report
  <2>1. size' = size /\ op \in Operations /\ PrintLine
    BY <1>4 DEF Report, args
  <2>2. i >= num
    BY <1>4 DEF Report
  <2>. QED  BY <1>0, <2>1, <2>2, PrintedKinds
<1>. QED  BY <1>1, <1>2, <1>3, <1>4 DEF Next, Running

\* The effect of an assignment to one region of the running function.
LEMMA RegionAt ==
    ASSUME RegionTyped, side \in Sides, i \in Indices, NEW v \in {"none", "rw", "rwx", "r"},
           region' = [region EXCEPT ![side][i] = v]
    PROVE  /\ \A k \in Indices : region'[side][k] = IF k = i THEN v ELSE region[side][k]
           /\ \A t \in Sides : t # side => region'[t] = region[t]
           /\ region' \in [Sides -> [Indices -> {"none", "rw", "rwx", "r"}]]
  BY DEF RegionTyped

LEMMA InIndices ==
    ASSUME num \in Int, i \in 0..Passes, i < num
    PROVE  i \in Indices /\ i + 1 \in 0..Passes
           /\ \A k \in Indices : k < i + 1 <=> k < i \/ k = i
  BY LoopDone DEF Indices

\* What a successful call of the first four operations does to the regions.
LEMMA CallWorks ==
    ASSUME Typed, RegionTyped, CallSucceeds
    PROVE  /\ i \in Indices /\ i < num /\ i' = i + 1
           /\ UNCHANGED <<args, side, op, faults, reports>>
           /\ op \in {"grow", "shrink"} => UNCHANGED <<region, pp>>
           /\ op \notin {"grow", "shrink"} =>
                  \E v \in {"none", "rw", "rwx", "r"} :
                      /\ region' = [region EXCEPT ![side][i] = v]
                      /\ \/ op = "alloc" /\ v = "rw"
                         \/ op = "extend" /\ v = "rwx"
                         \/ op = "restrict" /\ v = "r"
                         \/ op = "free" /\ v = "none"
           /\ op = "alloc" => pp' = [pp EXCEPT ![i] = "region"]
           /\ op # "alloc" => pp' = pp
<1>1. i < num /\ i' = i + 1 /\ op \in Operations /\ UNCHANGED <<args, side, op, faults, reports>>
  BY DEF CallSucceeds
<1>2. i \in Indices
  BY <1>1, InIndices DEF Typed
<1>3. /\ DOMAIN Protection = {"alloc", "extend", "restrict", "free"}
      /\ Protection["alloc"] = "rw" /\ Protection["extend"] = "rwx"
      /\ Protection["restrict"] = "r" /\ Protection["free"] = "none"
  BY DEF Protection
<1>4. op \in {"grow", "shrink"} => UNCHANGED <<region, pp>>
  BY <1>3 DEF CallSucceeds
<1>5. op \notin {"grow", "shrink"} => region' = [region EXCEPT ![side][i] = Protection[op]]
  <2>1. op \notin {"grow", "shrink"} => op \in DOMAIN Protection
    BY <1>1, <1>3 DEF Operations
  <2>. QED  BY <2>1, Zenon DEF CallSucceeds
<1>6. op \notin {"grow", "shrink"} => op \in {"alloc", "extend", "restrict", "free"}
  BY <1>1 DEF Operations
<1>7. /\ op = "alloc" => pp' = [pp EXCEPT ![i] = "region"]
      /\ op # "alloc" => pp' = pp
  BY DEF CallSucceeds
<1>8. op \notin {"grow", "shrink"} => Protection[op] \in {"none", "rw", "rwx", "r"}
         /\ \/ op = "alloc" /\ Protection[op] = "rw"
            \/ op = "extend" /\ Protection[op] = "rwx"
            \/ op = "restrict" /\ Protection[op] = "r"
            \/ op = "free" /\ Protection[op] = "none"
  BY <1>3, <1>6
<1>. QED  BY <1>1, <1>2, <1>4, <1>5, <1>7, <1>8, Zenon

LEMMA RegionTypedStep ==
    ASSUME Typed, RegionTyped, Next
    PROVE  RegionTyped'
<1>0. Indices' = Indices /\ side \in Sides /\ num \in Int /\ i \in 0..Passes
  BY Given DEF Typed
<1>1. CASE CallSucceeds
  <2>1. region' \in [Sides -> [Indices -> {"none", "rw", "rwx", "r"}]]
    BY <1>0, <1>1, CallWorks, RegionAt DEF RegionTyped
  <2>2. pp' \in [Indices -> {"uninitialised", "error", "region"}]
    BY <1>1, CallWorks DEF RegionTyped
  <2>. QED  BY <1>0, <2>1, <2>2 DEF RegionTyped
<1>2. CASE CallFails
  <2>1. i \in Indices
    <3>1. i < num
      BY <1>2 DEF CallFails
    <3>. QED  BY <1>0, <3>1, InIndices
  <2>2. region' = region /\ (pp' = pp \/ pp' = [pp EXCEPT ![i] = "error"])
    BY <1>2 DEF CallFails
  <2>. QED  BY <1>0, <2>1, <2>2 DEF RegionTyped
<1>3. CASE PpMissing
  <2>1. 0 \in Indices /\ pp' = pp
    BY <1>0, <1>3 DEF PpMissing, Indices
  <2>2. region' = [region EXCEPT ![side][0] = IF size > 0 THEN "rw" ELSE @]
    BY <1>3 DEF PpMissing
  <2>. QED  BY <1>0, <2>1, <2>2 DEF RegionTyped
<1>4. CASE Cleanup
  <2>1. i < num /\ pp' = pp
    BY <1>4 DEF Cleanup
  <2>2. region' = region \/ region' = [region EXCEPT ![side][i] = "none"]
    BY <1>4 DEF Cleanup
  <2>3. i \in Indices
    BY <1>0, <2>1, InIndices
  <2>. QED  BY <1>0, <2>1, <2>2, <2>3 DEF RegionTyped
<1>5. CASE HostOut
  BY <1>0, <1>5 DEF HostOut, RegionTyped
<1>6. CASE Report \/ InitialHeap \/ CleanupEnds \/ Finished
  <2>1. UNCHANGED <<pp, region>>
    BY <1>6 DEF Report, InitialHeap, CleanupEnds, Finished, vars
  <2>. QED  BY <1>0, <2>1 DEF RegionTyped
<1>. QED  BY <1>1, <1>2, <1>3, <1>4, <1>5, <1>6 DEF Next, Running

\* The lines printed by a step: none, or the one of the operation that ends,
\* whose calls, if it made any, were made with a positive size.
LEMMA Prints ==
    ASSUME Typed, Size, Next
    PROVE  \/ reports' = reports
           \/ /\ op \in Operations /\ num # 0 /\ (num > 0 => size > 0)
              /\ reports' = reports \cup {Line(op)}
<1>1. CASE Report \/ (CallFails /\ OnFailure(side, op) = "break")
  <2>1. op \in Operations /\ PrintLine
    BY <1>1 DEF Report, CallFails
  <2>2. op = "alloc" => Report
    BY <1>1, <2>1, Failed DEF Typed, Sides
  <2>3. op = "alloc" => i >= num
    BY <2>2 DEF Report
  <2>4. num > 0 => size > 0
    BY <2>1, <2>3 DEF Size, Operations, Typed
  <2>. QED  BY <2>1, <2>4, PrintedKinds
<1>2. CASE CallFails /\ OnFailure(side, op) # "break"
  BY <1>2 DEF CallFails
<1>3. CASE \/ CallSucceeds \/ PpMissing \/ HostOut \/ InitialHeap \/ Cleanup \/ CleanupEnds
           \/ Finished
  BY <1>3 DEF CallSucceeds, PpMissing, HostOut, InitialHeap, Cleanup, CleanupEnds, Finished, vars
<1>. QED  BY <1>1, <1>2, <1>3 DEF Next, Running

LEMMA ReportsStep ==
    ASSUME Typed, Size, Reports, Next
    PROVE  Reports'
<1>0. Passes' = Passes /\ num \in Int /\ i \in 0..Passes /\ size \in Int /\ side \in Sides
  BY Given DEF Typed
<1>1. CASE reports' = reports
  BY <1>0, <1>1 DEF Reports
<1>2. CASE op \in Operations /\ reports' = reports \cup {Line(op)}
  <2>1. size \div PAGE_SIZE \in Int
    <3>1. PAGE_SIZE \in Nat /\ PAGE_SIZE > 0
      BY Constants
    <3>. QED  BY <1>0, <3>1
  <2>2. Line(op) \in [side : Sides, op : Operations, made : 0..Passes, pages : Int]
    BY <1>0, <1>2, <2>1 DEF Line
  <2>. QED  BY <1>0, <1>2, <2>2 DEF Reports
<1>. QED  BY <1>1, <1>2, Prints

\* The size is computed anew by the enclave's function only.
LEMMA SizeGiven ==
    ASSUME Next
    PROVE  size' = size \/ size' \in Sizes
  BY DEF Next, Running, CallSucceeds, CallFails, PpMissing, Report, HostOut, InitialHeap, Cleanup,
      CleanupEnds, Finished, vars, args

LEMMA PagedStep ==
    ASSUME Typed, Size, Paged, Next
    PROVE  Paged'
<1>1. num' = num /\ page_num' = page_num /\ page_num \in Int /\ (SizeFits' <=> SizeFits)
  BY Given DEF Paged, SizeFits
<1>2. \E n \in Int : size' = n * PAGE_SIZE /\ (SizeFits => n = page_num)
  BY <1>1, SizeGiven, SizesArePages DEF Paged
<1>3. PagesAsPrinted'
  <2>1. CASE reports' = reports
    BY <1>1, <2>1 DEF Paged, PagesAsPrinted
  <2>2. CASE num > 0 /\ size > 0 /\ reports' = reports \cup {Line(op)}
    <3>1. PICK n \in Int : size = n * PAGE_SIZE /\ (SizeFits => n = page_num)
      BY DEF Paged
    <3>2. n > 0 /\ size \div PAGE_SIZE = n
      BY <2>2, <3>1, Pages
    <3>3. Line(op).pages = n
      BY <3>2 DEF Line
    <3>. QED  BY <1>1, <2>2, <3>1, <3>2, <3>3 DEF Paged, PagesAsPrinted
  <2>3. CASE ~(num > 0)
    BY <1>1, <2>3 DEF PagesAsPrinted
  <2>. QED  BY <2>1, <2>2, <2>3, Prints
<1>. QED  BY <1>1, <1>2, <1>3 DEF Paged

LEMMA AveragesStep ==
    ASSUME Typed, AveragesWhereLeftByGoto, Next
    PROVE  AveragesWhereLeftByGoto'
<1>0. num' = num
  BY Given
<1>1. CASE reports' = reports
  BY <1>0, <1>1 DEF AveragesWhereLeftByGoto, Average
<1>2. CASE /\ reports' = reports \cup {Line(op)}
           /\ (num > 0 => i = num) \/ (side = "enclave" /\ op \in {"extend", "restrict"})
  <2>1. Line(op).made = i /\ Line(op).side = side /\ Line(op).op = op
    BY DEF Line
  <2>. QED  BY <1>0, <1>2, <2>1 DEF AveragesWhereLeftByGoto, Average
<1>3. CASE Report
  <2>1. op \in Operations /\ PrintLine /\ (num > 0 => i = num)
    BY <1>3, LoopDone DEF Report, Typed
  <2>. QED  BY <1>1, <1>2, <2>1, PrintedKinds
<1>4. CASE CallFails
  <2>1. CASE OnFailure(side, op) = "break"
    <3>1. op \in Operations /\ PrintLine
      BY <1>4, <2>1 DEF CallFails
    <3>2. side = "enclave" /\ op \in {"extend", "restrict"}
      BY <2>1, <3>1, Failed DEF Typed, Sides, Operations
    <3>. QED  BY <1>1, <1>2, <3>1, <3>2, PrintedKinds
  <2>2. CASE OnFailure(side, op) # "break"
    BY <1>1, <1>4, <2>2 DEF CallFails
  <2>. QED  BY <2>1, <2>2
<1>5. CASE \/ CallSucceeds \/ PpMissing \/ HostOut \/ InitialHeap \/ Cleanup \/ CleanupEnds
           \/ Finished
  BY <1>1, <1>5 DEF CallSucceeds, PpMissing, HostOut, InitialHeap, Cleanup, CleanupEnds, Finished, vars
<1>. QED  BY <1>3, <1>4, <1>5 DEF Next, Running

LEMMA LoopsStep ==
    ASSUME Typed, RegionTyped, Loops, Cleaned, Next
    PROVE  Loops'
<1>0. Indices' = Indices /\ faults' = faults /\ side \in Sides /\ num \in Int /\ i \in 0..Passes
  BY Given DEF Typed
<1>1. \A k \in Indices : k < num /\ ~(k < 0)
  BY <1>0 DEF Indices
<1>2. side' = side => (ExtendFailed' <=> ExtendFailed)
  BY <1>0 DEF ExtendFailed, MayFail
<1>3. CASE CallSucceeds
  <2>1. /\ i \in Indices /\ i' = i + 1 /\ side' = side /\ op' = op
        /\ \A k \in Indices : k < i' <=> k < i \/ k = i
    BY <1>0, <1>3, CallWorks, InIndices
  <2>2. CASE op \in {"grow", "shrink"}
    <3>1. region' = region
      BY <1>3, <2>2, CallWorks
    <3>. QED  BY <1>0, <2>1, <2>2, <3>1 DEF Loops
  <2>3. CASE op \notin {"grow", "shrink"}
    <3>1. PICK v \in {"none", "rw", "rwx", "r"} :
              /\ region' = [region EXCEPT ![side][i] = v]
              /\ \/ op = "alloc" /\ v = "rw"
                 \/ op = "extend" /\ v = "rwx"
                 \/ op = "restrict" /\ v = "r"
                 \/ op = "free" /\ v = "none"
      BY <1>3, <2>3, CallWorks
    <3>2. \A k \in Indices : region'[side][k] = IF k = i THEN v ELSE region[side][k]
      BY <1>0, <2>1, <3>1, RegionAt
    <3>3. CASE op = "alloc"
      <4>1. \A k \in Indices : region[side][k] = IF k < i THEN "rw" ELSE "none"
        BY <3>3 DEF Loops
      <4>2. \A k \in Indices : region'[side][k] = IF k < i' THEN "rw" ELSE "none"
        BY <2>1, <3>1, <3>2, <3>3, <4>1
      <4>. QED  BY <1>0, <2>1, <3>3, <4>2 DEF Loops
    <3>4. CASE op = "extend"
      <4>1. \A k \in Indices : region[side][k] = IF k < i THEN "rwx" ELSE "rw"
        BY <3>4 DEF Loops
      <4>2. \A k \in Indices : region'[side][k] = IF k < i' THEN "rwx" ELSE "rw"
        BY <2>1, <3>1, <3>2, <3>4, <4>1
      <4>. QED  BY <1>0, <2>1, <3>4, <4>2 DEF Loops
    <3>5. CASE op = "restrict"
      <4>1. \/ \A k \in Indices : region[side][k] = IF k < i THEN "r" ELSE "rwx"
            \/ ExtendFailed
        BY <3>5 DEF Loops
      <4>2. \/ \A k \in Indices : region'[side][k] = IF k < i' THEN "r" ELSE "rwx"
            \/ ExtendFailed'
        BY <1>2, <2>1, <3>1, <3>2, <3>5, <4>1
      <4>3. \A k \in Indices : region[side][k] # "none"
        BY <3>5 DEF Loops
      <4>4. \A k \in Indices : region'[side][k] # "none"
        BY <3>1, <3>2, <3>5, <4>3
      <4>. QED  BY <1>0, <2>1, <3>5, <4>2, <4>4 DEF Loops
    <3>6. CASE op = "free"
      <4>1. \A k \in Indices : k < i => region[side][k] = "none"
        BY <3>6 DEF Loops
      <4>2. \A k \in Indices : k < i' => region'[side][k] = "none"
        BY <2>1, <3>1, <3>2, <3>6, <4>1
      <4>. QED  BY <1>0, <2>1, <3>6, <4>2 DEF Loops
    <3>. QED  BY <3>1, <3>3, <3>4, <3>5, <3>6
  <2>. QED  BY <2>2, <2>3
<1>4. CASE op' \in Ends
  BY <1>4 DEF Loops, Ends
<1>5. CASE CallFails
  <2>1. op \in Operations /\ i < num /\ side' = side /\ region' = region
    BY <1>5 DEF CallFails
  <2>2. CASE OnFailure(side, op) # "break"
    <3>1. op' \in Ends
      BY <1>5, <2>1, <2>2, Failed DEF CallFails, Typed, Sides, Operations, Ends
    <3>. QED  BY <1>4, <3>1
  <2>3. CASE OnFailure(side, op) = "break"
    <3>1. PrintLine /\ side = "enclave" /\ op \in {"extend", "restrict"}
      BY <1>5, <2>1, <2>3, Failed DEF CallFails, Typed, Sides, Operations
    <3>2. CASE op = "extend"
      <4>1. ExtendFailed
        <5>1. i \in Indices
          BY <1>0, <2>1, InIndices
        <5>2. MayFail("extend", i)
          BY <1>5, <3>2 DEF CallFails
        <5>. QED  BY <3>1, <5>1, <5>2 DEF ExtendFailed
      <4>2. op' = "trapped" \/ op' = "restrict"
        BY <2>1, <3>1, <3>2, PrintedKinds, Followed
      <4>3. \A k \in Indices : region'[side][k] # "none"
        BY <2>1, <3>2 DEF Loops
      <4>. QED  BY <1>0, <1>2, <2>1, <4>1, <4>2, <4>3 DEF Loops
    <3>3. CASE op = "restrict"
      <4>1. op' = "trapped" \/ (op' = "free" /\ i' = 0)
        BY <2>1, <3>1, <3>3, PrintedKinds, Followed
      <4>. QED  BY <1>0, <1>1, <4>1 DEF Loops
    <3>. QED  BY <3>1, <3>2, <3>3
  <2>. QED  BY <2>2, <2>3
<1>6. CASE Report
  <2>1. /\ op \in Operations /\ PrintLine /\ side' = side /\ region' = region
        /\ \A k \in Indices : k < i
    BY <1>0, <1>6 DEF Report, Indices
  <2>2. CASE op' = "trapped"
    BY <1>4, <2>2 DEF Ends
  <2>3. CASE op' = After(side, op) /\ i' = 0
    <3>1. CASE op = "alloc"
      <4>1. \A k \in Indices : region[side][k] = "rw"
        BY <1>1, <2>1, <3>1 DEF Loops
      <4>2. op' = "extend"
        BY <2>1, <2>3, <3>1, Followed
      <4>. QED  BY <1>0, <1>1, <2>1, <2>3, <4>1, <4>2 DEF Loops
    <3>2. CASE op = "extend"
      <4>1. \A k \in Indices : region[side][k] = "rwx"
        BY <1>1, <2>1, <3>2 DEF Loops
      <4>2. op' = "restrict"
        BY <2>1, <2>3, <3>2, Followed
      <4>. QED  BY <1>0, <1>1, <2>1, <2>3, <4>1, <4>2 DEF Loops
    <3>3. CASE op = "restrict"
      <4>1. op' = "free"
        BY <2>1, <2>3, <3>3, Followed
      <4>. QED  BY <1>0, <1>1, <2>3, <4>1 DEF Loops
    <3>4. CASE op = "free"
      <4>1. \A k \in Indices : region[side][k] = "none"
        BY <1>1, <2>1, <3>4 DEF Loops
      <4>2. op' \in {"grow", "prepare"}
        BY <2>1, <2>3, <3>4, Followed
      <4>. QED  BY <1>0, <2>1, <4>1, <4>2 DEF Loops
    <3>5. CASE op \in {"grow", "shrink"}
      <4>1. \A k \in Indices : region[side][k] = "none"
        BY <3>5 DEF Loops
      <4>2. op' \in {"shrink", "finish", "out"}
        BY <2>1, <2>3, <3>5, Followed
      <4>. QED  BY <1>0, <2>1, <4>1, <4>2 DEF Loops
    <3>. QED  BY <2>1, <3>1, <3>2, <3>3, <3>4, <3>5 DEF Operations
  <2>. QED  BY <2>1, <2>2, <2>3, PrintedKinds
<1>7. CASE HostOut
  <2>1. side = "host" /\ side' = "enclave" /\ op' = "alloc" /\ i' = 0 /\ region' = region
    BY <1>7 DEF HostOut
  <2>2. \A k \in Indices : region["enclave"][k] = "none"
    BY <2>1 DEF Cleaned
  <2>. QED  BY <1>0, <1>1, <2>1, <2>2 DEF Loops
<1>8. CASE InitialHeap
  <2>1. /\ op \in {"prepare", "finish"} /\ op' \in {"grow", "return"}
        /\ side' = side /\ region' = region
    BY <1>8 DEF InitialHeap
  <2>2. \A k \in Indices : region[side][k] = "none"
    BY <2>1 DEF Loops
  <2>. QED  BY <1>0, <2>1, <2>2 DEF Loops
<1>9. CASE PpMissing \/ Cleanup \/ CleanupEnds
  BY <1>4, <1>9 DEF PpMissing, Cleanup, CleanupEnds, Ends
<1>10. CASE Finished
  BY <1>4, <1>10 DEF Finished, vars, Ended, Ends
<1>. QED  BY <1>3, <1>5, <1>6, <1>7, <1>8, <1>9, <1>10 DEF Next, Running

LEMMA CleanedStep ==
    ASSUME Typed, RegionTyped, Loops, Cleaned, Next
    PROVE  Cleaned'
<1>0. Indices' = Indices /\ faults' = faults /\ side \in Sides /\ num \in Int /\ i \in 0..Passes
  BY Given DEF Typed
<1>1. \A k \in Indices : k < num /\ ~(k < 0)
  BY <1>0 DEF Indices
<1>2. side' = side => \A o, k : MayFail(o, k)' <=> MayFail(o, k)
  BY <1>0 DEF MayFail
<1>3. CASE CallSucceeds
  <2>1. i \in Indices /\ side' = side /\ op' = op /\ op \in Operations
    BY <1>3, CallWorks DEF CallSucceeds
  <2>2. op \notin {"cleanup", "return", "trapped", "crashed"}
    BY <2>1 DEF Operations
  <2>3. CASE op \in {"grow", "shrink"}
    <3>1. region' = region /\ pp' = pp
      BY <1>3, <2>3, CallWorks
    <3>. QED  BY <1>0, <2>1, <2>2, <3>1 DEF Cleaned
  <2>4. CASE op \notin {"grow", "shrink"}
    <3>1. PICK v \in {"none", "rw", "rwx", "r"} :
              /\ region' = [region EXCEPT ![side][i] = v]
              /\ op = "free" => v = "none"
      BY <1>3, <2>4, CallWorks
    <3>2. /\ \A k \in Indices : region'[side][k] = IF k = i THEN v ELSE region[side][k]
          /\ \A t \in Sides : t # side => region'[t] = region[t]
      BY <1>0, <2>1, <3>1, RegionAt
    <3>3. side = "host" => \A k \in Indices : region'["enclave"][k] = "none"
      BY <3>2 DEF Cleaned, Sides
    <3>4. \A k \in Indices : region[side][k] # "none" => pp[k] = "region"
      BY <2>2 DEF Cleaned
    <3>5. \A k \in Indices : region'[side][k] # "none" => pp'[k] = "region"
      <4>1. CASE op = "alloc"
        <5>1. \A k \in Indices : pp'[k] = IF k = i THEN "region" ELSE pp[k]
          BY <1>3, <2>1, <4>1, CallWorks DEF RegionTyped
        <5>. QED  BY <3>2, <3>4, <5>1
      <4>2. CASE op \in {"extend", "restrict"}
        <5>1. region[side][i] # "none" /\ pp' = pp
          BY <1>3, <2>1, <4>2, CallWorks DEF Loops
        <5>. QED  BY <2>1, <3>2, <3>4, <5>1
      <4>3. CASE op = "free"
        <5>1. pp' = pp
          BY <1>3, <4>3, CallWorks
        <5>. QED  BY <3>1, <3>2, <3>4, <4>3, <5>1
      <4>. QED  BY <2>1, <2>4, <4>1, <4>2, <4>3 DEF Operations
    <3>. QED  BY <1>0, <2>1, <2>2, <3>3, <3>5 DEF Cleaned
  <2>. QED  BY <2>3, <2>4
<1>4. CASE CallFails
  <2>1. op \in Operations /\ i < num /\ side' = side /\ region' = region
    BY <1>4 DEF CallFails
  <2>2. i \in Indices
    BY <1>0, <2>1, InIndices
  <2>3. op \notin {"cleanup", "return", "trapped", "crashed"}
    BY <2>1 DEF Operations
  <2>4. \A k \in Indices : region'[side][k] # "none" => pp'[k] = "region"
    <3>1. \A k \in Indices : region[side][k] # "none" => pp[k] = "region"
      BY <2>3 DEF Cleaned
    <3>2. CASE op = "alloc"
      <4>1. pp' = [pp EXCEPT ![i] = "error"]
        BY <1>4, <3>2 DEF CallFails
      <4>2. region[side][i] = "none"
        <5>1. ~(i < i)
          BY <1>0
        <5>. QED  BY <2>2, <3>2, <5>1 DEF Loops
      <4>. QED  BY <2>1, <2>2, <3>1, <4>1, <4>2 DEF RegionTyped
    <3>3. CASE op # "alloc"
      <4>1. pp' = pp
        BY <1>4, <3>3 DEF CallFails
      <4>. QED  BY <2>1, <3>1, <4>1
    <3>. QED  BY <3>2, <3>3
  <2>5. side = "host" => \A k \in Indices : region'["enclave"][k] = "none"
    BY <2>1 DEF Cleaned
  <2>6. CASE OnFailure(side, op) = "break"
    <3>1. PrintLine
      BY <1>4, <2>6 DEF CallFails
    <3>2. op' \notin {"cleanup", "return"}
      BY <2>1, <3>1, PrintedKinds, Followed DEF Operations
    <3>. QED  BY <1>0, <2>1, <2>4, <2>5, <3>2 DEF Cleaned
  <2>7. CASE OnFailure(side, op) # "break"
    <3>1. op' = OnFailure(side, op) /\ i' = 0
      BY <1>4, <2>7 DEF CallFails
    <3>2. side = "enclave" /\ op' = "return" => op \in {"grow", "shrink"}
      BY <2>1, <3>1, Failed DEF Typed, Sides, Operations
    <3>3. side = "enclave" /\ op' = "return" => \A k \in Indices : region'[side][k] = "none"
      BY <2>1, <3>2 DEF Loops
    <3>. QED  BY <1>0, <1>1, <2>1, <2>4, <2>5, <3>1, <3>3 DEF Cleaned
  <2>. QED  BY <2>6, <2>7
<1>5. CASE Report
  <2>1. op \in Operations /\ PrintLine /\ UNCHANGED <<side, region, pp>>
    BY <1>5 DEF Report
  <2>2. op' \notin {"cleanup", "return"}
    BY <2>1, PrintedKinds, Followed DEF Operations
  <2>3. op \notin {"trapped", "crashed"}
    BY <2>1 DEF Operations
  <2>. QED  BY <1>0, <2>1, <2>2, <2>3 DEF Cleaned
<1>6. CASE HostOut
  <2>1. side = "host" /\ side' = "enclave" /\ op' = "alloc" /\ region' = region
    BY <1>6 DEF HostOut
  <2>2. \A k \in Indices : region["enclave"][k] = "none"
    BY <2>1 DEF Cleaned
  <2>. QED  BY <1>0, <2>1, <2>2 DEF Cleaned
<1>7. CASE InitialHeap
  <2>1. /\ op \in {"prepare", "finish"} /\ op' \in {"grow", "return"}
        /\ UNCHANGED <<side, region, pp>>
    BY <1>7 DEF InitialHeap
  <2>2. \A k \in Indices : region[side][k] = "none"
    BY <2>1 DEF Loops
  <2>. QED  BY <1>0, <2>1, <2>2 DEF Cleaned
<1>8. CASE PpMissing
  <2>1. op' \in {"trapped", "crashed"} /\ side' = side /\ 0 \in Indices
        /\ region' = [region EXCEPT ![side][0] = IF size > 0 THEN "rw" ELSE @]
    BY <1>0, <1>8 DEF PpMissing, Indices
  <2>2. side = "host" => region'["enclave"] = region["enclave"]
    BY <2>1 DEF RegionTyped, Sides
  <2>. QED  BY <1>0, <2>1, <2>2 DEF Cleaned
<1>9. CASE Cleanup
  <2>1. op = "cleanup" /\ i < num /\ i' = i + 1 /\ UNCHANGED <<side, op, pp>>
    BY <1>9 DEF Cleanup
  <2>2. i \in Indices /\ \A k \in Indices : k < i' <=> k < i \/ k = i
    BY <1>0, <2>1, InIndices
  <2>3. \A k \in Indices : region[side][k] # "none" => pp[k] = "region"
    BY <2>1 DEF Cleaned
  <2>4. CASE region' = [region EXCEPT ![side][i] = "none"]
    <3>1. /\ \A k \in Indices : region'[side][k] = IF k = i THEN "none" ELSE region[side][k]
          /\ \A t \in Sides : t # side => region'[t] = region[t]
      BY <1>0, <2>2, <2>4, RegionAt
    <3>2. side = "host" => region'["enclave"] = region["enclave"]
      BY <3>1 DEF Sides
    <3>3. side = "enclave" => \A k \in Indices : k < i' =>
              region'[side][k] = "none" \/ MayFail("free", k)'
      BY <1>2, <2>1, <2>2, <3>1 DEF Cleaned
    <3>. QED  BY <1>0, <2>1, <2>3, <3>1, <3>2, <3>3 DEF Cleaned
  <2>5. CASE region' = region /\ (pp[i] # "region" \/ region[side][i] = "none" \/ MayFail("free", i))
    <3>1. side = "enclave" => \A k \in Indices : k < i' =>
              region'[side][k] = "none" \/ MayFail("free", k)'
      BY <1>2, <2>1, <2>2, <2>3, <2>5 DEF Cleaned
    <3>. QED  BY <1>0, <2>1, <2>3, <2>5, <3>1 DEF Cleaned
  <2>. QED  BY <1>9, <2>4, <2>5 DEF Cleanup
<1>10. CASE CleanupEnds
  <2>1. /\ op = "cleanup" /\ op' = "return" /\ UNCHANGED <<side, region, pp>>
        /\ \A k \in Indices : k < i
    BY <1>0, <1>10 DEF CleanupEnds, Indices
  <2>. QED  BY <1>0, <1>1, <1>2, <2>1 DEF Cleaned
<1>11. CASE Finished
  <2>1. UNCHANGED <<side, op, i, region, pp>>
    BY <1>11 DEF Finished, vars
  <2>. QED  BY <1>0, <1>2, <2>1 DEF Cleaned
<1>. QED  BY <1>3, <1>4, <1>5, <1>6, <1>7, <1>8, <1>9, <1>10, <1>11 DEF Next, Running

LEMMA BreakStep ==
    ASSUME Typed, Break, Next
    PROVE  Break'
<1>0. /\ Passes' = Passes /\ Passes \in Nat /\ num \in Int /\ i \in 0..Passes
      /\ side \in Sides
  BY Given, LoopDone DEF Typed
<1>1. /\ side = "host" => Base = 0
      /\ side = "enclave" => Base = 1
      /\ side' = side => Base' = Base
  BY DEF Base
<1>2. Base \in {0, 1}
  BY DEF Base
<1>3. brk \in [Sides -> 0..Passes + 1] /\ (side = "host" => brk["enclave"] = 0)
  BY DEF Break
<1>4. ASSUME brk' = brk, side' = side, op' \in Ends
      PROVE  Break'
  BY <1>0, <1>3, <1>4 DEF Break, Ends
<1>5. CASE CallSucceeds
  <2>1. op \in Operations /\ i < Passes /\ i' = i + 1 /\ side' = side /\ op' = op
    BY <1>0, <1>5, LoopDone DEF CallSucceeds
  <2>2. DOMAIN Protection = {"alloc", "extend", "restrict", "free"}
    BY DEF Protection
  <2>3. CASE op \in {"alloc", "extend", "restrict", "free"}
    <3>1. brk' = brk
      BY <1>5, <2>2, <2>3 DEF CallSucceeds
    <3>2. brk[side] = 0
      BY <2>3 DEF Break
    <3>. QED  BY <1>0, <1>3, <2>1, <2>3, <3>1, <3>2 DEF Break
  <2>4. CASE op = "grow"
    <3>1. brk' = [brk EXCEPT ![side] = @ + 1]
      BY <1>5, <2>2, <2>4 DEF CallSucceeds
    <3>2. brk[side] = Base + i
      BY <2>4 DEF Break
    <3>3. brk[side] + 1 \in 0..Passes + 1 /\ brk[side] + 1 = Base + i'
      BY <1>0, <1>2, <2>1, <3>2
    <3>4. brk' \in [Sides -> 0..Passes + 1] /\ brk'[side] = Base' + i'
      BY <1>0, <1>1, <1>3, <2>1, <3>1, <3>3
    <3>5. side = "host" => brk'["enclave"] = 0
      BY <1>3, <3>1 DEF Sides
    <3>. QED  BY <1>0, <2>1, <2>4, <3>4, <3>5 DEF Break
  <2>5. CASE op = "shrink"
    <3>1. brk' = [brk EXCEPT ![side] = @ - 1]
      BY <1>5, <2>2, <2>5 DEF CallSucceeds
    <3>2. brk[side] = Base + (Passes - i)
      BY <2>5 DEF Break
    <3>3. brk[side] - 1 \in 0..Passes + 1 /\ brk[side] - 1 = Base + (Passes - i')
      BY <1>0, <1>2, <2>1, <3>2
    <3>4. brk' \in [Sides -> 0..Passes + 1] /\ brk'[side] = Base' + (Passes - i')
      BY <1>0, <1>1, <1>3, <2>1, <3>1, <3>3
    <3>5. side = "host" => brk'["enclave"] = 0
      BY <1>3, <3>1 DEF Sides
    <3>. QED  BY <1>0, <2>1, <2>5, <3>4, <3>5 DEF Break
  <2>. QED  BY <2>1, <2>3, <2>4, <2>5 DEF Operations
<1>6. CASE CallFails
  <2>1. op \in Operations /\ side' = side /\ brk' = brk
    BY <1>6 DEF CallFails
  <2>2. CASE OnFailure(side, op) # "break"
    <3>1. op' \in Ends
      BY <1>6, <2>1, <2>2, Failed DEF CallFails, Typed, Sides, Operations, Ends
    <3>. QED  BY <1>4, <2>1, <3>1
  <2>3. CASE OnFailure(side, op) = "break"
    <3>1. PrintLine /\ op \in {"extend", "restrict"}
      BY <1>6, <2>1, <2>3, Failed DEF CallFails, Typed, Sides, Operations
    <3>2. op' \in {"trapped", "restrict", "free"}
      BY <2>1, <3>1, PrintedKinds, Followed
    <3>3. brk[side] = 0
      BY <3>1 DEF Break
    <3>. QED  BY <1>0, <1>3, <2>1, <3>2, <3>3 DEF Break
  <2>. QED  BY <2>2, <2>3
<1>7. CASE Report
  <2>1. op \in Operations /\ PrintLine /\ i = Passes /\ side' = side /\ brk' = brk
    BY <1>0, <1>7, LoopDone DEF Report
  <2>2. CASE op' = "trapped"
    BY <1>4, <2>1, <2>2 DEF Ends
  <2>3. CASE op' = After(side, op) /\ i' = 0
    <3>1. CASE op \in {"alloc", "extend", "restrict"}
      <4>1. op' \in {"extend", "restrict", "free"} /\ brk[side] = 0
        BY <2>1, <2>3, <3>1, Followed DEF Break
      <4>. QED  BY <1>0, <1>3, <2>1, <4>1 DEF Break
    <3>2. CASE op = "free"
      <4>1. brk[side] = 0
        BY <3>2 DEF Break
      <4>2. CASE side = "host"
        <5>1. op' = "grow" /\ Base' + i' = 0
          BY <1>1, <2>1, <2>3, <3>2, <4>2, Followed
        <5>. QED  BY <1>0, <1>3, <2>1, <4>1, <5>1 DEF Break
      <4>3. CASE side = "enclave"
        <5>1. op' = "prepare"
          BY <2>1, <2>3, <3>2, <4>3, Followed
        <5>. QED  BY <1>0, <1>3, <2>1, <2>3, <4>1, <4>3, <5>1 DEF Break
      <4>. QED  BY <1>0, <4>2, <4>3 DEF Sides
    <3>3. CASE op = "grow"
      <4>1. op' = "shrink" /\ brk[side] = Base + Passes
        BY <2>1, <2>3, <3>3, Followed DEF Break
      <4>2. Base' + (Passes' - i') = brk[side]
        BY <1>0, <1>1, <1>2, <2>1, <2>3, <4>1
      <4>. QED  BY <1>0, <1>3, <2>1, <4>1, <4>2 DEF Break
    <3>4. CASE op = "shrink"
      <4>1. brk[side] = Base
        <5>1. brk[side] = Base + (Passes - i)
          BY <3>4 DEF Break
        <5>. QED  BY <1>0, <1>2, <2>1, <5>1
      <4>2. CASE side = "host"
        <5>1. op' = "out"
          BY <2>1, <2>3, <3>4, <4>2, Followed
        <5>. QED  BY <1>4, <2>1, <5>1 DEF Ends
      <4>3. CASE side = "enclave"
        <5>1. op' = "finish" /\ brk[side] = 1
          BY <1>1, <2>1, <2>3, <3>4, <4>1, <4>3, Followed
        <5>. QED  BY <1>0, <1>3, <2>1, <4>3, <5>1 DEF Break
      <4>. QED  BY <1>0, <4>2, <4>3 DEF Sides
    <3>. QED  BY <2>1, <3>1, <3>2, <3>3, <3>4 DEF Operations
  <2>. QED  BY <2>1, <2>2, <2>3, PrintedKinds
<1>8. CASE HostOut
  <2>1. side = "host" /\ side' = "enclave" /\ op' = "alloc" /\ brk' = brk
    BY <1>8 DEF HostOut
  <2>. QED  BY <1>0, <1>3, <2>1 DEF Break
<1>9. CASE InitialHeap
  <2>1. op \in {"prepare", "finish"} /\ side = "enclave" /\ side' = side /\ i' = i
    BY <1>9 DEF InitialHeap, Break
  <2>2. CASE brk' = brk /\ op' = "return"
    BY <1>4, <2>1, <2>2 DEF Ends
  <2>3. CASE op = "prepare" /\ op' = "grow" /\ brk' = [brk EXCEPT ![side] = @ + 1]
    <3>1. brk[side] = 0 /\ i = 0
      BY <2>3 DEF Break
    <3>2. Base' + i' = 1
      BY <1>1, <2>1, <3>1
    <3>3. brk' \in [Sides -> 0..Passes + 1] /\ brk'[side] = 1
      BY <1>0, <1>3, <2>3, <3>1
    <3>. QED  BY <1>0, <2>1, <2>3, <3>2, <3>3 DEF Break
  <2>4. CASE op = "finish" /\ op' = "return" /\ brk' = [brk EXCEPT ![side] = @ - 1]
    <3>1. brk[side] = 1
      BY <2>4 DEF Break
    <3>2. brk' \in [Sides -> 0..Passes + 1]
      BY <1>0, <1>3, <2>4, <3>1
    <3>. QED  BY <1>0, <2>1, <2>4, <3>2 DEF Break
  <2>. QED  BY <1>9, <2>1, <2>2, <2>3, <2>4 DEF InitialHeap
<1>10. CASE PpMissing \/ Cleanup \/ CleanupEnds
  <2>1. brk' = brk /\ side' = side /\ op' \in Ends
    BY <1>10 DEF PpMissing, Cleanup, CleanupEnds, Ends
  <2>. QED  BY <1>4, <2>1
<1>11. CASE Finished
  <2>1. brk' = brk /\ side' = side /\ op' \in Ends
    BY <1>11 DEF Finished, vars, Ended, Ends
  <2>. QED  BY <1>4, <2>1
<1>. QED  BY <1>5, <1>6, <1>7, <1>8, <1>9, <1>10, <1>11 DEF Next, Running
\* What a step may change of a side's lines, program break and regions.
LEMMA Kept ==
    ASSUME NEW s \in Sides, NEW O, Indices' = Indices, Printed(s, O), reports \subseteq reports'
    PROVE  /\ Printed(s, O)'
           /\ NothingLeft(s) /\ brk'[s] = brk[s] /\ region'[s] = region[s] => NothingLeft(s)'
  BY DEF Printed, NothingLeft

LEMMA ProgressStep ==
    ASSUME Typed, RegionTyped, Break, Size, Loops, Paged, Progress, Next
    PROVE  Progress'
<1>0. /\ Indices' = Indices /\ side \in Sides /\ faults' = faults /\ page_num' = page_num
      /\ page_num \in Int /\ num \in Int /\ i \in 0..Passes
  BY Given DEF Typed, Paged
<1>1. \A s : Works(s)' <=> Works(s)
  BY <1>0, Given DEF Works, SizeFits
<1>2. reports \subseteq reports'
  BY Prints
<1>3. /\ Works(side) /\ num > 0 => size > 0
      /\ \A o, k : Works(side) => ~MayFail(o, k)
  <2>1. Works(side) /\ num > 0 => size > 0
    <3>. SUFFICES ASSUME Works(side), num > 0 PROVE size > 0
      OBVIOUS
    <3>1. size = page_num * PAGE_SIZE /\ page_num > 0
      BY <1>0 DEF Works, Paged
    <3>2. PAGE_SIZE \in Nat /\ PAGE_SIZE > 0
      BY Constants
    <3>. QED  BY <1>0, <3>1, <3>2
  <2>. QED  BY <2>1 DEF Works, MayFail
\* The side that has returned is not touched any more.
<1>4. ASSUME side = "enclave", side' = "enclave", brk'["host"] = brk["host"],
             region'["host"] = region["host"]
      PROVE  Works("host")' => Printed("host", Operations)' /\ NothingLeft("host")'
  BY <1>0, <1>1, <1>2, <1>4, Kept DEF Progress, Sides
\* A step of the function that runs on side s.
<1>5. ASSUME NEW s \in Sides, side = s, side' = s,
             \A t \in Sides : t # s => brk'[t] = brk[t] /\ region'[t] = region[t],
             op' = "out" => s = "host",
             op' \in {"cleanup", "return"} => s = "enclave",
             Works(s) => /\ op' # "cleanup"
                         /\ op' \notin {"trapped", "crashed"} => Printed(s, Before(op))'
                         /\ op' \in {"out", "return"} => NothingLeft(s)'
      PROVE  Progress'
  <2>1. Works("host")' /\ side' = "enclave" => Printed("host", Operations)' /\ NothingLeft("host")'
    BY <1>4, <1>5 DEF Sides
  <2>2. Works(s)' <=> Works(s)
    BY <1>1
  <2>3. /\ Works(side)' <=> Works(s)'
        /\ Printed(side, Before(op))' <=> Printed(s, Before(op))'
        /\ NothingLeft(side)' <=> NothingLeft(s)'
    BY <1>5 DEF Works, Printed, NothingLeft
  <2>. QED  BY <1>5, <2>1, <2>2, <2>3 DEF Progress
<1>6. CASE CallSucceeds
  <2>1. op \in Operations /\ op' = op /\ side' = side
    BY <1>6 DEF CallSucceeds
  <2>2. \A t \in Sides : t # side => brk'[t] = brk[t] /\ region'[t] = region[t]
    <3>1. \A t \in Sides : t # side => region'[t] = region[t]
      BY <1>0, <1>6, CallWorks, RegionAt
    <3>2. \A t \in Sides : t # side => brk'[t] = brk[t]
      BY <1>6 DEF CallSucceeds, Break
    <3>. QED  BY <3>1, <3>2
  <2>3. Works(side) => Printed(side, Before(op))
    BY <2>1 DEF Progress, Operations
  <2>4. op \notin {"cleanup", "out", "return"}
    BY <2>1 DEF Operations
  <2>5. Works(side) => Printed(side, Before(op))'
    BY <1>2, <2>1, <2>3 DEF Printed
  <2>. QED  BY <1>0, <1>5, <2>1, <2>2, <2>4, <2>5
<1>7. CASE CallFails
  <2>1. ~Works(side)
    <3>1. (MayFail(op, i) \/ size <= 0) /\ num > 0
      BY <1>0, <1>7, LoopDone DEF CallFails
    <3>. QED  BY <1>3, <3>1 DEF Typed
  <2>2. side' = side /\ brk' = brk /\ region' = region /\ op \in Operations
    BY <1>7 DEF CallFails
  <2>3. /\ op' = "out" => side = "host"
        /\ op' \in {"cleanup", "return"} => side = "enclave"
    <3>1. CASE OnFailure(side, op) # "break"
      BY <1>7, <2>2, <3>1, Failed DEF CallFails, Typed, Sides, Operations
    <3>2. CASE OnFailure(side, op) = "break"
      <4>1. PrintLine /\ op \in {"extend", "restrict"}
        BY <1>7, <2>2, <3>2, Failed DEF CallFails, Typed, Sides, Operations
      <4>2. op' \in {"trapped", "restrict", "free"}
        BY <2>2, <4>1, PrintedKinds, Followed
      <4>. QED  BY <4>2
    <3>. QED  BY <3>1, <3>2
  <2>. QED  BY <1>0, <1>5, <2>1, <2>2, <2>3
<1>8. CASE PpMissing
  <2>1. ~Works(side)
    BY <1>3, <1>8 DEF PpMissing
  <2>2. side' = side /\ op' \in {"trapped", "crashed"} /\ brk' = brk
    BY <1>8 DEF PpMissing
  <2>3. \A t \in Sides : t # side => region'[t] = region[t]
    BY <1>8 DEF PpMissing, RegionTyped
  <2>. QED  BY <1>0, <1>5, <2>1, <2>2, <2>3
<1>9. CASE Report
  <2>1. op \in Operations /\ PrintLine /\ i = Passes /\ UNCHANGED <<side, brk, region>>
    BY <1>0, <1>9, LoopDone DEF Report
  <2>2. CASE op' = "trapped"
    BY <1>0, <1>5, <2>1, <2>2
  <2>3. CASE op' = After(side, op) /\ reports' = reports \cup {Line(op)}
    <3>1. /\ op' = "out" => side = "host"
          /\ op' \notin {"cleanup", "return"}
      BY <2>1, <2>3, Followed DEF Operations
    <3>2. Works(side) => Printed(side, Before(op))
      BY <2>1 DEF Progress, Operations
    <3>3. Before(op') = Before(op) \cup {op}
      BY <2>1, <2>3, Followed DEF Before, Operations
    <3>4. Line(op).side = side /\ Line(op).op = op
      BY DEF Line
    <3>5. Works(side) => Printed(side, Before(op))'
      BY <2>1, <2>3, <3>2, <3>3, <3>4 DEF Printed
    <3>6. Works(side) /\ op' = "out" => NothingLeft(side)'
      <4>. SUFFICES ASSUME op' = "out" PROVE NothingLeft(side)'
        OBVIOUS
      <4>1. op = "shrink" /\ side = "host"
        BY <2>1, <2>3, Followed DEF Operations
      <4>2. brk[side] = 0
        <5>1. brk[side] = Base + (Passes - i) /\ Base = 0
          BY <4>1 DEF Break, Base
        <5>. QED  BY <1>0, <2>1, <5>1, LoopDone
      <4>3. \A k \in Indices : region[side][k] = "none"
        BY <4>1 DEF Loops
      <4>. QED  BY <1>0, <2>1, <4>2, <4>3 DEF NothingLeft
    <3>. QED  BY <1>0, <1>5, <2>1, <3>1, <3>5, <3>6
  <2>. QED  BY <2>1, <2>2, <2>3, PrintedKinds
<1>10. CASE HostOut
  <2>1. side = "host" /\ op = "out" /\ side' = "enclave" /\ op' = "alloc" /\ UNCHANGED <<brk, region>>
    BY <1>10 DEF HostOut
  <2>2. Works("host") => Printed("host", Operations) /\ NothingLeft("host")
    BY <2>1 DEF Progress, Before, Operations
  <2>3. Works("host")' => Printed("host", Operations)' /\ NothingLeft("host")'
    BY <1>0, <1>1, <1>2, <2>1, <2>2, Kept DEF Sides
  <2>4. Printed("enclave", Before(op))'
    BY <2>1 DEF Before, Printed
  <2>. QED  BY <2>1, <2>3, <2>4 DEF Progress
<1>11. CASE InitialHeap
  <2>1. op \in {"prepare", "finish"} /\ side = "enclave" /\ UNCHANGED <<side, region, reports>>
    BY <1>11 DEF InitialHeap, Break
  <2>2. \A t \in Sides : t # side => brk'[t] = brk[t]
    BY <1>11 DEF InitialHeap, Break
  <2>3. op' \in {"grow", "return"}
    BY <1>11 DEF InitialHeap
  <2>4. ASSUME Works(side)
        PROVE  Printed(side, Before(op))' /\ (op' = "return" => NothingLeft(side)')
    <3>1. /\ brk' = [brk EXCEPT ![side] = IF op = "prepare" THEN @ + 1 ELSE @ - 1]
          /\ op' = IF op = "prepare" THEN "grow" ELSE "return"
      BY <1>3, <1>11, <2>4 DEF InitialHeap
    <3>2. Printed(side, Before(op)) /\ \A k \in Indices : region[side][k] = "none"
      BY <2>1, <2>4 DEF Progress, Loops
    <3>3. Before(op') = Before(op)
      BY <2>1, <3>1 DEF Before
    <3>4. op' = "return" => op = "finish" /\ brk[side] = 1
      BY <2>1, <3>1 DEF Break
    <3>5. op' = "return" => brk'[side] = 0
      BY <1>0, <3>1, <3>4 DEF Break
    <3>. QED  BY <1>0, <2>1, <3>2, <3>3, <3>5 DEF Printed, NothingLeft
  <2>. QED  BY <1>0, <1>5, <2>1, <2>2, <2>3, <2>4
<1>12. CASE Cleanup
  <2>1. op = "cleanup" /\ op' = op /\ side' = side /\ brk' = brk
    BY <1>12 DEF Cleanup
  <2>2. side = "enclave" /\ ~Works(side)
    BY <2>1 DEF Progress
  <2>3. \A t \in Sides : t # side => region'[t] = region[t]
    BY <1>12 DEF Cleanup, RegionTyped
  <2>. QED  BY <1>0, <1>5, <2>1, <2>2, <2>3
<1>13. CASE CleanupEnds
  <2>1. op = "cleanup" /\ op' = "return" /\ UNCHANGED <<side, brk, region>>
    BY <1>13 DEF CleanupEnds
  <2>2. side = "enclave" /\ ~Works(side)
    BY <2>1 DEF Progress
  <2>. QED  BY <1>0, <1>5, <2>1, <2>2
<1>14. CASE Finished
  <2>1. UNCHANGED <<num, page_num, faults, side, op, region, brk, reports>>
    BY <1>14 DEF Finished, vars, args
  <2>. QED  BY <1>0, <2>1, Zenon DEF Progress, Works, SizeFits, Before, Printed, NothingLeft
<1>. QED
  BY <1>6, <1>7, <1>8, <1>9, <1>10, <1>11, <1>12, <1>13, <1>14 DEF Next, Running
------------------------------------------------------------------------------
Inv == IInv /\ AveragesWhereLeftByGoto

LEMMA InitInvariant ==
    ASSUME Init
    PROVE  Inv
<1>1. num \in Int /\ page_num \in Int /\ size \in Sizes /\ Passes \in Nat
  BY Constants DEF Init, Passes
<1>2. size \in Int
  BY <1>1, SizesAreInts
<1>3. Typed
  BY <1>1, <1>2 DEF Init, Typed, Pcs, Operations, Sides
<1>4. RegionTyped
  BY DEF Init, RegionTyped
<1>5. Break
  BY <1>1 DEF Init, Break, Sides
<1>6. Size /\ Reports /\ AveragesWhereLeftByGoto
  BY DEF Init, Size, Reports, AveragesWhereLeftByGoto
<1>7. \A k \in Indices : ~(k < 0)
  BY <1>1 DEF Indices
<1>8. Loops /\ Cleaned
  BY <1>7 DEF Init, Loops, Cleaned, Sides
<1>9. Paged
  BY <1>1, SizesArePages DEF Init, Paged, PagesAsPrinted
<1>10. Progress
  BY DEF Init, Progress, Before, Printed
<1>. QED  BY <1>3, <1>4, <1>5, <1>6, <1>8, <1>9, <1>10 DEF IInv, Inv

LEMMA StepInvariant ==
    ASSUME Inv, [Next]_vars
    PROVE  Inv'
<1>1. CASE Next
  <2>1. page_num \in Int
    BY DEF Inv, IInv, Paged
  <2>2. Typed' /\ RegionTyped' /\ Break' /\ Size' /\ Reports'
    BY <1>1, <2>1, TypedStep, RegionTypedStep, BreakStep, SizeStep, ReportsStep DEF Inv, IInv
  <2>3. Loops' /\ Cleaned' /\ AveragesWhereLeftByGoto'
    BY <1>1, LoopsStep, CleanedStep, AveragesStep DEF Inv, IInv
  <2>4. Paged' /\ Progress'
    BY <1>1, PagedStep, ProgressStep DEF Inv, IInv
  <2>. QED  BY <2>2, <2>3, <2>4 DEF Inv, IInv
<1>2. CASE UNCHANGED vars
  <2>1. UNCHANGED <<num, page_num, size, faults, side, op, i, pp, region, brk, reports>>
    BY <1>2 DEF vars, args
  <2>2. /\ Indices' = Indices /\ Base' = Base /\ Passes' = Passes
        /\ \A o, k : MayFail(o, k)' <=> MayFail(o, k)
    BY <2>1 DEF Indices, Passes, Base, MayFail
  <2>3. Typed' /\ RegionTyped' /\ Break' /\ Size' /\ Reports'
    BY <2>1, <2>2, Zenon DEF Inv, IInv, Typed, RegionTyped, Break, Size, Reports
  <2>4. Loops' /\ Cleaned' /\ AveragesWhereLeftByGoto'
    BY <2>1, <2>2, Zenon DEF Inv, IInv, Loops, Cleaned, ExtendFailed, AveragesWhereLeftByGoto, Average
  <2>5. Paged'
    BY <2>1, Zenon DEF Inv, IInv, Paged, PagesAsPrinted, SizeFits
  <2>6. Progress'
    BY <2>1, <2>2, Zenon DEF Inv, IInv, Progress, Works, SizeFits, Before, Printed, NothingLeft
  <2>. QED  BY <2>3, <2>4, <2>5, <2>6 DEF Inv, IInv
<1>. QED  BY <1>1, <1>2

THEOREM Invariant == Spec => []Inv
  BY InitInvariant, StepInvariant, PTL DEF Spec

\* Types; the program break of either side is never lowered below where it was
\* nor raised more than num + 1 times, once if num is negative.
THEOREM TypeCorrect == Spec => []TypeOK
<1>1. Inv => TypeOK
  BY DEF Inv, IInv, Typed, RegionTyped, Break, Reports, TypeOK, Pcs, Ends
<1>. QED  BY <1>1, Invariant, PTL

\* For any num and whatever fails, every printed time is the average of num
\* calls, except those of the enclave's two protection loops and those printed
\* for a negative num.
THEOREM AveragesWhereLeftByGotoAlways == Spec => []AveragesWhereLeftByGoto
<1>1. Inv => AveragesWhereLeftByGoto
  BY DEF Inv
<1>. QED  BY <1>1, Invariant, PTL

\* Only pages whose protection was extended have it restricted, unless an
\* extension failed in the enclave.
THEOREM RestrictsExtendedAlways == Spec => []RestrictsExtended
<1>1. Inv => RestrictsExtended
  BY DEF Inv, IInv, Loops, RestrictsExtended, ExtendFailed
<1>. QED  BY <1>1, Invariant, PTL

\* The enclave returns with no region allocated but those it could not free.
THEOREM CleanupCompleteAlways == Spec => []CleanupComplete
<1>1. Inv => CleanupComplete
  BY DEF Inv, IInv, Cleaned, CleanupComplete
<1>. QED  BY <1>1, Invariant, PTL

\* For a positive num, every printed line is about a positive number of pages,
\* page_num of them when an int holds their size; whatever an overflowing
\* product comes out as.
THEOREM PagesAsPrintedAlways == Spec => []PagesAsPrinted
<1>1. Inv => PagesAsPrinted
  BY DEF Inv, IInv, Paged
<1>. QED  BY <1>1, Invariant, PTL

\* A side none of whose calls fails has, when the enclave's function returns,
\* printed all six lines and given back all regions and every raise of the break:
\* for a negative num, or for a positive number of pages whose size an int holds.
THEOREM NothingLeftBehindAlways == Spec => []NothingLeftBehind
<1>1. ASSUME Inv, op = "return", NEW s \in Sides,
             num < 0 \/ (page_num > 0 /\ SizeFits),
             ~\E f \in faults : f[1] = s
      PROVE  NothingLeft(s) /\ Printed(s, Operations)
  <2>1. Works(s)
    BY <1>1 DEF Works
  <2>2. side = "enclave" /\ Before("return") = Operations
    BY <1>1 DEF Inv, IInv, Progress, Before
  <2>. QED  BY <1>1, <2>1, <2>2 DEF Inv, IInv, Progress, Sides
<1>2. ASSUME Inv PROVE NothingLeftBehind
  <2>1. page_num \in Int /\ num \in Int
    BY <1>2 DEF Inv, IInv, Paged, Typed
  <2>. QED  BY <1>1, <1>2, <2>1 DEF NothingLeftBehind, NothingLeft, Printed
<1>. QED  BY <1>2, Invariant, PTL
=============================================================================
