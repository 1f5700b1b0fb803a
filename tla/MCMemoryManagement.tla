------------------------- MODULE MCMemoryManagement --------------------------
(* Model checking of MemoryManagement: a negative number of regions, none,  *)
(* one and three; any two of the calls fail, or any one; an int of eight    *)
(* bits and pages of four bytes, so that 31 and -1 pages fit, 32 and 64 may *)
(* give a size that is negative or zero, 65 one that is one page, and -40   *)
(* one of 24 pages.                                                         *)
EXTENDS MemoryManagement

MCNums == {-2, 0, 1, 3}
MCPageNums == {-40, -1, 31, 32, 64, 65}
MCTwoFail == {{}} \cup {{a, b} : a, b \in CallsOf(3)}
MCOneFails == {{}} \cup {{a} : a \in CallsOf(3)}
==============================================================================
