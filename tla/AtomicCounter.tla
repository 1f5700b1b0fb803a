---------------------------- MODULE AtomicCounter ----------------------------
(***************************************************************************)
(* What the adders of ecall_thread_functions promise: every addition is    *)
(* one indivisible step, each adder makes Loops of them, the addition that *)
(* reaches the grand total is told to the adder that made it, and only     *)
(* that adder publishes it.                                                *)
(***************************************************************************)
EXTENDS Integers

CONSTANTS Adders, Loops,
          Goal                  \* the grand total of all additions

VARIABLES total, added, result, published

vars == <<total, added, result, published>>

Init ==
    /\ total = 0 /\ published = 0
    /\ added  = [t \in Adders |-> 0]
    /\ result = [t \in Adders |-> 0]

Add(t) ==
    /\ added[t] < Loops
    /\ total' = total + 1
    /\ added' = [added EXCEPT ![t] = @ + 1]
    /\ \/ total + 1 # Goal /\ UNCHANGED result
       \/ total + 1 = Goal /\ result' = [result EXCEPT ![t] = Goal]
    /\ UNCHANGED published

Publish(t) ==
    /\ added[t] = Loops /\ result[t] # 0
    /\ published' = result[t]
    /\ UNCHANGED <<total, added, result>>

Next == \E t \in Adders : Add(t) \/ Publish(t)

Spec == Init /\ [][Next]_vars
==============================================================================
