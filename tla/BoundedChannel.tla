--------------------------- MODULE BoundedChannel ----------------------------
(***************************************************************************)
(* What the producer and the consumers of ecall_thread_functions promise   *)
(* each other: a first-in first-out channel of at most Capacity items.     *)
(* The producer numbers its items modulo Capacity.                         *)
(***************************************************************************)
EXTENDS Integers, Sequences

CONSTANT Capacity

VARIABLES channel, sent

vars == <<channel, sent>>

Init == channel = <<>> /\ sent = 0

Send ==
    /\ Len(channel) < Capacity
    /\ channel' = Append(channel, sent % Capacity)
    /\ sent' = sent + 1

Receive ==
    /\ channel # <<>>
    /\ channel' = Tail(channel)
    /\ UNCHANGED sent

Next == Send \/ Receive

Spec == Init /\ [][Next]_vars
==============================================================================
