----------------------------- MODULE HandoffQueue -----------------------------
(***************************************************************************)
(* What the off-hot-path handoff promises its two users, whatever the      *)
(* memory layout behind it: a FIFO of at most Capacity event pointers.     *)
(* The hot thread adds at the back without waiting; the worker takes the   *)
(* oldest pointer, or is told there is none.  Being told "none" while      *)
(* something is queued is allowed: the worker may not have seen it yet.    *)
(***************************************************************************)
EXTENDS Naturals, Sequences

CONSTANTS
    Capacity,   \* the most pointers ever queued
    Values,     \* the event pointers
    NullPtr     \* what the worker gets when it finds nothing

VARIABLES
    queue,      \* the pointers queued, oldest first
    handed      \* what the worker's latest attempt got

vars == <<queue, handed>>

Init ==
    /\ queue = <<>>
    /\ handed = NullPtr

Enqueue(v) ==
    /\ Len(queue) < Capacity
    /\ queue' = Append(queue, v)
    /\ UNCHANGED handed

Dequeue ==
    /\ queue # <<>>
    /\ handed' = Head(queue)
    /\ queue' = Tail(queue)

FindNothing ==
    /\ handed' = NullPtr
    /\ UNCHANGED queue

Next ==
    \/ \E v \in Values : Enqueue(v)
    \/ Dequeue
    \/ FindNothing

Spec == Init /\ [][Next]_vars
===============================================================================
