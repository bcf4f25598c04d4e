------------------------------ MODULE MCSpscRing ------------------------------
(* SpscRing for TLC: the counters are capped past the point where both wrap around. *)
EXTENDS SpscRing

CONSTANT MaxPushes  \* bound: pointers published in one behaviour

MCNext == Next /\ head' =< MaxPushes

MCSpec == Init /\ [][MCNext]_vars
===============================================================================
