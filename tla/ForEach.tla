--------------------------------- MODULE ForEach ---------------------------------
(***************************************************************************)
(* What parallel_for promises: the function is called for every element,   *)
(* once, unless a call throws; and when parallel_for returns, all that is  *)
(* over.                                                                   *)
(***************************************************************************)
EXTENDS Naturals

CONSTANT Elements     \* how many elements there are

VARIABLES
  throwing,   \* the elements the function throws for
  calls,      \* how often the function was called for an element
  busy,       \* the elements that somebody still has to work on
  returned

All == 0..Elements - 1

Init == throwing \subseteq All /\ calls = [e \in All |-> 0] /\ busy = All /\ returned = FALSE

\* The function is called for some elements; those after one that throws are given up. The last
\* ones can be the step with which parallel_for returns.
Call ==
  /\ ~returned /\ busy' \subseteq busy /\ UNCHANGED throwing
  /\ returned' \in BOOLEAN /\ (returned' => busy' = {})
  /\ \E S \in SUBSET (busy \ busy') :
       /\ calls' = [e \in All |-> IF e \in S THEN calls[e] + 1 ELSE calls[e]]
       /\ S # busy \ busy' => S \cap throwing # {}

Spec == Init /\ [][Call]_<<throwing, calls, busy, returned>>
================================================================================
