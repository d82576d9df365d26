-------------------------------- MODULE HandOver --------------------------------
(***************************************************************************)
(* What a blocking queue of several producers promises: the elements of a  *)
(* producer are handed over in the order in which it has enqueued them,    *)
(* each once; and who has been let in to dequeue so many elements will     *)
(* find them.                                                              *)
(***************************************************************************)
EXTENDS Naturals, Totals

CONSTANT Producers

VARIABLES
  enqueued,   \* how many elements a producer has enqueued,
  dequeued,   \* and how many of these, the first ones, have been handed over
  promised    \* how many elements consumers have been let in for

vars == <<enqueued, dequeued, promised>>

Available == Total([p \in Producers |-> enqueued[p] - dequeued[p]])

Init ==
  /\ enqueued = [p \in Producers |-> 0] /\ dequeued = [p \in Producers |-> 0]
  /\ promised = 0

Enqueue(p) ==
  /\ enqueued' = [enqueued EXCEPT ![p] = enqueued'[p]] /\ enqueued'[p] > enqueued[p]
  /\ UNCHANGED <<dequeued, promised>>

Promise ==
  /\ \E n \in 1..Available - promised : promised' = promised + n
  /\ UNCHANGED <<enqueued, dequeued>>

Hand(p) ==
  /\ \E n \in 1..promised :
       /\ n <= enqueued[p] - dequeued[p]
       /\ dequeued' = [dequeued EXCEPT ![p] = @ + n] /\ promised' = promised - n
  /\ UNCHANGED enqueued

Next == Promise \/ \E p \in Producers : Enqueue(p) \/ Hand(p)

Spec == Init /\ [][Next]_vars
=================================================================================
