---------------------------- MODULE SerialExecutors ----------------------------
(***************************************************************************)
(* What the schedulers of this program promise to async++: an executor     *)
(* runs the tasks given to schedule() one at a time, in the order in which *)
(* they came, and forgets them when its queue is cleared. Which thread     *)
(* runs a task, and how it learns that there is one, is not said.          *)
(***************************************************************************)
EXTENDS Naturals, Sequences

CONSTANT Executors

VARIABLES
  pending,    \* an executor's tasks that have not begun, numbered as they came
  running,    \* the tasks an executor is running: at most one
  submitted   \* how many tasks have come

vars == <<pending, running, submitted>>

Init ==
  /\ pending = [e \in Executors |-> <<>>]
  /\ running = [e \in Executors |-> {}]
  /\ submitted = 0

Submit(e) ==
  /\ submitted' = submitted + 1
  /\ pending' = [pending EXCEPT ![e] = Append(@, submitted')]
  /\ UNCHANGED running

Begin(e) ==
  /\ running[e] = {} /\ pending[e] # <<>>
  /\ running' = [running EXCEPT ![e] = {Head(pending[e])}]
  /\ pending' = [pending EXCEPT ![e] = Tail(@)]
  /\ UNCHANGED submitted

End(e) ==
  /\ running[e] # {}
  /\ running' = [running EXCEPT ![e] = {}]
  /\ UNCHANGED <<pending, submitted>>

\* Some executors lose the tasks they have not begun.
Drop(D) ==
  /\ pending' = [e \in Executors |-> IF e \in D THEN <<>> ELSE pending[e]]
  /\ UNCHANGED <<running, submitted>>

Next ==
  \/ \E e \in Executors : Submit(e) \/ Begin(e) \/ End(e)
  \/ \E D \in SUBSET Executors : Drop(D)

Spec == Init /\ [][Next]_vars
===============================================================================
