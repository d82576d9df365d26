------------------------------- MODULE StealDeque -------------------------------
(***************************************************************************)
(* What a work-stealing queue promises: a double-ended queue of tasks, of  *)
(* which the owner uses the bottom and thieves the top, atomically.        *)
(***************************************************************************)
EXTENDS Naturals, Sequences

CONSTANT Tasks

VARIABLES
  deque,    \* from the top, where tasks are stolen, to the bottom
  given     \* the tasks that have been given out

Init == deque = <<>> /\ given = {}

Push(x) ==
  /\ x \notin given /\ \A i \in DOMAIN deque : deque[i] # x
  /\ deque' = Append(deque, x) /\ UNCHANGED given

Give(x, rest) == deque # <<>> /\ given' = given \cup {x} /\ deque' = rest

PopBottom == Give(deque[Len(deque)], SubSeq(deque, 1, Len(deque) - 1))
StealTop  == Give(Head(deque), Tail(deque))

\* The queue is destroyed, and with it the handles in it.
Drop == given' = given \cup {deque[i] : i \in DOMAIN deque} /\ deque' = <<>>

Next == (\E x \in Tasks : Push(x)) \/ PopBottom \/ StealTop \/ Drop

Spec == Init /\ [][Next]_<<deque, given>>
================================================================================
