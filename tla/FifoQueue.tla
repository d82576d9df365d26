-------------------------------- MODULE FifoQueue --------------------------------
(***************************************************************************)
(* The public queue of the pool and of fifo_scheduler: a circular array    *)
(* that doubles when it is full. It is used under a lock.                  *)
(***************************************************************************)
EXTENDS Naturals, Sequences, FiniteSets

\* The array of the code has 32 items at first; indices wrap by a mask.
NewQueue(size, empty) == [items |-> [i \in 0..size - 1 |-> empty], head |-> 0, tail |-> 0]

Room(q)     == Cardinality(DOMAIN q.items)
Wrap(q, i)  == i % Room(q)
IsEmpty(q)  == q.head = q.tail
Full(q)     == q.head = Wrap(q, q.tail + 1)
Store(q, x) == [q EXCEPT !.items[q.tail] = x, !.tail = Wrap(q, q.tail + 1)]

\* One item of the array is always free; here the full array is unrolled.
Resized(q, empty) ==
  [items |-> [i \in 0..2 * Room(q) - 1 |->
                IF i < Room(q) THEN q.items[Wrap(q, i + q.head)] ELSE empty],
   head |-> 0, tail |-> Room(q) - 1]

Enqueue(q, x, empty) == Store(IF Full(q) THEN Resized(q, empty) ELSE q, x)

First(q)   == q.items[q.head]
Dequeue(q) == [q EXCEPT !.head = Wrap(q, q.head + 1)]

\* The tasks that are in the queue, the oldest first.
Queued(q) == LET n == Wrap(q, q.tail + Room(q) - q.head) IN
             [i \in 1..n |-> q.items[Wrap(q, q.head + i - 1)]]
================================================================================
