----------------------------- MODULE MCBlockingQueue -----------------------------
EXTENDS BlockingQueue, TLC

CONSTANTS e, i, c1, c2

OfMC == {e, i}
ExplicitMC == {e}
ConsumersMC == {c1, c2}

Calls(max, mode) == [max |-> max, mode |-> mode]

\* Bulk enqueues that need several blocks, and so may fail half-way or make the block index
\* grow, and consumers that take elements of several blocks, wait, time out and try.
EnqueueMC == e :> <<2, 4, 3>> @@ i :> <<2>>
DequeueMC == c1 :> <<Calls(2, "wait")>> @@ c2 :> <<Calls(3, "timed"), Calls(1, "try")>>
==================================================================================
