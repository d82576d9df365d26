----------------------------- MODULE ConcurrentQueue -----------------------------
(***************************************************************************)
(* The inside of moodycamel::ConcurrentQueue: each producer has a queue of *)
(* its own, indices of which are handed out by counters that are never     *)
(* locked, and elements are stored in blocks that are used again. An       *)
(* explicit producer finds its blocks again in a circular index, which it  *)
(* replaces by one of twice the size when it is full; consumers look in    *)
(* it for the block of an index without any lock.                          *)
(*                                                                         *)
(* A step is one access to an atomic variable. An element is named by its  *)
(* producer and its index, which says where it must be stored. Accesses    *)
(* are sequentially consistent and indices do not wrap around here.        *)
(***************************************************************************)
EXTENDS Integers, SequencesExt

CONSTANTS
  Producers,
  Explicit,      \* those of a ProducerToken; the others are implicit ones
  Consumers,
  BlockSize,     \* BLOCK_SIZE, 32
  IndexSize,     \* EXPLICIT_INITIAL_INDEX_SIZE, 32: the slots of a block index at first
  Blocks         \* bound: the memory there is; when it is used up, allocations fail

Nothing   == "nothing"       \* no producer, or no block
NoElement == <<Nothing, 0>>  \* in a slot that is free
NoEntry   == [base |-> 0, block |-> Nothing]  \* in a slot of an index, never written

ASSUME QueueAssumption ==
  /\ Explicit \subseteq Producers /\ Nothing \notin Producers
  /\ BlockSize \in Nat \ {0} /\ IndexSize \in Nat \ {0}
  /\ IsFiniteSet(Blocks) /\ Nothing \notin Blocks

VARIABLES
  tailIndex, headIndex,     \* of each producer
  optimistic, overcommit,   \* dequeueOptimisticCount, dequeueOvercommit
  index,                    \* history: the blocks that a producer has used, in order
  ring,                     \* the blocks of an explicit producer, tailBlock last
  slots, emptied,           \* of each block: elements, and how many have been set empty
  pool,                     \* initial pool, free list, and what can be allocated
  headers,                  \* the block indices an explicit producer has had, blockIndex last
  nextSlot, slotsUsed,      \* pr_blockIndexFront, pr_blockIndexSlotsUsed
  filling,                  \* the enqueue a producer is in: at, count, and startBlock, and
                            \* slot and used, originalBlockIndexFront and ...SlotsUsed
  taking,                   \* the dequeue_bulk a consumer is in, with its local variables,
  sees,                     \* and where it looks for a block: in which index, slot and block
  takenBack                 \* history: an explicit producer's enqueue has got a block, and failed

counters   == <<tailIndex, headIndex, optimistic, overcommit>>
blockIndex == <<headers, nextSlot, slotsUsed>>
memory     == <<index, ring, slots, emptied, pool, blockIndex, takenBack>>
queueVars  == <<counters, memory, filling, taking, sees>>

NotFilling == [at |-> "out", count |-> 0, start |-> Nothing, slot |-> 0, used |-> 0]
NotTaking == [at |-> "out", from |-> Nothing, want |-> 0, tail |-> 0, over |-> 0, first |-> 0]
NotSeen   == [header |-> 0, slot |-> -1, block |-> Nothing]

\* A block index as it is made, with what is in its first slots.
NewHeader(size, front, first) ==
  [size |-> size, front |-> front,
   entries |-> [k \in 0..size - 1 |-> IF k \in DOMAIN first THEN first[k] ELSE NoEntry]]

InitQueue ==
  /\ tailIndex = [p \in Producers |-> 0] /\ headIndex = [p \in Producers |-> 0]
  /\ optimistic = [p \in Producers |-> 0] /\ overcommit = [p \in Producers |-> 0]
  /\ index = [p \in Producers |-> <<>>] /\ ring = [p \in Producers |-> <<>>]
  /\ slots = [b \in Blocks |-> [i \in 0..BlockSize - 1 |-> NoElement]]
  /\ emptied = [b \in Blocks |-> 0] /\ pool = Blocks
  /\ headers = [p \in Producers |-> <<NewHeader(IndexSize, -1, <<>>)>>]
  /\ nextSlot = [p \in Producers |-> 0] /\ slotsUsed = [p \in Producers |-> 0]
  /\ filling = [p \in Producers |-> NotFilling]
  /\ taking = [c \in Consumers |-> NotTaking] /\ sees = [c \in Consumers |-> NotSeen]
  /\ takenBack = FALSE

Element(p, i)  == <<p, i>>
BlockOf(p, i)  == index[p][i \div BlockSize + 1]
BlocksFor(n)   == (n + BlockSize - 1) \div BlockSize
Smaller(m, n)  == IF m < n THEN m ELSE n
Filled(p)      == BlocksFor(tailIndex[p])                \* the blocks before this enqueue
Reserved(p)    == SubSeq(index[p], Filled(p) + 1, Len(index[p]))
Missing(p)     == BlocksFor(tailIndex[p] + filling[p].count) - Len(index[p])
Header(p)      == headers[p][Len(headers[p])]
IndexFull(p)   == p \in Explicit /\ slotsUsed[p] = Header(p).size

\* The blocks of p with what is given for some of its indices stored at these.
Stored(p, given) ==
  [b \in Blocks |-> [i \in 0..BlockSize - 1 |->
     LET here == {j \in DOMAIN given : BlockOf(p, j) = b /\ j % BlockSize = i}
     IN IF here = {} THEN slots[b][i] ELSE given[CHOOSE j \in here : TRUE]]]

\* The next block of an explicit producer is b: it is put in the next slot of its index.
Enters(p, b) ==
  IF p \in Explicit
  THEN /\ headers' = [headers EXCEPT ![p][Len(headers[p])].entries[nextSlot[p]] =
                                     [base |-> Len(index[p]), block |-> b]]
       /\ nextSlot' = [nextSlot EXCEPT ![p] = (@ + 1) % Header(p).size]
  ELSE UNCHANGED <<headers, nextSlot>>

Fills(p, a)    == filling' = [filling EXCEPT ![p].at = a]
Takes(c, t)    == taking' = [taking EXCEPT ![c] = t]
--------------------------------------------------------------------------------
(* Faulty variants of steps below, each a slip the code could have had.          *)

\* The counter of losers is read after the optimistic one has been incremented.
ReadLate(c) ==
  LET t == taking[c]
      n == Smaller(t.want, tailIndex[t.from] - (t.first - overcommit[t.from]))
  IN /\ t.at = "added"
     /\ Takes(c, [t EXCEPT !.at = IF n = t.want THEN "claim" ELSE "give back",
                           !.tail = IF n > 0 THEN n ELSE 0])
     /\ UNCHANGED <<counters, memory, filling, sees>>

\* A block that is not filled any more is used again although it has not been emptied.
ReuseNext(p) ==
  /\ p \in Explicit /\ filling[p].at = "reserve" /\ Missing(p) > 0
  /\ ring[p] # <<>> /\ Head(ring[p]) \notin ToSet(Reserved(p))
  /\ index' = [index EXCEPT ![p] = Append(@, Head(ring[p]))]
  /\ ring' = [ring EXCEPT ![p] = Append(Tail(@), Head(@))]
  /\ Enters(p, Head(ring[p]))
  /\ UNCHANGED <<counters, slots, emptied, pool, slotsUsed, takenBack, filling, taking, sees>>
--------------------------------------------------------------------------------
(* enqueue and enqueue_bulk.                                                   *)

Begin(p, n) ==
  /\ filling[p].at = "out"
  /\ filling' = [filling EXCEPT ![p] =
       [at |-> IF p \in Explicit THEN "reserve" ELSE "allocate", count |-> n,
        start |-> IF ring[p] # <<>> THEN Last(ring[p]) ELSE Nothing,
        slot |-> nextSlot[p], used |-> slotsUsed[p]]]
  /\ UNCHANGED <<counters, memory, taking, sees>>

\* An explicit producer first uses the blocks ahead of its tail again, if they are empty ...
NextIsEmpty(p) ==
  /\ p \in Explicit /\ ring[p] # <<>> /\ emptied[Head(ring[p])] = BlockSize
  /\ Head(ring[p]) \notin ToSet(Reserved(p))

Reuse(p) ==
  /\ filling[p].at = "reserve" /\ Missing(p) > 0 /\ NextIsEmpty(p)
  /\ index' = [index EXCEPT ![p] = Append(@, Head(ring[p]))]
  /\ ring' = [ring EXCEPT ![p] = Append(Tail(@), Head(@))]
  /\ Enters(p, Head(ring[p]))
  /\ UNCHANGED <<counters, slots, emptied, pool, slotsUsed, takenBack, filling, taking, sees>>

\* ... and when the next one is not empty, it turns to the pool for all the others.
AskPool(p) ==
  /\ filling[p].at = "reserve" /\ Missing(p) > 0 /\ ~NextIsEmpty(p)
  /\ Fills(p, "allocate")
  /\ UNCHANGED <<counters, memory, taking, sees>>

\* A full index is copied, the oldest entry first, into one of twice the size: new_block_index.
Grow(p) ==
  LET old == Header(p) IN
  /\ filling[p].at = "allocate" /\ Missing(p) > 0 /\ IndexFull(p)
  /\ headers' = [headers EXCEPT ![p] = Append(@,
       NewHeader(2 * old.size, filling[p].used - 1,
                 [k \in 0..old.size - 1 |-> old.entries[(nextSlot[p] + k) % old.size]]))]
  /\ nextSlot' = [nextSlot EXCEPT ![p] = old.size]
  /\ filling' = [filling EXCEPT ![p].slot = filling[p].used]
  /\ UNCHANGED <<counters, index, ring, slots, emptied, pool, slotsUsed, takenBack, taking, sees>>

\* The pool gives one, whichever. It is empty as yet for an explicit producer, that may have
\* to keep it unused.
Requisition(p) ==
  LET b == CHOOSE free \in pool : TRUE IN
  /\ filling[p].at = "allocate" /\ Missing(p) > 0 /\ ~IndexFull(p) /\ pool # {}
  /\ pool' = pool \ {b}
  /\ index' = [index EXCEPT ![p] = Append(@, b)]
  /\ ring' = [ring EXCEPT ![p] = IF p \in Explicit THEN Append(@, b) ELSE @]
  /\ emptied' = [emptied EXCEPT ![b] = BlockSize]
  /\ Enters(p, b)
  /\ slotsUsed' = [slotsUsed EXCEPT ![p] = IF p \in Explicit THEN @ + 1 ELSE @]
  /\ UNCHANGED <<counters, slots, takenBack, filling, taking, sees>>

\* There is no block, or no larger index: the enqueue is taken back. An explicit producer keeps
\* the blocks it has got, ahead of the one it goes on with, but no longer counts their slots;
\* an implicit one adds them to the free list.
Fail(p) ==
  LET start == filling[p].start
      tail  == IF start # Nothing THEN CHOOSE k \in DOMAIN ring[p] : ring[p][k] = start
           ELSE Smaller(1, Len(ring[p]))
  IN /\ filling[p].at = "allocate" /\ Missing(p) > 0 /\ (pool = {} \/ IndexFull(p))
     /\ ring' = [ring EXCEPT ![p] = SubSeq(@, tail + 1, Len(@)) \o SubSeq(@, 1, tail)]
     /\ pool' = IF p \in Explicit THEN pool ELSE pool \cup ToSet(Reserved(p))
     /\ index' = [index EXCEPT ![p] = SubSeq(@, 1, Filled(p))]
     /\ nextSlot' = [nextSlot EXCEPT ![p] = filling[p].slot]
     /\ slotsUsed' = [slotsUsed EXCEPT ![p] = filling[p].used]
     /\ takenBack' = (takenBack \/ (p \in Explicit /\ Reserved(p) # <<>>))
     /\ filling' = [filling EXCEPT ![p] = NotFilling]
     /\ UNCHANGED <<counters, slots, emptied, headers, taking, sees>>

\* All blocks are there: they are reset, consumers may look in the index as far as the last of
\* them, and the elements are constructed in them ...
Fill(p) ==
  /\ filling[p].at \in {"reserve", "allocate"} /\ Missing(p) <= 0
  /\ emptied' = [b \in Blocks |-> IF b \in ToSet(Reserved(p)) THEN 0 ELSE emptied[b]]
  /\ headers' = IF p \in Explicit /\ Reserved(p) # <<>>
                THEN [headers EXCEPT ![p][Len(headers[p])].front =
                                     (nextSlot[p] - 1) % Header(p).size]
                ELSE headers
  /\ slots' = Stored(p, [i \in tailIndex[p]..tailIndex[p] + filling[p].count - 1 |-> Element(p, i)])
  /\ Fills(p, "publish")
  /\ UNCHANGED <<counters, index, ring, pool, nextSlot, slotsUsed, takenBack, taking, sees>>

\* ... before the consumers are told of them.
Publish(p) ==
  /\ filling[p].at = "publish"
  /\ tailIndex' = [tailIndex EXCEPT ![p] = @ + filling[p].count]
  /\ Fills(p, "published")
  /\ UNCHANGED <<headIndex, optimistic, overcommit, memory, taking, sees>>
--------------------------------------------------------------------------------
(* dequeue and dequeue_bulk of a producer, of up to n elements.                *)

ReadTail(c, p, n) ==
  /\ taking[c].at = "out"
  /\ Takes(c, [NotTaking EXCEPT !.at = "tail read", !.from = p, !.want = n,
                                !.tail = tailIndex[p]])
  /\ UNCHANGED <<counters, memory, filling, sees>>

ReadOvercommit(c) ==
  /\ taking[c].at = "tail read"
  /\ Takes(c, [taking[c] EXCEPT !.at = "both read", !.over = overcommit[taking[c].from]])
  /\ UNCHANGED <<counters, memory, filling, sees>>

\* Is there anything? This is only a guess.
Guess(c) ==
  LET t == taking[c]
      n == Smaller(t.want, t.tail - (optimistic[t.from] - t.over))
  IN /\ t.at = "both read"
     /\ Takes(c, IF n > 0 THEN [t EXCEPT !.at = "add", !.want = n, !.tail = 0]
                          ELSE NotTaking)
     /\ UNCHANGED <<counters, memory, filling, sees>>

AddOptimistic(c) ==
  LET t == taking[c] IN
  /\ t.at = "add"
  /\ optimistic' = [optimistic EXCEPT ![t.from] = @ + t.want]
  /\ Takes(c, [t EXCEPT !.at = "added", !.first = optimistic[t.from]])
  /\ UNCHANGED <<tailIndex, headIndex, overcommit, memory, filling, sees>>

\* With the tail as it is by now, how many elements are there? From here on t.tail is how
\* many the consumer may take, and the rest is to be given back.
ReadTailAgain(c) ==
  LET t == taking[c]
      n == Smaller(t.want, tailIndex[t.from] - (t.first - t.over))
  IN /\ t.at = "added"
     /\ Takes(c, [t EXCEPT !.at = IF n = t.want THEN "claim" ELSE "give back",
                           !.tail = IF n > 0 THEN n ELSE 0])
     /\ UNCHANGED <<counters, memory, filling, sees>>

GiveBack(c) ==
  LET t == taking[c] IN
  /\ t.at = "give back"
  /\ overcommit' = [overcommit EXCEPT ![t.from] = @ + t.want - t.tail]
  /\ Takes(c, IF t.tail > 0 THEN [t EXCEPT !.at = "claim", !.want = t.tail]
                            ELSE NotTaking)
  /\ UNCHANGED <<tailIndex, headIndex, optimistic, memory, filling, sees>>

Claim(c) ==
  LET t == taking[c] IN
  /\ t.at = "claim"
  /\ headIndex' = [headIndex EXCEPT ![t.from] = @ + t.want]
  /\ Takes(c, [NotTaking EXCEPT !.at = "move", !.from = t.from, !.want = t.want,
                                !.first = headIndex[t.from]])
  /\ UNCHANGED <<tailIndex, optimistic, overcommit, memory, filling, sees>>

\* The indices that a consumer has claimed and that are in one block, the first ones.
Part(c) ==
  LET t == taking[c] IN
  {i \in t.first..t.first + t.want - 1 : i \div BlockSize = t.first \div BlockSize}

\* In which block are they? Of an explicit producer, the index is read, ...
ReadIndex(c) ==
  /\ taking[c].at = "move" /\ taking[c].from \in Explicit /\ sees[c].header = 0
  /\ sees' = [sees EXCEPT ![c].header = Len(headers[taking[c].from])]
  /\ UNCHANGED <<counters, memory, filling, taking>>

\* ... and how far the slot is from its front: as many slots as there are blocks between them.
ReadFront(c) ==
  LET h == headers[taking[c].from][sees[c].header] IN
  /\ taking[c].at = "move" /\ sees[c].header > 0 /\ sees[c].slot < 0
  /\ sees' = [sees EXCEPT ![c].slot =
       (h.front + (taking[c].first \div BlockSize - h.entries[h.front].base)) % h.size]
  /\ UNCHANGED <<counters, memory, filling, taking>>

\* The block a consumer is to move elements out of, once it has looked it up.
Looked(c) == taking[c].at = "move" /\ (taking[c].from \in Explicit => sees[c].slot >= 0)
Found(c) ==
  IF taking[c].from \in Explicit
  THEN headers[taking[c].from][sees[c].header].entries[sees[c].slot].block
  ELSE BlockOf(taking[c].from, taking[c].first)

\* A slot that was never written holds no address: what happens then is undefined, and the
\* consumer does not get any further here.
Move(c) ==
  /\ Looked(c) /\ Found(c) # Nothing
  /\ slots' = [slots EXCEPT ![Found(c)] = [k \in 0..BlockSize - 1 |->
                 IF k \in {i % BlockSize : i \in Part(c)} THEN NoElement ELSE @[k]]]
  /\ Takes(c, [taking[c] EXCEPT !.at = "moved"])
  /\ sees' = [sees EXCEPT ![c].block = Found(c)]
  /\ UNCHANGED <<counters, index, ring, emptied, pool, blockIndex, takenBack, filling>>

\* Who empties a block of an implicit producer puts it into the free list. The next part is
\* in the block of the next slot.
SetEmpty(c) ==
  LET t == taking[c]
      b == sees[c].block
      k == Cardinality(Part(c))
  IN /\ t.at = "moved"
     /\ emptied' = [emptied EXCEPT ![b] = @ + k]
     /\ pool' = IF t.from \notin Explicit /\ emptied'[b] = BlockSize THEN pool \cup {b} ELSE pool
     /\ Takes(c, IF k < t.want
                 THEN [t EXCEPT !.at = "move", !.want = @ - k, !.first = @ + k]
                 ELSE NotTaking)
     /\ sees' = [sees EXCEPT ![c] =
          IF k < t.want /\ t.from \in Explicit
          THEN [@ EXCEPT !.slot = (@ + 1) % headers[t.from][sees[c].header].size, !.block = Nothing]
          ELSE NotSeen]
     /\ UNCHANGED <<counters, index, ring, slots, blockIndex, takenBack, filling>>

Enqueuing(p) == Reuse(p) \/ AskPool(p) \/ Grow(p) \/ Requisition(p) \/ Fail(p) \/ Fill(p) \/ Publish(p)
Dequeuing(c) == ReadOvercommit(c) \/ Guess(c) \/ AddOptimistic(c) \/ ReadTailAgain(c)
                \/ GiveBack(c) \/ Claim(c) \/ ReadIndex(c) \/ ReadFront(c) \/ Move(c) \/ SetEmpty(c)
================================================================================
