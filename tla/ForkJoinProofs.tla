----------------------------- MODULE ForkJoinProofs ------------------------------
(***************************************************************************)
(* Theorems of ForkJoin, and with it of ThreadPool: for any sizes of the   *)
(* pool, elements, grain and ways to split.                                *)
(*                                                                         *)
(* Stacks are the heart of the invariant: what can lie on what tells that  *)
(* a call stays below everything that works for it. The lemmas go from the *)
(* operators on stacks, queues and the list of sleepers to the kinds of    *)
(* steps a stack can make, and from there to the actions one by one.       *)
(***************************************************************************)
EXTENDS ForkJoin, FiniteSetTheorems, SequenceTheorems, NaturalsInduction, WellFoundedInduction, TLAPS

\* The activations of a thread, and what a call returns: elements, or the mark of a result that
\* nobody has stored.
Outs   == Seq(0..Elements)
Marks  == Tasks \cup {NoTask}
Extent(f) == <<f.lo, IF f.at = "split" THEN f.hi ELSE f.sub[2]>>

Starts    == [kind : {"start"}, at : {"spawn", "assign"}, threads : Nat \ {0}, other : 0..Nobody]
TaskLoops == [kind : {"loop"}, at : {"test", "pop", "steal", "sleep", "relock"}, task : Marks,
              added : BOOLEAN, left : SUBSET Workers, got : SUBSET {"finished"}]
Runs      == [kind : {"task"}, at : {"run", "called", "store", "flush"}, task : Tasks,
              thrown : BOOLEAN, out : Outs]
AnyCalls  == [kind : {"call"}, at : {"split", "left", "nested", "get", "read", "join", "spin"},
              lo : 0..Elements, hi : 0..Elements, threads : Nat, last : 0..Nobody, sub : Marks,
              thrown : BOOLEAN, out : Outs]
Rests     == [kind : {"schedule"}, at : {"check", "lock"}]
Sleeps    == [kind : {"wait"}, at : {"sleep"}]
Clients   == [kind : {"client"}, at : {"start", "called", "returned", "joining", "over", "terminated"},
              next : Nat, thrown : BOOLEAN, out : Outs]

\* A call has a task for the second part once it has split, and what it has to return is
\* in order, as far as it has come.
SoundCall(f) ==
  /\ f.lo < f.hi
  /\ IF f.at = "split" THEN f.sub = NoTask ELSE f.sub \in Tasks /\ f.sub[1] = f.hi
  /\ f.at \in {"get", "read"} => ~f.thrown /\ InOrder(f.out, f.lo, f.hi)
  /\ f.at \in {"join", "spin"} /\ ~f.thrown => InOrder(f.out, f.lo, f.sub[2])

SplitCalls   == {f \in AnyCalls : SoundCall(f)}
SoundRuns    == {f \in Runs : f.at = "store" /\ ~f.thrown => InOrder(f.out, f.task[1], f.task[2])}
SoundClients == {f \in Clients : f.at = "returned" /\ ~f.thrown => InOrder(f.out, 0, Elements)}

AllFrames == Starts \cup TaskLoops \cup SoundRuns \cup SplitCalls \cup Rests \cup Sleeps \cup SoundClients

\* What an activation can be on top of: a task on the loop that took it, a call on the task or
\* the call it was made by, a loop or a wait on the call that waits for its task.
Above(f, g) ==
  \/ f.kind = "task" /\ g.kind = "loop" /\ g.at = "test"
  \/ f.kind = "call" /\ g.kind = "task" /\ g.at = "called" /\ Extent(f) = g.task
  \/ f.kind = "call" /\ g.kind = "call" /\ g.at = "nested" /\ Extent(f) = <<g.lo, g.hi>>
  \/ f.kind = "call" /\ g.kind = "client" /\ g.at = "called" /\ Extent(f) = <<0, Elements>>
  \/ f.kind = "schedule" /\ g.kind = "call" /\ g.at = "left"
  \/ f.kind = "loop" /\ g.kind = "call" /\ g.at \in {"read", "spin"} /\ f.task = g.sub
  \/ f.kind = "wait" /\ g.kind = "call" /\ g.at \in {"read", "spin"}

\* What lies below all: the loop that ends with the pool, or the thread's start, and the client.
Base(th, f) == IF th = Main THEN f.kind = "client"
               ELSE f.kind = "start" \/ (f.kind = "loop" /\ f.task = NoTask)

\* Only the main thread waits by sleeping, and only a worker by looping.
Own(th, f) == IF th = Main THEN f.kind \in {"client", "call", "wait"}
              ELSE f.kind \in {"start", "loop", "task", "call", "schedule"}

\* A stack in order: each activation is one of its thread's, and on top of one it belongs to.
WellStacked(th, s) ==
  /\ s \in Seq(AllFrames)
  /\ \A i \in 1..Len(s) : Own(th, s[i])
  /\ \A i \in 1..Len(s) - 1 : ~Base(th, s[i]) /\ Above(s[i], s[i + 1])
  /\ s # <<>> => Base(th, s[Len(s)])

\* The places of the circular array between head and tail hold tasks.
InUse(q, i) ==
  IF q.head <= q.tail THEN q.head <= i /\ i < q.tail ELSE q.head <= i \/ i < q.tail

\* A circular array with room for what was asked first, and tasks where they are queued.
IsQueue(q) ==
  /\ q \in [items : [0..Room(q) - 1 -> Marks], head : 0..Room(q) - 1, tail : 0..Room(q) - 1]
  /\ Room(q) \in Nat /\ Room(q) >= FirstSize
  /\ \A i \in 0..Room(q) - 1 : InUse(q, i) => q.items[i] \in Tasks

\* What each variable holds. A call that throws, or reads a result nobody has stored, has
\* elements that are not of its range; SoundCall and the like say when they must be.
Types ==
  /\ size \in Sizes /\ handles \subseteq Workers /\ shutdown \in BOOLEAN
  /\ deque \in [Workers -> Seq(Tasks)] /\ IsQueue(public)
  /\ waiters \in Seq(Workers) /\ event \in [Threads -> SUBSET {"finished", "available"}]
  /\ state \in [Tasks -> {"absent", "pending", "completed", "canceled"}]
  /\ conts \in [Tasks -> Seq(Threads)]
  /\ held \subseteq {t \in Tasks : state[t] # "absent"}
  /\ subpart \in [Tasks -> Nat \X (0..Nobody)] /\ result \in [Tasks -> Outs]

\* Every thread's stack is in order, and the main thread never ends.
Stacked ==
  /\ stack \in [Threads -> Seq(AllFrames)] /\ stack[Main] # <<>>
  /\ \A th \in Threads : WellStacked(th, stack[th])

\* The threads that w still has to start are those up to its share, and nobody else starts them.
Share(w) == w..w + Top(w).threads - 1
Starting(w) == w \in Workers /\ stack[w] # <<>> /\ Top(w).kind = "start"

\* Nobody is started twice: the shares lie apart and the threads in them have not begun.
StartedOnce ==
  \A w \in Workers : Starting(w) =>
    /\ Share(w) \subseteq Workers
    /\ Top(w).at = "assign" => Top(w).other \in Workers
    /\ \A v \in Share(w) \ {w} : stack[v] = <<>>
    /\ \A v \in Workers \ {w} : Starting(v) => Share(v) \cap Share(w) = {}

\* The list of sleeping threads: who is on it sleeps or has just been woken, and who sleeps
\* without a signal is on it.
Listed ==
  /\ IsInjective(waiters)
  /\ \A i \in 1..Len(waiters) : On(waiters[i], "loop", "sleep") \/ On(waiters[i], "loop", "relock")
  /\ \A w \in Workers : Asleep(w) => \E i \in 1..Len(waiters) : waiters[i] = w

\* A thread looks for tasks elsewhere with its own queue empty.
EmptyWhenLooking ==
  \A w \in Workers : (\E a \in {"steal", "sleep", "relock"} : On(w, "loop", a)) => deque[w] = <<>>

\* The pool is shut down by its only client, when its call has returned.
ShutLast ==
  /\ shutdown => \E a \in {"joining", "over", "terminated"} : On(Main, "client", a)
  /\ ~shutdown => stack[0] # <<>>

\* A call on the stack s waits, or will wait, for t.
Held(t, s) == \E i \in 1..Len(s) : s[i].kind = "call" /\ s[i].sub = t

\* A call waits for each task that the pool has.
Supported == \A t \in held : \E th \in Threads : Held(t, stack[th])

\* The part of QueuesAreLookedInto that does not follow from EmptyWhenLooking.
LookedInto == ~IsEmpty(public) => \E w \in Workers : stack[w] # <<>> /\ ~Asleep(w)

\* What a task has stored has the elements of its range in order.
ResultsInOrder == \A t \in Tasks : result[t] # Unwritten => InOrder(result[t], t[1], t[2])

\* The inductive invariant.
IInv == /\ Types /\ Stacked /\ StartedOnce /\ Listed /\ EmptyWhenLooking /\ ShutLast
        /\ LookedInto /\ Supported /\ ResultsInOrder
\* What steps make of a stack.
Put(s, g)       == <<g>> \o Tail(s)
PutTwo(s, h, g) == <<h, g>> \o Tail(s)
Rest(s)         == Tail(s)
Back(s, g)      == <<g>> \o SubSeq(s, 3, Len(s))

\* g may lie where f lies.
Takes(th, f, g) ==
  /\ g \in AllFrames /\ Own(th, g) /\ (Base(th, g) <=> Base(th, f))
  /\ \A x : Above(f, x) => Above(g, x)

--------------------------------------------------------------------------------
(* Stacks.                                                                     *)

\* Which places the shorter ranges of indices have.
LEMMA Positions ==
  /\ \A n \in Nat : n >= 1 => 1 \in 1..n /\ (n >= 2 => 2 \in 1..n /\ 1 \in 1..n - 1) /\ (n # 1 => n >= 2)
  /\ \A n \in Nat : n >= 2 => n + 1 \in 3..n + 1 /\ (n + 1) - 1 = n /\ 3 \in Int /\ n \in Int
  /\ \A n \in Nat : n >= 2 => \A i \in 3..n : i \in 1..n
OBVIOUS

\* The top of a sequence replaced.
LEMMA ReplaceTop ==
  ASSUME NEW S, NEW s \in Seq(S), s # <<>>, NEW g \in S, NEW r, r = <<g>> \o Tail(s)
  PROVE  /\ r \in Seq(S) /\ Len(r) = Len(s) /\ r # <<>> /\ r[1] = g /\ Head(r) = g
         /\ \A i \in 2..Len(s) : r[i] = s[i]
<1>1. Len(s) \in Nat /\ Len(s) >= 1 /\ Tail(s) \in Seq(S) /\ Len(Tail(s)) = Len(s) - 1
      /\ \A i \in 1..Len(s) - 1 : Tail(s)[i] = s[i + 1]
  BY EmptySeq, HeadTailProperties, LenProperties
<1>2. <<g>> \in Seq(S) /\ Len(<<g>>) = 1 /\ <<g>>[1] = g
  OBVIOUS
<1>3. r \in Seq(S) /\ Len(r) = Len(s) /\ \A i \in 1..Len(s) : r[i] = IF i <= 1 THEN <<g>>[i] ELSE Tail(s)[i - 1]
  BY <1>1, <1>2, ConcatProperties
<1> QED
  BY <1>1, <1>2, <1>3

\* The top of a sequence replaced, and something put on it.
LEMMA PushTop ==
  ASSUME NEW S, NEW s \in Seq(S), s # <<>>, NEW g \in S, NEW h \in S, NEW r, r = <<h, g>> \o Tail(s)
  PROVE  /\ r \in Seq(S) /\ Len(r) = Len(s) + 1 /\ r # <<>> /\ r[1] = h /\ r[2] = g /\ Head(r) = h
         /\ \A i \in 3..Len(s) + 1 : r[i] = s[i - 1]
<1>1. Len(s) \in Nat /\ Len(s) >= 1 /\ Tail(s) \in Seq(S) /\ Len(Tail(s)) = Len(s) - 1
      /\ \A i \in 1..Len(s) - 1 : Tail(s)[i] = s[i + 1]
  BY EmptySeq, HeadTailProperties, LenProperties
<1>2. <<h, g>> \in Seq(S) /\ Len(<<h, g>>) = 2 /\ <<h, g>>[1] = h /\ <<h, g>>[2] = g
  OBVIOUS
<1>3. r \in Seq(S) /\ Len(r) = Len(s) + 1
      /\ \A i \in 1..Len(s) + 1 : r[i] = IF i <= 2 THEN <<h, g>>[i] ELSE Tail(s)[i - 2]
  BY <1>1, <1>2, ConcatProperties
<1> QED
  BY <1>1, <1>2, <1>3

\* A sequence with a length has a head.
LEMMA FirstOf ==
  ASSUME NEW S, NEW u \in Seq(S), Len(u) # 0
  PROVE  u # <<>> /\ Head(u) = u[1]
BY EmptySeq

\* The top taken off.
LEMMA PopTop ==
  ASSUME NEW S, NEW s \in Seq(S), s # <<>>
  PROVE  /\ Tail(s) \in Seq(S) /\ Len(Tail(s)) = Len(s) - 1 /\ Len(s) \in Nat \ {0}
         /\ (Len(s) >= 2 => Tail(s) # <<>> /\ Head(Tail(s)) = s[2])
         /\ \A i \in 1..Len(s) - 1 : Tail(s)[i] = s[i + 1]
<1>1. /\ Len(s) \in Nat /\ Len(s) >= 1 /\ Tail(s) \in Seq(S) /\ Len(Tail(s)) = Len(s) - 1
      /\ \A i \in 1..Len(s) - 1 : Tail(s)[i] = s[i + 1]
  BY EmptySeq, HeadTailProperties, LenProperties
<1>2. ASSUME Len(s) >= 2 PROVE Tail(s) # <<>> /\ Head(Tail(s)) = s[2]
  <2>1. Len(Tail(s)) # 0
    BY <1>1, <1>2
  <2>2. Tail(s) # <<>> /\ Head(Tail(s)) = Tail(s)[1]
    BY ONLY <1>1, <2>1, FirstOf, Zenon
  <2>3. 1 \in 1..Len(s) - 1
    BY <1>1, <1>2, Positions
  <2> QED
    BY <1>1, <2>2, <2>3
<1> QED
  BY <1>1, <1>2

\* The top taken off and what is below it replaced.
LEMMA BackTop ==
  ASSUME NEW S, NEW s \in Seq(S), NEW n \in Nat, n = Len(s), n >= 2, NEW g \in S,
         NEW u, u = SubSeq(s, 3, n), NEW r, r = <<g>> \o u
  PROVE  /\ r \in Seq(S) /\ Len(r) = n - 1 /\ r # <<>> /\ r[1] = g /\ Head(r) = g
         /\ \A i \in 2..n - 1 : r[i] = s[i + 1]
<1>1. u \in Seq(S) /\ Len(u) = n - 2 /\ \A i \in 1..n - 2 : u[i] = s[i + 2]
  <2>1. \A i \in 3..n : s[i] \in S
    BY Positions, ElementOfSeq
  <2>2. /\ u \in Seq(S) /\ Len(u) = IF 3 <= n THEN n - 3 + 1 ELSE 0
        /\ \A i \in 1..n - 3 + 1 : u[i] = s[3 + i - 1]
    BY <2>1, SubSeqProperties
  <2>3. Len(u) = n - 2 /\ \A i \in 1..n - 2 : 3 + i - 1 = i + 2 /\ i \in 1..n - 3 + 1
    BY <2>2
  <2> QED
    BY <2>2, <2>3
<1>2. <<g>> \in Seq(S) /\ Len(<<g>>) = 1 /\ <<g>>[1] = g
  OBVIOUS
<1>3. r \in Seq(S) /\ Len(r) = n - 1
      /\ \A i \in 1..n - 1 : r[i] = IF i <= 1 THEN <<g>>[i] ELSE u[i - 1]
  BY <1>1, <1>2, ConcatProperties
<1> QED
  BY <1>1, <1>2, <1>3

\* A stack stays in order when what is on top goes on, ...
LEMMA WellReplaced ==
  ASSUME NEW th, NEW s, WellStacked(th, s), s # <<>>, NEW g, Takes(th, Head(s), g),
         NEW r, r = Put(s, g)
  PROVE  /\ WellStacked(th, r) /\ r # <<>> /\ Len(r) = Len(s) /\ Head(r) = g /\ r[1] = g
         /\ \A i \in 2..Len(s) : r[i] = s[i]
<1>1. s \in Seq(AllFrames) /\ g \in AllFrames /\ Len(s) \in Nat /\ Len(s) >= 1 /\ Head(s) = s[1]
  BY EmptySeq, LenProperties DEF WellStacked, Takes
<1>2. /\ r \in Seq(AllFrames) /\ r # <<>> /\ Len(r) = Len(s) /\ Head(r) = g /\ r[1] = g
      /\ \A i \in 2..Len(s) : r[i] = s[i]
  BY <1>1, ReplaceTop DEF Put
<1>3. \A i \in 1..Len(r) : Own(th, r[i])
  BY <1>1, <1>2 DEF WellStacked, Takes
<1>4. ASSUME NEW i \in 1..Len(r) - 1 PROVE ~Base(th, r[i]) /\ Above(r[i], r[i + 1])
  <2>1. ~Base(th, s[i]) /\ Above(s[i], s[i + 1]) /\ r[i + 1] = s[i + 1]
    BY <1>1, <1>2 DEF WellStacked
  <2>2. CASE i = 1
    BY <1>1, <1>2, <2>1, <2>2 DEF Takes
  <2>3. CASE i # 1
    BY <1>1, <1>2, <2>1, <2>3
  <2> QED
    BY <2>2, <2>3
<1>5. Base(th, r[Len(r)])
  <2>1. Base(th, s[Len(s)])
    BY <1>1 DEF WellStacked
  <2>2. CASE Len(s) = 1
    BY <1>1, <1>2, <2>1, <2>2 DEF Takes
  <2>3. CASE Len(s) # 1
    BY <1>1, <1>2, <2>1, <2>3
  <2> QED
    BY <2>2, <2>3
<1> QED
  BY <1>2, <1>3, <1>4, <1>5 DEF WellStacked

\* ... when it puts an activation on top of itself, ...
LEMMA WellPushed ==
  ASSUME NEW th, NEW s, WellStacked(th, s), s # <<>>, NEW g, Takes(th, Head(s), g),
         NEW h \in AllFrames, Own(th, h), ~Base(th, h), Above(h, g), NEW r, r = PutTwo(s, h, g)
  PROVE  /\ WellStacked(th, r) /\ r # <<>> /\ Len(r) = Len(s) + 1 /\ Head(r) = h /\ r[1] = h /\ r[2] = g
         /\ \A i \in 3..Len(s) + 1 : r[i] = s[i - 1]
<1>1. s \in Seq(AllFrames) /\ g \in AllFrames /\ Len(s) \in Nat /\ Len(s) >= 1 /\ Head(s) = s[1]
  BY EmptySeq, LenProperties DEF WellStacked, Takes
<1>2. /\ r \in Seq(AllFrames) /\ r # <<>> /\ Len(r) = Len(s) + 1 /\ Head(r) = h /\ r[1] = h /\ r[2] = g
      /\ \A i \in 3..Len(s) + 1 : r[i] = s[i - 1]
  BY <1>1, PushTop DEF PutTwo
<1>3. ASSUME NEW i \in 1..Len(r) PROVE Own(th, r[i])
  <2>1. CASE i <= 2
    BY <1>2, <2>1 DEF Takes
  <2>2. CASE i > 2
    BY <1>1, <1>2, <2>2 DEF WellStacked
  <2> QED
    BY <1>1, <1>2, <2>1, <2>2
<1>4. ASSUME NEW i \in 1..Len(r) - 1 PROVE ~Base(th, r[i]) /\ Above(r[i], r[i + 1])
  <2>1. CASE i = 1
    BY <1>1, <1>2, <2>1
  <2>2. CASE i # 1
    <3>1. i - 1 \in 1..Len(s) - 1 /\ (i - 1) + 1 = i
      BY <1>1, <1>2, <2>2
    <3>2. ~Base(th, s[i - 1]) /\ Above(s[i - 1], s[i])
      BY <3>1 DEF WellStacked
    <3>3. r[i + 1] = s[i] /\ (i # 2 => r[i] = s[i - 1])
      BY <1>1, <1>2, <2>2
    <3>4. CASE i = 2
      BY <1>1, <1>2, <3>2, <3>3, <3>4 DEF Takes
    <3>5. CASE i # 2
      BY <3>2, <3>3, <3>5
    <3> QED
      BY <3>4, <3>5
  <2> QED
    BY <2>1, <2>2
<1>5. Base(th, r[Len(r)])
  <2>1. Base(th, s[Len(s)])
    BY <1>1 DEF WellStacked
  <2>2. CASE Len(s) = 1
    BY <1>1, <1>2, <2>1, <2>2 DEF Takes
  <2>3. CASE Len(s) # 1
    <3>1. Len(s) + 1 \in 3..Len(s) + 1 /\ (Len(s) + 1) - 1 = Len(s)
      BY <1>1, <2>3, Positions
    <3> QED
      BY <1>2, <2>1, <3>1
  <2> QED
    BY <2>2, <2>3
<1> QED
  BY <1>2, <1>3, <1>4, <1>5 DEF WellStacked

\* Below an activation that is not the thread's first there is another, which it belongs to.
LEMMA NotAlone ==
  ASSUME NEW th, NEW s, WellStacked(th, s), s # <<>>
  PROVE  /\ Head(s) = s[1] /\ Len(s) \in Nat /\ Len(s) >= 1 /\ s[1] \in AllFrames /\ Own(th, s[1])
         /\ ~Base(th, s[1]) => Len(s) >= 2 /\ Above(s[1], s[2]) /\ s[2] \in AllFrames /\ Own(th, s[2])
         /\ Len(s) >= 2 => ~Base(th, s[1])
<1>1. s \in Seq(AllFrames) /\ Len(s) \in Nat /\ Len(s) >= 1 /\ Head(s) = s[1]
  BY EmptySeq, LenProperties DEF WellStacked
<1>2. \A i \in 1..Len(s) : s[i] \in AllFrames /\ Own(th, s[i])
  BY <1>1 DEF WellStacked
<1>3. Len(s) >= 2 => ~Base(th, s[1]) /\ Above(s[1], s[2])
  <2>1. \A i \in 1..Len(s) - 1 : ~Base(th, s[i]) /\ Above(s[i], s[i + 1])
    BY DEF WellStacked
  <2>2. Len(s) >= 2 => 1 \in 1..Len(s) - 1 /\ 1 + 1 = 2
    BY <1>1
  <2> QED
    BY <2>1, <2>2
<1>4. Len(s) = 1 => Base(th, s[1])
  BY <1>1 DEF WellStacked
<1>5. 1 \in 1..Len(s) /\ (Len(s) >= 2 => 2 \in 1..Len(s)) /\ (Len(s) # 1 => Len(s) >= 2)
  BY <1>1, Positions
<1>6. s[1] \in AllFrames /\ Own(th, s[1]) /\ (Len(s) >= 2 => s[2] \in AllFrames /\ Own(th, s[2]))
  BY <1>2, <1>5
<1> QED
  BY <1>1, <1>3, <1>4, <1>5, <1>6

\* ... when the top ends, ...
LEMMA WellPopped ==
  ASSUME NEW th, NEW s, WellStacked(th, s), s # <<>>, NEW r, r = Rest(s)
  PROVE  /\ WellStacked(th, r) /\ Len(r) = Len(s) - 1
         /\ ~Base(th, Head(s)) => r # <<>> /\ Head(r) = s[2] /\ r[1] = s[2] /\ Above(Head(s), s[2])
         /\ Base(th, Head(s)) => r = <<>>
         /\ \A i \in 1..Len(s) - 1 : r[i] = s[i + 1]
<1>1. s \in Seq(AllFrames) /\ Len(s) \in Nat /\ Len(s) >= 1 /\ Head(s) = s[1]
  BY EmptySeq, LenProperties DEF WellStacked
<1>2. /\ r \in Seq(AllFrames) /\ Len(r) = Len(s) - 1 /\ (Len(s) >= 2 => r # <<>> /\ Head(r) = s[2])
      /\ \A i \in 1..Len(s) - 1 : r[i] = s[i + 1]
  BY <1>1, PopTop DEF Rest
<1>3. /\ \A i \in 1..Len(r) : Own(th, r[i])
      /\ \A i \in 1..Len(r) - 1 : ~Base(th, r[i]) /\ Above(r[i], r[i + 1])
      /\ r # <<>> => Base(th, r[Len(r)])
  BY <1>1, <1>2, EmptySeq DEF WellStacked
<1>4. Len(s) = 1 => r = <<>>
  BY <1>1, <1>2, EmptySeq
<1> QED
  BY <1>1, <1>2, <1>3, <1>4, NotAlone DEF WellStacked

\* ... and when it ends and what is below goes on with what it returned.
LEMMA WellReturned ==
  ASSUME NEW th, NEW s, WellStacked(th, s), s # <<>>, ~Base(th, Head(s)), NEW g, Takes(th, s[2], g),
         NEW r, r = Back(s, g)
  PROVE  /\ WellStacked(th, r) /\ r # <<>> /\ Len(r) = Len(s) - 1 /\ Head(r) = g /\ r[1] = g
         /\ \A i \in 2..Len(s) - 1 : r[i] = s[i + 1]
<1>1. s \in Seq(AllFrames) /\ g \in AllFrames /\ Len(s) \in Nat /\ Len(s) >= 2 /\ Head(s) = s[1]
  BY NotAlone DEF WellStacked, Takes
<1>2. /\ r \in Seq(AllFrames) /\ r # <<>> /\ Len(r) = Len(s) - 1 /\ Head(r) = g /\ r[1] = g
      /\ \A i \in 2..Len(s) - 1 : r[i] = s[i + 1]
  <2>1. PICK n, u : n \in Nat /\ n = Len(s) /\ u = SubSeq(s, 3, n) /\ r = <<g>> \o u
    BY <1>1 DEF Back
  <2>2. /\ r \in Seq(AllFrames) /\ r # <<>> /\ Len(r) = n - 1 /\ Head(r) = g /\ r[1] = g
        /\ \A i \in 2..n - 1 : r[i] = s[i + 1]
    BY ONLY <1>1, <2>1, BackTop
  <2> QED
    BY <2>1, <2>2
<1>3. \A i \in 1..Len(r) : Own(th, r[i])
  BY <1>1, <1>2 DEF WellStacked, Takes
<1>4. ASSUME NEW i \in 1..Len(r) - 1 PROVE ~Base(th, r[i]) /\ Above(r[i], r[i + 1])
  <2>1. i + 1 \in 1..Len(s) - 1
    BY <1>1, <1>2
  <2>2. ~Base(th, s[i + 1]) /\ Above(s[i + 1], s[i + 2]) /\ r[i + 1] = s[i + 2]
    BY <1>1, <1>2, <2>1 DEF WellStacked
  <2>3. CASE i = 1
    BY <1>1, <1>2, <2>2, <2>3 DEF Takes
  <2>4. CASE i # 1
    BY <1>1, <1>2, <2>2, <2>4
  <2> QED
    BY <2>3, <2>4
<1>5. Base(th, r[Len(r)])
  <2>1. Base(th, s[Len(s)])
    BY <1>1 DEF WellStacked
  <2>2. CASE Len(s) = 2
    BY <1>1, <1>2, <2>1, <2>2 DEF Takes
  <2>3. CASE Len(s) # 2
    BY <1>1, <1>2, <2>1, <2>3
  <2> QED
    BY <2>2, <2>3
<1> QED
  BY <1>2, <1>3, <1>4, <1>5 DEF WellStacked
--------------------------------------------------------------------------------
(* Activations.                                                                *)

\* An activation's fields are those of its kind.
LEMMA KindOf ==
  ASSUME NEW f \in AllFrames
  PROVE  /\ f.kind = "start" => f \in Starts
         /\ f.kind = "loop" => f \in TaskLoops
         /\ f.kind = "task" => f \in SoundRuns
         /\ f.kind = "call" => f \in SplitCalls
         /\ f.kind = "schedule" => f \in Rests
         /\ f.kind = "wait" => f \in Sleeps
         /\ f.kind = "client" => f \in SoundClients
BY DEF AllFrames, Starts, TaskLoops, SoundRuns, Runs, SplitCalls, AnyCalls, Rests, Sleeps, SoundClients, Clients

\* Activations of each kind.
LEMMA KindIn ==
  /\ \A f \in Starts : f \in AllFrames /\ f.kind = "start"
  /\ \A f \in TaskLoops : f \in AllFrames /\ f.kind = "loop"
  /\ \A f \in SoundRuns : f \in AllFrames /\ f.kind = "task"
  /\ \A f \in SplitCalls : f \in AllFrames /\ f.kind = "call"
  /\ \A f \in Rests : f \in AllFrames /\ f.kind = "schedule"
  /\ \A f \in Sleeps : f \in AllFrames /\ f.kind = "wait"
  /\ \A f \in SoundClients : f \in AllFrames /\ f.kind = "client"
BY DEF AllFrames, Starts, TaskLoops, SoundRuns, Runs, SplitCalls, AnyCalls, Rests, Sleeps, SoundClients, Clients

\* The threads are numbers, the pool's before the main thread.
LEMMA PoolNumbers ==
  /\ Max(Sizes) \in Nat /\ Main \in Nat /\ Nobody \in Nat /\ Main \notin Workers /\ Nobody \notin Threads
  /\ Workers \subseteq Nat /\ Workers \subseteq Threads /\ Main \in Threads /\ 0 \in Workers
  /\ Threads \subseteq 0..Nobody /\ \A n \in Sizes : n \in Nat /\ n >= 1 /\ 0..n - 1 \subseteq Workers
BY PoolAssumption DEF Main, Workers, Threads, Nobody

\* A start, a loop, a run, a call and the client each go on in place.
LEMMA StartMoves ==
  ASSUME NEW th \in Workers, NEW f \in Starts, NEW g \in AllFrames, g \in Starts \/ g = Loop(NoTask)
  PROVE  Takes(th, f, g)
BY PoolNumbers, KindIn DEF Takes, Own, Base, Above, Loop, Starts

\* A loop goes on waiting for the same task.
LEMMA LoopMoves ==
  ASSUME NEW th \in Workers, NEW f \in TaskLoops, NEW g \in TaskLoops, g.task = f.task
  PROVE  Takes(th, f, g)
BY PoolNumbers, KindIn DEF Takes, Own, Base, Above

\* A task that runs is taken for a task by whatever it has called.
LEMMA RunMoves ==
  ASSUME NEW th \in Workers, NEW f \in SoundRuns, NEW g \in SoundRuns
  PROVE  Takes(th, f, g)
BY PoolNumbers, KindIn DEF Takes, Own, Base, Above

\* A call goes on with the same range.
LEMMA CallMoves ==
  ASSUME NEW th \in Threads, NEW f \in SplitCalls, NEW g \in SplitCalls, Extent(g) = Extent(f)
  PROVE  Takes(th, f, g)
BY PoolNumbers, KindIn DEF Takes, Own, Base, Above

\* The client goes on.
LEMMA ClientMoves ==
  ASSUME NEW f \in SoundClients, NEW g \in SoundClients
  PROVE  Takes(Main, f, g)
BY PoolNumbers, KindIn DEF Takes, Own, Base, Above

\* What thread_task_loop, a task and a call begin with.
LEMMA NewLoop ==
  ASSUME NEW t \in Marks
  PROVE  Loop(t) \in TaskLoops /\ Loop(t).task = t /\ Loop(t).at = "test" /\ Loop(t).kind = "loop"
BY DEF TaskLoops, Loop

\* A task begins with nothing called and nothing thrown.
LEMMA NewRun ==
  ASSUME NEW t \in Tasks
  PROVE  Running(t) \in SoundRuns /\ Running(t).kind = "task" /\ Running(t).task = t
<1>1. <<>> \in Outs
  BY DEF Outs
<1> QED
  BY <1>1 DEF SoundRuns, Runs, Running

\* A task is a range that is not empty.
LEMMA TaskRange ==
  /\ \A t \in Tasks : /\ t = <<t[1], t[2]>> /\ t[1] \in 0..Elements /\ t[2] \in 0..Elements
                      /\ t[1] < t[2]
  /\ \A i, j \in 0..Elements : i < j => <<i, j>> \in Tasks
BY RangeAssumption

\* A call begins before its split.
LEMMA NewCalls ==
  ASSUME NEW lo \in 0..Elements, NEW hi \in 0..Elements, lo < hi, NEW n \in Nat, NEW last \in 0..Nobody
  PROVE  Call(lo, hi, n, last) \in SplitCalls /\ Extent(Call(lo, hi, n, last)) = <<lo, hi>>
<1>1. <<>> \in Outs
  BY DEF Outs
<1> QED
  BY <1>1 DEF SplitCalls, AnyCalls, SoundCall, Call, Extent, Marks

\* auto_grain_size is at least one (partitioner.h).
LEMMA GrainPositive == AutoGrain \in Nat /\ AutoGrain >= 1
BY RangeAssumption DEF AutoGrain

\* Half of the threads is less than all of them and, of more than one, not none.
LEMMA Halves == \A n \in Nat : n \div 2 \in Nat /\ n \div 2 <= n /\ (n > 1 => n \div 2 >= 1 /\ n \div 2 < n)
OBVIOUS

\* The middle of a range that is split lies inside.
LEMMA MiddleInside ==
  ASSUME NEW th, NEW f \in SplitCalls, Splits(th, f)
  PROVE  Middle(f) \in Nat /\ f.lo < Middle(f) /\ Middle(f) < f.hi
<1>1. f.lo \in Nat /\ f.hi \in Nat /\ f.lo < f.hi
  BY DEF SplitCalls, AnyCalls, SoundCall
<1>2. f.hi - f.lo > 1
  BY <1>1, GrainPositive, RangeAssumption DEF Splits
<1> QED
  BY <1>1, <1>2 DEF Middle

\* The call that splits keeps the first part and refers to the task of the second.
LEMMA SplitFrames ==
  ASSUME NEW th \in Threads, NEW f \in SplitCalls, f.at = "split", Splits(th, f)
  PROVE  LET mid == Middle(f)
             n   == NumThreads(th, f)
             g   == FirstPart(th, f, mid, n)
         IN /\ <<mid, f.hi>> \in Tasks /\ n \in Nat /\ n \div 2 \in Nat
            /\ g \in SplitCalls /\ g.at = "left" /\ g.sub = <<mid, f.hi>> /\ Extent(g) = Extent(f)
<1>1. Middle(f) \in Nat /\ f.lo < Middle(f) /\ Middle(f) < f.hi /\ f.hi \in 0..Elements
  BY MiddleInside DEF SplitCalls, AnyCalls
<1>2. Middle(f) \in 0..Elements /\ <<Middle(f), f.hi>> \in Tasks
  BY <1>1, RangeAssumption, TaskRange
<1>3. NumThreads(th, f) \in Nat
  BY RangeAssumption DEF NumThreads, SplitCalls, AnyCalls
<1>4. PICK mid, n : mid = Middle(f) /\ n = NumThreads(th, f)
  OBVIOUS
<1>5. n \in Nat /\ n \div 2 \in Nat /\ n - n \div 2 \in Nat
  BY <1>3, <1>4, Halves
<1>6. PICK k \in Nat : k = n - n \div 2
  BY <1>5
<1>7. PICK t \in Tasks : t = <<mid, f.hi>> /\ t[1] = mid /\ t[2] = f.hi
  BY <1>2, <1>4
<1>8. FirstPart(th, f, mid, n) = [f EXCEPT !.at = "left", !.hi = mid, !.sub = t, !.last = th, !.threads = k]
  BY <1>6, <1>7 DEF FirstPart
<1>9. LET g == [f EXCEPT !.at = "left", !.hi = mid, !.sub = t, !.last = th, !.threads = k]
      IN g \in SplitCalls /\ g.at = "left" /\ g.sub = t /\ Extent(g) = Extent(f)
  BY <1>1, <1>2, <1>4, <1>7, PoolNumbers DEF SplitCalls, AnyCalls, SoundCall, Extent, Marks
<1> QED
  BY <1>2, <1>4, <1>5, <1>7, <1>8, <1>9

\* Two parts of a range put together.
LEMMA PutTogether ==
  ASSUME NEW lo \in Nat, NEW mid \in Nat, NEW hi \in Nat, lo < mid, mid < hi,
         NEW a \in Outs, NEW b \in Outs, InOrder(a, lo, mid), b = Unwritten \/ InOrder(b, mid, hi)
  PROVE  a \o b \in Outs /\ InOrder(a \o b, lo, hi)
<1> DEFINE c == a \o b
<1>1. /\ c \in Outs /\ Len(c) = Len(a) + Len(b) /\ Len(a) \in Nat /\ Len(b) \in Nat
      /\ \A i \in 1..Len(a) + Len(b) : c[i] = IF i <= Len(a) THEN a[i] ELSE b[i - Len(a)]
      /\ DOMAIN a = 1..Len(a) /\ DOMAIN b = 1..Len(b) /\ DOMAIN c = 1..Len(a) + Len(b)
  BY ConcatProperties DEF Outs
<1>2. Gap = Elements
  BY DEF Gap, Unwritten
<1>3. \A i \in 1..Len(a) : a[i] = Elements \/ a[i] \in lo..mid - 1
  BY <1>1, <1>2 DEF InOrder
<1>4. \A i \in 1..Len(b) : b[i] = Elements \/ b[i] \in mid..hi - 1
  <2>1. CASE b = Unwritten
    BY <2>1 DEF Unwritten
  <2> QED
    BY <1>1, <1>2, <2>1 DEF InOrder
<1>5. \A i, j \in 1..Len(a) : i < j /\ a[i] # Elements /\ a[j] # Elements => a[i] < a[j]
  BY <1>1, <1>2 DEF InOrder
<1>6. \A i, j \in 1..Len(b) : i < j /\ b[i] # Elements /\ b[j] # Elements => b[i] < b[j]
  <2>1. CASE b = Unwritten
    BY <2>1 DEF Unwritten
  <2> QED
    BY <1>1, <1>2, <2>1 DEF InOrder
<1>7. \/ \E i \in 1..Len(a) : a[i] = Elements
      \/ a = [i \in 1..mid - lo |-> lo + i - 1]
  BY <1>1, <1>2 DEF InOrder, Contains
<1>8. \/ \E i \in 1..Len(b) : b[i] = Elements
      \/ b = [i \in 1..hi - mid |-> mid + i - 1]
  <2>1. b = Unwritten => 1 \in 1..Len(b) /\ b[1] = Elements
    BY DEF Unwritten
  <2> QED
    BY <1>1, <1>2, <2>1 DEF InOrder, Contains
<1> SUFFICES c \in Outs /\ InOrder(c, lo, hi)
  OBVIOUS
<1> HIDE DEF c
<1>9. ASSUME NEW i \in 1..Len(a) + Len(b)
      PROVE  \/ i \in 1..Len(a) /\ c[i] = a[i]
             \/ i - Len(a) \in 1..Len(b) /\ i > Len(a) /\ c[i] = b[i - Len(a)]
  BY <1>1
<1>10. ASSUME NEW i \in DOMAIN c PROVE c[i] = Gap \/ c[i] \in lo..hi - 1
  BY <1>1, <1>2, <1>3, <1>4, <1>9
<1>11. ASSUME NEW i \in DOMAIN c, NEW j \in DOMAIN c, i < j, c[i] # Gap, c[j] # Gap
       PROVE  c[i] < c[j]
  <2>1. CASE j \in 1..Len(a) /\ c[j] = a[j]
    <3>1. i \in 1..Len(a) /\ c[i] = a[i]
      BY <1>1, <1>11, <2>1
    <3> QED
      BY <1>2, <1>5, <1>11, <2>1, <3>1
  <2>2. CASE j - Len(a) \in 1..Len(b) /\ j > Len(a) /\ c[j] = b[j - Len(a)]
    <3>1. CASE i \in 1..Len(a) /\ c[i] = a[i]
      <4>1. c[i] \in lo..mid - 1 /\ c[j] \in mid..hi - 1
        BY <1>2, <1>3, <1>4, <1>11, <2>2, <3>1
      <4> QED
        BY <4>1
    <3>2. CASE i - Len(a) \in 1..Len(b) /\ i > Len(a) /\ c[i] = b[i - Len(a)]
      <4>1. i - Len(a) < j - Len(a)
        BY <1>1, <1>11, <2>2, <3>2
      <4> QED
        BY <1>2, <1>6, <1>11, <2>2, <3>2, <4>1
    <3> QED
      BY <1>1, <1>9, <3>1, <3>2
  <2> QED
    BY <1>1, <1>9, <2>1, <2>2
<1>12. c = [i \in 1..hi - lo |-> lo + i - 1] \/ Contains(c, Gap)
  <2>1. CASE \E i \in 1..Len(a) : a[i] = Elements
    <3>1. PICK i \in 1..Len(a) : a[i] = Elements
      BY <2>1
    <3>2. c[i] = Elements /\ i \in 1..Len(c)
      BY <1>1, <3>1
    <3> QED
      BY <1>1, <1>2, <3>2 DEF Contains
  <2>2. CASE \E i \in 1..Len(b) : b[i] = Elements
    <3>1. PICK i \in 1..Len(b) : b[i] = Elements
      BY <2>2
    <3>2. c[Len(a) + i] = Elements /\ Len(a) + i \in 1..Len(c)
      BY <1>1, <3>1
    <3> QED
      BY <1>1, <1>2, <3>2 DEF Contains
  <2>3. CASE a = [i \in 1..mid - lo |-> lo + i - 1] /\ b = [i \in 1..hi - mid |-> mid + i - 1]
    <3>1. Len(a) = mid - lo /\ Len(b) = hi - mid
      BY <2>3
    <3>2. ASSUME NEW i \in 1..hi - lo PROVE c[i] = lo + i - 1
      <4>1. CASE i <= mid - lo
        <5>1. i \in 1..mid - lo /\ i \in 1..Len(a) + Len(b) /\ i <= Len(a)
          BY <3>1, <4>1
        <5> QED
          BY <1>1, <2>3, <5>1
      <4>2. CASE i > mid - lo
        <5>1. PICK j \in 1..hi - mid : j = i - (mid - lo) /\ mid + j - 1 = lo + i - 1
          BY <4>2
        <5>2. i \in 1..Len(a) + Len(b) /\ ~(i <= Len(a)) /\ j = i - Len(a)
          BY <3>1, <4>2, <5>1
        <5>3. b[j] = mid + j - 1
          BY <2>3
        <5> QED
          BY <1>1, <5>1, <5>2, <5>3
      <4> QED
        BY <4>1, <4>2
    <3>3. Len(a) + Len(b) = hi - lo
      BY <3>1
    <3>4. DOMAIN c = 1..hi - lo
      BY <1>1, <3>3
    <3>5. c = [i \in DOMAIN c |-> c[i]]
      BY <1>1 DEF Outs
    <3> QED
      BY <3>2, <3>4, <3>5
  <2> QED
    BY <1>7, <1>8, <2>1, <2>2, <2>3
<1>13. /\ \A i \in DOMAIN c : c[i] = Gap \/ c[i] \in lo..hi - 1
       /\ \A i, j \in DOMAIN c : i < j /\ c[i] # Gap /\ c[j] # Gap => c[i] < c[j]
  BY <1>10, <1>11
<1> QED
  BY <1>1, <1>12, <1>13 DEF InOrder
--------------------------------------------------------------------------------
(* The queues and the list of sleeping threads.                                *)

\* The last entry and what comes before it.
LEMMA FrontLast ==
  ASSUME NEW S, NEW s \in Seq(S), s # <<>>
  PROVE  /\ Len(s) \in Nat /\ Len(s) >= 1 /\ Last(s) \in S /\ Last(s) = s[Len(s)]
         /\ Front(s) \in Seq(S) /\ Len(Front(s)) = Len(s) - 1
         /\ \A i \in 1..Len(s) - 1 : Front(s)[i] = s[i]
<1>1. PICK n \in Nat : n = Len(s) /\ n >= 1
  BY EmptySeq, LenProperties
<1>2. \A i \in 1..n - 1 : s[i] \in S
  BY <1>1, ElementOfSeq
<1>3. PICK m \in Int : m = n - 1
  BY <1>1
<1>4. /\ SubSeq(s, 1, m) \in Seq(S)
      /\ Len(SubSeq(s, 1, m)) = IF 1 <= m THEN m - 1 + 1 ELSE 0
      /\ \A i \in 1..m - 1 + 1 : SubSeq(s, 1, m)[i] = s[1 + i - 1]
  BY <1>2, <1>3, SubSeqProperties
<1>5. Front(s) = SubSeq(s, 1, m) /\ Last(s) = s[n]
  BY <1>1, <1>3 DEF Front, Last
<1>6. \A i \in 1..n - 1 : i \in 1..m - 1 + 1 /\ 1 + i - 1 = i
  BY <1>1, <1>3
<1>7. s[n] \in S
  BY <1>1, ElementOfSeq
<1> QED
  BY <1>1, <1>3, <1>4, <1>5, <1>6, <1>7

\* All but the last entry of a list without repetitions.
LEMMA FrontOfList ==
  ASSUME NEW S, NEW ws \in Seq(S), ws # <<>>, IsInjective(ws)
  PROVE  /\ IsInjective(Front(ws)) /\ Front(ws) \in Seq(S) /\ Last(ws) \in S
         /\ \E i \in 1..Len(ws) : ws[i] = Last(ws)
         /\ \A i \in 1..Len(Front(ws)) : \E j \in 1..Len(ws) : Front(ws)[i] = ws[j] /\ ws[j] # Last(ws)
         /\ \A j \in 1..Len(ws) : ws[j] = Last(ws) \/ \E i \in 1..Len(Front(ws)) : Front(ws)[i] = ws[j]
<1>1. PICK n, u : n \in Nat /\ n = Len(ws) /\ u = Front(ws) /\ n >= 1
  BY FrontLast
<1>2. /\ Last(ws) = ws[n] /\ Last(ws) \in S /\ u \in Seq(S) /\ Len(u) = n - 1 /\ \A i \in 1..n - 1 : u[i] = ws[i]
  BY <1>1, FrontLast
<1>3. \A i, j \in 1..n : ws[i] = ws[j] => i = j
  BY <1>1 DEF IsInjective
<1>4. \A i, j \in 1..n - 1 : u[i] = u[j] => i = j
  BY <1>1, <1>2, <1>3
<1>5. IsInjective(u)
  BY <1>1, <1>2, <1>4 DEF IsInjective
<1>6. \A i \in 1..n - 1 : u[i] = ws[i] /\ ws[i] # ws[n] /\ i \in 1..n
  BY <1>1, <1>2, <1>3
<1>7. \A j \in 1..n : j = n \/ j \in 1..n - 1
  BY <1>1
<1>8. \E i \in 1..n : ws[i] = ws[n]
  BY <1>1
<1>9. \A i \in 1..n - 1 : \E j \in 1..n : u[i] = ws[j] /\ ws[j] # ws[n]
  BY <1>6
<1>10. \A j \in 1..n : ws[j] = ws[n] \/ \E i \in 1..n - 1 : u[i] = ws[j]
  BY <1>6, <1>7
<1> QED
  BY <1>1, <1>2, <1>5, <1>8, <1>9, <1>10

\* r lists what ws lists but w.
AllBut(S, ws, w, r) ==
  /\ IsInjective(r) /\ r \in Seq(S)
  /\ \A i \in 1..Len(r) : \E j \in 1..Len(ws) : r[i] = ws[j] /\ ws[j] # w
  /\ \A j \in 1..Len(ws) : ws[j] = w \/ \E i \in 1..Len(r) : r[i] = ws[j]

\* Taking one off a list of different threads by the exchange with the last.
LEMMA WithoutFromList ==
  ASSUME NEW S, NEW ws \in Seq(S), IsInjective(ws), NEW w, NEW r, r = Without(ws, w)
  PROVE  AllBut(S, ws, w, r)
<1>1. CASE ~\E j \in DOMAIN ws : ws[j] = w
  <2>1. r = ws /\ DOMAIN ws = 1..Len(ws)
    BY <1>1 DEF Without
  <2> QED
    BY <1>1, <2>1 DEF AllBut
<1>2. CASE \E j \in DOMAIN ws : ws[j] = w
  <2>1. PICK n \in Nat : n = Len(ws) /\ DOMAIN ws = 1..n /\ ws \in [1..n -> S]
    OBVIOUS
  <2>2. PICK k, v : k \in 1..n /\ ws[k] = w /\ v = [ws EXCEPT ![k] = Last(ws)] /\ r = Front(v)
    BY <1>2, <2>1 DEF Without
  <2>3. Last(ws) = ws[n] /\ ws[n] \in S /\ k \in 1..n
    BY <2>1, <2>2 DEF Last
  <2>4. v \in [1..n -> S]
    BY <2>1, <2>2, <2>3
  <2>5. v \in Seq(S) /\ Len(v) = n /\ v # <<>> /\ \A i \in 1..n : v[i] = IF i = k THEN ws[n] ELSE ws[i]
    BY <2>1, <2>2, <2>3, <2>4
  <2>6. PICK u : u = Front(v)
    OBVIOUS
  <2>7. u \in Seq(S) /\ Len(u) = n - 1 /\ \A i \in 1..n - 1 : u[i] = v[i]
    BY <2>5, <2>6, FrontLast
  <2>8. \A i, j \in 1..n : ws[i] = ws[j] => i = j
    BY <2>1 DEF IsInjective
  <2>9. \A i \in 1..n - 1 : i \in 1..n /\ u[i] = IF i = k THEN ws[n] ELSE ws[i]
    BY <2>5, <2>7
  <2>10. \A i, j \in 1..n - 1 : u[i] = u[j] => i = j
    BY <2>8, <2>9
  <2>11. IsInjective(u)
    BY <2>7, <2>10 DEF IsInjective
  <2>12. ASSUME NEW i \in 1..n - 1 PROVE \E j \in 1..n : u[i] = ws[j] /\ ws[j] # w
    BY <2>2, <2>8, <2>9
  <2>13. ASSUME NEW j \in 1..n, ws[j] # w PROVE \E i \in 1..n - 1 : u[i] = ws[j]
    <3>1. CASE j = n
      <4>1. k \in 1..n - 1
        BY <2>2, <2>13, <3>1
      <4> QED
        BY <2>9, <3>1, <4>1
    <3>2. CASE j # n
      <4>1. j \in 1..n - 1 /\ j # k
        BY <2>2, <2>13, <3>2
      <4> QED
        BY <2>9, <4>1
    <3> QED
      BY <3>1, <3>2
  <2>14. /\ r = u /\ Len(u) = n - 1 /\ Len(ws) = n
    BY <2>1, <2>2, <2>6, <2>7
  <2> QED
    BY ONLY <2>7, <2>11, <2>12, <2>13, <2>14 DEF AllBut
<1> QED
  BY <1>1, <1>2

\* Adding one to such a list.
LEMMA AppendToList ==
  ASSUME NEW S, NEW ws \in Seq(S), IsInjective(ws), NEW w \in S, \A i \in 1..Len(ws) : ws[i] # w
  PROVE  /\ IsInjective(Append(ws, w)) /\ Append(ws, w) \in Seq(S)
         /\ Len(Append(ws, w)) = Len(ws) + 1 /\ Append(ws, w)[Len(ws) + 1] = w
         /\ \A i \in 1..Len(ws) : Append(ws, w)[i] = ws[i]
<1>1. PICK n, u : n \in Nat /\ n = Len(ws) /\ u = Append(ws, w)
  BY LenProperties
<1>2. u \in Seq(S) /\ Len(u) = n + 1 /\ u[n + 1] = w /\ \A i \in 1..n : u[i] = ws[i]
  BY <1>1, AppendProperties
<1>3. \A i, j \in 1..n : ws[i] = ws[j] => i = j
  BY <1>1 DEF IsInjective
<1>4. \A i, j \in 1..n + 1 : u[i] = u[j] => i = j
  BY <1>1, <1>2, <1>3
<1>5. IsInjective(u)
  BY <1>2, <1>4 DEF IsInjective
<1> QED
  BY <1>1, <1>2, <1>5

\* The circular array.
LEMMA RoomOf ==
  ASSUME NEW q, NEW n \in Nat, DOMAIN q.items = 0..n - 1
  PROVE  Room(q) = n
BY FS_Interval DEF Room

\* An index of the circular array is wrapped at most once.
LEMMA WrapOnce ==
  ASSUME NEW q, Room(q) \in Nat, NEW i \in Nat, i < 2 * Room(q)
  PROVE  Wrap(q, i) = IF i < Room(q) THEN i ELSE i - Room(q)
BY DEF Wrap

\* The public queue is in order when it is made, ...
LEMMA NewQueueIsQueue == IsQueue(NewQueue(FirstSize, NoTask)) /\ Room(NewQueue(FirstSize, NoTask)) = FirstSize
<1> DEFINE q == NewQueue(FirstSize, NoTask)
<1>1. q.items \in [0..FirstSize - 1 -> Marks] /\ q.head = 0 /\ q.tail = 0
      /\ q = [items |-> q.items, head |-> 0, tail |-> 0] /\ DOMAIN q.items = 0..FirstSize - 1
  BY DEF NewQueue, Marks
<1>2. FirstSize \in Nat /\ FirstSize >= 1
  BY PoolAssumption
<1> HIDE DEF q
<1>3. Room(q) = FirstSize
  BY <1>1, <1>2, RoomOf
<1>4. IsQueue(q)
  BY <1>1, <1>2, <1>3 DEF IsQueue, InUse
<1> QED
  BY <1>3, <1>4 DEF q

\* ... and when its first task is taken, ...
LEMMA FirstIsTask ==
  ASSUME NEW q, IsQueue(q), ~IsEmpty(q)
  PROVE  First(q) \in Tasks /\ IsQueue(Dequeue(q))
<1>1. PICK n \in Nat : n = Room(q) /\ n >= 1 /\ n >= FirstSize
  BY PoolAssumption DEF IsQueue
<1>2. /\ q \in [items : [0..n - 1 -> Marks], head : 0..n - 1, tail : 0..n - 1] /\ q.head # q.tail
      /\ q.items \in [0..n - 1 -> Marks] /\ q.head \in 0..n - 1 /\ q.tail \in 0..n - 1
      /\ \A i \in 0..n - 1 : InUse(q, i) => q.items[i] \in Tasks
  BY <1>1 DEF IsQueue, IsEmpty
<1>3. First(q) \in Tasks
  BY <1>2 DEF First, InUse
<1>4. PICK h \in 0..n - 1 : h = IF q.head + 1 < n THEN q.head + 1 ELSE 0
  BY <1>1, <1>2
<1>5. Wrap(q, q.head + 1) = h
  BY <1>1, <1>2, <1>4, WrapOnce
<1>6. PICK r : r = Dequeue(q)
  OBVIOUS
<1>7. /\ r \in [items : [0..n - 1 -> Marks], head : 0..n - 1, tail : 0..n - 1]
      /\ r.items = q.items /\ r.head = h /\ r.tail = q.tail
  BY <1>2, <1>5, <1>6 DEF Dequeue
<1>8. Room(r) = n
  BY <1>1, <1>7 DEF Room
<1>9. \A i \in 0..n - 1 : InUse(r, i) => InUse(q, i)
  BY <1>2, <1>4, <1>7 DEF InUse
<1>10. IsQueue(r)
  BY <1>1, <1>2, <1>7, <1>8, <1>9 DEF IsQueue
<1> QED
  BY <1>3, <1>6, <1>10

\* An item is stored where there is room for it.
LEMMA StoreInRoom ==
  ASSUME NEW q, IsQueue(q), ~Full(q), NEW x \in Tasks
  PROVE  IsQueue(Store(q, x)) /\ ~IsEmpty(Store(q, x)) /\ Room(Store(q, x)) = Room(q)
<1>1. PICK n \in Nat : n = Room(q) /\ n >= 1 /\ n >= FirstSize
  BY PoolAssumption DEF IsQueue
<1>2. /\ q \in [items : [0..n - 1 -> Marks], head : 0..n - 1, tail : 0..n - 1]
      /\ q.items \in [0..n - 1 -> Marks] /\ q.head \in 0..n - 1 /\ q.tail \in 0..n - 1
      /\ \A i \in 0..n - 1 : InUse(q, i) => q.items[i] \in Tasks
  BY <1>1 DEF IsQueue
<1>3. PICK t \in 0..n - 1 : t = IF q.tail + 1 < n THEN q.tail + 1 ELSE 0
  BY <1>1, <1>2
<1>4. Wrap(q, q.tail + 1) = t
  BY <1>1, <1>2, <1>3, WrapOnce
<1>5. q.head # t
  BY <1>4 DEF Full
<1>6. PICK r : r = Store(q, x)
  OBVIOUS
<1>7. PICK m : m = [q.items EXCEPT ![q.tail] = x]
  OBVIOUS
<1>8. m \in [0..n - 1 -> Marks] /\ m[q.tail] = x /\ \A i \in 0..n - 1 : i # q.tail => m[i] = q.items[i]
  BY <1>2, <1>7 DEF Marks
<1>9. r = [items |-> m, head |-> q.head, tail |-> t]
  BY <1>2, <1>4, <1>6, <1>7 DEF Store
<1>10. Room(r) = n
  BY <1>8, <1>9, RoomOf
<1>11. \A i \in 0..n - 1 : InUse(r, i) => m[i] \in Tasks
  BY <1>2, <1>3, <1>5, <1>8, <1>9 DEF InUse
<1>12. IsQueue(r) /\ r.head # r.tail
  BY <1>1, <1>2, <1>3, <1>5, <1>8, <1>9, <1>10, <1>11 DEF IsQueue
<1> QED
  BY <1>1, <1>6, <1>10, <1>12 DEF IsEmpty

\* The full array is unrolled into one of twice the size.
LEMMA ResizedIsQueue ==
  ASSUME NEW q, IsQueue(q), Full(q)
  PROVE  IsQueue(Resized(q, NoTask)) /\ ~Full(Resized(q, NoTask)) /\ Room(Resized(q, NoTask)) >= Room(q)
<1>1. PICK n \in Nat : n = Room(q) /\ n >= 1 /\ n >= FirstSize
  BY PoolAssumption DEF IsQueue
<1>2. /\ q.items \in [0..n - 1 -> Marks] /\ q.head \in 0..n - 1 /\ q.tail \in 0..n - 1
      /\ \A i \in 0..n - 1 : InUse(q, i) => q.items[i] \in Tasks
  BY <1>1 DEF IsQueue
<1>3. q.head = IF q.tail + 1 < n THEN q.tail + 1 ELSE 0
  BY <1>1, <1>2, WrapOnce DEF Full
<1>4. ASSUME NEW i \in 0..n - 1
      PROVE  /\ Wrap(q, i + q.head) = (IF i + q.head < n THEN i + q.head ELSE i + q.head - n)
             /\ Wrap(q, i + q.head) \in 0..n - 1
  <2>1. PICK k \in Nat : k = i + q.head /\ k < 2 * n
    BY <1>1, <1>2
  <2>2. Wrap(q, k) = IF k < n THEN k ELSE k - n
    BY <1>1, <2>1, WrapOnce
  <2> QED
    BY <1>1, <1>2, <2>1, <2>2
<1>5. PICK m : m = [i \in 0..2 * n - 1 |-> IF i < n THEN q.items[Wrap(q, i + q.head)] ELSE NoTask]
  OBVIOUS
<1>6. ASSUME NEW i \in 0..2 * n - 1 PROVE m[i] \in Marks
  <2>1. i < n => i \in 0..n - 1
    BY <1>1
  <2> QED
    BY <1>2, <1>4, <1>5, <2>1 DEF Marks
<1>7. m \in [0..2 * n - 1 -> Marks] /\ \A i \in 0..n - 1 : m[i] = q.items[Wrap(q, i + q.head)]
  BY <1>1, <1>5, <1>6
<1>8. PICK r : r = Resized(q, NoTask)
  OBVIOUS
<1>9. r = [items |-> m, head |-> 0, tail |-> n - 1]
  BY <1>1, <1>5, <1>8 DEF Resized
<1>k. PICK k \in Nat : k = 2 * n
  BY <1>1
<1>10. Room(r) = k /\ m \in [0..k - 1 -> Marks]
  BY <1>7, <1>9, <1>k, RoomOf
<1>11. ASSUME NEW i \in 0..2 * n - 1, InUse(r, i) PROVE m[i] \in Tasks
  <2>1. i \in 0..n - 1 /\ i < n - 1
    BY <1>1, <1>9, <1>11 DEF InUse
  <2>2. PICK j \in 0..n - 1 : j = Wrap(q, i + q.head) /\ j = IF i + q.head < n THEN i + q.head ELSE i + q.head - n
    BY <1>4, <2>1
  <2>3. InUse(q, j)
    <3>1. PICK h \in 0..n - 1, t \in 0..n - 1 : h = q.head /\ t = q.tail
      BY <1>2
    <3>2. CASE t + 1 < n
      <4>1. h = t + 1 /\ (j >= h \/ j < t)
        BY <1>1, <1>3, <2>1, <2>2, <3>1, <3>2
      <4> QED
        BY <3>1, <4>1 DEF InUse
    <3>3. CASE ~(t + 1 < n)
      <4>1. h = 0 /\ t = n - 1 /\ j >= h /\ j < t
        BY <1>1, <1>3, <2>1, <2>2, <3>1, <3>3
      <4> QED
        BY <3>1, <4>1 DEF InUse
    <3> QED
      BY <3>2, <3>3
  <2> QED
    BY <1>2, <1>7, <2>1, <2>2, <2>3
<1>12. IsQueue(r)
  <2>1. /\ r \in [items : [0..k - 1 -> Marks], head : 0..k - 1, tail : 0..k - 1] /\ k >= FirstSize
        /\ \A i \in 0..k - 1 : InUse(r, i) => r.items[i] \in Tasks
    BY <1>1, <1>9, <1>10, <1>11, <1>k, PoolAssumption
  <2> QED
    BY <1>10, <2>1 DEF IsQueue
<1>13. ~Full(r)
  <2>1. Wrap(r, (n - 1) + 1) = n
    BY <1>1, <1>10, <1>k, WrapOnce
  <2> QED
    BY <1>1, <1>9, <2>1 DEF Full
<1> QED
  BY <1>1, <1>8, <1>10, <1>12, <1>13, <1>k

\* ... and when one is added, also where the array must grow before.
LEMMA Enqueued1 ==
  ASSUME NEW q, IsQueue(q), NEW x \in Tasks
  PROVE  IsQueue(Enqueue(q, x, NoTask)) /\ ~IsEmpty(Enqueue(q, x, NoTask))
BY StoreInRoom, ResizedIsQueue DEF Enqueue
--------------------------------------------------------------------------------
(* What a step on one stack does to the tasks that calls refer to.             *)

\* A call that stays, stays with its task.
SameSub(f, g) == f.kind = "call" /\ f.sub \in Tasks => g.kind = "call" /\ g.sub = f.sub

\* The tasks that calls refer to are referred to still when the top goes on, ...
LEMMA Replaced ==
  ASSUME NEW th, NEW s, WellStacked(th, s), s # <<>>, NEW g, Takes(th, Head(s), g), SameSub(Head(s), g),
         NEW r, r = Put(s, g)
  PROVE  /\ WellStacked(th, r) /\ r # <<>> /\ Head(r) = g
         /\ \A t \in Tasks : Held(t, s) => Held(t, r)
<1>1. /\ WellStacked(th, r) /\ r # <<>> /\ Len(r) = Len(s) /\ Head(r) = g /\ r[1] = g
      /\ \A i \in 2..Len(s) : r[i] = s[i]
  BY WellReplaced
<1>2. Head(s) = s[1] /\ Len(s) \in Nat
  BY NotAlone
<1>3. ASSUME NEW t \in Tasks, Held(t, s) PROVE Held(t, r)
  <2>1. PICK i \in 1..Len(s) : s[i].kind = "call" /\ s[i].sub = t
    BY <1>3 DEF Held
  <2>2. r[i].kind = "call" /\ r[i].sub = t /\ i \in 1..Len(r)
    <3>1. CASE i = 1
      BY <1>1, <1>2, <2>1, <3>1 DEF SameSub
    <3>2. CASE i # 1
      BY <1>1, <1>2, <2>1, <3>2
    <3> QED
      BY <3>1, <3>2
  <2> QED
    BY <2>2 DEF Held
<1> QED
  BY <1>1, <1>3

\* r is a stack with h on top that holds the tasks that s holds.
Grown(th, s, r, h) ==
  /\ WellStacked(th, r) /\ r # <<>> /\ Head(r) = h
  /\ \A t \in Tasks : Held(t, s) => Held(t, r)

\* ... and when it puts an activation on itself, whose task then counts as well.
LEMMA Pushed ==
  ASSUME NEW th, NEW s, WellStacked(th, s), s # <<>>, NEW g, Takes(th, Head(s), g), SameSub(Head(s), g),
         NEW h, h \in AllFrames, Own(th, h), ~Base(th, h), Above(h, g), NEW r, r = PutTwo(s, h, g)
  PROVE  Grown(th, s, r, h) /\ (g.kind = "call" => Held(g.sub, r))
<1>1. /\ WellStacked(th, r) /\ r # <<>> /\ Len(r) = Len(s) + 1 /\ Head(r) = h /\ r[1] = h /\ r[2] = g
      /\ \A i \in 3..Len(s) + 1 : r[i] = s[i - 1]
  BY WellPushed
<1>2. Head(s) = s[1] /\ Len(s) \in Nat /\ Len(s) >= 1
  BY NotAlone
<1>3. ASSUME NEW t \in Tasks, Held(t, s) PROVE Held(t, r)
  <2>1. PICK i \in 1..Len(s) : s[i].kind = "call" /\ s[i].sub = t
    BY <1>3 DEF Held
  <2>2. i + 1 \in 1..Len(r) /\ r[i + 1].kind = "call" /\ r[i + 1].sub = t
    <3>1. CASE i = 1
      BY <1>1, <1>2, <2>1, <3>1 DEF SameSub
    <3>2. CASE i # 1
      BY <1>1, <1>2, <2>1, <3>2
    <3> QED
      BY <3>1, <3>2
  <2> QED
    BY <2>2 DEF Held
<1>4. 2 \in 1..Len(r)
  BY <1>1, <1>2
<1> QED
  BY <1>1, <1>3, <1>4 DEF Held, Grown

\* Of the activations that end only a call gives up its task: not a loop, a run or a wait, ...
LEMMA Popped ==
  ASSUME NEW th, NEW s, WellStacked(th, s), s # <<>>, Head(s).kind # "call", ~Base(th, Head(s)),
         NEW r, r = Rest(s)
  PROVE  /\ WellStacked(th, r) /\ r # <<>> /\ Above(Head(s), Head(r)) /\ Head(r) \in AllFrames
         /\ \A t \in Tasks : Held(t, s) => Held(t, r)
<1>1. /\ WellStacked(th, r) /\ Len(r) = Len(s) - 1 /\ r # <<>> /\ Above(Head(s), Head(r))
      /\ \A i \in 1..Len(s) - 1 : r[i] = s[i + 1]
  BY WellPopped
<1>2. Head(s) = s[1] /\ Len(s) \in Nat /\ Len(s) >= 1
  BY NotAlone
<1>3. ASSUME NEW t \in Tasks, Held(t, s) PROVE Held(t, r)
  <2>1. PICK i \in 1..Len(s) : s[i].kind = "call" /\ s[i].sub = t
    BY <1>3 DEF Held
  <2>2. i # 1
    BY <1>2, <2>1
  <2>3. PICK j \in 1..Len(s) - 1 : j = i - 1 /\ r[j] = s[i]
    BY <1>1, <1>2, <2>2
  <2> QED
    BY <1>1, <2>1, <2>3 DEF Held
<1>4. Head(r) \in AllFrames
  BY <1>1, NotAlone
<1> QED
  BY <1>1, <1>3, <1>4

\* ... but a call that returns.
LEMMA Shortened ==
  ASSUME NEW th, NEW s, WellStacked(th, s), s # <<>>, ~Base(th, Head(s)), NEW g, Takes(th, s[2], g),
         SameSub(s[2], g), NEW r, r = Back(s, g)
  PROVE  /\ WellStacked(th, r) /\ r # <<>> /\ Head(r) = g
         /\ \A t \in Tasks : Held(t, s) => Held(t, r) \/ (Head(s).kind = "call" /\ Head(s).sub = t)
<1>1. /\ WellStacked(th, r) /\ r # <<>> /\ Len(r) = Len(s) - 1 /\ Head(r) = g /\ r[1] = g
      /\ \A i \in 2..Len(s) - 1 : r[i] = s[i + 1]
  BY WellReturned
<1>2. Head(s) = s[1] /\ Len(s) \in Nat /\ Len(s) >= 2
  BY NotAlone
<1>3. ASSUME NEW t \in Tasks, Held(t, s), ~(s[1].kind = "call" /\ s[1].sub = t) PROVE Held(t, r)
  <2>1. PICK i \in 1..Len(s) : s[i].kind = "call" /\ s[i].sub = t
    BY <1>3 DEF Held
  <2>2. i # 1
    BY <1>3, <2>1
  <2>3. PICK j \in 1..Len(s) - 1 : j = i - 1
    BY <1>2, <2>2
  <2>4. r[j].kind = "call" /\ r[j].sub = t
    <3>1. CASE j = 1
      BY <1>1, <1>2, <2>1, <2>3, <3>1 DEF SameSub
    <3>2. CASE j # 1
      BY <1>1, <1>2, <2>1, <2>3, <3>2
    <3> QED
      BY <3>1, <3>2
  <2> QED
    BY <1>1, <2>3, <2>4 DEF Held
<1> QED
  BY <1>1, <1>2, <1>3
--------------------------------------------------------------------------------
(* What a step of one thread does to the invariant.                            *)

\* A step on one stack that leaves it in order leaves all of them so.
LEMMA StackedStep ==
  ASSUME Stacked, NEW th \in Threads, NEW r, WellStacked(th, r), r # <<>> \/ th # Main,
         stack' = [stack EXCEPT ![th] = r]
  PROVE  Stacked' /\ stack'[th] = r /\ \A o \in Threads : o # th => stack'[o] = stack[o]
BY DEF Stacked, WellStacked

\* A thread that starts nobody takes nothing from the shares of those who do.
LEMMA StartedStep ==
  ASSUME StartedOnce, NEW th \in Threads, stack[th] # <<>>, NEW r, r = <<>> \/ Head(r).kind # "start",
         stack'[th] = r, \A o \in Threads : o # th => stack'[o] = stack[o]
  PROVE  StartedOnce'
<1>1. \A w \in Workers : Starting(w)' => w # th /\ Starting(w) /\ Top(w)' = Top(w)
  BY PoolNumbers DEF Starting, Top
<1>2. \A w \in Workers : stack[w] = <<>> => stack'[w] = <<>>
  BY PoolNumbers
<1> QED
  BY <1>1, <1>2 DEF StartedOnce, Share

\* Only a thread that looks elsewhere with an empty queue goes on looking.
LEMMA EmptyStep ==
  ASSUME EmptyWhenLooking, NEW th \in Threads, NEW r,
         stack'[th] = r, \A o \in Threads : o # th => stack'[o] = stack[o],
         \A v \in Workers : v # th /\ deque[v] = <<>> => deque'[v] = <<>>,
         th \in Workers /\ r # <<>> /\ Head(r).kind = "loop" /\ Head(r).at \in {"steal", "sleep", "relock"}
         => deque'[th] = <<>>
  PROVE  EmptyWhenLooking'
BY PoolNumbers DEF EmptyWhenLooking, On, Top

\* A task that is new to the pool has its call on the stack that changes.
LEMMA SupportedStep ==
  ASSUME Supported, NEW th \in Threads, NEW r, held' \subseteq Tasks,
         stack'[th] = r, \A o \in Threads : o # th => stack'[o] = stack[o],
         \A t \in held' : t \notin held \/ Held(t, stack[th]) => Held(t, r)
  PROVE  Supported'
BY DEF Supported, Held

\* A thread that neither falls asleep nor wakes leaves the list in order.
LEMMA ListedStep ==
  ASSUME Listed, NEW th \in Threads, NEW r, stack[th] # <<>>, waiters \in Seq(Workers),
         stack'[th] = r, \A o \in Threads : o # th => stack'[o] = stack[o],
         waiters' = waiters, \A o \in Threads : o # th => event'[o] = event[o],
         ~(Head(stack[th]).kind = "loop" /\ Head(stack[th]).at \in {"sleep", "relock"}),
         r # <<>> => ~(Head(r).kind = "loop" /\ Head(r).at = "sleep")
  PROVE  Listed'
<1>1. \A i \in 1..Len(waiters) : waiters[i] \in Workers /\ waiters[i] \in Threads
  BY PoolNumbers, ElementOfSeq
<1>2. \A i \in 1..Len(waiters) : waiters[i] # th
  BY DEF Listed, On, Top
<1>3. \A o \in Threads : \A a : o # th => (On(o, "loop", a)' <=> On(o, "loop", a))
  BY DEF On, Top
<1>4. \A w \in Workers : Asleep(w)' => w # th /\ Asleep(w)
  BY <1>3, PoolNumbers DEF Asleep, On, Top
<1>5. \A i \in 1..Len(waiters) : On(waiters[i], "loop", "sleep")' \/ On(waiters[i], "loop", "relock")'
  BY <1>1, <1>2, <1>3 DEF Listed
<1> QED
  BY <1>4, <1>5 DEF Listed
--------------------------------------------------------------------------------
\* All of it that is about stacks.
Shape == /\ Stacked /\ StartedOnce /\ Listed /\ EmptyWhenLooking /\ ShutLast
         /\ LookedInto /\ Supported

\* A thread sleeps or has just been woken.
Resting(f) == f.kind = "loop" /\ f.at \in {"sleep", "relock"}

\* The activation on top.
LEMMA OnTop ==
  ASSUME Stacked, NEW th \in Threads, NEW k, NEW a, On(th, k, a)
  PROVE  /\ stack[th] # <<>> /\ Top(th) = Head(stack[th]) /\ Top(th) \in AllFrames
         /\ Top(th).kind = k /\ Top(th).at = a /\ WellStacked(th, stack[th]) /\ Own(th, Top(th))
BY NotAlone DEF On, Top, Stacked

\* A worker does not shut the pool down.
LEMMA WorkerStackOnly ==
  ASSUME ShutLast, NEW w \in Workers, NEW r, shutdown' = shutdown, r # <<>> \/ shutdown,
         stack'[w] = r, \A o \in Threads : o # w => stack'[o] = stack[o]
  PROVE  ShutLast'
BY PoolNumbers DEF ShutLast, On, Top

\* A worker goes on; the tasks that are in queues, it finds, or it leaves to who was awake.
LEMMA QuietWorker ==
  ASSUME Shape, waiters \in Seq(Workers), NEW w \in Workers, stack[w] # <<>>, NEW r,
         WellStacked(w, r), r # <<>>, stack' = [stack EXCEPT ![w] = r],
         ~Resting(Head(stack[w])), ~Resting(Head(r)), Head(r).kind # "start" \/ StartedOnce',
         Head(r).kind = "loop" /\ Head(r).at = "steal" => deque'[w] = <<>>,
         waiters' = waiters, shutdown' = shutdown, \A o \in Threads : o # w => event'[o] = event[o],
         \A v \in Workers : v # w /\ deque[v] = <<>> => deque'[v] = <<>>,
         held' \subseteq Tasks, \A t \in held' : t \notin held \/ Held(t, stack[w]) => Held(t, r)
  PROVE  Shape'
<1>1. w \in Threads /\ w # Main
  BY PoolNumbers
<1>2. Stacked' /\ stack'[w] = r /\ \A o \in Threads : o # w => stack'[o] = stack[o]
  BY <1>1, StackedStep DEF Shape
<1>3. StartedOnce'
  BY <1>1, <1>2, StartedStep DEF Shape
<1>4. EmptyWhenLooking'
  BY <1>1, <1>2, EmptyStep DEF Shape, Resting
<1>5. Supported'
  BY <1>1, <1>2, SupportedStep DEF Shape
<1>6. Listed'
  BY <1>1, <1>2, ListedStep DEF Shape, Resting
<1>7. ShutLast'
  BY <1>2, WorkerStackOnly DEF Shape
<1>8. ~Asleep(w)' /\ stack'[w] # <<>>
  BY <1>2 DEF Asleep, On, Top, Resting
<1>9. LookedInto'
  BY <1>8 DEF LookedInto
<1> QED
  BY <1>2, <1>3, <1>4, <1>5, <1>6, <1>7, <1>9 DEF Shape

\* The main thread goes on.
LEMMA QuietMain ==
  ASSUME Shape, waiters \in Seq(Workers), NEW r,
         shutdown => Head(r).kind = "client" /\ Head(r).at \in {"joining", "over", "terminated"},
         WellStacked(Main, r), r # <<>>, stack' = [stack EXCEPT ![Main] = r],
         waiters' = waiters, shutdown' = shutdown, \A o \in Threads : o # Main => event'[o] = event[o],
         deque' = deque, public' = public,
         held' \subseteq Tasks, \A t \in held' : t \notin held \/ Held(t, stack[Main]) => Held(t, r)
  PROVE  Shape'
<1>1. Main \in Threads /\ Main \notin Workers /\ stack[Main] # <<>> /\ 0 \in Workers /\ 0 \in Threads
  BY PoolNumbers DEF Shape, Stacked
<1>2. Stacked' /\ stack'[Main] = r /\ \A o \in Threads : o # Main => stack'[o] = stack[o]
  BY <1>1, StackedStep DEF Shape
<1>3. \A w \in Workers : /\ w \in Threads /\ w # Main /\ stack'[w] = stack[w] /\ event'[w] = event[w]
  BY <1>1, <1>2, PoolNumbers
<1>4. \A w \in Workers : /\ Top(w)' = Top(w) /\ (Asleep(w)' <=> Asleep(w))
                         /\ \A a : On(w, "loop", a)' <=> On(w, "loop", a)
  BY <1>3 DEF Top, On, Asleep
<1>5. StartedOnce'
  BY <1>3, <1>4 DEF StartedOnce, Starting, Share, Shape
<1>6. EmptyWhenLooking'
  BY <1>4 DEF EmptyWhenLooking, Shape
<1>7. Supported'
  BY <1>1, <1>2, SupportedStep DEF Shape
<1>8. \A i \in 1..Len(waiters) : waiters[i] \in Workers
  BY ElementOfSeq
<1>9. Listed'
  BY <1>4, <1>8 DEF Shape, Listed
<1>10. ShutLast'
  BY <1>1, <1>2 DEF Shape, ShutLast, On, Top
<1>11. LookedInto'
  BY <1>3, <1>4 DEF Shape, LookedInto
<1> QED
  BY <1>2, <1>5, <1>6, <1>7, <1>9, <1>10, <1>11 DEF Shape

\* Nothing happens but to the stack of th, its event, its queue, and the tasks' states.
Undisturbed(th) ==
  /\ waiters' = waiters /\ shutdown' = shutdown /\ \A o \in Threads : o # th => event'[o] = event[o]
  /\ \A v \in Workers : v # th /\ deque[v] = <<>> => deque'[v] = <<>>
  /\ th = Main => ~shutdown /\ deque' = deque /\ public' = public

\* What may come to lie on top in such a step.
Upright(th, f) ==
  /\ ~Resting(f) /\ (f.kind # "start" \/ StartedOnce')
  /\ f.kind = "loop" /\ f.at = "steal" => deque'[th] = <<>>

\* Both cases in one, for the actions that threads of both kinds take.
LEMMA QuietStep ==
  ASSUME IInv, NEW th \in Threads, stack[th] # <<>>, ~Resting(Head(stack[th])), NEW r,
         WellStacked(th, r), r # <<>>, stack' = [stack EXCEPT ![th] = r], Upright(th, Head(r)),
         Undisturbed(th),
         held' \subseteq Tasks, \A t \in held' : t \notin held \/ Held(t, stack[th]) => Held(t, r)
  PROVE  Shape'
<1>1. Shape /\ waiters \in Seq(Workers)
  BY DEF IInv, Shape, Types
<1>2. CASE th = Main
  <2>1. \A t \in held' : t \notin held \/ Held(t, stack[Main]) => Held(t, r)
    BY <1>2
  <2>2. \A o \in Threads : o # Main => event'[o] = event[o]
    BY <1>2 DEF Undisturbed
  <2> QED
    BY <1>1, <1>2, <2>1, <2>2, QuietMain DEF Undisturbed
<1>3. CASE th # Main
  <2>1. th \in Workers
    BY <1>3 DEF Threads
  <2>2. /\ \A o \in Threads : o # th => event'[o] = event[o]
        /\ \A v \in Workers : v # th /\ deque[v] = <<>> => deque'[v] = <<>>
        /\ ~Resting(Head(r)) /\ (Head(r).kind # "start" \/ StartedOnce')
        /\ Head(r).kind = "loop" /\ Head(r).at = "steal" => deque'[th] = <<>>
        /\ waiters' = waiters /\ shutdown' = shutdown
    BY DEF Undisturbed, Upright
  <2> QED
    BY <1>1, <2>1, <2>2, QuietWorker
<1> QED
  BY <1>2, <1>3

\* Parts that are needed often.
LEMMA IInvParts ==
  IInv => /\ Types /\ Stacked /\ ShutLast /\ held \subseteq Tasks
          /\ stack \in [Threads -> Seq(AllFrames)] /\ \A th \in Threads : WellStacked(th, stack[th])
BY DEF IInv, Types, Stacked

\* The four kinds of steps, for a thread that neither sleeps nor wakes: it goes on, ...
LEMMA PutStep ==
  ASSUME IInv, NEW th \in Threads, stack[th] # <<>>, ~Resting(Head(stack[th])), NEW g,
         Takes(th, Head(stack[th]), g), SameSub(Head(stack[th]), g),
         stack' = [stack EXCEPT ![th] = Put(stack[th], g)], Upright(th, g), Undisturbed(th), held' \subseteq held
  PROVE  Shape'
<1>1. held' \subseteq Tasks /\ WellStacked(th, stack[th])
  BY IInvParts
<1>2. PICK r : r = Put(stack[th], g)
  OBVIOUS
<1>3. WellStacked(th, r) /\ r # <<>> /\ Head(r) = g /\ \A t \in Tasks : Held(t, stack[th]) => Held(t, r)
  BY <1>1, <1>2, Replaced
<1>4. \A t \in held' : t \notin held \/ Held(t, stack[th]) => Held(t, r)
  BY <1>1, <1>3
<1> QED
  BY <1>1, <1>2, <1>3, <1>4, QuietStep

\* ... it puts an activation on top, ...
LEMMA PushStep ==
  ASSUME IInv, NEW th \in Threads, stack[th] # <<>>, ~Resting(Head(stack[th])), NEW g, NEW h,
         Takes(th, Head(stack[th]), g), SameSub(Head(stack[th]), g),
         h \in AllFrames, Own(th, h), ~Base(th, h), Above(h, g),
         stack' = [stack EXCEPT ![th] = PutTwo(stack[th], h, g)], Upright(th, h), Undisturbed(th),
         held' \subseteq Tasks, \A t \in held' : t \in held \/ (g.kind = "call" /\ g.sub = t)
  PROVE  Shape'
<1>1. held \subseteq Tasks /\ WellStacked(th, stack[th])
  BY IInvParts
<1>2. PICK r : r = PutTwo(stack[th], h, g)
  OBVIOUS
<1>3. Grown(th, stack[th], r, h) /\ (g.kind = "call" => Held(g.sub, r))
  BY <1>1, <1>2, Pushed
<1>5. r # <<>> /\ Head(r) = h /\ WellStacked(th, r) /\ (\A t \in Tasks : Held(t, stack[th]) => Held(t, r))
  BY <1>3 DEF Grown
<1>4. \A t \in held' : t \notin held \/ Held(t, stack[th]) => Held(t, r)
  BY <1>1, <1>3, <1>5
<1> QED
  BY <1>1, <1>2, <1>3, <1>4, <1>5, QuietStep

\* ... it ends the top, ...
LEMMA PopStep ==
  ASSUME IInv, NEW th \in Threads, stack[th] # <<>>, ~Resting(Head(stack[th])),
         Head(stack[th]).kind # "call", ~Base(th, Head(stack[th])),
         stack' = [stack EXCEPT ![th] = Rest(stack[th])], Undisturbed(th), held' \subseteq held
  PROVE  Shape'
<1>1. held' \subseteq Tasks /\ WellStacked(th, stack[th])
  BY IInvParts
<1>2. PICK r : r = Rest(stack[th])
  OBVIOUS
<1>3. /\ WellStacked(th, r) /\ r # <<>> /\ Above(Head(stack[th]), Head(r)) /\ Head(r) \in AllFrames
      /\ \A t \in Tasks : Held(t, stack[th]) => Held(t, r)
  BY <1>1, <1>2, Popped
<1>4. \A t \in held' : t \notin held \/ Held(t, stack[th]) => Held(t, r)
  BY <1>1, <1>3
<1>5. Upright(th, Head(r))
  BY <1>3 DEF Above, Upright, Resting
<1> QED
  BY <1>1, <1>2, <1>3, <1>4, <1>5, QuietStep

\* ... or it returns to what is below.
LEMMA BackStep ==
  ASSUME IInv, NEW th \in Threads, stack[th] # <<>>, ~Resting(Head(stack[th])), NEW g,
         ~Base(th, Head(stack[th])), Takes(th, stack[th][2], g), SameSub(stack[th][2], g),
         stack' = [stack EXCEPT ![th] = Back(stack[th], g)], Upright(th, g), Undisturbed(th),
         held' \subseteq held, Head(stack[th]).sub \notin held'
  PROVE  Shape'
<1>1. held' \subseteq Tasks /\ WellStacked(th, stack[th])
  BY IInvParts
<1>2. PICK r : r = Back(stack[th], g)
  OBVIOUS
<1>3. /\ WellStacked(th, r) /\ r # <<>> /\ Head(r) = g
      /\ \A t \in Tasks : Held(t, stack[th]) => Held(t, r) \/ (Head(stack[th]).kind = "call" /\ Head(stack[th]).sub = t)
  BY <1>1, <1>2, Shortened
<1>4. \A t \in held' : t \notin held \/ Held(t, stack[th]) => Held(t, r)
  BY <1>1, <1>3
<1> QED
  BY <1>1, <1>2, <1>3, <1>4, QuietStep
--------------------------------------------------------------------------------
(* Steps of a thread in its loop.                                              *)

\* What most steps leave alone.
Memory == <<size, handles, deque, public, lists, shutdown, state, conts, held, clientVars>>

\* What follows for steps that touch nothing but a stack.
LEMMA MemorySame ==
  ASSUME IInv, UNCHANGED Memory
  PROVE  Types' /\ ResultsInOrder' /\ held' \subseteq held
         /\ \A th \in Threads : th # Main \/ ~shutdown => Undisturbed(th)
BY DEF IInv, Types, ResultsInOrder, Memory, lists, clientVars, Undisturbed

\* The invariant is its types, its shape and the results.
LEMMA IInvFrom == Types /\ Shape /\ ResultsInOrder => IInv
BY DEF IInv, Shape

\* The same after a step.
LEMMA IInvFromNext == Types' /\ Shape' /\ ResultsInOrder' => IInv'
BY IInvFrom, PTL

\* What is known of a worker by its place.
LEMMA WorkerOnTop ==
  ASSUME IInv, NEW w \in Workers, NEW k, NEW a, On(w, k, a)
  PROVE  /\ w \in Threads /\ w # Main /\ stack[w] # <<>> /\ Head(stack[w]) = Top(w)
         /\ Top(w).kind = k /\ Top(w).at = a /\ Top(w) \in AllFrames
         /\ WellStacked(w, stack[w]) /\ stack \in [Threads -> Seq(AllFrames)]
BY IInvParts, OnTop, PoolNumbers

\* A thread that has nobody left to start enters its loop.
LEMMA EnterLoopStep ==
  ASSUME IInv, NEW w \in Workers, EnterLoop(w), UNCHANGED clientVars
  PROVE  IInv'
<1>1. /\ w \in Threads /\ w # Main /\ stack[w] # <<>> /\ Head(stack[w]) = Top(w) /\ Top(w).kind = "start"
      /\ Top(w) \in Starts
  BY WorkerOnTop, KindOf DEF EnterLoop
<1>2. PICK g : g = Loop(NoTask) /\ g \in TaskLoops /\ g.kind = "loop" /\ g.at = "test" /\ g \in AllFrames
  BY NewLoop, KindIn DEF Marks
<1>3. stack' = [stack EXCEPT ![w] = Put(stack[w], g)]
  BY <1>2 DEF EnterLoop, Instead, Put
<1>4. Takes(w, Top(w), g) /\ SameSub(Top(w), g) /\ ~Resting(Top(w)) /\ Upright(w, g)
  BY <1>1, <1>2, StartMoves DEF SameSub, Resting, Upright
<1>5. UNCHANGED Memory
  BY DEF EnterLoop, Memory
<1>6. Shape'
  BY <1>1, <1>3, <1>4, <1>5, MemorySame, PutStep
<1> QED
  BY <1>5, <1>6, MemorySame, IInvFromNext

\* The loop takes a task.
LEMMA RunStep ==
  ASSUME IInv, NEW w \in Workers, NEW a, On(w, "loop", a), a \notin {"sleep", "relock"},
         NEW t \in Tasks, Run(w, t), Undisturbed(w), held' = held
  PROVE  Shape'
<1>1. /\ w \in Threads /\ stack[w] # <<>> /\ Head(stack[w]) = Top(w) /\ Top(w).kind = "loop"
      /\ Top(w).at = a /\ Top(w) \in TaskLoops
  BY WorkerOnTop, KindOf
<1>x. PICK g : g = [Top(w) EXCEPT !.at = "test"]
  OBVIOUS
<1>2. g \in TaskLoops /\ g.task = Top(w).task /\ g.kind = "loop" /\ g.at = "test"
  BY <1>1, <1>x DEF TaskLoops
<1>3. PICK h : h = Running(t) /\ h \in SoundRuns /\ h.kind = "task" /\ h \in AllFrames
  BY NewRun, KindIn
<1>4. stack' = [stack EXCEPT ![w] = PutTwo(stack[w], h, g)]
  BY <1>x, <1>3 DEF Run, PutTwo
<1>5. Takes(w, Top(w), g) /\ SameSub(Top(w), g) /\ ~Resting(Top(w)) /\ Upright(w, h)
  BY <1>1, <1>2, <1>3, LoopMoves DEF SameSub, Resting, Upright
<1>6. Own(w, h) /\ ~Base(w, h) /\ Above(h, g)
  BY <1>2, <1>3, PoolNumbers DEF Own, Base, Above
<1>7. held' \subseteq Tasks
  BY IInvParts
<1> QED
  BY <1>1, <1>3, <1>4, <1>5, <1>6, <1>7, PushStep

\* The loop goes on.
LEMMA LoopStep ==
  ASSUME IInv, NEW w \in Workers, NEW a, On(w, "loop", a), a \notin {"sleep", "relock"},
         NEW g \in TaskLoops, g.task = Top(w).task, g.at \in {"test", "pop", "steal"},
         stack' = Instead(w, g), g.at = "steal" => deque'[w] = <<>>, Undisturbed(w), held' = held
  PROVE  Shape'
<1>1. /\ w \in Threads /\ stack[w] # <<>> /\ Head(stack[w]) = Top(w) /\ Top(w).kind = "loop"
      /\ Top(w).at = a /\ Top(w) \in TaskLoops
  BY WorkerOnTop, KindOf
<1>2. g.kind = "loop"
  BY KindIn
<1>3. stack' = [stack EXCEPT ![w] = Put(stack[w], g)]
  BY DEF Instead, Put
<1>4. Takes(w, Top(w), g) /\ SameSub(Top(w), g) /\ ~Resting(Top(w)) /\ Upright(w, g)
  BY <1>1, <1>2, LoopMoves DEF SameSub, Resting, Upright
<1> QED
  BY <1>1, <1>3, <1>4, PutStep

\* A thread steals from workers.
LEMMA OthersAreWorkers == Types => \A w : Others(w) \in SUBSET Workers
BY PoolNumbers DEF Types, Others

\* A loop that waits for a task is not the thread's last.
LEMMA NotBase ==
  ASSUME IInv, NEW w \in Workers, NEW a, On(w, "loop", a), Waiting(w)
  PROVE  ~Base(w, Top(w))
BY WorkerOnTop DEF Base, Waiting

\* The loop ends, for a finished task, on its caller's call, which stays in reach of its task.
LEMMA TestStep ==
  ASSUME IInv, NEW w \in Workers, Test(w), UNCHANGED clientVars
  PROVE  IInv'
<1>1. /\ w \in Threads /\ w # Main /\ stack[w] # <<>> /\ Head(stack[w]) = Top(w) /\ Top(w).kind = "loop"
      /\ Top(w).at = "test" /\ Top(w) \in TaskLoops /\ On(w, "loop", "test")
  BY WorkerOnTop, KindOf DEF Test
<1>2. event \in [Threads -> SUBSET {"finished", "available"}]
  BY IInvParts DEF Types
<1>3. event' \in [Threads -> SUBSET {"finished", "available"}] /\ \A o \in Threads : o # w => event'[o] = event[o]
  BY <1>2 DEF Test
<1>4. Undisturbed(w) /\ held' = held
  BY <1>1, <1>3 DEF Test, Undisturbed
<1>5. Types' /\ ResultsInOrder'
  BY <1>3 DEF IInv, Types, Test, clientVars, ResultsInOrder
<1>6. CASE Awaited(w)
  <2>1. stack' = [stack EXCEPT ![w] = Rest(stack[w])]
    BY <1>6 DEF Test, Leave, Rest
  <2>2. ~Base(w, Top(w))
    BY <1>1, <1>6, NotBase DEF Awaited
  <2>3. ~Resting(Top(w)) /\ Top(w).kind # "call" /\ held' \subseteq held
    BY <1>1, <1>4 DEF Resting
  <2>4. Shape'
    BY <1>1, <1>4, <2>1, <2>2, <2>3, PopStep
  <2> QED
    BY <1>5, <2>4, IInvFromNext
<1>7. CASE ~Awaited(w)
  <2>1. PICK g : g = [Top(w) EXCEPT !.at = "pop"]
    OBVIOUS
  <2>2. stack' = Instead(w, g)
    BY <1>7, <2>1 DEF Test, Move
  <2>4. g \in TaskLoops /\ g.task = Top(w).task /\ g.at = "pop"
    BY <1>1, <2>1 DEF TaskLoops
  <2>3. Shape'
    BY <1>1, <1>4, <2>2, <2>4, LoopStep
  <2> QED
    BY <1>5, <2>3, IInvFromNext
<1> QED
  BY <1>6, <1>7

\* A thread that finds its own queue empty goes to look elsewhere, and only then.
LEMMA PopOwnStep ==
  ASSUME IInv, NEW w \in Workers, PopOwn(w), UNCHANGED clientVars
  PROVE  IInv'
<1>1. /\ w \in Threads /\ w # Main /\ stack[w] # <<>> /\ Head(stack[w]) = Top(w) /\ Top(w).kind = "loop"
      /\ Top(w).at = "pop" /\ Top(w) \in TaskLoops /\ On(w, "loop", "pop")
  BY WorkerOnTop, KindOf DEF PopOwn
<1>2. Types /\ deque \in [Workers -> Seq(Tasks)] /\ deque[w] \in Seq(Tasks)
  BY IInvParts DEF Types
<1>3. CASE deque[w] # <<>> /\ Run(w, Last(deque[w])) /\ deque' = [deque EXCEPT ![w] = Front(@)]
  <2>1. Last(deque[w]) \in Tasks /\ Front(deque[w]) \in Seq(Tasks)
    BY <1>2, <1>3, FrontLast
  <2>2. deque' \in [Workers -> Seq(Tasks)] /\ \A v \in Workers : v # w => deque'[v] = deque[v]
    BY <1>2, <1>3, <2>1
  <2>3. Undisturbed(w) /\ held' = held
    BY <1>1, <2>2 DEF PopOwn, Undisturbed, lists
  <2>4. Shape'
    BY <1>1, <1>3, <2>1, <2>3, RunStep
  <2>5. Types' /\ ResultsInOrder'
    BY <2>2 DEF IInv, Types, PopOwn, clientVars, ResultsInOrder, lists
  <2> QED
    BY <2>4, <2>5, IInvFromNext
<1>4. CASE /\ deque[w] = <<>> /\ UNCHANGED deque
           /\ stack' = Instead(w, [Top(w) EXCEPT !.at = "steal", !.left = Others(w)])
  <2>1. PICK g : g = [Top(w) EXCEPT !.at = "steal", !.left = Others(w)]
    OBVIOUS
  <2>4. g \in TaskLoops /\ g.task = Top(w).task /\ g.at = "steal"
    BY <1>1, <1>2, <2>1, OthersAreWorkers DEF TaskLoops
  <2>2. UNCHANGED Memory
    BY <1>4 DEF PopOwn, Memory
  <2>3. Shape'
    BY <1>1, <1>4, <2>1, <2>2, <2>4, MemorySame, LoopStep DEF Memory
  <2> QED
    BY <2>2, <2>3, MemorySame, IInvFromNext
<1> QED
  BY <1>3, <1>4 DEF PopOwn

\* A steal takes the oldest task of another's queue, or the thread goes on to the next.
LEMMA StealStep ==
  ASSUME IInv, NEW w \in Workers, Steal(w), UNCHANGED clientVars
  PROVE  IInv'
<1>1. /\ w \in Threads /\ w # Main /\ stack[w] # <<>> /\ Head(stack[w]) = Top(w) /\ Top(w).kind = "loop"
      /\ Top(w).at = "steal" /\ Top(w) \in TaskLoops /\ On(w, "loop", "steal")
  BY WorkerOnTop, KindOf DEF Steal
<1>2. Types /\ deque \in [Workers -> Seq(Tasks)]
  BY IInvParts DEF Types
<1>3. PICK v \in Top(w).left :
        \/ deque[v] # <<>> /\ Run(w, Head(deque[v])) /\ deque' = [deque EXCEPT ![v] = Tail(@)]
        \/ /\ deque[v] = <<>> /\ UNCHANGED deque
           /\ stack' = Instead(w, [Top(w) EXCEPT !.left = @ \ {v}])
  BY DEF Steal
<1>4. v \in Workers /\ deque[v] \in Seq(Tasks) /\ Top(w).left \ {v} \in SUBSET Workers
  BY <1>1, <1>2 DEF TaskLoops
<1>5. CASE deque[v] # <<>> /\ Run(w, Head(deque[v])) /\ deque' = [deque EXCEPT ![v] = Tail(@)]
  <2>1. Head(deque[v]) \in Tasks /\ Tail(deque[v]) \in Seq(Tasks)
    BY <1>4, <1>5, HeadTailProperties
  <2>2. deque' \in [Workers -> Seq(Tasks)] /\ \A u \in Workers : u # v => deque'[u] = deque[u]
    BY <1>2, <1>5, <2>1
  <2>3. Undisturbed(w) /\ held' = held
    BY <1>1, <1>5, <2>2 DEF Steal, Undisturbed, lists
  <2>4. Shape'
    BY <1>1, <1>5, <2>1, <2>3, RunStep
  <2>5. Types' /\ ResultsInOrder'
    BY <2>2 DEF IInv, Types, Steal, clientVars, ResultsInOrder, lists
  <2> QED
    BY <2>4, <2>5, IInvFromNext
<1>6. CASE /\ deque[v] = <<>> /\ UNCHANGED deque
           /\ stack' = Instead(w, [Top(w) EXCEPT !.left = @ \ {v}])
  <2>1. PICK g : g = [Top(w) EXCEPT !.left = @ \ {v}]
    OBVIOUS
  <2>5. g \in TaskLoops /\ g.task = Top(w).task /\ g.at = "steal"
    BY <1>1, <1>4, <2>1 DEF TaskLoops
  <2>2. UNCHANGED Memory
    BY <1>6 DEF Steal, Memory
  <2>3. deque[w] = <<>>
    BY <1>1 DEF IInv, EmptyWhenLooking
  <2>4. Shape'
    BY <1>1, <1>6, <2>1, <2>2, <2>3, <2>5, MemorySame, LoopStep DEF Memory
  <2> QED
    BY <2>2, <2>4, MemorySame, IInvFromNext
<1> QED
  BY <1>3, <1>5, <1>6

\* A thread that takes from the public queue is itself awake to look into it again.
LEMMA TakePublicStep ==
  ASSUME IInv, NEW w \in Workers, TakePublic(w), UNCHANGED clientVars
  PROVE  IInv'
<1>1. w \in Threads /\ w # Main /\ On(w, "loop", "steal")
  BY PoolNumbers DEF TakePublic, Looks
<1>2. First(public) \in Tasks /\ IsQueue(Dequeue(public))
  BY IInvParts, FirstIsTask DEF Types, TakePublic
<1>3. Undisturbed(w) /\ held' = held
  BY <1>1 DEF TakePublic, Undisturbed, lists
<1>4. Shape'
  BY <1>1, <1>2, <1>3, RunStep DEF TakePublic
<1>5. IsQueue(public')
  BY <1>2 DEF TakePublic
<1>6. Types' /\ ResultsInOrder'
  BY <1>5 DEF IInv, Types, TakePublic, clientVars, ResultsInOrder, lists
<1> QED
  BY <1>4, <1>6, IInvFromNext

\* A thread ends after the shutdown, which comes after the client's call.
LEMMA ExitLoopStep ==
  ASSUME IInv, NEW w \in Workers, ExitLoop(w), UNCHANGED clientVars
  PROVE  IInv'
<1>1. /\ w \in Threads /\ w # Main /\ stack[w] # <<>> /\ Head(stack[w]) = Top(w) /\ Top(w).kind = "loop"
      /\ Top(w).at = "steal" /\ WellStacked(w, stack[w])
  BY WorkerOnTop DEF ExitLoop, Looks
<1>2. UNCHANGED Memory /\ Shape /\ waiters \in Seq(Workers)
  BY DEF ExitLoop, Memory, IInv, Shape, Types
<1>3. Base(w, Top(w))
  BY <1>1 DEF Base, ExitLoop, Waiting
<1>4. PICK s, r : s = stack[w] /\ r = Rest(s)
  OBVIOUS
<1>5. s # <<>> /\ WellStacked(w, s) /\ Head(s) = Top(w) /\ Base(w, Head(s))
  BY <1>1, <1>3, <1>4
<1>5a. r = <<>> /\ WellStacked(w, r)
  BY ONLY <1>4, <1>5, WellPopped
<1>5b. Len(s) = 1 /\ s[1] = Head(s)
  BY ONLY <1>5, NotAlone
<1>6. stack' = [stack EXCEPT ![w] = r]
  BY <1>4 DEF ExitLoop, Leave, Rest
<1>7. Stacked' /\ stack'[w] = r /\ \A o \in Threads : o # w => stack'[o] = stack[o]
  BY <1>1, <1>2, <1>5a, <1>6, StackedStep DEF Shape
<1>8. StartedOnce'
  BY <1>1, <1>2, <1>5a, <1>7, StartedStep DEF Shape
<1>9. EmptyWhenLooking'
  BY <1>1, <1>2, <1>5a, <1>7, EmptyStep DEF Shape, Memory
<1>10. Supported'
  <2>1. \A t : ~Held(t, stack[w])
    <3> QED
      BY <1>1, <1>4, <1>5, <1>5b DEF Held
  <2>2. held' = held /\ held \subseteq Tasks
    BY <1>2, IInvParts DEF Memory
  <2> QED
    BY <1>1, <1>2, <1>7, <2>1, <2>2, SupportedStep DEF Shape
<1>11. Listed'
  BY <1>1, <1>2, <1>5a, <1>7, ListedStep DEF Shape, Memory, lists
<1>12. ShutLast'
  BY <1>2, <1>7, WorkerStackOnly DEF Shape, Memory, ExitLoop
<1>13. LookedInto'
  BY <1>2 DEF LookedInto, ExitLoop, Memory
<1>14. Shape'
  BY <1>7, <1>8, <1>9, <1>10, <1>11, <1>12, <1>13 DEF Shape
<1> QED
  BY <1>2, <1>14, MemorySame, IInvFromNext

\* What a step of a worker on its own stack does, whatever it does to the list.
LEMMA OwnStack ==
  ASSUME IInv, NEW w \in Workers, stack[w] # <<>>, NEW r, WellStacked(w, r), r # <<>>,
         stack' = [stack EXCEPT ![w] = r], Head(r).kind # "start",
         shutdown' = shutdown, deque' = deque, held' = held,
         Head(r).kind = "loop" /\ Head(r).at \in {"steal", "sleep", "relock"} => deque[w] = <<>>,
         \A t \in Tasks : Held(t, stack[w]) => Held(t, r)
  PROVE  /\ Stacked' /\ StartedOnce' /\ EmptyWhenLooking' /\ Supported' /\ ShutLast' /\ stack'[w] = r
         /\ \A o \in Threads : o # w => stack'[o] = stack[o]
<1>1. w \in Threads /\ w # Main /\ Shape /\ held' \subseteq Tasks
  BY PoolNumbers, IInvParts DEF IInv, Shape
<1>2. Stacked' /\ stack'[w] = r /\ \A o \in Threads : o # w => stack'[o] = stack[o]
  BY <1>1, StackedStep DEF Shape
<1>3. StartedOnce'
  BY <1>1, <1>2, StartedStep DEF Shape
<1>4. EmptyWhenLooking'
  BY <1>1, <1>2, EmptyStep DEF Shape
<1>5. Supported'
  BY <1>1, <1>2, SupportedStep DEF Shape
<1>6. ShutLast'
  BY <1>1, <1>2, WorkerStackOnly DEF Shape
<1> QED
  BY <1>2, <1>3, <1>4, <1>5, <1>6

\* A loop goes to sleep or wakes up.
LEMMA OwnLoop ==
  ASSUME IInv, NEW w \in Workers, NEW a, On(w, "loop", a), a \in {"steal", "sleep", "relock"},
         NEW g \in TaskLoops, g.task = Top(w).task, stack' = Instead(w, g),
         shutdown' = shutdown, deque' = deque, held' = held
  PROVE  /\ Stacked' /\ StartedOnce' /\ EmptyWhenLooking' /\ Supported' /\ ShutLast'
         /\ stack'[w] # <<>> /\ Top(w)' = g /\ \A o \in Threads : o # w => stack'[o] = stack[o]
<1>1. /\ w \in Threads /\ stack[w] # <<>> /\ Head(stack[w]) = Top(w) /\ Top(w).kind = "loop"
      /\ Top(w).at = a /\ Top(w) \in TaskLoops /\ WellStacked(w, stack[w])
  BY WorkerOnTop, KindOf
<1>2. PICK r : r = Put(stack[w], g)
  OBVIOUS
<1>3. stack' = [stack EXCEPT ![w] = r]
  BY <1>2 DEF Instead, Put
<1>4. Takes(w, Top(w), g) /\ SameSub(Top(w), g) /\ g.kind = "loop"
  BY <1>1, LoopMoves, KindIn DEF SameSub
<1>5. WellStacked(w, r) /\ r # <<>> /\ Head(r) = g /\ \A t \in Tasks : Held(t, stack[w]) => Held(t, r)
  BY <1>1, <1>2, <1>4, Replaced
<1>6. deque[w] = <<>>
  BY DEF IInv, EmptyWhenLooking
<1>7. /\ Stacked' /\ StartedOnce' /\ EmptyWhenLooking' /\ Supported' /\ ShutLast' /\ stack'[w] = r
      /\ \A o \in Threads : o # w => stack'[o] = stack[o]
  BY <1>1, <1>3, <1>4, <1>5, <1>6, OwnStack
<1> QED
  BY <1>5, <1>7 DEF Top

\* What is known of the list of sleepers.
LEMMA ListTypes ==
  IInv => /\ waiters \in Seq(Workers) /\ IsInjective(waiters) /\ Len(waiters) \in Nat
          /\ event \in [Threads -> SUBSET {"finished", "available"}]
          /\ \A i \in 1..Len(waiters) :
               /\ waiters[i] \in Workers /\ waiters[i] \in Threads
               /\ On(waiters[i], "loop", "sleep") \/ On(waiters[i], "loop", "relock")
          /\ \A w \in Workers : Asleep(w) => \E i \in 1..Len(waiters) : waiters[i] = w
BY PoolNumbers, ElementOfSeq, LenProperties DEF IInv, Types, Listed

\* A thread sleeps when its queue is empty and, under the lock, the public one as well.
LEMMA SleepStep ==
  ASSUME IInv, NEW w \in Workers, Sleep(w), UNCHANGED clientVars
  PROVE  IInv'
<1>1. /\ w \in Threads /\ w # Main /\ Top(w).kind = "loop" /\ On(w, "loop", "steal")
      /\ Top(w).at = "steal" /\ Top(w) \in TaskLoops
  BY WorkerOnTop, KindOf DEF Sleep, Looks
<1>2. PICK g : g = [Top(w) EXCEPT !.at = "sleep", !.added = Waiting(w)]
  OBVIOUS
<1>3. g \in TaskLoops /\ g.task = Top(w).task /\ g.at = "sleep" /\ g.kind = "loop"
  BY <1>1, <1>2 DEF TaskLoops, Waiting
<1>4. /\ Stacked' /\ StartedOnce' /\ EmptyWhenLooking' /\ Supported' /\ ShutLast'
      /\ stack'[w] # <<>> /\ Top(w)' = g /\ \A o \in Threads : o # w => stack'[o] = stack[o]
  BY <1>1, <1>2, <1>3, OwnLoop DEF Sleep
<1>5. \A i \in 1..Len(waiters) : waiters[i] # w
  BY <1>1, ListTypes DEF On
<1>6. /\ IsInjective(waiters') /\ waiters' \in Seq(Workers)
      /\ Len(waiters') = Len(waiters) + 1 /\ waiters'[Len(waiters) + 1] = w
      /\ \A i \in 1..Len(waiters) : waiters'[i] = waiters[i]
  BY <1>5, ListTypes, AppendToList DEF Sleep
<1>7. /\ event' \in [Threads -> SUBSET {"finished", "available"}]
      /\ conts' \in [Tasks -> Seq(Threads)]
      /\ \A o \in Threads : o # w => event'[o] = event[o]
  <2>1. event \in [Threads -> SUBSET {"finished", "available"}] /\ conts \in [Tasks -> Seq(Threads)]
    BY DEF IInv, Types
  <2>2. CASE UNCHANGED <<event, conts>>
    BY <2>1, <2>2
  <2>3. CASE Waiting(w) /\ Tell(w, Top(w).task, event[w])
    <3>1. Top(w).task \in Tasks
      BY <1>1, <2>3 DEF TaskLoops, Waiting, Marks
    <3>2. event[w] \in SUBSET {"finished", "available"}
      BY <1>1, <2>1
    <3>3. PICK m : m = event[w] /\ m \cup {"finished"} \in SUBSET {"finished", "available"}
      BY <3>2
    <3>4. Append(conts[Top(w).task], w) \in Seq(Threads)
      BY <1>1, <2>1, <3>1, AppendProperties
    <3> QED
      BY <1>1, <2>1, <2>3, <3>1, <3>2, <3>3, <3>4 DEF Tell
  <2> QED
    BY <2>2, <2>3 DEF Sleep
<1>8. Listed'
  <2>1. \A o \in Workers : o # w => /\ Asleep(o)' <=> Asleep(o)
                                    /\ \A a : On(o, "loop", a)' <=> On(o, "loop", a)
    BY <1>4, <1>7, PoolNumbers DEF Asleep, On, Top
  <2>2. On(w, "loop", "sleep")'
    BY <1>3, <1>4 DEF On
  <2>3. \A i \in 1..Len(waiters') : On(waiters[i], "loop", "sleep")' \/ On(waiters[i], "loop", "relock")'
    <3> SUFFICES ASSUME NEW i \in 1..Len(waiters')
                 PROVE  On(waiters[i], "loop", "sleep")' \/ On(waiters[i], "loop", "relock")'
      OBVIOUS
    <3>1. CASE i = Len(waiters) + 1
      <4>1. waiters'[i] = w
        BY <1>6, <3>1
      <4>2. On(waiters[i], "loop", "sleep")' <=> On(w, "loop", "sleep")'
        BY <4>1
      <4> QED
        BY <2>2, <4>2
    <3>2. CASE i # Len(waiters) + 1
      <4>1. i \in 1..Len(waiters)
        BY <1>6, <3>2, ListTypes
      <4>2. PICK o \in Workers : o = waiters[i] /\ o = waiters'[i] /\ o # w
        BY <1>5, <1>6, <4>1, ListTypes
      <4>3. On(o, "loop", "sleep") \/ On(o, "loop", "relock")
        BY <4>1, <4>2, ListTypes
      <4> QED
        BY <2>1, <4>2, <4>3
    <3> QED
      BY <3>1, <3>2
  <2>4. \A o \in Workers : Asleep(o)' => \E i \in 1..Len(waiters') : waiters'[i] = o
    <3> SUFFICES ASSUME NEW o \in Workers, Asleep(o)' PROVE \E i \in 1..Len(waiters') : waiters'[i] = o
      OBVIOUS
    <3>1. CASE o = w
      BY <1>6, <3>1, ListTypes
    <3>2. CASE o # w
      BY <1>6, <2>1, <3>2, ListTypes
    <3> QED
      BY <3>1, <3>2
  <2> QED
    BY <1>6, <2>3, <2>4 DEF Listed
<1>9. LookedInto'
  BY DEF LookedInto, Sleep
<1>10. Types' /\ ResultsInOrder'
  BY <1>6, <1>7 DEF IInv, Types, Sleep, clientVars, ResultsInOrder
<1> QED
  BY <1>4, <1>8, <1>9, <1>10, IInvFromNext DEF Shape

\* A thread is woken by a signal that somebody set.
LEMMA WakeStep ==
  ASSUME IInv, NEW w \in Workers, Wake(w), UNCHANGED clientVars
  PROVE  IInv'
<1>1. /\ w \in Threads /\ w # Main /\ Top(w).kind = "loop" /\ On(w, "loop", "sleep")
      /\ Top(w).at = "sleep" /\ Top(w) \in TaskLoops
  BY WorkerOnTop, KindOf DEF Wake
<1>2. PICK g : g = [Top(w) EXCEPT !.at = "relock", !.got = Returned(event[w])]
  OBVIOUS
<1>3. g \in TaskLoops /\ g.task = Top(w).task /\ g.at = "relock" /\ g.kind = "loop"
  BY <1>1, <1>2 DEF TaskLoops, Returned
<1>4. /\ Stacked' /\ StartedOnce' /\ EmptyWhenLooking' /\ Supported' /\ ShutLast'
      /\ stack'[w] # <<>> /\ Top(w)' = g /\ \A o \in Threads : o # w => stack'[o] = stack[o]
  BY <1>1, <1>2, <1>3, OwnLoop DEF Wake
<1>5. /\ event' \in [Threads -> SUBSET {"finished", "available"}]
      /\ \A o \in Threads : o # w => event'[o] = event[o]
  BY ListTypes DEF Wake
<1>6. \A o \in Workers : o # w => /\ Asleep(o)' <=> Asleep(o)
                                  /\ \A a : On(o, "loop", a)' <=> On(o, "loop", a)
  BY <1>4, <1>5, PoolNumbers DEF Asleep, On, Top
<1>7. On(w, "loop", "relock")' /\ ~Asleep(w)'
  BY <1>3, <1>4 DEF On, Asleep
<1>8. Listed'
  <2>1. waiters' = waiters
    BY DEF Wake
  <2>2. \A i \in 1..Len(waiters) : On(waiters[i], "loop", "sleep")' \/ On(waiters[i], "loop", "relock")'
    <3> SUFFICES ASSUME NEW i \in 1..Len(waiters)
                 PROVE  On(waiters[i], "loop", "sleep")' \/ On(waiters[i], "loop", "relock")'
      OBVIOUS
    <3>1. PICK o \in Workers : o = waiters[i] /\ o = waiters'[i] /\ (On(o, "loop", "sleep") \/ On(o, "loop", "relock"))
      BY <2>1, ListTypes
    <3>2. On(o, "loop", "sleep")' \/ On(o, "loop", "relock")'
      BY <1>6, <1>7, <3>1
    <3> QED
      BY <3>1, <3>2
  <2>3. \A o \in Workers : Asleep(o)' => \E i \in 1..Len(waiters) : waiters[i] = o
    BY <1>6, <1>7, ListTypes
  <2> QED
    BY <2>1, <2>2, <2>3, ListTypes DEF Listed
<1>9. LookedInto'
  BY <1>4, <1>7 DEF LookedInto
<1>10. Types' /\ ResultsInOrder'
  BY <1>5 DEF IInv, Types, Wake, clientVars, ResultsInOrder
<1> QED
  BY <1>4, <1>8, <1>9, <1>10, IInvFromNext DEF Shape

\* One worker is taken off the list, and is not asleep afterwards.
LEMMA TakenOff ==
  ASSUME IInv, NEW th \in Threads, NEW l \in Workers,
         \A o \in Threads : o # th => stack'[o] = stack[o],
         \A o \in Threads : o # th /\ o # l => event'[o] = event[o],
         th = l \/ ~(On(th, "loop", "sleep") \/ On(th, "loop", "relock")),
         ~Asleep(th)', ~Asleep(l)',
         NEW ws, ws = waiters', IsInjective(ws),
         \A i \in 1..Len(ws) : \E j \in 1..Len(waiters) : ws[i] = waiters[j] /\ waiters[j] # l,
         \A j \in 1..Len(waiters) : waiters[j] = l \/ \E i \in 1..Len(ws) : ws[i] = waiters[j]
  PROVE  Listed'
<1>1. \A o \in Workers : o # th /\ o # l =>
        /\ Asleep(o)' <=> Asleep(o)
        /\ \A a : On(o, "loop", a)' <=> On(o, "loop", a)
  BY PoolNumbers DEF Asleep, On, Top
<1>2. ASSUME NEW i \in 1..Len(ws)
      PROVE  On(waiters[i], "loop", "sleep")' \/ On(waiters[i], "loop", "relock")'
  <2>1. PICK j \in 1..Len(waiters) : ws[i] = waiters[j] /\ waiters[j] # l
    OBVIOUS
  <2>2. PICK o \in Workers : o = waiters[j] /\ (On(o, "loop", "sleep") \/ On(o, "loop", "relock"))
    BY ListTypes
  <2>3. o # th /\ o # l
    BY <2>1, <2>2
  <2>4. (On(o, "loop", "sleep") \/ On(o, "loop", "relock"))'
    BY <1>1, <2>2, <2>3
  <2>5. o = waiters'[i]
    BY <2>1, <2>2
  <2> QED
    BY <2>4, <2>5
<1>3. ASSUME NEW o \in Workers, Asleep(o)' PROVE \E i \in 1..Len(ws) : ws[i] = o
  <2>1. o # th /\ o # l
    BY <1>3
  <2>2. Asleep(o)
    BY <1>1, <1>3, <2>1
  <2> QED
    BY <2>1, <2>2, ListTypes
<1> QED
  BY <1>2, <1>3 DEF Listed

\* A thread that was woken for its own task takes itself off the list, for another event it is off already.
LEMMA RelockStep ==
  ASSUME IInv, NEW w \in Workers, Relock(w), UNCHANGED clientVars
  PROVE  IInv'
<1>1. /\ w \in Threads /\ w # Main /\ stack[w] # <<>> /\ Head(stack[w]) = Top(w) /\ Top(w).kind = "loop"
      /\ On(w, "loop", "relock") /\ Top(w).at = "relock" /\ Top(w) \in TaskLoops /\ WellStacked(w, stack[w])
  BY WorkerOnTop, KindOf DEF Relock
<1>2. Types
  BY DEF IInv
<1>3. /\ Stacked' /\ StartedOnce' /\ EmptyWhenLooking' /\ Supported' /\ ShutLast'
      /\ stack'[w] # <<>> /\ ~On(w, "loop", "sleep")' /\ \A o \in Threads : o # w => stack'[o] = stack[o]
  <2>1. CASE Waiting(w) /\ "finished" \in Top(w).got
    <3>1. PICK r : r = Rest(stack[w])
      OBVIOUS
    <3>2. stack' = [stack EXCEPT ![w] = r]
      BY <2>1, <3>1 DEF Relock, Leave, Rest
    <3>3. ~Base(w, Head(stack[w])) /\ Head(stack[w]).kind # "call"
      BY <1>1, <2>1, NotBase
    <3>4. /\ WellStacked(w, r) /\ r # <<>> /\ Above(Head(stack[w]), Head(r))
          /\ \A t \in Tasks : Held(t, stack[w]) => Held(t, r)
      BY <1>1, <3>1, <3>3, Popped
    <3>5. Head(r).kind = "call"
      BY <1>1, <3>4 DEF Above
    <3>6. /\ Stacked' /\ StartedOnce' /\ EmptyWhenLooking' /\ Supported' /\ ShutLast' /\ stack'[w] = r
          /\ \A o \in Threads : o # w => stack'[o] = stack[o]
      BY <1>1, <3>2, <3>4, <3>5, OwnStack DEF Relock
    <3> QED
      BY <3>4, <3>5, <3>6 DEF On, Top
  <2>2. CASE ~(Waiting(w) /\ "finished" \in Top(w).got)
    <3>1. PICK g : g = [Top(w) EXCEPT !.at = "steal", !.left = Others(w)]
      OBVIOUS
    <3>2. g \in TaskLoops /\ g.task = Top(w).task /\ g.at = "steal"
      BY <1>1, <1>2, <3>1, OthersAreWorkers DEF TaskLoops
    <3>3. stack' = Instead(w, g)
      BY <2>2, <3>1 DEF Relock
    <3>4. /\ Stacked' /\ StartedOnce' /\ EmptyWhenLooking' /\ Supported' /\ ShutLast'
          /\ stack'[w] # <<>> /\ Top(w)' = g /\ \A o \in Threads : o # w => stack'[o] = stack[o]
      BY <1>1, <3>2, <3>3, OwnLoop DEF Relock
    <3> QED
      BY <3>2, <3>4 DEF On
  <2> QED
    BY <2>1, <2>2
<1>4. ~Asleep(w)'
  BY <1>3 DEF Asleep
<1>5. PICK ws : ws = Without(waiters, w) /\ ws = waiters'
  BY DEF Relock
<1>6. /\ IsInjective(ws) /\ ws \in Seq(Workers)
      /\ \A i \in 1..Len(ws) : \E j \in 1..Len(waiters) : ws[i] = waiters[j] /\ waiters[j] # w
      /\ \A j \in 1..Len(waiters) : waiters[j] = w \/ \E i \in 1..Len(ws) : ws[i] = waiters[j]
  <2>1. waiters \in Seq(Workers) /\ IsInjective(waiters)
    BY ListTypes
  <2>2. AllBut(Workers, waiters, w, ws)
    BY ONLY <1>5, <2>1, WithoutFromList
  <2> QED
    BY <2>2 DEF AllBut
<1>7. Listed'
  BY <1>1, <1>3, <1>4, <1>5, <1>6, TakenOff DEF Relock
<1>8. LookedInto'
  BY <1>3, <1>4 DEF LookedInto
<1>9. Types' /\ ResultsInOrder'
  BY <1>5, <1>6 DEF IInv, Types, Relock, clientVars, ResultsInOrder
<1> QED
  BY <1>3, <1>7, <1>8, <1>9, IInvFromNext DEF Shape

\* What schedule does to the list: one worker is told, if one is listed.
LEMMA WakeOneList ==
  ASSUME IInv, NEW th \in Threads, WakeOne, waiters # <<>>,
         \A o \in Threads : o # th => stack'[o] = stack[o],
         ~Resting(Top(th)), ~Asleep(th)'
  PROVE  /\ Listed' /\ waiters' \in Seq(Workers)
         /\ event' \in [Threads -> SUBSET {"finished", "available"}]
         /\ \E l \in Workers : l # th /\ stack'[l] # <<>> /\ ~Asleep(l)'
<1>1. PICK l, ws : l = Last(waiters) /\ ws = Front(waiters)
  OBVIOUS
<1>2. waiters \in Seq(Workers) /\ IsInjective(waiters)
  BY ListTypes
<1>3. /\ IsInjective(ws) /\ ws \in Seq(Workers) /\ l \in Workers
      /\ \E i \in 1..Len(waiters) : waiters[i] = l
      /\ \A i \in 1..Len(ws) : \E j \in 1..Len(waiters) : ws[i] = waiters[j] /\ waiters[j] # l
      /\ \A j \in 1..Len(waiters) : waiters[j] = l \/ \E i \in 1..Len(ws) : ws[i] = waiters[j]
  BY ONLY <1>1, <1>2, waiters # <<>>, FrontOfList
<1>4. On(l, "loop", "sleep") \/ On(l, "loop", "relock")
  BY <1>3, ListTypes
<1>5. l # th /\ l \in Threads /\ stack'[l] # <<>>
  BY <1>3, <1>4, PoolNumbers DEF On, Resting
<1>6. ws = waiters' /\ event' = [event EXCEPT ![l] = event[l] \cup {"available"}]
  BY <1>1 DEF WakeOne, WakeLast
<1>7. /\ event' \in [Threads -> SUBSET {"finished", "available"}] /\ event'[l] # {}
      /\ \A o \in Threads : o # th /\ o # l => event'[o] = event[o]
  BY <1>5, <1>6, ListTypes
<1>8. ~Asleep(l)'
  BY <1>7 DEF Asleep
<1>9. ~(On(th, "loop", "sleep") \/ On(th, "loop", "relock"))
  BY DEF On, Resting
<1>10. Listed'
  BY <1>3, <1>6, <1>7, <1>8, <1>9, TakenOff
<1> QED
  BY <1>3, <1>5, <1>6, <1>7, <1>8, <1>10

\* A call that has pushed a task goes on.
LEMMA ScheduleTop ==
  ASSUME IInv, NEW w \in Workers, NEW a, On(w, "schedule", a)
  PROVE  /\ w \in Threads /\ w # Main /\ stack[w] # <<>> /\ Head(stack[w]) = Top(w) /\ Top(w).kind = "schedule"
         /\ ~Base(w, Top(w)) /\ ~Resting(Top(w)) /\ WellStacked(w, stack[w]) /\ Top(w) \in Rests
BY WorkerOnTop, KindOf DEF Base, Resting

\* schedule from inside sees no sleeper, outside the lock; its own thread is awake.
LEMMA CheckWaitersStep ==
  ASSUME IInv, NEW w \in Workers, CheckWaiters(w), UNCHANGED clientVars
  PROVE  IInv'
<1>1. /\ w \in Threads /\ w # Main /\ stack[w] # <<>> /\ Head(stack[w]) = Top(w) /\ Top(w).kind = "schedule"
      /\ ~Base(w, Top(w)) /\ ~Resting(Top(w)) /\ Top(w) \in Rests
  BY ScheduleTop DEF CheckWaiters
<1>2. UNCHANGED Memory
  BY DEF CheckWaiters, Memory
<1>3. CASE waiters = <<>>
  <2>1. stack' = [stack EXCEPT ![w] = Rest(stack[w])]
    BY <1>3 DEF CheckWaiters, Leave, Rest
  <2> QED
    BY <1>1, <1>2, <2>1, MemorySame, PopStep, IInvFromNext
<1>4. CASE waiters # <<>>
  <2>1. PICK g : g = [Top(w) EXCEPT !.at = "lock"]
    OBVIOUS
  <2>2. g \in Rests /\ g.kind = "schedule"
    BY <1>1, <2>1 DEF Rests
  <2>3. stack' = [stack EXCEPT ![w] = Put(stack[w], g)]
    BY <1>4, <2>1 DEF CheckWaiters, Move, Instead, Put
  <2>4. Takes(w, Top(w), g)
    BY <1>1, <2>2, KindIn DEF Takes, Own, Base, Above
  <2>5. SameSub(Top(w), g) /\ Upright(w, g)
    BY <1>1, <2>2 DEF SameSub, Upright, Resting
  <2>6. Shape'
    BY <1>1, <1>2, <2>3, <2>4, <2>5, MemorySame, PutStep
  <2> QED
    BY <1>2, <2>6, MemorySame, IInvFromNext
<1> QED
  BY <1>3, <1>4

\* schedule from inside wakes the last sleeper, which then is off the list and not asleep.
LEMMA WakeForTaskStep ==
  ASSUME IInv, NEW w \in Workers, WakeForTask(w), UNCHANGED clientVars
  PROVE  IInv'
<1>1. /\ w \in Threads /\ w # Main /\ stack[w] # <<>> /\ Head(stack[w]) = Top(w) /\ Top(w).kind = "schedule"
      /\ ~Base(w, Top(w)) /\ ~Resting(Top(w)) /\ WellStacked(w, stack[w])
  BY ScheduleTop DEF WakeForTask
<1>2. PICK r : r = Rest(stack[w])
  OBVIOUS
<1>3. stack' = [stack EXCEPT ![w] = r]
  BY <1>2 DEF WakeForTask, Leave, Rest
<1>4. CASE waiters = <<>>
  <2>1. UNCHANGED Memory
    BY <1>4 DEF WakeForTask, Memory, WakeOne
  <2> QED
    BY <1>1, <1>2, <1>3, <2>1, MemorySame, PopStep, IInvFromNext
<1>5. CASE waiters # <<>>
  <2>1. /\ WellStacked(w, r) /\ r # <<>> /\ Above(Head(stack[w]), Head(r))
        /\ \A t \in Tasks : Held(t, stack[w]) => Held(t, r)
    <3>1. PICK s : s = stack[w]
      OBVIOUS
    <3>2. WellStacked(w, s) /\ s # <<>> /\ Head(s).kind # "call" /\ ~Base(w, Head(s)) /\ r = Rest(s)
      BY <1>1, <1>2, <3>1
    <3>3. WellStacked(w, r) /\ r # <<>> /\ Above(Head(s), Head(r)) /\ \A t \in Tasks : Held(t, s) => Held(t, r)
      BY ONLY <3>2, Popped
    <3> QED
      BY <3>1, <3>3
  <2>2. Head(r).kind = "call"
    BY <1>1, <2>1 DEF Above
  <2>3. /\ Stacked' /\ StartedOnce' /\ EmptyWhenLooking' /\ Supported' /\ ShutLast' /\ stack'[w] = r
        /\ \A o \in Threads : o # w => stack'[o] = stack[o]
    BY <1>1, <1>3, <2>1, <2>2, OwnStack DEF WakeForTask
  <2>4. ~Asleep(w)'
    BY <2>2, <2>3 DEF Asleep, On, Top
  <2>5. /\ Listed' /\ waiters' \in Seq(Workers) /\ event' \in [Threads -> SUBSET {"finished", "available"}]
    BY <1>1, <1>5, <2>3, <2>4, WakeOneList DEF WakeForTask
  <2>6. LookedInto'
    BY <2>1, <2>3, <2>4 DEF LookedInto
  <2>7. Types' /\ ResultsInOrder'
    BY <2>5 DEF IInv, Types, WakeForTask, clientVars, ResultsInOrder
  <2> QED
    BY <2>3, <2>5, <2>6, <2>7, IInvFromNext DEF Shape
<1> QED
  BY <1>4, <1>5
--------------------------------------------------------------------------------
(* The end of a task.                                                          *)

\* What is known of a task that runs.
LEMMA TaskTop ==
  ASSUME IInv, NEW w \in Workers, NEW a, On(w, "task", a)
  PROVE  /\ w \in Threads /\ w # Main /\ stack[w] # <<>> /\ Head(stack[w]) = Top(w) /\ Top(w).kind = "task"
         /\ Top(w).at = a /\ Top(w) \in SoundRuns /\ Top(w) \in Runs /\ Top(w).task \in Tasks
         /\ ~Base(w, Top(w)) /\ ~Resting(Top(w)) /\ WellStacked(w, stack[w])
<1>1. /\ w \in Threads /\ w # Main /\ stack[w] # <<>> /\ Head(stack[w]) = Top(w) /\ Top(w).kind = "task"
      /\ Top(w).at = a /\ Top(w) \in SoundRuns /\ WellStacked(w, stack[w])
  BY WorkerOnTop, KindOf
<1>2. Top(w) \in Runs /\ Top(w).task \in Tasks
  BY <1>1 DEF SoundRuns, Runs
<1> QED
  BY <1>1, <1>2 DEF Base, Resting

\* A task stores what its call has returned: the elements of its range in order.
LEMMA StoreResultStep ==
  ASSUME IInv, NEW w \in Workers, StoreResult(w)
  PROVE  IInv'
<1>1. /\ w \in Threads /\ w # Main /\ stack[w] # <<>> /\ Head(stack[w]) = Top(w) /\ Top(w).kind = "task"
      /\ Top(w).at = "store" /\ Top(w) \in SoundRuns /\ Top(w) \in Runs /\ Top(w).task \in Tasks
      /\ ~Base(w, Top(w)) /\ ~Resting(Top(w))
  BY TaskTop DEF StoreResult, StoreState
<1>2. PICK g : g = [Top(w) EXCEPT !.at = "flush"]
  OBVIOUS
<1>3. g \in SoundRuns /\ g.kind = "task"
  BY <1>1, <1>2 DEF SoundRuns, Runs
<1>4. stack' = [stack EXCEPT ![w] = Put(stack[w], g)]
  BY <1>2 DEF StoreResult, StoreState, Move, Instead, Put
<1>5. Takes(w, Top(w), g) /\ SameSub(Top(w), g) /\ Upright(w, g)
  BY <1>1, <1>3, RunMoves DEF SameSub, Upright, Resting
<1>6. Undisturbed(w) /\ held' = held
  BY <1>1 DEF StoreResult, StoreState, lists, Undisturbed
<1>7. Shape'
  BY <1>1, <1>4, <1>5, <1>6, PutStep
<1>8. /\ state' \in [Tasks -> {"absent", "pending", "completed", "canceled"}]
      /\ held \subseteq {t \in Tasks : state'[t] # "absent"}
  BY <1>1 DEF StoreResult, StoreState, IInv, Types
<1>9. result' \in [Tasks -> Outs] /\ ResultsInOrder'
  <2>1. result \in [Tasks -> Outs] /\ ResultsInOrder
    BY DEF IInv, Types
  <2>2. PICK t, o : t = Top(w).task /\ o = Top(w).out
    OBVIOUS
  <2>3. o \in Outs /\ (~Top(w).thrown => InOrder(o, t[1], t[2]))
    BY <1>1, <2>2 DEF SoundRuns, Runs
  <2>4. result' = IF Top(w).thrown THEN result ELSE [result EXCEPT ![t] = o]
    BY <2>2 DEF StoreResult
  <2> QED
    BY <1>1, <2>1, <2>2, <2>3, <2>4 DEF ResultsInOrder
<1>10. Types'
  BY <1>8, <1>9 DEF IInv, Types, StoreResult, StoreState, lists
<1> QED
  BY <1>7, <1>9, <1>10, IInvFromNext

\* A task that has finished signals those who wait for it.
LEMMA TellWaiterStep ==
  ASSUME IInv, NEW w \in Workers, TellWaiter(w), UNCHANGED clientVars
  PROVE  IInv'
<1>1. /\ w \in Threads /\ stack[w] # <<>> /\ Top(w).kind = "task" /\ Top(w).task \in Tasks
  BY TaskTop DEF TellWaiter
<1>2. PICK t, th : t = Top(w).task /\ th = Head(conts[t])
  OBVIOUS
<1>3. conts \in [Tasks -> Seq(Threads)] /\ conts[t] \in Seq(Threads) /\ conts[t] # <<>>
  BY <1>1, <1>2 DEF IInv, Types, TellWaiter
<1>4. th \in Threads /\ Tail(conts[t]) \in Seq(Threads)
  BY <1>2, <1>3, HeadTailProperties
<1>5. event' = [event EXCEPT ![th] = @ \cup {"finished"}] /\ conts' = [conts EXCEPT ![t] = Tail(@)]
  BY <1>2 DEF TellWaiter
<1>6. /\ event' \in [Threads -> SUBSET {"finished", "available"}]
      /\ \A o \in Threads : event[o] \subseteq event'[o]
  BY <1>4, <1>5, ListTypes
<1>7. conts' \in [Tasks -> Seq(Threads)]
  BY <1>3, <1>4, <1>5
<1>8. Types' /\ ResultsInOrder'
  BY <1>6, <1>7 DEF IInv, Types, TellWaiter, clientVars, ResultsInOrder
<1>9. \A o \in Workers : Asleep(o)' => Asleep(o)
  BY <1>6, PoolNumbers DEF Asleep, On, Top, TellWaiter
<1>10. ~Asleep(w)' /\ stack'[w] # <<>>
  BY <1>1 DEF Asleep, On, Top, TellWaiter
<1>11. Listed' /\ LookedInto'
  BY <1>9, <1>10 DEF IInv, Listed, LookedInto, TellWaiter, On, Top
<1>12. /\ Stacked' /\ StartedOnce' /\ EmptyWhenLooking' /\ ShutLast' /\ Supported'
  BY DEF IInv, Stacked, StartedOnce, Starting, Share, EmptyWhenLooking, ShutLast, Supported, TellWaiter, On, Top
<1> QED
  BY <1>8, <1>11, <1>12, IInvFromNext DEF Shape

\* When the pool lets go of a task, the call it belongs to need not stay for it.
LEMMA ReleaseTaskStep ==
  ASSUME IInv, NEW w \in Workers, ReleaseTask(w), UNCHANGED clientVars
  PROVE  IInv'
<1>1. /\ w \in Threads /\ w # Main /\ stack[w] # <<>> /\ Head(stack[w]) = Top(w) /\ Top(w).kind = "task"
      /\ ~Base(w, Top(w)) /\ ~Resting(Top(w))
  BY TaskTop DEF ReleaseTask
<1>2. stack' = [stack EXCEPT ![w] = Rest(stack[w])]
  BY DEF ReleaseTask, Leave, Rest
<1>3. Undisturbed(w) /\ held' \subseteq held
  BY <1>1 DEF ReleaseTask, lists, Undisturbed
<1>4. Shape'
  BY <1>1, <1>2, <1>3, PopStep
<1>5. Types' /\ ResultsInOrder'
  BY <1>3 DEF IInv, Types, ReleaseTask, lists, clientVars, ResultsInOrder
<1> QED
  BY <1>4, <1>5, IInvFromNext
--------------------------------------------------------------------------------
(* The start of the threads.                                                   *)

\* What is known of a thread that starts others.
LEMMA StartTop ==
  ASSUME IInv, NEW w \in Workers, NEW a, On(w, "start", a)
  PROVE  /\ w \in Threads /\ w # Main /\ stack[w] # <<>> /\ Head(stack[w]) = Top(w) /\ Top(w).kind = "start"
         /\ Top(w).at = a /\ Top(w) \in Starts /\ Top(w).threads \in Nat /\ Top(w).threads >= 1
         /\ ~Resting(Top(w)) /\ WellStacked(w, stack[w]) /\ Starting(w)
         /\ Share(w) \subseteq Workers /\ (a = "assign" => Top(w).other \in Workers)
         /\ \A v \in Share(w) \ {w} : stack[v] = <<>>
         /\ \A v \in Workers \ {w} : Starting(v) => Share(v) \cap Share(w) = {}
<1>1. /\ w \in Threads /\ w # Main /\ stack[w] # <<>> /\ Head(stack[w]) = Top(w) /\ Top(w).kind = "start"
      /\ Top(w).at = a /\ Top(w) \in Starts /\ WellStacked(w, stack[w])
  BY WorkerOnTop, KindOf
<1>2. Starting(w)
  BY <1>1 DEF Starting
<1>3. /\ Share(w) \subseteq Workers /\ (a = "assign" => Top(w).other \in Workers)
      /\ \A v \in Share(w) \ {w} : stack[v] = <<>>
      /\ \A v \in Workers \ {w} : Starting(v) => Share(v) \cap Share(w) = {}
  BY <1>1, <1>2 DEF IInv, StartedOnce
<1>4. Top(w).threads \in Nat /\ Top(w).threads >= 1
  BY <1>1 DEF Starts
<1> QED
  BY <1>1, <1>2, <1>3, <1>4 DEF Resting

\* The handle of a started thread is stored by the one who started it.
LEMMA AssignHandleStep ==
  ASSUME IInv, NEW w \in Workers, AssignHandle(w), UNCHANGED clientVars
  PROVE  IInv'
<1>1. /\ w \in Threads /\ w # Main /\ stack[w] # <<>> /\ Head(stack[w]) = Top(w) /\ Top(w).kind = "start"
      /\ Top(w) \in Starts /\ ~Resting(Top(w)) /\ WellStacked(w, stack[w]) /\ Top(w).other \in Workers
  BY StartTop DEF AssignHandle
<1>2. PICK g : g = [Top(w) EXCEPT !.at = "spawn"]
  OBVIOUS
<1>3. g \in Starts /\ g.kind = "start" /\ g.threads = Top(w).threads /\ g.at = "spawn" /\ g \in AllFrames
  BY <1>1, <1>2, KindIn DEF Starts
<1>4. PICK r : r = Put(stack[w], g)
  OBVIOUS
<1>5. stack' = [stack EXCEPT ![w] = r]
  BY <1>2, <1>4 DEF AssignHandle, Move, Instead, Put
<1>6. Takes(w, Top(w), g) /\ SameSub(Top(w), g)
  BY <1>1, <1>3, StartMoves DEF SameSub
<1>7. WellStacked(w, r) /\ r # <<>> /\ Head(r) = g
  BY <1>1, <1>4, <1>6, Replaced
<1>8. stack'[w] = r /\ \A o \in Threads : o # w => stack'[o] = stack[o]
  BY <1>1, <1>5, IInvParts
<1>9. StartedOnce'
  <2>1. \A o \in Workers : /\ Starting(o)' <=> Starting(o)
                           /\ Top(o)'.threads = Top(o).threads \/ ~Starting(o)
                           /\ o # w => Top(o)' = Top(o) /\ stack'[o] = stack[o]
    BY <1>1, <1>3, <1>7, <1>8, PoolNumbers DEF Starting, Top
  <2>2. \A o \in Workers : Starting(o) => Share(o)' = Share(o)
    BY <2>1 DEF Share
  <2>3. Top(w)'.at = "spawn"
    BY <1>3, <1>7, <1>8 DEF Top
  <2>4. StartedOnce /\ Starting(w)
    BY StartTop DEF IInv, AssignHandle
  <2>5. \A o \in Workers : Starting(o) => \A v \in Share(o) \ {o} : stack[v] = <<>> /\ v # w
    BY <1>1, <2>4 DEF StartedOnce
  <2> QED
    BY <2>1, <2>2, <2>3, <2>4, <2>5 DEF StartedOnce
<1>10. Upright(w, g) /\ Undisturbed(w) /\ held' = held
  BY <1>1, <1>3, <1>9 DEF Upright, Resting, Undisturbed, AssignHandle, lists
<1>11. Shape'
  BY <1>1, <1>4, <1>5, <1>6, <1>10, PutStep
<1>12. Types' /\ ResultsInOrder'
  BY <1>1 DEF IInv, Types, AssignHandle, lists, clientVars, ResultsInOrder
<1> QED
  BY <1>11, <1>12, IInvFromNext

\* The stack of a thread that has just been made.
LEMMA NewStack ==
  ASSUME NEW th \in Workers, NEW f \in AllFrames, Own(th, f), Base(th, f), NEW s, s = <<f>>
  PROVE  WellStacked(th, s) /\ s # <<>> /\ Head(s) = f
<1>1. s \in Seq(AllFrames) /\ Len(s) = 1 /\ s[1] = f /\ s # <<>> /\ Head(s) = f
  OBVIOUS
<1>2. \A i \in 1..Len(s) : i = 1
  BY <1>1
<1>3. \A i \in 1..Len(s) - 1 : FALSE
  BY <1>1
<1> QED
  BY <1>1, <1>2, <1>3 DEF WellStacked

\* A thread starts another and gives it the upper half of its share.
LEMMA StartThreadStep ==
  ASSUME IInv, NEW w \in Workers, StartThread(w), UNCHANGED clientVars
  PROVE  IInv'
<1>1. /\ w \in Threads /\ w # Main /\ stack[w] # <<>> /\ Head(stack[w]) = Top(w) /\ Top(w).kind = "start"
      /\ Top(w) \in Starts /\ WellStacked(w, stack[w]) /\ Starting(w) /\ Share(w) \subseteq Workers
      /\ \A v \in Share(w) \ {w} : stack[v] = <<>>
      /\ \A v \in Workers \ {w} : Starting(v) => Share(v) \cap Share(w) = {}
  BY StartTop DEF StartThread
<1>2. PICK n, half, mid : n = Top(w).threads /\ half = n \div 2 /\ mid = w + half
  OBVIOUS
<1>3. /\ n \in Nat /\ n > 1 /\ half \in Nat /\ half >= 1 /\ half < n /\ w \in Nat
      /\ Share(w) = w..w + n - 1
  BY <1>1, <1>2, Halves, PoolNumbers DEF Starts, StartThread, Share
<1>4. mid \in Share(w) /\ mid # w /\ mid \in Workers /\ stack[mid] = <<>> /\ mid \in Nat /\ mid # 0
  <2>1. mid \in Nat /\ mid # w /\ mid # 0 /\ mid \in w..w + n - 1
    BY <1>2, <1>3
  <2>2. mid \in Share(w)
    BY <1>3, <2>1
  <2> QED
    BY <1>1, <2>1, <2>2
<1>5. mid \in Threads /\ mid # Main /\ mid \in 0..Nobody
  BY <1>4, PoolNumbers
<1>6. PICK g, h : g = [Top(w) EXCEPT !.at = "assign", !.threads = half, !.other = mid] /\ h = Start(n - half)
  OBVIOUS
<1>7. g \in Starts /\ g.kind = "start" /\ g.threads = half /\ g.at = "assign" /\ g.other = mid /\ g \in AllFrames
  <2>1. PICK f \in Starts : f = Top(w)
    BY <1>1
  <2>2. half \in Nat \ {0} /\ mid \in 0..Nobody /\ g = [f EXCEPT !.at = "assign", !.threads = half, !.other = mid]
    BY <1>3, <1>5, <1>6, <2>1
  <2>3. g \in Starts /\ g.kind = "start" /\ g.threads = half /\ g.at = "assign" /\ g.other = mid
    BY ONLY <2>2 DEF Starts
  <2> QED
    BY <2>3, KindIn
<1>8. h \in Starts /\ h.kind = "start" /\ h.threads = n - half /\ h.at = "spawn" /\ h \in AllFrames
  BY <1>3, <1>6, PoolNumbers, KindIn DEF Starts, Start
<1>9. PICK r, s : r = Put(stack[w], g) /\ s = <<h>>
  OBVIOUS
<1>10. stack' = [[stack EXCEPT ![w] = r] EXCEPT ![mid] = s]
  BY <1>2, <1>6, <1>9 DEF StartThread, Instead, Put
<1>11. Takes(w, Top(w), g) /\ SameSub(Top(w), g)
  BY <1>1, <1>7, StartMoves DEF SameSub
<1>12. WellStacked(w, r) /\ r # <<>> /\ Head(r) = g /\ \A t \in Tasks : Held(t, stack[w]) => Held(t, r)
  BY <1>1, <1>9, <1>11, Replaced
<1>13. WellStacked(mid, s) /\ s # <<>> /\ Head(s) = h
  BY <1>4, <1>5, <1>8, <1>9, NewStack DEF Own, Base
<1>14. /\ stack'[w] = r /\ stack'[mid] = s
       /\ \A o \in Threads : o # w /\ o # mid => stack'[o] = stack[o]
  BY <1>1, <1>4, <1>5, <1>10, IInvParts
<1>15. Stacked'
  <2>1. stack \in [Threads -> Seq(AllFrames)] /\ r \in Seq(AllFrames) /\ s \in Seq(AllFrames)
    BY <1>12, <1>13, IInvParts DEF WellStacked
  <2>2. PICK m : m = [stack EXCEPT ![w] = r] /\ stack' = [m EXCEPT ![mid] = s]
    BY <1>10
  <2>3. m \in [Threads -> Seq(AllFrames)]
    BY <1>1, <2>1, <2>2
  <2>4. stack' \in [Threads -> Seq(AllFrames)]
    BY <1>5, <2>1, <2>2, <2>3
  <2>5. \A th \in Threads : WellStacked(th, stack'[th])
    BY <1>12, <1>13, <1>14, IInvParts
  <2>6. stack'[Main] # <<>>
    BY <1>1, <1>5, <1>14, PoolNumbers DEF IInv, Stacked
  <2>7. Stacked' <=> /\ stack' \in [Threads -> Seq(AllFrames)] /\ stack'[Main] # <<>>
                     /\ \A th \in Threads : WellStacked(th, stack'[th])
    BY DEF Stacked
  <2> QED
    BY <2>4, <2>5, <2>6, <2>7
<1>16. /\ Top(w)' = g /\ Top(mid)' = h /\ Starting(w)' /\ Starting(mid)'
       /\ \A o \in Workers : o # w /\ o # mid => Top(o)' = Top(o) /\ (Starting(o)' <=> Starting(o))
  BY <1>4, <1>7, <1>8, <1>12, <1>13, <1>14, PoolNumbers DEF Top, Starting
<1>17. StartedOnce'
  <2>1. /\ Share(w)' = w..w + half - 1 /\ Share(mid)' = mid..mid + (n - half) - 1
        /\ \A o \in Workers : o # w /\ o # mid => Share(o)' = Share(o)
    BY <1>7, <1>8, <1>16 DEF Share
  <2>2. /\ Share(w)' \subseteq Share(w) /\ Share(mid)' \subseteq Share(w)
        /\ Share(w)' \cap Share(mid)' = {} /\ mid \notin Share(w)' /\ w \notin Share(mid)'
    <3>1. mid = w + half
      BY <1>2
    <3>2. /\ w..w + half - 1 \subseteq w..w + n - 1 /\ mid..mid + (n - half) - 1 \subseteq w..w + n - 1
          /\ (w..w + half - 1) \cap (mid..mid + (n - half) - 1) = {}
          /\ mid \notin w..w + half - 1 /\ w \notin mid..mid + (n - half) - 1
      BY <1>3, <1>4, <3>1
    <3> QED
      BY <1>3, <2>1, <3>2
  <2>3. ASSUME NEW o \in Workers, o # w, o # mid, Starting(o)
        PROVE  /\ Share(o) \subseteq Workers /\ w \notin Share(o) /\ mid \notin Share(o)
               /\ Top(o).at = "assign" => Top(o).other \in Workers
               /\ \A v \in Share(o) \ {o} : stack[v] = <<>>
               /\ \A v \in Workers \ {o} : Starting(v) => Share(v) \cap Share(o) = {}
               /\ Share(o) \cap Share(w) = {}
    BY <1>1, <1>3, <1>4, <2>3 DEF IInv, StartedOnce
  <2>4. ASSUME NEW o \in Workers, Starting(o)'
        PROVE  /\ Share(o)' \subseteq Workers
               /\ Top(o)'.at = "assign" => Top(o)'.other \in Workers
               /\ \A v \in Share(o)' \ {o} : stack'[v] = <<>>
    <3>1. CASE o = w
      BY <1>1, <1>4, <1>7, <1>14, <1>16, <2>2, <3>1, PoolNumbers
    <3>2. CASE o = mid
      BY <1>1, <1>4, <1>8, <1>14, <1>16, <2>2, <3>2, PoolNumbers
    <3>3. CASE o # w /\ o # mid
      BY <1>14, <1>16, <2>1, <2>3, <2>4, <3>3, PoolNumbers
    <3> QED
      BY <3>1, <3>2, <3>3
  <2>5. ASSUME NEW o \in Workers, Starting(o)', NEW v \in Workers \ {o}, Starting(v)'
        PROVE  Share(v)' \cap Share(o)' = {}
    <3>a. ASSUME NEW x \in Workers, x \notin {w, mid}, Starting(x)' PROVE Share(x)' \cap Share(w) = {}
      BY <1>16, <2>1, <2>3, <3>a
    <3>b. \A x \in {w, mid} : Share(x)' \subseteq Share(w)
      BY <2>2
    <3>1. CASE o \in {w, mid} /\ v \in {w, mid}
      BY <2>2, <3>1
    <3>2. CASE o \in {w, mid} /\ v \notin {w, mid}
      BY <2>5, <3>a, <3>b, <3>2
    <3>3. CASE o \notin {w, mid} /\ v \in {w, mid}
      BY <2>5, <3>a, <3>b, <3>3
    <3>4. CASE o \notin {w, mid} /\ v \notin {w, mid}
      BY <1>16, <2>1, <2>3, <2>5, <3>4
    <3> QED
      BY <3>1, <3>2, <3>3, <3>4
  <2> QED
    BY <2>4, <2>5 DEF StartedOnce
<1>18. \A o \in Workers : /\ Asleep(o)' => Asleep(o)
                          /\ \A a : On(o, "loop", a)' => On(o, "loop", a)
                          /\ On(o, "loop", "sleep") => On(o, "loop", "sleep")'
                          /\ On(o, "loop", "relock") => On(o, "loop", "relock")'
  <2>1. event' = event
    BY DEF StartThread, lists
  <2>2. ASSUME NEW o \in Workers PROVE \A a : On(o, "loop", a)' <=> On(o, "loop", a)
    BY <1>1, <1>4, <1>7, <1>8, <1>14, <1>16, PoolNumbers DEF On, Top
  <2> QED
    BY <2>1, <2>2 DEF Asleep
<1>19. EmptyWhenLooking'
  BY <1>18 DEF IInv, EmptyWhenLooking, StartThread
<1>20. Listed'
  <2>1. waiters' = waiters
    BY DEF StartThread, lists
  <2>2. ASSUME NEW i \in 1..Len(waiters)
        PROVE  On(waiters[i], "loop", "sleep")' \/ On(waiters[i], "loop", "relock")'
    <3>1. PICK o \in Workers : o = waiters[i] /\ (On(o, "loop", "sleep") \/ On(o, "loop", "relock"))
      BY ListTypes
    <3>2. (On(o, "loop", "sleep") \/ On(o, "loop", "relock"))' /\ o = waiters'[i]
      BY <1>18, <2>1, <3>1
    <3> QED
      BY <3>2
  <2> QED
    BY <1>18, <2>1, <2>2, ListTypes DEF Listed
<1>21. ShutLast'
  <2>1. \A a : On(Main, "client", a)' <=> On(Main, "client", a)
    BY <1>1, <1>5, <1>14, PoolNumbers DEF On, Top
  <2>2. stack[0] # <<>> => stack'[0] # <<>>
    BY <1>12, <1>13, <1>14, PoolNumbers
  <2> QED
    BY <2>1, <2>2 DEF IInv, ShutLast, StartThread
<1>22. Supported'
  <2>1. held' = held /\ held \subseteq Tasks
    BY IInvParts DEF StartThread
  <2>2. ASSUME NEW t \in held PROVE \E th \in Threads : Held(t, stack'[th])
    <3>1. PICK th \in Threads : Held(t, stack[th])
      BY DEF IInv, Supported
    <3>2. th # mid
      BY <1>4, <3>1 DEF Held
    <3>3. Held(t, stack'[th])
      BY <1>12, <1>14, <2>1, <3>1, <3>2
    <3> QED
      BY <3>3
  <2> QED
    BY <2>1, <2>2 DEF Supported
<1>23. LookedInto'
  BY <1>7, <1>12, <1>14, <1>16 DEF LookedInto, Asleep, On
<1>24. Types' /\ ResultsInOrder'
  BY DEF IInv, Types, StartThread, lists, clientVars, ResultsInOrder
<1> QED
  BY <1>15, <1>17, <1>19, <1>20, <1>21, <1>22, <1>23, <1>24, IInvFromNext DEF Shape
--------------------------------------------------------------------------------
(* The recursion.                                                              *)

\* The call of a task begins.
LEMMA EnterTaskStep ==
  ASSUME IInv, NEW w \in Workers, EnterTask(w)
  PROVE  IInv'
<1>1. /\ w \in Threads /\ w # Main /\ stack[w] # <<>> /\ Head(stack[w]) = Top(w) /\ Top(w).kind = "task"
      /\ Top(w) \in SoundRuns /\ Top(w) \in Runs /\ Top(w).task \in Tasks /\ ~Resting(Top(w))
  BY TaskTop DEF EnterTask
<1>2. PICK g : g = [Top(w) EXCEPT !.at = "called"]
  OBVIOUS
<1>3. g \in SoundRuns /\ g.kind = "task" /\ g.at = "called" /\ g.task = Top(w).task
  BY <1>1, <1>2 DEF SoundRuns, Runs
<1>4. PICK t : t = Top(w).task
  OBVIOUS
<1>5. /\ t = <<t[1], t[2]>> /\ t[1] \in 0..Elements /\ t[2] \in 0..Elements /\ t[1] < t[2]
      /\ subpart[t][1] \in Nat /\ subpart[t][2] \in 0..Nobody
  BY <1>1, <1>4, TaskRange, IInvParts DEF Types
<1>6. PICK h : h = Call(t[1], t[2], subpart[t][1], subpart[t][2])
  OBVIOUS
<1>7. h \in SplitCalls /\ Extent(h) = t /\ h.kind = "call" /\ h \in AllFrames
  BY <1>5, <1>6, NewCalls, KindIn
<1>8. stack' = [stack EXCEPT ![w] = PutTwo(stack[w], h, g)]
  BY <1>2, <1>4, <1>6 DEF EnterTask, PutTwo
<1>9. Takes(w, Top(w), g) /\ SameSub(Top(w), g) /\ Upright(w, h)
  BY <1>1, <1>3, <1>7, RunMoves DEF SameSub, Upright, Resting
<1>10. Own(w, h) /\ ~Base(w, h) /\ Above(h, g)
  BY <1>1, <1>3, <1>4, <1>7 DEF Own, Base, Above
<1>11. UNCHANGED Memory
  BY DEF EnterTask, Memory
<1>12. held' = held /\ held' \subseteq Tasks
  BY <1>11, IInvParts DEF Memory
<1>13. Shape'
  BY <1>1, <1>7, <1>8, <1>9, <1>10, <1>11, <1>12, MemorySame, PushStep
<1> QED
  BY <1>11, <1>13, MemorySame, IInvFromNext

\* A call on top of a stack; the main thread makes it before it destroys the pool.
LEMMA CallTop ==
  ASSUME IInv, NEW th \in Threads, NEW a, On(th, "call", a)
  PROVE  /\ stack[th] # <<>> /\ Head(stack[th]) = Top(th) /\ Top(th).kind = "call" /\ Top(th).at = a
         /\ Top(th) \in SplitCalls /\ Top(th) \in AnyCalls /\ SoundCall(Top(th))
         /\ ~Base(th, Top(th)) /\ ~Resting(Top(th)) /\ WellStacked(th, stack[th])
         /\ Above(Top(th), stack[th][2]) /\ stack[th][2] \in AllFrames /\ Own(th, stack[th][2])
         /\ th = Main => ~shutdown
<1>1. /\ stack[th] # <<>> /\ Head(stack[th]) = Top(th) /\ Top(th).kind = "call" /\ Top(th).at = a
      /\ Top(th) \in AllFrames /\ WellStacked(th, stack[th])
  BY IInvParts, OnTop
<1>2. Top(th) \in SplitCalls /\ Top(th) \in AnyCalls /\ SoundCall(Top(th))
  BY <1>1, KindOf DEF SplitCalls
<1>3. ~Base(th, Top(th)) /\ ~Resting(Top(th))
  BY <1>1 DEF Base, Resting
<1>4. Above(Top(th), stack[th][2]) /\ stack[th][2] \in AllFrames /\ Own(th, stack[th][2])
  <2>1. PICK s : s = stack[th]
    OBVIOUS
  <2>2. WellStacked(th, s) /\ s # <<>> /\ Head(s) = Top(th) /\ ~Base(th, Head(s))
    BY <1>1, <1>3, <2>1
  <2>3. Above(Head(s), s[2]) /\ s[2] \in AllFrames /\ Own(th, s[2])
    BY ONLY <2>2, NotAlone
  <2> QED
    BY <2>1, <2>2, <2>3
<1>5. th = Main => ~shutdown
  BY <1>1, IInvParts DEF ShutLast, On
<1> QED
  BY <1>1, <1>2, <1>3, <1>4, <1>5

\* What a call returns to.
LEMMA ReturnFrame ==
  ASSUME NEW th \in Threads, NEW f \in SplitCalls, NEW below \in AllFrames, Above(f, below), Own(th, below),
         NEW thrown \in BOOLEAN, NEW out \in Outs,
         ~thrown => InOrder(out, Extent(f)[1], Extent(f)[2]),
         NEW at, at = IF below.kind = "task" THEN "store"
                      ELSE IF below.kind = "client" THEN "returned"
                      ELSE IF thrown THEN "join" ELSE "get",
         NEW g, g = [below EXCEPT !.at = at, !.thrown = thrown, !.out = out]
  PROVE  Takes(th, below, g) /\ SameSub(below, g) /\ ~Resting(g) /\ g.kind \in {"task", "call", "client"}
<1>1. f.kind = "call"
  BY KindIn
<1>2. CASE below.kind = "task" /\ below.at = "called" /\ Extent(f) = below.task
  <2>1. below \in SoundRuns /\ at = "store"
    BY <1>2, KindOf
  <2>2. th \in Workers
    BY <1>2 DEF Own, Threads
  <2>3. ~thrown => InOrder(out, below.task[1], below.task[2])
    BY <1>2
  <2>4. g \in Runs /\ g.at = "store" /\ g.thrown = thrown /\ g.out = out /\ g.task = below.task
    BY <2>1 DEF SoundRuns, Runs
  <2>5. g \in SoundRuns
    BY <2>3, <2>4 DEF SoundRuns
  <2> QED
    BY <1>2, <2>1, <2>2, <2>5, RunMoves, KindIn DEF SameSub, Resting
<1>3. CASE below.kind = "call" /\ below.at = "nested" /\ Extent(f) = <<below.lo, below.hi>>
  <2>1. below \in SplitCalls /\ at = IF thrown THEN "join" ELSE "get"
    BY <1>3, KindOf
  <2>2. /\ Extent(f)[1] = below.lo /\ Extent(f)[2] = below.hi
    BY <1>3
  <2>3. ~thrown => InOrder(out, below.lo, below.hi)
    BY <2>2
  <2>4. g \in AnyCalls /\ g.at = at /\ g.thrown = thrown /\ g.out = out /\ g.lo = below.lo /\ g.hi = below.hi /\ g.sub = below.sub
    BY <2>1 DEF SplitCalls, AnyCalls
  <2>5. g \in SplitCalls /\ Extent(g) = Extent(below)
    <3>1. /\ below.lo < below.hi /\ below.sub \in Tasks /\ below.sub[1] = below.hi /\ at \in {"join", "get"}
      BY <1>3, <2>1 DEF SplitCalls, SoundCall
    <3>2. Extent(g) = Extent(below)
      BY <1>3, <2>4, <3>1 DEF Extent
    <3>3. CASE thrown
      BY <2>1, <2>4, <3>1, <3>2, <3>3 DEF SplitCalls, SoundCall
    <3>4. CASE ~thrown
      BY <2>1, <2>3, <2>4, <3>1, <3>2, <3>4 DEF SplitCalls, SoundCall
    <3> QED
      BY <3>3, <3>4
  <2> QED
    BY <2>1, <2>4, <2>5, CallMoves, KindIn DEF SameSub, Resting
<1>4. CASE below.kind = "client" /\ below.at = "called" /\ Extent(f) = <<0, Elements>>
  <2>1. below \in SoundClients /\ at = "returned"
    BY <1>4, KindOf
  <2>2. th = Main
    BY <1>4 DEF Own
  <2>3. ~thrown => InOrder(out, 0, Elements)
    BY <1>4
  <2>4. g \in Clients /\ g.at = at /\ g.thrown = thrown /\ g.out = out
    BY <2>1 DEF SoundClients, Clients
  <2>5. g \in SoundClients
    BY <2>3, <2>4 DEF SoundClients
  <2> QED
    BY <1>4, <2>1, <2>2, <2>5, ClientMoves, KindIn DEF SameSub, Resting
<1> QED
  BY <1>1, <1>2, <1>3, <1>4 DEF Above

\* A call returns: the activation below was made for its range and takes the result.
LEMMA ReturnStep ==
  ASSUME IInv, NEW th \in Threads, NEW a, On(th, "call", a), NEW thrown \in BOOLEAN, NEW out \in Outs,
         ~thrown => InOrder(out, Extent(Top(th))[1], Extent(Top(th))[2]),
         Return(th, thrown, out), Top(th).sub \notin held, Undisturbed(th), held' = held
  PROVE  Shape'
<1>1. /\ stack[th] # <<>> /\ Head(stack[th]) = Top(th) /\ Top(th).kind = "call" /\ Top(th) \in SplitCalls
      /\ ~Base(th, Top(th)) /\ ~Resting(Top(th)) /\ WellStacked(th, stack[th])
      /\ Above(Top(th), stack[th][2]) /\ stack[th][2] \in AllFrames /\ Own(th, stack[th][2])
  BY CallTop
<1>2. PICK below, at : /\ below = stack[th][2]
                       /\ at = IF below.kind = "task" THEN "store"
                               ELSE IF below.kind = "client" THEN "returned"
                               ELSE IF thrown THEN "join" ELSE "get"
  OBVIOUS
<1>3. PICK g : g = [below EXCEPT !.at = at, !.thrown = thrown, !.out = out]
  OBVIOUS
<1>4. stack' = [stack EXCEPT ![th] = Back(stack[th], g)]
  BY <1>2, <1>3 DEF Return, Back
<1>5. PICK f : f = Top(th)
  OBVIOUS
<1>6. /\ th \in Threads /\ f \in SplitCalls /\ below \in AllFrames /\ Above(f, below) /\ Own(th, below)
      /\ ~thrown => InOrder(out, Extent(f)[1], Extent(f)[2])
  BY <1>1, <1>2, <1>5
<1>7. at = IF below.kind = "task" THEN "store" ELSE IF below.kind = "client" THEN "returned"
           ELSE IF thrown THEN "join" ELSE "get"
  BY <1>2
<1>8. Takes(th, below, g) /\ SameSub(below, g) /\ ~Resting(g) /\ g.kind \in {"task", "call", "client"}
  BY ONLY <1>3, <1>6, <1>7, thrown \in BOOLEAN, out \in Outs, ReturnFrame
<1>9. Takes(th, stack[th][2], g) /\ SameSub(stack[th][2], g) /\ Upright(th, g)
  BY <1>2, <1>8 DEF Upright
<1>10. held' \subseteq held /\ Head(stack[th]).sub \notin held'
  BY <1>1
<1> QED
  BY <1>1, <1>4, <1>9, <1>10, BackStep

\* The elements of a range in their order.
LEMMA InTurn ==
  ASSUME NEW lo \in 0..Elements, NEW hi \in 0..Elements, lo < hi
  PROVE  [i \in 1..hi - lo |-> lo + i - 1] \in Outs /\ InOrder([i \in 1..hi - lo |-> lo + i - 1], lo, hi)
<1>1. PICK n \in Nat : n = hi - lo
  OBVIOUS
<1>2. \A i \in 1..n : lo + i - 1 \in 0..Elements
  BY <1>1, RangeAssumption
<1>3. PICK o : o = [i \in 1..n |-> lo + i - 1]
  OBVIOUS
<1>4. o \in [1..n -> 0..Elements]
  BY <1>2, <1>3
<1>5. o \in Seq(0..Elements)
  <2>1. PICK S : S = 0..Elements
    OBVIOUS
  <2>2. o \in [1..n -> S] /\ n \in Nat
    BY <1>1, <1>4, <2>1
  <2>3. o \in Seq(S)
    BY ONLY <2>2
  <2> QED
    BY <2>1, <2>3
<1>6. /\ DOMAIN o = 1..n /\ \A i \in 1..n : o[i] \in lo..hi - 1
      /\ \A i, j \in 1..n : i < j => o[i] < o[j]
  BY <1>1, <1>3
<1>7. o = [i \in 1..hi - lo |-> lo + i - 1]
  BY <1>1, <1>3
<1>8. o \in Outs /\ InOrder(o, lo, hi)
  BY <1>5, <1>6, <1>7 DEF Outs, InOrder
<1> QED
  BY <1>7, <1>8

\* A call that does not split calls the function for its range, in order.
LEMMA RunInlineStep ==
  ASSUME IInv, NEW th \in Threads, RunInline(th)
  PROVE  IInv'
<1>1. /\ Top(th) \in AnyCalls /\ SoundCall(Top(th)) /\ Top(th).at = "split" /\ (th = Main => ~shutdown)
      /\ On(th, "call", "split")
  BY CallTop DEF RunInline
<1>2. PICK f : f = Top(th)
  OBVIOUS
<1>3. f.lo \in 0..Elements /\ f.hi \in 0..Elements /\ f.lo < f.hi /\ f.sub = NoTask /\ Extent(f) = <<f.lo, f.hi>>
  BY <1>1, <1>2 DEF AnyCalls, SoundCall, Extent
<1>4. PICK out, thrown : /\ out = [i \in 1..f.hi - f.lo |-> f.lo + i - 1]
                         /\ thrown = (((f.lo..f.hi - 1) \cap throwing) # {})
  OBVIOUS
<1>5. out \in Outs /\ InOrder(out, f.lo, f.hi) /\ thrown \in BOOLEAN
  BY <1>3, <1>4, InTurn
<1>6. Return(th, thrown, out)
  BY <1>2, <1>4 DEF RunInline
<1>7. InOrder(out, Extent(Top(th))[1], Extent(Top(th))[2])
  BY <1>2, <1>3, <1>5
<1>8. Undisturbed(th) /\ held' = held
  BY <1>1 DEF RunInline, Undisturbed, lists
<1>9. Top(th).sub \notin held
  BY <1>2, <1>3, IInvParts, PoolAssumption
<1>10. Shape'
  BY <1>1, <1>5, <1>6, <1>7, <1>8, <1>9, ReturnStep
<1>11. Types' /\ ResultsInOrder'
  BY DEF IInv, Types, RunInline, lists, ResultsInOrder
<1> QED
  BY <1>10, <1>11, IInvFromNext

\* A call joins its task and returns what both parts make.
LEMMA JoinStep ==
  ASSUME IInv, NEW th \in Threads, Join(th)
  PROVE  IInv'
<1>1. PICK a \in {"join", "spin"} : On(th, "call", a)
  BY DEF Join
<1>2. /\ Top(th) \in AnyCalls /\ SoundCall(Top(th)) /\ Top(th).at = a /\ (th = Main => ~shutdown)
  BY <1>1, CallTop
<1>3. /\ Top(th).thrown \in BOOLEAN /\ Top(th).out \in Outs
      /\ Extent(Top(th))[1] = Top(th).lo /\ Extent(Top(th))[2] = Top(th).sub[2]
      /\ ~Top(th).thrown => InOrder(Top(th).out, Top(th).lo, Top(th).sub[2])
  BY <1>1, <1>2 DEF AnyCalls, SoundCall, Extent
<1>4. UNCHANGED Memory
  BY DEF Join, Memory
<1>5. Undisturbed(th) /\ held' = held
  BY <1>2, <1>4, MemorySame DEF Memory
<1>6. Shape'
  <2>1. PICK thrown \in BOOLEAN, out \in Outs : thrown = Top(th).thrown /\ out = Top(th).out
    BY <1>3
  <2>2. ~thrown => InOrder(out, Extent(Top(th))[1], Extent(Top(th))[2])
    BY <1>3, <2>1
  <2>3. Return(th, thrown, out) /\ Top(th).sub \notin held
    BY <2>1 DEF Join
  <2> QED
    BY <1>1, <1>5, <2>2, <2>3, ReturnStep
<1> QED
  BY <1>4, <1>6, MemorySame, IInvFromNext

\* A call goes on.
LEMMA CallGoesOn ==
  ASSUME IInv, NEW th \in Threads, NEW a, On(th, "call", a), NEW g \in SplitCalls,
         Extent(g) = Extent(Top(th)), g.sub = Top(th).sub, stack' = Instead(th, g), UNCHANGED Memory
  PROVE  IInv'
<1>1. /\ stack[th] # <<>> /\ Head(stack[th]) = Top(th) /\ Top(th).kind = "call" /\ Top(th) \in SplitCalls
      /\ ~Resting(Top(th)) /\ (th = Main => ~shutdown)
  BY CallTop
<1>2. g.kind = "call"
  BY KindIn
<1>3. stack' = [stack EXCEPT ![th] = Put(stack[th], g)]
  BY DEF Instead, Put
<1>4. Takes(th, Top(th), g) /\ SameSub(Top(th), g) /\ Upright(th, g)
  BY <1>1, <1>2, CallMoves DEF SameSub, Resting, Upright
<1>5. Undisturbed(th) /\ held' \subseteq held
  BY <1>1, MemorySame
<1>6. Shape'
  BY <1>1, <1>3, <1>4, <1>5, PutStep
<1> QED
  BY <1>6, MemorySame, IInvFromNext

\* get() of a finished task puts both results together; of an unfinished one the wait came back early.
LEMMA ReadStep ==
  ASSUME IInv, NEW th \in Threads, Read(th)
  PROVE  IInv'
<1>1. /\ Top(th) \in AnyCalls /\ SoundCall(Top(th)) /\ Top(th).at = "read" /\ On(th, "call", "read")
  BY CallTop DEF Read
<1>2. PICK f : f = Top(th)
  OBVIOUS
<1>3. /\ f \in AnyCalls /\ f.at = "read" /\ f.lo \in Nat /\ f.hi \in Nat /\ f.lo < f.hi /\ f.sub \in Tasks
      /\ f.sub[1] = f.hi /\ f.out \in Outs /\ InOrder(f.out, f.lo, f.hi)
  BY <1>1, <1>2 DEF AnyCalls, SoundCall
<1>4. UNCHANGED Memory
  BY DEF Read, Memory
<1>5. CASE state[f.sub] = "canceled"
  <2>1. PICK g : g = [f EXCEPT !.at = "join", !.thrown = TRUE]
    OBVIOUS
  <2>2. g \in AnyCalls /\ g.at = "join" /\ g.thrown = TRUE /\ g.lo = f.lo /\ g.hi = f.hi /\ g.sub = f.sub
    BY <1>3, <2>1 DEF AnyCalls
  <2>3. g \in SplitCalls /\ Extent(g) = Extent(f)
    BY <1>3, <2>2 DEF SplitCalls, SoundCall, Extent
  <2>4. stack' = Instead(th, g)
    BY <1>2, <1>5, <2>1 DEF Read
  <2> QED
    BY <1>1, <1>2, <1>4, <2>2, <2>3, <2>4, CallGoesOn
<1>6. CASE state[f.sub] # "canceled"
  <2>1. PICK more, o : more = result[f.sub] /\ o = f.out \o more
    OBVIOUS
  <2>2. more \in Outs /\ (more = Unwritten \/ InOrder(more, f.sub[1], f.sub[2]))
    BY <1>3, <2>1 DEF IInv, Types, ResultsInOrder
  <2>3. f.sub[2] \in Nat /\ f.hi < f.sub[2]
    BY <1>3, TaskRange
  <2>4. o \in Outs /\ InOrder(o, f.lo, f.sub[2])
    BY <1>3, <2>1, <2>2, <2>3, PutTogether
  <2>5. PICK g : g = [f EXCEPT !.at = "join", !.out = o]
    OBVIOUS
  <2>6. g \in AnyCalls /\ g.at = "join" /\ g.out = o /\ g.lo = f.lo /\ g.hi = f.hi /\ g.sub = f.sub
    BY <1>3, <2>4, <2>5 DEF AnyCalls
  <2>7. g \in SplitCalls /\ Extent(g) = Extent(f)
    BY <1>3, <2>4, <2>6 DEF SplitCalls, SoundCall, Extent
  <2>8. stack' = Instead(th, g)
    BY <1>2, <1>6, <2>1, <2>5 DEF Read, Reduce
  <2> QED
    BY <1>1, <1>2, <1>4, <2>6, <2>7, <2>8, CallGoesOn
<1> QED
  BY <1>5, <1>6

\* A call makes another one, for its first part, or waits.
LEMMA CallPushes ==
  ASSUME IInv, NEW th \in Threads, NEW a, On(th, "call", a), NEW g \in SplitCalls,
         Extent(g) = Extent(Top(th)), g.sub = Top(th).sub,
         NEW h \in AllFrames, Own(th, h), ~Base(th, h), Above(h, g), h.kind # "start", ~Resting(h),
         ~(h.kind = "loop" /\ h.at = "steal"),
         stack' = [stack EXCEPT ![th] = <<h, g>> \o Tail(@)], Undisturbed(th), held' = held
  PROVE  Shape'
<1>1. /\ stack[th] # <<>> /\ Head(stack[th]) = Top(th) /\ Top(th).kind = "call" /\ Top(th) \in SplitCalls
      /\ ~Resting(Top(th))
  BY CallTop
<1>2. g.kind = "call"
  BY KindIn
<1>3. stack' = [stack EXCEPT ![th] = PutTwo(stack[th], h, g)]
  BY DEF PutTwo
<1>4. Takes(th, Top(th), g) /\ SameSub(Top(th), g) /\ Upright(th, h)
  BY <1>1, <1>2, CallMoves DEF SameSub, Upright
<1>5. held' \subseteq Tasks
  BY IInvParts
<1> QED
  BY <1>1, <1>3, <1>4, <1>5, PushStep

\* A call makes the call for its first part.
LEMMA DescendStep ==
  ASSUME IInv, NEW th \in Threads, Descend(th)
  PROVE  IInv'
<1>1. /\ Top(th) \in AnyCalls /\ SoundCall(Top(th)) /\ Top(th).at = "left" /\ On(th, "call", "left")
      /\ (th = Main => ~shutdown)
  BY CallTop DEF Descend
<1>2. PICK f : f = Top(th)
  OBVIOUS
<1>3. /\ f \in AnyCalls /\ f.at = "left" /\ f.lo \in 0..Elements /\ f.hi \in 0..Elements /\ f.lo < f.hi
      /\ f.sub \in Tasks /\ f.sub[1] = f.hi /\ f.threads \in Nat /\ f.last \in 0..Nobody
  BY <1>1, <1>2 DEF AnyCalls, SoundCall
<1>4. PICK g, h : g = [f EXCEPT !.at = "nested"] /\ h = Call(f.lo, f.hi, f.threads, f.last)
  OBVIOUS
<1>5. g \in AnyCalls /\ g.at = "nested" /\ g.lo = f.lo /\ g.hi = f.hi /\ g.sub = f.sub
  BY <1>3, <1>4 DEF AnyCalls
<1>6. g \in SplitCalls /\ Extent(g) = Extent(f) /\ g.kind = "call"
  BY <1>3, <1>5 DEF SplitCalls, SoundCall, Extent, AnyCalls
<1>7. h \in SplitCalls /\ Extent(h) = <<f.lo, f.hi>> /\ h.kind = "call" /\ h \in AllFrames
  BY <1>3, <1>4, NewCalls, KindIn
<1>8. Own(th, h) /\ ~Base(th, h) /\ Above(h, g)
  BY <1>5, <1>6, <1>7 DEF Own, Base, Above
<1>9. UNCHANGED Memory
  BY DEF Descend, Memory
<1>10. stack' = [stack EXCEPT ![th] = <<h, g>> \o Tail(@)]
  BY <1>2, <1>4 DEF Descend
<1>11. Undisturbed(th) /\ held' = held
  BY <1>1, <1>9, MemorySame DEF Memory
<1>12. Shape'
  BY <1>1, <1>2, <1>5, <1>6, <1>7, <1>8, <1>10, <1>11, CallPushes DEF Resting
<1> QED
  BY <1>9, <1>12, MemorySame, IInvFromNext

\* What a call has to wait for, and the event a thread outside the pool sleeps on.
LEMMA WaitForStep ==
  ASSUME IInv, NEW th \in Threads, NEW a, On(th, "call", a), NEW then, <<a, then>> \in {<<"get", "read">>, <<"join", "spin">>},
         WaitFor(th, Top(th).sub, then),
         UNCHANGED <<size, handles, deque, public, shutdown, state, held, clientVars>>
  PROVE  IInv'
<1>1. /\ Top(th) \in AnyCalls /\ SoundCall(Top(th)) /\ Top(th).at = a /\ (th = Main => ~shutdown)
  BY CallTop
<1>2. PICK f : f = Top(th)
  OBVIOUS
<1>3. /\ f \in AnyCalls /\ f.at = a /\ f.lo < f.hi /\ f.sub \in Tasks /\ f.sub[1] = f.hi
      /\ a = "get" => InOrder(f.out, f.lo, f.hi) /\ ~f.thrown
      /\ a = "join" /\ ~f.thrown => InOrder(f.out, f.lo, f.sub[2])
  BY <1>1, <1>2 DEF SoundCall
<1>4. PICK g : g = [f EXCEPT !.at = then]
  OBVIOUS
<1>5. /\ g \in AnyCalls /\ g.at = then /\ g.lo = f.lo /\ g.hi = f.hi /\ g.sub = f.sub /\ g.kind = "call"
      /\ g.out = f.out /\ (g.thrown <=> f.thrown)
  BY <1>3, <1>4 DEF AnyCalls
<1>6. g \in SplitCalls /\ Extent(g) = Extent(f) /\ then \in {"read", "spin"}
  BY <1>3, <1>5 DEF SplitCalls, SoundCall, Extent
<1>7. CASE th = Main
  <2>a. PICK h : h = [kind |-> "wait", at |-> "sleep"]
    OBVIOUS
  <2>b. h \in Sleeps
    BY <2>a DEF Sleeps
  <2>1. h = [kind |-> "wait", at |-> "sleep"] /\ h \in AllFrames /\ h.kind = "wait"
    BY <2>a, <2>b, KindIn
  <2>2. stack' = [stack EXCEPT ![th] = <<h, g>> \o Tail(@)]
    BY <1>2, <1>4, <1>7, <2>1 DEF WaitFor
  <2>3. Own(th, h) /\ ~Base(th, h) /\ Above(h, g)
    BY <1>5, <1>6, <1>7, <2>1 DEF Own, Base, Above
  <2>4. Tell(th, f.sub, {}) /\ waiters' = waiters
    BY <1>2, <1>7 DEF WaitFor
  <2>5. /\ event' \in [Threads -> SUBSET {"finished", "available"}]
        /\ \A o \in Threads : o # th => event'[o] = event[o]
    BY <2>4, ListTypes DEF Tell
  <2>6. conts' \in [Tasks -> Seq(Threads)]
    <3>1. conts \in [Tasks -> Seq(Threads)] /\ conts[f.sub] \in Seq(Threads)
      BY <1>3 DEF IInv, Types
    <3>2. Append(conts[f.sub], th) \in Seq(Threads)
      BY <3>1, AppendProperties
    <3> QED
      BY <2>4, <3>1, <3>2 DEF Tell
  <2>7. Undisturbed(th) /\ held' = held
    BY <1>1, <2>4, <2>5 DEF Undisturbed
  <2>8. Shape'
    BY <1>2, <1>5, <1>6, <2>1, <2>2, <2>3, <2>7, CallPushes DEF Resting
  <2>9. Types' /\ ResultsInOrder'
    BY <2>4, <2>5, <2>6 DEF IInv, Types, clientVars, ResultsInOrder
  <2> QED
    BY <2>8, <2>9, IInvFromNext
<1>8. CASE th # Main
  <2>1. PICK h : h = Loop(f.sub) /\ h \in AllFrames /\ h.kind = "loop" /\ h.task = f.sub /\ h.at = "test"
    BY <1>3, NewLoop, KindIn DEF Marks
  <2>2. stack' = [stack EXCEPT ![th] = <<h, g>> \o Tail(@)]
    BY <1>2, <1>4, <1>8, <2>1 DEF WaitFor
  <2>3. Own(th, h) /\ ~Base(th, h) /\ Above(h, g)
    BY <1>3, <1>5, <1>6, <1>8, <2>1, PoolAssumption DEF Own, Base, Above
  <2>4. UNCHANGED Memory
    BY <1>8 DEF WaitFor, Memory
  <2>5. Undisturbed(th) /\ held' = held
    BY <1>8, <2>4, MemorySame DEF Memory
  <2>6. Shape'
    BY <1>2, <1>5, <1>6, <2>1, <2>2, <2>3, <2>5, CallPushes DEF Resting
  <2> QED
    BY <2>4, <2>6, MemorySame, IInvFromNext
<1> QED
  BY <1>7, <1>8

\* get() waits for the task if it is not finished.
LEMMA GetStep ==
  ASSUME IInv, NEW th \in Threads, Get(th)
  PROVE  IInv'
<1>1. /\ Top(th) \in AnyCalls /\ SoundCall(Top(th)) /\ Top(th).at = "get" /\ On(th, "call", "get")
  BY CallTop DEF Get
<1>2. CASE Finished(Top(th).sub)
  <2>1. PICK f : f = Top(th)
    OBVIOUS
  <2>2. PICK g : g = [f EXCEPT !.at = "read"]
    OBVIOUS
  <2>3. /\ g \in AnyCalls /\ g.at = "read" /\ g.lo = f.lo /\ g.hi = f.hi /\ g.sub = f.sub
        /\ g.out = f.out /\ (g.thrown <=> f.thrown)
    BY <1>1, <2>1, <2>2 DEF AnyCalls
  <2>4. g \in SplitCalls /\ Extent(g) = Extent(f)
    BY <1>1, <2>1, <2>3 DEF SplitCalls, SoundCall, Extent
  <2>5. stack' = Instead(th, g)
    BY <1>2, <2>1, <2>2 DEF Get, Move
  <2>6. UNCHANGED Memory
    BY <1>2 DEF Get, Memory
  <2> QED
    BY <1>1, <2>1, <2>3, <2>4, <2>5, <2>6, CallGoesOn
<1>3. CASE ~Finished(Top(th).sub)
  <2>1. /\ WaitFor(th, Top(th).sub, "read")
        /\ UNCHANGED <<size, handles, deque, public, shutdown, state, held, clientVars>>
    BY <1>3 DEF Get
  <2> QED
    BY <1>1, <2>1, WaitForStep
<1> QED
  BY <1>2, <1>3

\* The destructor of local_task waits again.
LEMMA WaitAgainStep ==
  ASSUME IInv, NEW th \in Threads, WaitAgain(th)
  PROVE  IInv'
<1>1. /\ On(th, "call", "join") /\ WaitFor(th, Top(th).sub, "spin")
      /\ UNCHANGED <<size, handles, deque, public, shutdown, state, held, clientVars>>
  BY DEF WaitAgain
<1> QED
  BY <1>1, WaitForStep

\* What a call that splits its range does.
LEMMA ForkFacts ==
  ASSUME IInv, NEW th \in Threads, Fork(th)
  PROVE  LET f == Top(th)
             t == <<Middle(f), f.hi>>
             g == FirstPart(th, f, Middle(f), NumThreads(th, f))
         IN /\ t \in Tasks /\ MakeTask(t) /\ f.sub = NoTask /\ f \in SplitCalls /\ On(th, "call", "split")
            /\ g \in SplitCalls /\ g.kind = "call" /\ g.at = "left" /\ g.sub = t /\ Extent(g) = Extent(f)
            /\ state' \in [Tasks -> {"absent", "pending", "completed", "canceled"}]
            /\ held' \subseteq {x \in Tasks : state'[x] # "absent"} /\ held' = held \cup {t}
            /\ subpart' \in [Tasks -> Nat \X (0..Nobody)]
<1>1. /\ Top(th) \in SplitCalls /\ SoundCall(Top(th)) /\ Top(th).at = "split" /\ On(th, "call", "split")
  BY CallTop DEF Fork
<1>2. PICK f : f = Top(th)
  OBVIOUS
<1>3. PICK t, n, g : t = <<Middle(f), f.hi>> /\ n = NumThreads(th, f) /\ g = FirstPart(th, f, Middle(f), n)
  OBVIOUS
<1>4. f.sub = NoTask
  BY <1>1, <1>2 DEF SoundCall
<1>5. t \in Tasks /\ n \in Nat /\ n \div 2 \in Nat /\ g \in SplitCalls /\ g.at = "left" /\ g.sub = t /\ Extent(g) = Extent(f)
  BY <1>1, <1>2, <1>3, SplitFrames DEF Fork
<1>6. MakeTask(t) /\ subpart' = [subpart EXCEPT ![t] = <<n \div 2, th>>]
  BY <1>2, <1>3 DEF Fork, ScheduleInside, ScheduleOutside
<1>7. /\ state' \in [Tasks -> {"absent", "pending", "completed", "canceled"}]
      /\ held' \subseteq {x \in Tasks : state'[x] # "absent"} /\ held' = held \cup {t}
  BY <1>5, <1>6 DEF MakeTask, IInv, Types
<1>8. subpart' \in [Tasks -> Nat \X (0..Nobody)]
  <2>1. subpart \in [Tasks -> Nat \X (0..Nobody)] /\ th \in 0..Nobody
    BY PoolNumbers, IInvParts DEF Types
  <2> QED
    BY <1>5, <1>6, <2>1
<1>9. g.kind = "call"
  BY <1>5, KindIn
<1> QED
  BY <1>1, <1>2, <1>3, <1>4, <1>5, <1>6, <1>7, <1>8, <1>9

\* spawn from inside: the task goes to the thread's own queue, and its call is on the stack.
LEMMA ForkInside ==
  ASSUME IInv, NEW w \in Workers, Fork(w)
  PROVE  IInv'
<1>1. w \in Threads /\ w # Main
  BY PoolNumbers
<1>2. PICK f, t, g : f = Top(w) /\ t = <<Middle(f), f.hi>> /\ g = FirstPart(w, f, Middle(f), NumThreads(w, f))
  OBVIOUS
<1>3. /\ t \in Tasks /\ f.sub = NoTask /\ f \in SplitCalls /\ On(w, "call", "split")
      /\ g \in SplitCalls /\ g.kind = "call" /\ g.at = "left" /\ g.sub = t /\ Extent(g) = Extent(f)
      /\ state' \in [Tasks -> {"absent", "pending", "completed", "canceled"}]
      /\ held' \subseteq {x \in Tasks : state'[x] # "absent"} /\ held' = held \cup {t}
      /\ subpart' \in [Tasks -> Nat \X (0..Nobody)]
  BY <1>1, <1>2, ForkFacts
<1>4. /\ ScheduleInside(w, t)
      /\ UNCHANGED <<size, handles, shutdown, splitter, throwing, result, calls>>
  BY <1>1, <1>2 DEF Fork
<1>5. stack[w] # <<>> /\ Head(stack[w]) = f /\ f.kind = "call" /\ ~Resting(f)
  BY <1>1, <1>2, <1>3, CallTop
<1>a. PICK h : h = [kind |-> "schedule", at |-> "check"]
  OBVIOUS
<1>b. h \in Rests
  BY <1>a DEF Rests
<1>6. h \in AllFrames /\ h.kind = "schedule"
  BY <1>b, KindIn
<1>7. stack' = [stack EXCEPT ![w] = PutTwo(stack[w], h, g)]
  BY <1>1, <1>2, <1>a DEF Fork, PutTwo
<1>8. Takes(w, f, g) /\ SameSub(f, g) /\ Upright(w, h)
  BY <1>1, <1>3, <1>6, CallMoves, PoolAssumption DEF SameSub, Upright, Resting
<1>9. Own(w, h) /\ ~Base(w, h) /\ Above(h, g)
  BY <1>1, <1>3, <1>6 DEF Own, Base, Above
<1>10. deque' \in [Workers -> Seq(Tasks)] /\ \A v \in Workers : v # w => deque'[v] = deque[v]
  <2>1. deque \in [Workers -> Seq(Tasks)] /\ deque[w] \in Seq(Tasks)
    BY IInvParts DEF Types
  <2>2. Append(deque[w], t) \in Seq(Tasks)
    BY <1>3, <2>1, AppendProperties
  <2> QED
    BY <1>4, <2>1, <2>2 DEF ScheduleInside
<1>11. Undisturbed(w)
  BY <1>1, <1>4, <1>10 DEF Undisturbed, ScheduleInside, lists
<1>12. held' \subseteq Tasks /\ \A x \in held' : x \in held \/ (g.kind = "call" /\ g.sub = x)
  BY <1>3
<1>13. Shape'
  BY <1>1, <1>5, <1>6, <1>7, <1>8, <1>9, <1>11, <1>12, PushStep
<1>14. Types' /\ ResultsInOrder'
  BY <1>3, <1>4, <1>10 DEF IInv, Types, ScheduleInside, lists, ResultsInOrder
<1> QED
  BY <1>13, <1>14, IInvFromNext

\* spawn from outside: it goes to the public queue, and a sleeper is woken if there is one.
LEMMA ForkOutside ==
  ASSUME IInv, Fork(Main)
  PROVE  IInv'
<1>1. Main \in Threads /\ Main \notin Workers /\ 0 \in Workers /\ 0 \in Threads
  BY PoolNumbers
<1>2. PICK f, t, g : f = Top(Main) /\ t = <<Middle(f), f.hi>> /\ g = FirstPart(Main, f, Middle(f), NumThreads(Main, f))
  OBVIOUS
<1>3. /\ t \in Tasks /\ f.sub = NoTask /\ f \in SplitCalls /\ On(Main, "call", "split")
      /\ g \in SplitCalls /\ g.kind = "call" /\ g.at = "left" /\ g.sub = t /\ Extent(g) = Extent(f)
      /\ state' \in [Tasks -> {"absent", "pending", "completed", "canceled"}]
      /\ held' \subseteq {x \in Tasks : state'[x] # "absent"} /\ held' = held \cup {t}
      /\ subpart' \in [Tasks -> Nat \X (0..Nobody)]
  BY <1>1, <1>2, ForkFacts
<1>4. /\ ScheduleOutside(t) /\ stack' = Instead(Main, g)
      /\ UNCHANGED <<size, handles, shutdown, splitter, throwing, result, calls>>
  BY <1>2 DEF Fork
<1>5. /\ stack[Main] # <<>> /\ Head(stack[Main]) = f /\ f.kind = "call" /\ ~Resting(f) /\ ~shutdown
      /\ WellStacked(Main, stack[Main])
  BY <1>1, <1>2, <1>3, CallTop
<1>6. PICK r : r = Put(stack[Main], g)
  OBVIOUS
<1>7. stack' = [stack EXCEPT ![Main] = r]
  BY <1>4, <1>6 DEF Instead, Put
<1>8. Takes(Main, f, g) /\ SameSub(f, g)
  BY <1>1, <1>3, CallMoves, PoolAssumption DEF SameSub
<1>9. WellStacked(Main, r) /\ r # <<>> /\ Head(r) = g /\ \A x \in Tasks : Held(x, stack[Main]) => Held(x, r)
  BY <1>5, <1>6, <1>8, Replaced
<1>10. Held(t, r)
  <2>1. r[1] = g /\ 1 \in 1..Len(r)
    BY <1>9, NotAlone
  <2> QED
    BY <1>3, <2>1 DEF Held
<1>11. Shape /\ waiters \in Seq(Workers)
  BY DEF IInv, Shape, Types
<1>12. Stacked' /\ stack'[Main] = r /\ \A o \in Threads : o # Main => stack'[o] = stack[o]
  BY <1>1, <1>7, <1>9, <1>11, StackedStep DEF Shape
<1>13. StartedOnce'
  BY <1>1, <1>3, <1>5, <1>9, <1>11, <1>12, StartedStep DEF Shape
<1>14. EmptyWhenLooking'
  BY <1>1, <1>4, <1>11, <1>12, EmptyStep DEF Shape, ScheduleOutside
<1>15. Supported'
  <2>1. held' \subseteq Tasks /\ \A x \in held' : x \notin held \/ Held(x, stack[Main]) => Held(x, r)
    BY <1>3, <1>9, <1>10
  <2> QED
    BY <1>1, <1>11, <1>12, <2>1, SupportedStep DEF Shape
<1>16. ShutLast'
  BY <1>1, <1>4, <1>5, <1>11, <1>12 DEF Shape, ShutLast
<1>17. ~Asleep(Main)' /\ ~Resting(Top(Main))
  BY <1>2, <1>3, <1>5, <1>9, <1>12 DEF Asleep, On, Top
<1>18. /\ Listed' /\ LookedInto' /\ waiters' \in Seq(Workers)
       /\ event' \in [Threads -> SUBSET {"finished", "available"}]
  <2>1. CASE waiters = <<>>
    <3>1. waiters' = waiters /\ event' = event
      BY <1>4, <2>1 DEF ScheduleOutside, WakeOne, lists
    <3>2. Listed'
      BY <1>1, <1>3, <1>5, <1>9, <1>11, <1>12, <3>1, ListedStep DEF Shape
    <3>3. ~Asleep(0)' /\ stack'[0] # <<>>
      <4>1. ~Asleep(0)
        BY <1>1, <2>1, ListTypes, EmptySeq
      <4> QED
        BY <1>1, <1>5, <1>11, <1>12, <3>1, <4>1 DEF Asleep, On, Top, Shape, ShutLast
    <3>4. LookedInto'
      BY <1>1, <3>3 DEF LookedInto
    <3> QED
      BY <1>11, <3>1, <3>2, <3>4, ListTypes
  <2>2. CASE waiters # <<>>
    <3>1. /\ Listed' /\ waiters' \in Seq(Workers) /\ event' \in [Threads -> SUBSET {"finished", "available"}]
          /\ \E l \in Workers : l # Main /\ stack'[l] # <<>> /\ ~Asleep(l)'
      BY <1>1, <1>4, <1>12, <1>17, <2>2, WakeOneList DEF ScheduleOutside
    <3> QED
      BY <3>1 DEF LookedInto
  <2> QED
    BY <2>1, <2>2
<1>19. IsQueue(public')
  <2>1. IsQueue(public)
    BY IInvParts DEF Types
  <2> QED
    BY <1>3, <1>4, <2>1, Enqueued1 DEF ScheduleOutside
<1>20. Types' /\ ResultsInOrder'
  BY <1>3, <1>4, <1>18, <1>19 DEF IInv, Types, ScheduleOutside, ResultsInOrder
<1> QED
  BY <1>12, <1>13, <1>14, <1>15, <1>16, <1>18, <1>20, IInvFromNext DEF Shape
--------------------------------------------------------------------------------
(* The thread that uses the pool.                                              *)

\* It lies alone on its stack between its calls.
LEMMA ClientTop ==
  ASSUME IInv, NEW a, On(Main, "client", a)
  PROVE  /\ Main \in Threads /\ stack[Main] # <<>> /\ Head(stack[Main]) = Top(Main) /\ Top(Main).kind = "client"
         /\ Top(Main).at = a /\ Top(Main) \in SoundClients /\ Top(Main) \in Clients /\ ~Resting(Top(Main))
         /\ WellStacked(Main, stack[Main]) /\ Rest(stack[Main]) = <<>>
<1>1. /\ Main \in Threads /\ stack[Main] # <<>> /\ Head(stack[Main]) = Top(Main) /\ Top(Main).kind = "client"
      /\ Top(Main).at = a /\ Top(Main) \in AllFrames /\ WellStacked(Main, stack[Main])
  BY PoolNumbers, IInvParts, OnTop
<1>2. Top(Main) \in SoundClients /\ Top(Main) \in Clients
  BY <1>1, KindOf DEF SoundClients
<1>3. PICK s : s = stack[Main]
  OBVIOUS
<1>4. s # <<>> /\ WellStacked(Main, s) /\ Base(Main, Head(s))
  BY <1>1, <1>3 DEF Base
<1>5. PICK r : r = Rest(s)
  OBVIOUS
<1>6. r = <<>>
  BY ONLY <1>4, <1>5, WellPopped
<1> QED
  BY <1>1, <1>2, <1>3, <1>5, <1>6 DEF Resting

\* The client calls the algorithm for the whole range.
LEMMA BeginCallStep ==
  ASSUME IInv, BeginCall
  PROVE  IInv'
<1>1. /\ Main \in Threads /\ stack[Main] # <<>> /\ Head(stack[Main]) = Top(Main) /\ Top(Main).kind = "client"
      /\ Top(Main).at = "start" /\ Top(Main) \in SoundClients /\ ~Resting(Top(Main)) /\ Rest(stack[Main]) = <<>>
  BY ClientTop DEF BeginCall
<1>2. PICK g, h : g = [Client EXCEPT !.at = "called"] /\ h = Call(0, Elements, 0, Nobody)
  OBVIOUS
<1>3. g \in Clients /\ g.kind = "client" /\ g.at = "called" /\ g \in SoundClients
  <2>1. <<>> \in Outs
    BY DEF Outs
  <2>2. g = [kind |-> "client", at |-> "called", next |-> 0, thrown |-> FALSE, out |-> <<>>]
    BY <1>2 DEF Client
  <2>3. g \in Clients /\ g.kind = "client" /\ g.at = "called"
    BY <2>1, <2>2 DEF Clients
  <2> QED
    BY <2>3 DEF SoundClients
<1>4. h \in SplitCalls /\ Extent(h) = <<0, Elements>> /\ h.kind = "call" /\ h \in AllFrames
  BY <1>2, NewCalls, KindIn, PoolNumbers, RangeAssumption
<1>5. stack' = [stack EXCEPT ![Main] = PutTwo(stack[Main], h, g)]
  <2>1. PutTwo(stack[Main], h, g) = <<h, g>> \o <<>>
    BY <1>1 DEF PutTwo, Rest
  <2>2. <<h, g>> \o <<>> = <<h, g>>
    BY ConcatEmptySeq
  <2> QED
    BY <1>2, <2>1, <2>2 DEF BeginCall
<1>6. Takes(Main, Top(Main), g) /\ SameSub(Top(Main), g) /\ Upright(Main, h)
  BY <1>1, <1>3, <1>4, ClientMoves DEF SameSub, Upright, Resting
<1>7. Own(Main, h) /\ ~Base(Main, h) /\ Above(h, g)
  BY <1>3, <1>4 DEF Own, Base, Above
<1>8. UNCHANGED Memory
  BY DEF BeginCall, Memory
<1>9. ~shutdown
  BY <1>1, IInvParts DEF ShutLast, On
<1>10. Undisturbed(Main) /\ held' = held /\ held' \subseteq Tasks
  BY <1>1, <1>8, <1>9, MemorySame, IInvParts DEF Memory
<1>11. Shape'
  BY <1>1, <1>4, <1>5, <1>6, <1>7, <1>10, PushStep
<1> QED
  BY <1>8, <1>11, MemorySame, IInvFromNext

\* The main thread is woken for its task only.
LEMMA WakeMainStep ==
  ASSUME IInv, WakeMain
  PROVE  IInv'
<1>1. /\ Main \in Threads /\ stack[Main] # <<>> /\ Head(stack[Main]) = Top(Main) /\ Top(Main).kind = "wait"
  BY PoolNumbers, IInvParts, OnTop DEF WakeMain
<1>2. ~Resting(Top(Main)) /\ ~Base(Main, Top(Main))
  BY <1>1 DEF Resting, Base
<1>3. ~shutdown
  BY <1>1, IInvParts DEF ShutLast, On
<1>4. stack' = [stack EXCEPT ![Main] = Rest(stack[Main])]
  BY DEF WakeMain, Leave, Rest
<1>5. /\ event' \in [Threads -> SUBSET {"finished", "available"}]
      /\ \A o \in Threads : o # Main => event'[o] = event[o]
  BY ListTypes DEF WakeMain
<1>6. Undisturbed(Main) /\ held' = held
  BY <1>3, <1>5 DEF Undisturbed, WakeMain
<1>7. Shape'
  BY <1>1, <1>2, <1>4, <1>6, PopStep
<1>8. Types' /\ ResultsInOrder'
  BY <1>5 DEF IInv, Types, WakeMain, clientVars, ResultsInOrder
<1> QED
  BY <1>7, <1>8, IInvFromNext

\* The client goes on, and no worker is touched.
LEMMA ClientStep ==
  ASSUME IInv, NEW a, On(Main, "client", a), NEW g \in SoundClients, stack' = Instead(Main, g),
         held' = held, deque' = deque
  PROVE  /\ Stacked' /\ StartedOnce' /\ EmptyWhenLooking' /\ Supported' /\ Top(Main)' = g /\ stack'[Main] # <<>>
         /\ \A o \in Threads : o # Main => stack'[o] = stack[o]
<1>1. /\ Main \in Threads /\ stack[Main] # <<>> /\ Head(stack[Main]) = Top(Main) /\ Top(Main).kind = "client"
      /\ Top(Main) \in SoundClients /\ WellStacked(Main, stack[Main])
  BY ClientTop
<1>2. PICK r : r = Put(stack[Main], g)
  OBVIOUS
<1>3. stack' = [stack EXCEPT ![Main] = r]
  BY <1>2 DEF Instead, Put
<1>4. Takes(Main, Top(Main), g) /\ SameSub(Top(Main), g) /\ g.kind = "client"
  BY <1>1, ClientMoves, KindIn DEF SameSub
<1>5. WellStacked(Main, r) /\ r # <<>> /\ Head(r) = g /\ \A t \in Tasks : Held(t, stack[Main]) => Held(t, r)
  BY <1>1, <1>2, <1>4, Replaced
<1>6. Shape /\ Main \notin Workers
  BY PoolNumbers DEF IInv, Shape
<1>7. Stacked' /\ stack'[Main] = r /\ \A o \in Threads : o # Main => stack'[o] = stack[o]
  BY <1>1, <1>3, <1>5, <1>6, StackedStep DEF Shape
<1>8. StartedOnce'
  BY <1>1, <1>4, <1>5, <1>6, <1>7, StartedStep DEF Shape
<1>9. EmptyWhenLooking'
  BY <1>1, <1>6, <1>7, EmptyStep DEF Shape
<1>10. Supported'
  <2>1. held' \subseteq Tasks /\ \A t \in held' : t \notin held \/ Held(t, stack[Main]) => Held(t, r)
    BY <1>5, IInvParts
  <2> QED
    BY <1>1, <1>6, <1>7, <2>1, SupportedStep DEF Shape
<1> QED
  BY <1>5, <1>7, <1>8, <1>9, <1>10 DEF Top

\* The client destroys the pool when its call has returned: everybody who sleeps is woken.
LEMMA ShutdownStep ==
  ASSUME IInv, Shutdown, UNCHANGED clientVars
  PROVE  IInv'
<1>1. Top(Main) \in SoundClients /\ Top(Main) \in Clients /\ On(Main, "client", "returned")
  BY ClientTop DEF Shutdown
<1>2. PICK g : g = [Top(Main) EXCEPT !.at = "joining"]
  OBVIOUS
<1>3. g \in SoundClients /\ g.kind = "client" /\ g.at = "joining"
  BY <1>1, <1>2 DEF SoundClients, Clients
<1>4. /\ Stacked' /\ StartedOnce' /\ EmptyWhenLooking' /\ Supported' /\ Top(Main)' = g /\ stack'[Main] # <<>>
      /\ \A o \in Threads : o # Main => stack'[o] = stack[o]
  BY <1>1, <1>2, <1>3, ClientStep DEF Shutdown, Move
<1>5. ShutLast'
  BY <1>3, <1>4 DEF ShutLast, On, Shutdown
<1>6. /\ event' = [th \in Threads |-> IF \E i \in DOMAIN waiters : waiters[i] = th
                                      THEN event[th] \cup {"available"} ELSE event[th]]
      /\ waiters' = <<>>
  BY DEF Shutdown, WakeAll
<1>7. event' \in [Threads -> SUBSET {"finished", "available"}]
  BY <1>6, ListTypes
<1>8. \A o \in Workers : ~Asleep(o)' /\ stack'[o] = stack[o]
  <2> SUFFICES ASSUME NEW o \in Workers PROVE ~Asleep(o)' /\ stack'[o] = stack[o]
    OBVIOUS
  <2>1. o \in Threads /\ stack'[o] = stack[o]
    BY <1>4, PoolNumbers
  <2>2. ASSUME Asleep(o)' PROVE FALSE
    <3>1. On(o, "loop", "sleep") /\ event'[o] = {}
      BY <2>1, <2>2 DEF Asleep, On, Top
    <3>2. event[o] = {}
      BY <1>6, <2>1, <3>1
    <3>3. PICK i \in 1..Len(waiters) : waiters[i] = o
      BY <3>1, <3>2, ListTypes DEF Asleep
    <3>4. i \in DOMAIN waiters
      BY ListTypes
    <3> QED
      BY <1>6, <2>1, <3>1, <3>3, <3>4
  <2> QED
    BY <2>1, <2>2
<1>9. Listed' /\ waiters' \in Seq(Workers)
  <2>1. Len(waiters') = 0 /\ waiters' \in Seq(Workers) /\ DOMAIN waiters' = {}
    BY <1>6
  <2>2. IsInjective(waiters')
    BY <2>1 DEF IsInjective
  <2>3. \A i \in 1..Len(waiters') : FALSE
    BY <2>1
  <2> QED
    BY <1>8, <2>1, <2>2, <2>3 DEF Listed
<1>10. LookedInto'
  BY <1>8 DEF IInv, LookedInto, Shutdown
<1>11. Types' /\ ResultsInOrder'
  BY <1>7, <1>9 DEF IInv, Types, Shutdown, clientVars, ResultsInOrder
<1> QED
  BY <1>4, <1>5, <1>9, <1>10, <1>11, IInvFromNext DEF Shape

\* The client joins the threads one by one.
LEMMA JoinThreadStep ==
  ASSUME IInv, JoinThread, UNCHANGED clientVars
  PROVE  IInv'
<1>1. /\ Top(Main) \in SoundClients /\ Top(Main) \in Clients /\ On(Main, "client", "joining")
  BY ClientTop DEF JoinThread
<1>2. PICK g : /\ stack' = Instead(Main, g)
               /\ \/ g = [Top(Main) EXCEPT !.at = "terminated"]
                  \/ g = [Top(Main) EXCEPT !.at = "over"]
                  \/ g = [Top(Main) EXCEPT !.next = Top(Main).next + 1]
  BY DEF JoinThread
<1>3. g \in SoundClients /\ g.kind = "client" /\ g.at \in {"joining", "over", "terminated"}
  BY <1>1, <1>2 DEF SoundClients, Clients, On
<1>4. UNCHANGED Memory
  BY DEF JoinThread, Memory
<1>5. /\ Stacked' /\ StartedOnce' /\ EmptyWhenLooking' /\ Supported' /\ Top(Main)' = g /\ stack'[Main] # <<>>
      /\ \A o \in Threads : o # Main => stack'[o] = stack[o]
  BY <1>1, <1>2, <1>3, <1>4, ClientStep DEF Memory
<1>6. \A o \in Workers : /\ stack'[o] = stack[o] /\ (Asleep(o)' <=> Asleep(o))
                         /\ \A a : On(o, "loop", a)' <=> On(o, "loop", a)
  BY <1>4, <1>5, PoolNumbers DEF Asleep, On, Top, Memory, lists
<1>7. ShutLast'
  BY <1>3, <1>4, <1>5, <1>6, PoolNumbers DEF IInv, ShutLast, On, Memory
<1>8. Listed'
  <2>1. waiters' = waiters
    BY <1>4 DEF Memory, lists
  <2>2. ASSUME NEW i \in 1..Len(waiters)
        PROVE  On(waiters[i], "loop", "sleep")' \/ On(waiters[i], "loop", "relock")'
    <3>1. PICK o \in Workers : o = waiters[i] /\ (On(o, "loop", "sleep") \/ On(o, "loop", "relock"))
      BY ListTypes
    <3>2. (On(o, "loop", "sleep") \/ On(o, "loop", "relock"))' /\ o = waiters'[i]
      BY <1>6, <2>1, <3>1
    <3> QED
      BY <3>2
  <2> QED
    BY <1>6, <2>1, <2>2, ListTypes DEF Listed
<1>9. LookedInto'
  BY <1>4, <1>6 DEF IInv, LookedInto, Memory
<1> QED
  BY <1>4, <1>5, <1>7, <1>8, <1>9, MemorySame, IInvFromNext DEF Shape
--------------------------------------------------------------------------------
(* The invariant.                                                              *)

\* One thread has to start all, and the client has not begun.
LEMMA Initially == Init => IInv
<1> SUFFICES ASSUME Init PROVE IInv
  OBVIOUS
<1>1. /\ size \in Sizes /\ size \in Nat /\ size >= 1 /\ 0..size - 1 \subseteq Workers
      /\ 0 \in Workers /\ 0 \in Threads /\ Main \in Threads /\ Main # 0 /\ Main \notin Workers
  BY PoolNumbers DEF Init, InitPool
<1>2. PICK s, c : s = Start(size) /\ c = Client
  OBVIOUS
<1>3. s \in Starts /\ s.kind = "start" /\ s.at = "spawn" /\ s.threads = size /\ s \in AllFrames
  BY <1>1, <1>2, PoolNumbers, KindIn DEF Starts, Start
<1>4. <<>> \in Outs /\ Unwritten \in Outs
  BY RangeAssumption DEF Outs, Unwritten
<1>5. c \in SoundClients /\ c.kind = "client" /\ c.at = "start" /\ c \in AllFrames
  <2>1. c \in Clients /\ c.kind = "client" /\ c.at = "start"
    BY <1>2, <1>4 DEF Client, Clients
  <2> QED
    BY <2>1, KindIn DEF SoundClients
<1>6. stack = [th \in Threads |-> IF th = 0 THEN <<s>> ELSE IF th = Main THEN <<c>> ELSE <<>>]
  BY <1>2 DEF Init
<1>7. /\ stack[0] = <<s>> /\ stack[Main] = <<c>>
      /\ \A th \in Threads : th # 0 /\ th # Main => stack[th] = <<>>
  BY <1>1, <1>6
<1>8. Stacked
  <2>1. WellStacked(0, <<s>>) /\ <<s>> \in Seq(AllFrames)
    BY <1>1, <1>3, NewStack DEF Own, Base
  <2>2. WellStacked(Main, <<c>>)
    <3>1. PICK r : r = <<c>>
      OBVIOUS
    <3>2. r \in Seq(AllFrames) /\ Len(r) = 1 /\ r[1] = c
      BY <1>5, <3>1
    <3>3. \A i \in 1..Len(r) : i = 1
      BY <3>2
    <3>4. \A i \in 1..Len(r) - 1 : FALSE
      BY <3>2
    <3>5. Own(Main, c) /\ Base(Main, c)
      BY <1>5 DEF Own, Base
    <3> QED
      BY <3>1, <3>2, <3>3, <3>4, <3>5 DEF WellStacked
  <2>3. \A th : WellStacked(th, <<>>)
    BY EmptySeq DEF WellStacked
  <2>4. <<c>> \in Seq(AllFrames)
    BY <1>5
  <2>5. stack \in [Threads -> Seq(AllFrames)]
    BY <1>6, <2>1, <2>4
  <2>6. \A th \in Threads : WellStacked(th, stack[th])
    BY <1>7, <2>1, <2>2, <2>3
  <2> QED
    BY <1>7, <2>5, <2>6 DEF Stacked
<1>9. Top(0) = s /\ Top(Main) = c /\ stack[0] # <<>> /\ stack[Main] # <<>>
  BY <1>7 DEF Top
<1>10. \A w \in Workers : w # 0 => stack[w] = <<>>
  BY <1>1, <1>7, PoolNumbers
<1>11. StartedOnce
  <2>1. Share(0) = 0..size - 1 /\ Top(0).at = "spawn"
    BY <1>1, <1>3, <1>9 DEF Share
  <2>2. \A w \in Workers : Starting(w) => w = 0
    BY <1>10 DEF Starting
  <2> QED
    BY <1>1, <1>10, <2>1, <2>2 DEF StartedOnce
<1>12. \A w \in Workers : \A a : ~On(w, "loop", a)
  BY <1>3, <1>9, <1>10 DEF On
<1>13. waiters = <<>> /\ ~shutdown /\ held = {} /\ public = NewQueue(FirstSize, NoTask)
  BY DEF Init, InitPool
<1>14. Listed
  <2>1. Len(waiters) = 0 /\ DOMAIN waiters = {}
    BY <1>13
  <2>2. IsInjective(waiters)
    BY <2>1 DEF IsInjective
  <2>3. \A i \in 1..Len(waiters) : FALSE
    BY <2>1
  <2> QED
    BY <1>12, <2>2, <2>3 DEF Listed, Asleep
<1>15. EmptyWhenLooking /\ ShutLast /\ Supported
  BY <1>9, <1>12, <1>13 DEF EmptyWhenLooking, ShutLast, Supported
<1>16. LookedInto
  BY <1>1, <1>9, <1>12 DEF LookedInto, Asleep
<1>17. ResultsInOrder
  BY DEF ResultsInOrder, Init
<1>18. Types
  <2>1. IsQueue(public)
    BY <1>13, NewQueueIsQueue
  <2>2. /\ deque \in [Workers -> Seq(Tasks)] /\ waiters \in Seq(Workers) /\ conts \in [Tasks -> Seq(Threads)]
        /\ event \in [Threads -> SUBSET {"finished", "available"}]
    BY DEF Init, InitPool
  <2>3. /\ state \in [Tasks -> {"absent", "pending", "completed", "canceled"}]
        /\ held \subseteq {t \in Tasks : state[t] # "absent"} /\ handles \subseteq Workers /\ shutdown \in BOOLEAN
    BY <1>1 DEF Init, InitPool
  <2>4. subpart \in [Tasks -> Nat \X (0..Nobody)] /\ result \in [Tasks -> Outs]
    BY <1>4, PoolNumbers DEF Init
  <2> QED
    BY <1>1, <2>1, <2>2, <2>3, <2>4 DEF Types
<1> QED
  BY <1>8, <1>11, <1>14, <1>15, <1>16, <1>17, <1>18 DEF IInv

\* All steps of a thread in the pool, ...
LEMMA PoolStepKeeps ==
  ASSUME IInv, NEW w \in Workers, PoolStep(w)
  PROVE  IInv'
<1>1. UNCHANGED clientVars /\ ~On(w, "task", "store") /\ WorkerStep(w)
  BY DEF PoolStep
<1>2. ~StoreState(w)
  BY <1>1 DEF StoreState
<1>3. CASE StartThread(w) \/ AssignHandle(w) \/ EnterLoop(w)
  BY <1>1, <1>3, StartThreadStep, AssignHandleStep, EnterLoopStep
<1>4. CASE Test(w) \/ PopOwn(w) \/ Steal(w) \/ TakePublic(w) \/ ExitLoop(w)
  BY <1>1, <1>4, TestStep, PopOwnStep, StealStep, TakePublicStep, ExitLoopStep
<1>5. CASE Sleep(w) \/ Wake(w) \/ Relock(w)
  BY <1>1, <1>5, SleepStep, WakeStep, RelockStep
<1>6. CASE CheckWaiters(w) \/ WakeForTask(w) \/ TellWaiter(w) \/ ReleaseTask(w)
  BY <1>1, <1>6, CheckWaitersStep, WakeForTaskStep, TellWaiterStep, ReleaseTaskStep
<1> QED
  BY <1>1, <1>2, <1>3, <1>4, <1>5, <1>6 DEF WorkerStep

\* ... all steps of a call, ...
LEMMA CallStepKeeps ==
  ASSUME IInv, NEW th \in Threads, CallStep(th)
  PROVE  IInv'
<1>1. ASSUME Fork(th) PROVE IInv'
  <2>1. th = Main \/ th \in Workers
    BY DEF Threads
  <2> QED
    BY <1>1, <2>1, ForkInside, ForkOutside
<1> QED
  BY <1>1, RunInlineStep, DescendStep, GetStep, ReadStep, WaitAgainStep, JoinStep DEF CallStep

\* ... and all steps.
LEMMA NextKeeps ==
  ASSUME IInv, [Next]_vars
  PROVE  IInv'
<1>1. CASE UNCHANGED vars
  <2>1. Types' /\ ResultsInOrder'
    BY <1>1 DEF vars, poolVars, lists, clientVars, IInv, Types, ResultsInOrder
  <2>2. UNCHANGED <<stack, event, handles, waiters, deque, public, shutdown, held>>
    BY <1>1 DEF vars, poolVars, lists, clientVars
  <2>3. Stacked' /\ StartedOnce'
    BY <2>2 DEF IInv, Stacked, StartedOnce, Starting, Share, Top
  <2>4. Listed' /\ EmptyWhenLooking'
    BY <2>2 DEF IInv, Listed, EmptyWhenLooking, Asleep, On, Top
  <2>5. ShutLast' /\ LookedInto' /\ Supported'
    BY <2>2 DEF IInv, ShutLast, LookedInto, Supported, Asleep, On, Top
  <2> QED
    BY <2>1, <2>3, <2>4, <2>5 DEF IInv
<1>2. ASSUME NEW w \in Workers, Worker(w) PROVE IInv'
  <2>1. w \in Threads
    BY PoolNumbers
  <2> QED
    BY <1>2, <2>1, PoolStepKeeps, StoreResultStep, EnterTaskStep, CallStepKeeps DEF Worker
<1>3. CASE MainThread
  <2>1. Main \in Threads
    BY PoolNumbers
  <2> QED
    BY <1>3, <2>1, BeginCallStep, CallStepKeeps, WakeMainStep, ShutdownStep, JoinThreadStep DEF MainThread
<1> QED
  BY <1>1, <1>2, <1>3 DEF Next

\* The inductive invariant always holds.
LEMMA Invariance == Spec => []IInv
<1>1. Init => IInv
  BY Initially
<1>2. IInv /\ [Next]_vars => IInv'
  BY NextKeeps
<1> QED
  BY <1>1, <1>2, PTL DEF Spec

\* Types, and the list of sleeping threads: a thread is on it once, asleep or just woken, so
\* that its array needs one place for each thread, also when a thread that waits for a task
\* takes itself off by the exchange with the last (threadpool_scheduler.cpp:246-261).
THEOREM Typed == Spec => []TypeOK
<1>1. IInv => TypeOK
  <2> SUFFICES ASSUME IInv PROVE TypeOK
    OBVIOUS
  <2>1. IsInjective(waiters) /\ DOMAIN waiters = 1..Len(waiters)
    BY ListTypes
  <2>2. Types
    BY DEF IInv
  <2> QED
    BY <2>1, <2>2, ListTypes DEF TypeOK, Types, IsQueue
<1> QED
  BY <1>1, Invariance, PTL

\* No wakeup is lost: no thread sleeps beside a task in its own queue, and not all of them beside
\* one in the public queue, though schedule reads num_waiters outside the lock when it pushes
\* on the thread's own queue (threadpool_scheduler.cpp:406).
THEOREM LookedIntoAlways == Spec => []QueuesAreLookedInto
<1>1. IInv => QueuesAreLookedInto
  BY DEF IInv, LookedInto, EmptyWhenLooking, QueuesAreLookedInto, Asleep
<1> QED
  BY <1>1, Invariance, PTL

\* A local_task outlives what the pool has of it: the call that made it is still on the stack of
\* its thread, also when a part throws and when wait() came back for another event, since the
\* destructor waits once more (local_task in task.h, task_wait_event.h:53).
THEOREM StayInTheirCall == Spec => []TasksStayInTheirCall
<1>1. IInv => TasksStayInTheirCall
  <2> SUFFICES ASSUME IInv, NEW t \in held PROVE \E f \in Calls : f.sub = t
    BY DEF TasksStayInTheirCall
  <2>1. PICK th \in Threads : Held(t, stack[th])
    BY DEF IInv, Supported
  <2>2. PICK i \in 1..Len(stack[th]) : stack[th][i].kind = "call" /\ stack[th][i].sub = t
    BY <2>1 DEF Held
  <2>3. stack[th] \in Seq(AllFrames)
    BY IInvParts
  <2>4. i \in DOMAIN stack[th]
    BY <2>3
  <2>5. stack[th][i] \in Frames(th)
    BY <2>4 DEF Frames
  <2>6. stack[th][i] \in Calls
    BY <2>2, <2>5 DEF Calls
  <2> QED
    BY <2>2, <2>6
<1> QED
  BY <1>1, Invariance, PTL

\* parallel_map_reduce puts together what the parts return in the order of the range and each
\* once, whoever has stolen which part (parallel_reduce.h); what get() reads of a part before
\* it is there leaves a gap, and without one the result is the whole range.
THEOREM InOrderAlways == Spec => []ReducedInOrderButForGaps
<1>1. IInv => ReducedInOrderButForGaps
  <2> SUFFICES ASSUME IInv PROVE ReducedInOrderButForGaps
    OBVIOUS
  <2>1. ResultsInOrder
    BY DEF IInv
  <2>2. ASSUME On(Main, "client", "returned"), ~Top(Main).thrown PROVE InOrder(Top(Main).out, 0, Elements)
    BY <2>2, ClientTop DEF SoundClients
  <2> QED
    BY <2>1, <2>2 DEF ResultsInOrder, ReducedInOrderButForGaps
<1> QED
  BY <1>1, Invariance, PTL
--------------------------------------------------------------------------------
(* Who still has to work on which elements.                                    *)

\* The elements of a task.
Span(t) == t[1]..t[2] - 1

\* What the public queue holds, and that it holds nothing twice.
Inside(q)     == {q.items[i] : i \in {j \in 0..Room(q) - 1 : InUse(q, j)}}
OnceInside(q) == \A i, j \in 0..Room(q) - 1 :
                   InUse(q, i) /\ InUse(q, j) /\ q.items[i] = q.items[j] => i = j

\* The elements that the activations of a stack have begun with, which only the one on top has,
\* or the one it schedules for; and the tasks of a queue, the public one for the main thread.
DoingOf(s) == IF s = <<>> THEN {} ELSE IF Head(s).kind = "schedule" THEN Begun(s[2]) ELSE Begun(Head(s))
Doing  == [th \in Threads |-> DoingOf(stack[th])]
Queues == [th \in Threads |-> IF th = Main THEN Inside(public) ELSE ToSet(deque[th])]

\* Each element is with one thread, or in one task, at most.
Apart(D, Q) ==
  /\ \A x, y \in Threads : x # y => D[x] \cap D[y] = {}
  /\ \A x, y \in Threads : \A t \in Q[y] : D[x] \cap Span(t) = {}
  /\ \A x, y \in Threads : \A t \in Q[x], u \in Q[y] : (x = y /\ t = u) \/ Span(t) \cap Span(u) = {}

\* The elements that are still in somebody's work, ...
Remaining(D, Q) == UNION {D[x] \cup UNION {Span(t) : t \in Q[x]} : x \in Threads}
Busy == Remaining(Doing, Queues)

\* The elements that an activation takes for done: of a call those of its first part when that has
\* returned, those of the second when the pool has let go of its task.
Over(f, h) ==
  IF f.kind = "call"
  THEN (IF f.at \in {"get", "read", "join", "spin"} THEN f.lo..f.hi - 1 ELSE {})
       \cup (IF f.at # "split" /\ f.sub \notin h THEN Span(f.sub) ELSE {})
  ELSE IF f.kind = "task" /\ f.at \in {"store", "flush"} THEN Span(f.task)
  ELSE IF f.kind = "client" /\ f.at \in {"returned", "joining", "over", "terminated"} THEN 0..Elements - 1
  ELSE {}

\* What an activation takes for done nobody works on any more, ...
Settled == \A th \in Threads : \A i \in 1..Len(stack[th]) : Over(stack[th][i], held) \cap Busy = {}

\* ... no task is queued twice, ...
QueuedOnce == OnceInside(public) /\ \A w \in Workers : IsInjective(deque[w])

\* ... and the counts are counts of elements.
Counted == calls \in [0..Elements - 1 -> Nat] /\ throwing \subseteq 0..Elements - 1

\* The second inductive invariant, beside IInv: each element is in one piece of work at most.
Parted == Apart(Doing, Queues) /\ Settled /\ QueuedOnce /\ Counted

--------------------------------------------------------------------------------
\* x takes t out of y's queue and works on it; x puts a part of its work into y's queue as t; x is
\* through with its work.
Taken(D, Q, D2, Q2, x, y, t) ==
  /\ D[x] = {} /\ t \in Q[y] /\ D2[x] = Span(t) /\ Q2[y] = Q[y] \ {t}
  /\ \A z \in Threads : z # x => D2[z] = D[z]
  /\ \A z \in Threads : z # y => Q2[z] = Q[z]
Shared(D, Q, D2, Q2, x, y, t) ==
  /\ D[x] = D2[x] \cup Span(t) /\ D2[x] \cap Span(t) = {} /\ Span(t) # {} /\ Q2[y] = Q[y] \cup {t}
  /\ \A z \in Threads : z # x => D2[z] = D[z]
  /\ \A z \in Threads : z # y => Q2[z] = Q[z]
Finishes(D, Q, D2, x) ==
  D2[x] = {} /\ \A z \in Threads : z # x => D2[z] = D[z]

\* Work that is taken out of a queue, split and put into a queue, or done, stays apart; only the
\* last makes it less.
LEMMA TakeWork ==
  ASSUME NEW D, NEW Q, NEW D2, NEW Q2, NEW x \in Threads, NEW y \in Threads, NEW t,
         Apart(D, Q), Taken(D, Q, D2, Q2, x, y, t)
  PROVE  Apart(D2, Q2) /\ Remaining(D2, Q2) = Remaining(D, Q)
<1>0. /\ D[x] = {} /\ t \in Q[y] /\ D2[x] = Span(t) /\ Q2[y] = Q[y] \ {t}
      /\ \A z \in Threads : z # x => D2[z] = D[z]
      /\ \A z \in Threads : z # y => Q2[z] = Q[z]
  BY DEF Taken
<1>1. /\ \A a, b \in Threads : a # b => D[a] \cap D[b] = {}
      /\ \A a, b \in Threads : \A u \in Q[b] : D[a] \cap Span(u) = {}
      /\ \A a, b \in Threads : \A u \in Q[a], v \in Q[b] : (a = b /\ u = v) \/ Span(u) \cap Span(v) = {}
  BY DEF Apart
<1>2. \A a \in Threads : Q2[a] \subseteq Q[a] /\ \A u \in Q[a] : u \in Q2[a] \/ (a = y /\ u = t)
  BY <1>0
<1>3. \A a, b \in Threads : a # b => D2[a] \cap D2[b] = {}
  BY <1>0, <1>1
<1>4. ASSUME NEW a \in Threads, NEW b \in Threads, NEW u \in Q2[b] PROVE D2[a] \cap Span(u) = {}
  <2>1. CASE a # x
    BY <1>0, <1>1, <1>2, <2>1
  <2>2. CASE a = x
    <3>1. ~(b = y /\ u = t) /\ u \in Q[b]
      BY <1>0, <1>2
    <3> QED
      BY <1>0, <1>1, <2>2, <3>1
  <2> QED
    BY <1>0, <2>1, <2>2
<1>5. \A a, b \in Threads : \A u \in Q2[a], v \in Q2[b] : (a = b /\ u = v) \/ Span(u) \cap Span(v) = {}
  BY <1>0, <1>1, <1>2
<1>6. Apart(D2, Q2)
  BY <1>0, <1>3, <1>4, <1>5 DEF Apart
<1>7. ASSUME NEW e \in Remaining(D, Q) PROVE e \in Remaining(D2, Q2)
  <2>1. PICK a \in Threads : e \in D[a] \/ \E u \in Q[a] : e \in Span(u)
    BY <1>0, <1>7 DEF Remaining
  <2>2. CASE e \in D[a]
    <3>1. e \in D2[a]
      BY <1>0, <2>2
    <3> QED
      BY <3>1 DEF Remaining
  <2>3. CASE \E u \in Q[a] : e \in Span(u)
    <3>1. e \in D2[x] \/ \E u \in Q2[a] : e \in Span(u)
      BY <1>0, <1>2, <2>3
    <3> QED
      BY <3>1 DEF Remaining
  <2> QED
    BY <1>0, <2>1, <2>2, <2>3
<1>8. ASSUME NEW e \in Remaining(D2, Q2) PROVE e \in Remaining(D, Q)
  <2>1. PICK a \in Threads : e \in D2[a] \/ \E u \in Q2[a] : e \in Span(u)
    BY <1>0, <1>8 DEF Remaining
  <2>2. e \in D[a] \/ (\E u \in Q[a] : e \in Span(u)) \/ (\E u \in Q[y] : e \in Span(u))
    BY <1>0, <1>2, <2>1
  <2> QED
    BY <1>0, <2>2 DEF Remaining
<1> QED
  BY <1>0, <1>6, <1>7, <1>8

\* A part of a thread's work becomes a task in a queue.
LEMMA SplitWork ==
  ASSUME NEW D, NEW Q, NEW D2, NEW Q2, NEW x \in Threads, NEW y \in Threads, NEW t,
         Apart(D, Q), Shared(D, Q, D2, Q2, x, y, t)
  PROVE  Apart(D2, Q2) /\ Remaining(D2, Q2) = Remaining(D, Q)
<1>0. /\ D[x] = D2[x] \cup Span(t) /\ D2[x] \cap Span(t) = {} /\ Span(t) # {} /\ Q2[y] = Q[y] \cup {t}
      /\ \A z \in Threads : z # x => D2[z] = D[z]
      /\ \A z \in Threads : z # y => Q2[z] = Q[z]
  BY DEF Shared
<1>1. /\ \A a, b \in Threads : a # b => D[a] \cap D[b] = {}
      /\ \A a, b \in Threads : \A u \in Q[b] : D[a] \cap Span(u) = {}
      /\ \A a, b \in Threads : \A u \in Q[a], v \in Q[b] : (a = b /\ u = v) \/ Span(u) \cap Span(v) = {}
  BY DEF Apart
<1>2. \A a \in Threads : Q[a] \subseteq Q2[a] /\ \A u \in Q2[a] : u \in Q[a] \/ (a = y /\ u = t)
  BY <1>0
<1>3. Span(t) \subseteq D[x] /\ \A a \in Threads : D2[a] \subseteq D[a]
  BY <1>0
<1>4. \A a \in Threads : D2[a] \cap Span(t) = {}
  BY <1>0, <1>1, <1>3
<1>5. \A a \in Threads : \A u \in Q[a] : Span(u) \cap Span(t) = {}
  BY <1>0, <1>1, <1>3
<1>6. \A a, b \in Threads : a # b => D2[a] \cap D2[b] = {}
  BY <1>0, <1>1, <1>3
<1>7. ASSUME NEW a \in Threads, NEW b \in Threads, NEW u \in Q2[b] PROVE D2[a] \cap Span(u) = {}
  <2>1. u \in Q[b] \/ u = t
    BY <1>0, <1>2
  <2> QED
    BY <1>0, <1>1, <1>3, <1>4, <2>1
<1>8. ASSUME NEW a \in Threads, NEW b \in Threads, NEW u \in Q2[a], NEW v \in Q2[b]
      PROVE  (a = b /\ u = v) \/ Span(u) \cap Span(v) = {}
  <2>1. (u \in Q[a] \/ (a = y /\ u = t)) /\ (v \in Q[b] \/ (b = y /\ v = t))
    BY <1>0, <1>2
  <2> QED
    BY <1>0, <1>1, <1>5, <2>1
<1>9. Apart(D2, Q2)
  BY <1>0, <1>6, <1>7, <1>8 DEF Apart
<1>10. ASSUME NEW e \in Remaining(D, Q) PROVE e \in Remaining(D2, Q2)
  <2>1. PICK a \in Threads : e \in D[a] \/ \E u \in Q[a] : e \in Span(u)
    BY <1>0, <1>10 DEF Remaining
  <2>2. e \in D2[a] \/ (\E u \in Q2[a] : e \in Span(u)) \/ (t \in Q2[y] /\ e \in Span(t))
    BY <1>0, <1>2, <2>1
  <2> QED
    BY <1>0, <2>2 DEF Remaining
<1>11. ASSUME NEW e \in Remaining(D2, Q2) PROVE e \in Remaining(D, Q)
  <2>1. PICK a \in Threads : e \in D2[a] \/ \E u \in Q2[a] : e \in Span(u)
    BY <1>0, <1>11 DEF Remaining
  <2>2. e \in D[a] \/ (\E u \in Q[a] : e \in Span(u)) \/ e \in D[x]
    BY <1>0, <1>2, <1>3, <2>1
  <2> QED
    BY <1>0, <2>2 DEF Remaining
<1> QED
  BY <1>9, <1>10, <1>11

\* A thread is through with what it had.
LEMMA EndWork ==
  ASSUME NEW D, NEW Q, NEW D2, NEW x \in Threads, Apart(D, Q), Finishes(D, Q, D2, x)
  PROVE  /\ Apart(D2, Q) /\ Remaining(D2, Q) = Remaining(D, Q) \ D[x] /\ D[x] \subseteq Remaining(D, Q)
<1>0. D2[x] = {} /\ \A z \in Threads : z # x => D2[z] = D[z]
  BY DEF Finishes
<1>1. /\ \A a, b \in Threads : a # b => D[a] \cap D[b] = {}
      /\ \A a, b \in Threads : \A u \in Q[b] : D[a] \cap Span(u) = {}
      /\ \A a, b \in Threads : \A u \in Q[a], v \in Q[b] : (a = b /\ u = v) \/ Span(u) \cap Span(v) = {}
  BY DEF Apart
<1>2. \A a \in Threads : D2[a] \subseteq D[a]
  BY <1>0
<1>3. Apart(D2, Q)
  BY <1>0, <1>1, <1>2 DEF Apart
<1>4. D[x] \subseteq Remaining(D, Q)
  BY DEF Remaining
<1>5. ASSUME NEW e \in Remaining(D2, Q) PROVE e \in Remaining(D, Q) /\ e \notin D[x]
  <2>1. PICK a \in Threads : e \in D2[a] \/ \E u \in Q[a] : e \in Span(u)
    BY <1>0, <1>5 DEF Remaining
  <2>2. e \in D[a] \/ \E u \in Q[a] : e \in Span(u)
    BY <1>0, <1>2, <2>1
  <2>3. e \in Remaining(D, Q)
    BY <1>0, <2>2 DEF Remaining
  <2>4. e \in D2[a] => a # x /\ e \in D[a]
    BY <1>0
  <2> QED
    BY <1>0, <1>1, <2>1, <2>3, <2>4
<1>6. ASSUME NEW e \in Remaining(D, Q), e \notin D[x] PROVE e \in Remaining(D2, Q)
  <2>1. PICK a \in Threads : e \in D[a] \/ \E u \in Q[a] : e \in Span(u)
    BY <1>0, <1>6 DEF Remaining
  <2>2. e \in D2[a] \/ \E u \in Q[a] : e \in Span(u)
    BY <1>0, <1>6, <2>1
  <2> QED
    BY <1>0, <2>2 DEF Remaining
<1> QED
  BY <1>0, <1>3, <1>4, <1>5, <1>6

\* A set of natural numbers has a least one, from the well-foundedness of <.
LEMMA Least ==
  ASSUME NEW T, T \subseteq Nat, T # {}
  PROVE  \E x \in T : \A y \in T : x <= y
<1> DEFINE R == OpToRel(<, Nat)
<1>1. IsWellFoundedOn(R, Nat)
  BY NatLessThanWellFounded
<1>2. \A x, y \in Nat : x < y => <<x, y>> \in R
  BY DEF OpToRel
<1> HIDE DEF R
<1>3. PICK x \in T : \A y \in T : ~(<<y, x>> \in R)
  BY <1>1, WFMin
<1>4. \A y \in T : ~(y < x)
  BY <1>2, <1>3, Zenon
<1> QED
  BY <1>4, SMT
--------------------------------------------------------------------------------
(* What a queue holds as tasks come and go.                                    *)

\* What a list of different tasks holds without its last one, ...
LEMMA SetOfFront ==
  ASSUME NEW S, NEW s \in Seq(S), s # <<>>, IsInjective(s), NEW r, r = Front(s)
  PROVE  IsInjective(r) /\ Last(s) \in ToSet(s) /\ ToSet(r) = ToSet(s) \ {Last(s)}
<1>1. /\ IsInjective(r) /\ r \in Seq(S) /\ \E i \in 1..Len(s) : s[i] = Last(s)
      /\ \A i \in 1..Len(r) : \E j \in 1..Len(s) : r[i] = s[j] /\ s[j] # Last(s)
      /\ \A j \in 1..Len(s) : s[j] = Last(s) \/ \E i \in 1..Len(r) : r[i] = s[j]
  BY FrontOfList
<1>2. DOMAIN r = 1..Len(r) /\ DOMAIN s = 1..Len(s)
  BY <1>1
<1>3. ToSet(s) = {s[i] : i \in 1..Len(s)} /\ ToSet(r) = {r[i] : i \in 1..Len(r)}
  BY <1>2 DEF ToSet
<1>4. \A x \in ToSet(r) : x \in ToSet(s) /\ x # Last(s)
  BY <1>1, <1>3
<1>5. \A x \in ToSet(s) : x # Last(s) => x \in ToSet(r)
  BY <1>1, <1>3
<1>6. Last(s) \in ToSet(s)
  BY <1>1, <1>3
<1> QED
  BY <1>1, <1>4, <1>5, <1>6

\* ... without its first, ...
LEMMA SetOfTail ==
  ASSUME NEW S, NEW s \in Seq(S), s # <<>>, IsInjective(s), NEW r, r = Tail(s)
  PROVE  IsInjective(r) /\ Head(s) \in ToSet(s) /\ ToSet(r) = ToSet(s) \ {Head(s)}
<1>1. PICK n : n \in Nat /\ n = Len(s) /\ n >= 1 /\ r \in Seq(S) /\ Len(r) = n - 1 /\ Head(s) = s[1]
               /\ \A i \in 1..n - 1 : r[i] = s[i + 1]
  BY PopTop, EmptySeq
<1>2. DOMAIN r = 1..n - 1 /\ DOMAIN s = 1..n
  BY <1>1
<1>3. \A i, j \in 1..n : s[i] = s[j] => i = j
  BY <1>2 DEF IsInjective
<1>4. \A i \in 1..n - 1 : i + 1 \in 1..n /\ i + 1 # 1
  BY <1>1
<1>5. \A i, j \in 1..n - 1 : r[i] = r[j] => i = j
  BY <1>1, <1>3, <1>4
<1>6. IsInjective(r)
  BY <1>2, <1>5 DEF IsInjective
<1>7. 1 \in 1..n
  BY <1>1
<1>8. ToSet(s) = {s[i] : i \in 1..n} /\ ToSet(r) = {r[i] : i \in 1..n - 1}
  BY <1>2 DEF ToSet
<1>9. ASSUME NEW x \in ToSet(r) PROVE x \in ToSet(s) /\ x # s[1]
  <2>1. PICK i \in 1..n - 1 : x = r[i]
    BY <1>8
  <2>2. i + 1 \in 1..n /\ x = s[i + 1] /\ i + 1 # 1
    BY <1>1, <1>4, <2>1
  <2> QED
    BY <1>3, <1>7, <1>8, <2>2
<1>10. ASSUME NEW x \in ToSet(s), x # s[1] PROVE x \in ToSet(r)
  <2>1. PICK i \in 1..n : x = s[i] /\ i # 1
    BY <1>8, <1>10
  <2>2. i - 1 \in 1..n - 1 /\ (i - 1) + 1 = i
    BY <1>1, <2>1
  <2>3. x = r[i - 1]
    BY <1>1, <2>1, <2>2
  <2> QED
    BY <1>8, <2>2, <2>3
<1> QED
  BY <1>1, <1>6, <1>7, <1>8, <1>9, <1>10

\* ... and with one more.
LEMMA SetOfAppend ==
  ASSUME NEW S, NEW s \in Seq(S), NEW x \in S, IsInjective(s), x \notin ToSet(s), NEW r, r = Append(s, x)
  PROVE  IsInjective(r) /\ ToSet(r) = ToSet(s) \cup {x}
<1>1. PICK n : n \in Nat /\ n = Len(s)
  BY LenProperties
<1>2. DOMAIN s = 1..n /\ \A i \in 1..n : s[i] # x
  BY <1>1 DEF ToSet
<1>3. IsInjective(r) /\ r \in Seq(S) /\ Len(r) = n + 1 /\ r[n + 1] = x /\ \A i \in 1..n : r[i] = s[i]
  BY <1>1, <1>2, AppendToList
<1>4. DOMAIN r = 1..n + 1 /\ \A i \in 1..n + 1 : i \in 1..n \/ i = n + 1
  BY <1>1, <1>3
<1>5. n + 1 \in 1..n + 1 /\ \A i \in 1..n : i \in 1..n + 1
  BY <1>1
<1>6. ToSet(s) = {s[i] : i \in 1..n} /\ ToSet(r) = {r[i] : i \in 1..n + 1}
  BY <1>2, <1>4 DEF ToSet
<1> QED
  BY <1>3, <1>4, <1>5, <1>6

\* The same for the circular array: without its first task, ...
LEMMA InsideDequeue ==
  ASSUME NEW q, IsQueue(q), ~IsEmpty(q), OnceInside(q), NEW r, r = Dequeue(q)
  PROVE  First(q) \in Inside(q) /\ Inside(r) = Inside(q) \ {First(q)} /\ OnceInside(r)
<1>1. PICK n \in Nat : n = Room(q) /\ n >= 1
  BY PoolAssumption DEF IsQueue
<1>2. /\ q \in [items : [0..n - 1 -> Marks], head : 0..n - 1, tail : 0..n - 1] /\ q.head # q.tail
      /\ q.head \in 0..n - 1 /\ q.tail \in 0..n - 1
  BY <1>1 DEF IsQueue, IsEmpty
<1>3. PICK h \in 0..n - 1 : h = IF q.head + 1 < n THEN q.head + 1 ELSE 0
  BY <1>1, <1>2
<1>4. Wrap(q, q.head + 1) = h
  BY <1>1, <1>2, <1>3, WrapOnce
<1>5. r.items = q.items /\ r.head = h /\ r.tail = q.tail
  BY <1>2, <1>4 DEF Dequeue
<1>6. Room(r) = n
  BY <1>1, <1>5 DEF Room
<1>7. InUse(q, q.head)
  BY <1>2 DEF InUse
<1>8. ASSUME NEW i \in 0..n - 1 PROVE InUse(r, i) <=> InUse(q, i) /\ i # q.head
  BY <1>2, <1>3, <1>5 DEF InUse
<1>9. \A i, j \in 0..n - 1 : InUse(q, i) /\ InUse(q, j) /\ q.items[i] = q.items[j] => i = j
  BY <1>1 DEF OnceInside
<1>10. OnceInside(r)
  BY <1>5, <1>6, <1>8, <1>9 DEF OnceInside
<1>11. \A x : x \in Inside(q) <=> \E i \in 0..n - 1 : InUse(q, i) /\ x = q.items[i]
  BY <1>1 DEF Inside
<1>12. \A x : x \in Inside(r) <=> \E i \in 0..n - 1 : InUse(r, i) /\ x = r.items[i]
  BY <1>6 DEF Inside
<1>13. First(q) = q.items[q.head] /\ First(q) \in Inside(q)
  BY <1>2, <1>7, <1>11 DEF First
<1>14. \A x : x \in Inside(r) <=> x \in Inside(q) /\ x # First(q)
  BY <1>2, <1>5, <1>7, <1>8, <1>9, <1>11, <1>12, <1>13
<1> QED
  BY <1>10, <1>13, <1>14

\* ... with one more where there is room, ...
LEMMA InsideStore ==
  ASSUME NEW q, IsQueue(q), ~Full(q), OnceInside(q), NEW x, x \notin Inside(q), NEW r, r = Store(q, x)
  PROVE  Inside(r) = Inside(q) \cup {x} /\ OnceInside(r)
<1>1. PICK n \in Nat : n = Room(q) /\ n >= 1
  BY PoolAssumption DEF IsQueue
<1>2. /\ q \in [items : [0..n - 1 -> Marks], head : 0..n - 1, tail : 0..n - 1]
      /\ q.items \in [0..n - 1 -> Marks] /\ q.head \in 0..n - 1 /\ q.tail \in 0..n - 1
  BY <1>1 DEF IsQueue
<1>3. PICK t \in 0..n - 1 : t = IF q.tail + 1 < n THEN q.tail + 1 ELSE 0
  BY <1>1, <1>2
<1>4. Wrap(q, q.tail + 1) = t
  BY <1>1, <1>2, <1>3, WrapOnce
<1>5. q.head # t
  BY <1>4 DEF Full
<1>6. PICK m : m = [q.items EXCEPT ![q.tail] = x]
  OBVIOUS
<1>7. DOMAIN m = 0..n - 1 /\ m[q.tail] = x /\ \A i \in 0..n - 1 : i # q.tail => m[i] = q.items[i]
  BY <1>2, <1>6
<1>8. r.items = m /\ r.head = q.head /\ r.tail = t
  BY <1>2, <1>4, <1>6 DEF Store
<1>9. Room(r) = n
  BY <1>7, <1>8, RoomOf
<1>10. ASSUME NEW i \in 0..n - 1 PROVE InUse(r, i) <=> InUse(q, i) \/ i = q.tail
  BY <1>2, <1>3, <1>5, <1>8 DEF InUse
<1>11. ~InUse(q, q.tail)
  BY <1>2 DEF InUse
<1>12. \A y : y \in Inside(q) <=> \E i \in 0..n - 1 : InUse(q, i) /\ y = q.items[i]
  BY <1>1 DEF Inside
<1>13. \A y : y \in Inside(r) <=> \E i \in 0..n - 1 : InUse(r, i) /\ y = m[i]
  BY <1>8, <1>9 DEF Inside
<1>14. \A i, j \in 0..n - 1 : InUse(q, i) /\ InUse(q, j) /\ q.items[i] = q.items[j] => i = j
  BY <1>1 DEF OnceInside
<1>15. \A y : y \in Inside(r) <=> y \in Inside(q) \/ y = x
  BY <1>2, <1>7, <1>10, <1>11, <1>12, <1>13
<1>16. \A i, j \in 0..n - 1 : InUse(r, i) /\ InUse(r, j) /\ m[i] = m[j] => i = j
  BY <1>2, <1>7, <1>10, <1>11, <1>12, <1>14
<1>17. OnceInside(r)
  BY <1>8, <1>9, <1>16 DEF OnceInside
<1> QED
  BY <1>15, <1>17

\* ... after it has grown, ...
LEMMA InsideResized ==
  ASSUME NEW q, IsQueue(q), Full(q), OnceInside(q), NEW r, r = Resized(q, NoTask)
  PROVE  Inside(r) = Inside(q) /\ OnceInside(r)
<1>1. PICK n \in Nat : n = Room(q) /\ n >= 1
  BY PoolAssumption DEF IsQueue
<1>2. q.items \in [0..n - 1 -> Marks] /\ q.head \in 0..n - 1 /\ q.tail \in 0..n - 1
  BY <1>1 DEF IsQueue
<1>3. q.head = IF q.tail + 1 < n THEN q.tail + 1 ELSE 0
  BY <1>1, <1>2, WrapOnce DEF Full
<1>4. PICK W : W = [i \in 0..n - 1 |-> IF i + q.head < n THEN i + q.head ELSE i + q.head - n]
  OBVIOUS
<1>5. \A i \in 0..n - 1 : W[i] = (IF i + q.head < n THEN i + q.head ELSE i + q.head - n) /\ W[i] \in 0..n - 1
  BY <1>1, <1>2, <1>4
<1>6. ASSUME NEW i \in 0..n - 1 PROVE Wrap(q, i + q.head) = W[i]
  <2>1. PICK k \in Nat : k = i + q.head /\ k < 2 * n
    BY <1>1, <1>2
  <2>2. Wrap(q, k) = IF k < n THEN k ELSE k - n
    BY <1>1, <2>1, WrapOnce
  <2> QED
    BY <1>1, <1>2, <1>5, <2>1, <2>2
<1>7. PICK k \in Nat : k = 2 * n
  BY <1>1
<1>8. PICK m : m = [i \in 0..k - 1 |-> IF i < n THEN q.items[Wrap(q, i + q.head)] ELSE NoTask]
  OBVIOUS
<1>9. DOMAIN m = 0..k - 1 /\ \A i \in 0..n - 1 : i \in 0..k - 1 /\ m[i] = q.items[W[i]]
  BY <1>1, <1>6, <1>7, <1>8
<1>10. r.items = m /\ r.head = 0 /\ r.tail = n - 1
  BY <1>1, <1>7, <1>8 DEF Resized
<1>11. Room(r) = k
  BY <1>7, <1>9, <1>10, RoomOf
<1>12. \A i \in 0..k - 1 : InUse(r, i) <=> i \in 0..n - 1 /\ i < n - 1
  BY <1>1, <1>7, <1>10 DEF InUse
<1>13. ASSUME NEW i \in 0..n - 1, i < n - 1 PROVE InUse(q, W[i])
  <2>1. PICK h \in 0..n - 1, t \in 0..n - 1, j \in 0..n - 1 : h = q.head /\ t = q.tail /\ j = W[i]
    BY <1>2, <1>5
  <2>2. (h <= t => h <= j /\ j < t) /\ (~(h <= t) => h <= j \/ j < t)
    BY <1>1, <1>3, <1>5, <1>13, <2>1
  <2> QED
    BY <2>1, <2>2 DEF InUse
<1>14. ASSUME NEW j \in 0..n - 1, InUse(q, j) PROVE \E i \in 0..n - 1 : i < n - 1 /\ W[i] = j
  <2>1. PICK h \in 0..n - 1, t \in 0..n - 1 : h = q.head /\ t = q.tail
    BY <1>2
  <2>2. (h <= t => h <= j /\ j < t) /\ (~(h <= t) => h <= j \/ j < t)
    BY <1>14, <2>1 DEF InUse
  <2>3. PICK i \in Int : i = IF j >= h THEN j - h ELSE j + n - h
    BY <1>1
  <2>4. i \in 0..n - 1 /\ i < n - 1
    BY <1>1, <1>3, <2>1, <2>2, <2>3
  <2>5. W[i] = j
    BY <1>1, <1>5, <2>1, <2>2, <2>3, <2>4
  <2> QED
    BY <2>4, <2>5
<1>15. ASSUME NEW i \in 0..n - 1, NEW j \in 0..n - 1, W[i] = W[j] PROVE i = j
  <2>1. PICK h \in 0..n - 1 : h = q.head
    BY <1>2
  <2>2. /\ W[i] = IF i + h < n THEN i + h ELSE i + h - n
        /\ W[j] = IF j + h < n THEN j + h ELSE j + h - n
    BY <1>5, <2>1
  <2>3. PICK a \in 0..n - 1 : a = W[i] /\ a = W[j]
    BY <1>5, <1>15
  <2>4. a = (IF i + h < n THEN i + h ELSE i + h - n) /\ a = (IF j + h < n THEN j + h ELSE j + h - n)
    BY <2>2, <2>3
  <2> QED
    BY ONLY <1>1, <2>1, <2>3, <2>4, i \in 0..n - 1, j \in 0..n - 1, h \in 0..n - 1
<1>16. \A y : y \in Inside(q) <=> \E i \in 0..n - 1 : InUse(q, i) /\ y = q.items[i]
  BY <1>1 DEF Inside
<1>17. \A y : y \in Inside(r) <=> \E i \in 0..k - 1 : InUse(r, i) /\ y = m[i]
  BY <1>10, <1>11 DEF Inside
<1>18. \A y : y \in Inside(r) => y \in Inside(q)
  BY <1>5, <1>9, <1>12, <1>13, <1>16, <1>17
<1>19. \A y : y \in Inside(q) => y \in Inside(r)
  BY <1>9, <1>12, <1>14, <1>16, <1>17
<1>20. \A i, j \in 0..n - 1 : InUse(q, i) /\ InUse(q, j) /\ q.items[i] = q.items[j] => i = j
  BY <1>1 DEF OnceInside
<1>21. ASSUME NEW i \in 0..k - 1, NEW j \in 0..k - 1, InUse(r, i), InUse(r, j), m[i] = m[j] PROVE i = j
  <2>1. i \in 0..n - 1 /\ j \in 0..n - 1 /\ i < n - 1 /\ j < n - 1
    BY <1>12, <1>21
  <2>2. InUse(q, W[i]) /\ InUse(q, W[j]) /\ q.items[W[i]] = q.items[W[j]] /\ W[i] \in 0..n - 1 /\ W[j] \in 0..n - 1
    BY <1>5, <1>9, <1>13, <1>21, <2>1
  <2> QED
    BY <1>15, <1>20, <2>1, <2>2
<1>22. OnceInside(r)
  BY <1>10, <1>11, <1>21 DEF OnceInside
<1> QED
  BY <1>18, <1>19, <1>22

\* ... and with one more in any case.
LEMMA InsideEnqueue ==
  ASSUME NEW q, IsQueue(q), OnceInside(q), NEW x \in Tasks, x \notin Inside(q), NEW r, r = Enqueue(q, x, NoTask)
  PROVE  Inside(r) = Inside(q) \cup {x} /\ OnceInside(r)
<1>1. CASE ~Full(q)
  <2>1. r = Store(q, x)
    BY <1>1 DEF Enqueue
  <2> QED
    BY <1>1, <2>1, InsideStore
<1>2. CASE Full(q)
  <2>1. PICK p : p = Resized(q, NoTask)
    OBVIOUS
  <2>2. IsQueue(p) /\ ~Full(p) /\ Inside(p) = Inside(q) /\ OnceInside(p)
    BY <1>2, <2>1, ResizedIsQueue, InsideResized
  <2>3. r = Store(p, x) /\ x \notin Inside(p)
    BY <1>2, <2>1, <2>2 DEF Enqueue
  <2>4. Inside(r) = Inside(p) \cup {x} /\ OnceInside(r)
    BY ONLY <2>2, <2>3, InsideStore
  <2> QED
    BY <2>2, <2>4
<1> QED
  BY <1>1, <1>2

\* It holds nothing when it is made.
LEMMA InsideNew == Inside(NewQueue(FirstSize, NoTask)) = {} /\ OnceInside(NewQueue(FirstSize, NoTask))
<1>1. PICK q : q = NewQueue(FirstSize, NoTask)
  OBVIOUS
<1>2. q.head = 0 /\ q.tail = 0 /\ Room(q) \in Nat
  BY <1>1, NewQueueIsQueue, PoolAssumption DEF NewQueue
<1>3. \A i \in 0..Room(q) - 1 : ~InUse(q, i)
  BY <1>2 DEF InUse
<1> QED
  BY <1>1, <1>3 DEF Inside, OnceInside

\* Queued(q) lists what q holds.
LEMMA QueuedInside ==
  ASSUME NEW q, IsQueue(q)
  PROVE  ToSet(Queued(q)) = Inside(q)
<1>1. PICK n \in Nat : n = Room(q) /\ n >= 1
  BY PoolAssumption DEF IsQueue
<1>2. PICK h \in 0..n - 1, t \in 0..n - 1 : h = q.head /\ t = q.tail
  BY <1>1 DEF IsQueue
<1>3. PICK l \in 0..n - 1 : l = IF h <= t THEN t - h ELSE t + n - h
  BY <1>1, <1>2
<1>4. Wrap(q, t + n - h) = l
  <2>1. PICK k \in Nat : k = t + n - h /\ k < 2 * n
    BY <1>1, <1>2
  <2>2. Wrap(q, k) = IF k < n THEN k ELSE k - n
    BY <1>1, <2>1, WrapOnce
  <2> QED
    BY <1>1, <1>2, <1>3, <2>1, <2>2
<1>5. PICK W : W = [i \in 1..l |-> IF h + i - 1 < n THEN h + i - 1 ELSE h + i - 1 - n]
  OBVIOUS
<1>6. \A i \in 1..l : W[i] = (IF h + i - 1 < n THEN h + i - 1 ELSE h + i - 1 - n) /\ W[i] \in 0..n - 1
  BY <1>1, <1>2, <1>3, <1>5
<1>7. ASSUME NEW i \in 1..l PROVE Wrap(q, h + i - 1) = W[i]
  <2>1. PICK k \in Nat : k = h + i - 1 /\ k < 2 * n
    BY <1>1, <1>2, <1>3
  <2>2. Wrap(q, k) = IF k < n THEN k ELSE k - n
    BY <1>1, <2>1, WrapOnce
  <2> QED
    BY <1>1, <1>2, <1>6, <2>1, <2>2
<1>8. PICK s : s = Queued(q)
  OBVIOUS
<1>9. DOMAIN s = 1..l /\ \A i \in 1..l : s[i] = q.items[W[i]]
  <2>1. s = [i \in 1..l |-> q.items[Wrap(q, h + i - 1)]]
    BY <1>1, <1>2, <1>4, <1>8 DEF Queued
  <2> QED
    BY <1>7, <2>1
<1>10. ASSUME NEW i \in 1..l PROVE InUse(q, W[i])
  <2>1. PICK j \in 0..n - 1 : j = W[i]
    BY <1>6
  <2>2. (h <= t => h <= j /\ j < t) /\ (~(h <= t) => h <= j \/ j < t)
    BY <1>1, <1>3, <1>6, <2>1
  <2> QED
    BY <1>2, <2>1, <2>2 DEF InUse
<1>11. ASSUME NEW j \in 0..n - 1, InUse(q, j) PROVE \E i \in 1..l : W[i] = j
  <2>1. (h <= t => h <= j /\ j < t) /\ (~(h <= t) => h <= j \/ j < t)
    BY <1>2, <1>11 DEF InUse
  <2>2. PICK i \in Int : i = IF j >= h THEN j - h + 1 ELSE j + n - h + 1
    BY <1>1, <1>2
  <2>3. i \in 1..l
    BY <1>1, <1>3, <2>1, <2>2
  <2>4. W[i] = j
    BY <1>1, <1>6, <2>1, <2>2, <2>3
  <2> QED
    BY <2>3, <2>4
<1>12. \A y : y \in Inside(q) <=> \E i \in 0..n - 1 : InUse(q, i) /\ y = q.items[i]
  BY <1>1 DEF Inside
<1>13. \A y : y \in ToSet(s) <=> \E i \in 1..l : y = q.items[W[i]]
  BY <1>9 DEF ToSet
<1>14. \A y : y \in ToSet(s) <=> y \in Inside(q)
  BY <1>6, <1>10, <1>11, <1>12, <1>13
<1> QED
  BY <1>8, <1>14
--------------------------------------------------------------------------------
(* What a step does to the work, by what it does to a stack.                   *)

\* Every activation of r is one of s or in G.
Kept(s, r, G) == \A i \in 1..Len(r) : r[i] \in G \/ \E j \in 1..Len(s) : r[i] = s[j]

\* What a step does to the work that is left.
Served ==
  /\ Parted' /\ Busy' \subseteq Busy /\ throwing' = throwing /\ (HasReturned => HasReturned')
  /\ \/ Busy' = Busy /\ calls' = calls
     \/ /\ Busy' # Busy
        /\ \E S \in SUBSET (Busy \ Busy') :
             /\ calls' = [e \in 0..Elements - 1 |-> IF e \in S THEN calls[e] + 1 ELSE calls[e]]
             /\ S # Busy \ Busy' => S \cap throwing # {}

\* A list over a set is one over a larger set.
LEMMA MoreFrames ==
  ASSUME NEW S, NEW T, S \subseteq T, NEW s \in Seq(S)
  PROVE  s \in Seq(T)
OBVIOUS

\* What a stack has begun, when the top goes on in place, ...
LEMMA PutKept ==
  ASSUME NEW th, NEW s, WellStacked(th, s), s # <<>>, NEW g, NEW r, r = Put(s, g),
         NEW G, g \in G
  PROVE  /\ Kept(s, r, G) /\ r # <<>> /\ Head(r) = g
         /\ g.kind # "schedule" => DoingOf(r) = Begun(g)
         /\ g.kind = "schedule" /\ Head(s).kind = "schedule" => DoingOf(r) = DoingOf(s)
<1>1. PICK S : S = AllFrames \cup {g}
  OBVIOUS
<1>2. s \in Seq(S) /\ g \in S /\ s \in Seq(AllFrames)
  BY <1>1, MoreFrames DEF WellStacked
<1>3. /\ r \in Seq(S) /\ Len(r) = Len(s) /\ r # <<>> /\ r[1] = g /\ Head(r) = g
      /\ \A i \in 2..Len(s) : r[i] = s[i]
  BY <1>2, ReplaceTop DEF Put
<1>4. Len(s) \in Nat /\ Len(s) >= 1 /\ Head(s) = s[1] /\ (~Base(th, s[1]) => Len(s) >= 2)
  BY NotAlone
<1>5. \A i \in 1..Len(s) : i = 1 \/ i \in 2..Len(s)
  BY <1>4
<1>6. Kept(s, r, G)
  BY <1>3, <1>4, <1>5 DEF Kept
<1>7. ASSUME g.kind = "schedule", Head(s).kind = "schedule" PROVE DoingOf(r) = DoingOf(s)
  <2>1. Len(s) >= 2
    BY <1>4, <1>7 DEF Base
  <2>2. r[2] = s[2]
    BY <1>3, <1>4, <2>1
  <2> QED
    BY <1>3, <1>7, <2>2 DEF DoingOf
<1> QED
  BY <1>3, <1>6, <1>7 DEF DoingOf

\* ... when it puts an activation on top of itself, ...
LEMMA PushKept ==
  ASSUME NEW th, NEW s, WellStacked(th, s), s # <<>>, NEW h, NEW g,
         NEW r, r = PutTwo(s, h, g), NEW G, h \in G, g \in G
  PROVE  /\ Kept(s, r, G) /\ r # <<>> /\ Head(r) = h
         /\ h.kind # "schedule" => DoingOf(r) = Begun(h)
         /\ h.kind = "schedule" => DoingOf(r) = Begun(g)
<1>1. PICK S : S = AllFrames \cup {g, h}
  OBVIOUS
<1>2. s \in Seq(S) /\ g \in S /\ h \in S
  BY <1>1, MoreFrames DEF WellStacked
<1>3. /\ r \in Seq(S) /\ Len(r) = Len(s) + 1 /\ r # <<>> /\ r[1] = h /\ r[2] = g /\ Head(r) = h
      /\ \A i \in 3..Len(s) + 1 : r[i] = s[i - 1]
  BY <1>2, PushTop DEF PutTwo
<1>4. Len(s) \in Nat /\ Len(s) >= 1
  BY NotAlone
<1>5. \A i \in 1..Len(s) + 1 : i = 1 \/ i = 2 \/ (i \in 3..Len(s) + 1 /\ i - 1 \in 1..Len(s))
  BY <1>4
<1>6. Kept(s, r, G)
  BY <1>3, <1>4, <1>5 DEF Kept
<1> QED
  BY <1>3, <1>6 DEF DoingOf

\* ... when a top that has nothing of its own ends, ...
LEMMA PopKept ==
  ASSUME NEW th, NEW s, WellStacked(th, s), s # <<>>, NEW r, r = Rest(s),
         \/ Head(s).kind \in {"schedule", "loop", "wait"}
         \/ Head(s).kind = "task" /\ Head(s).at = "flush"
  PROVE  Kept(s, r, {}) /\ DoingOf(r) = DoingOf(s)
<1>1. /\ WellStacked(th, r) /\ Len(r) = Len(s) - 1 /\ s[1] = Head(s) /\ Len(s) \in Nat
      /\ ~Base(th, Head(s)) => r # <<>> /\ Head(r) = s[2] /\ Above(Head(s), s[2])
      /\ Base(th, Head(s)) => r = <<>>
      /\ \A i \in 1..Len(s) - 1 : r[i] = s[i + 1]
  BY WellPopped, NotAlone
<1>2. \A i \in 1..Len(s) - 1 : i + 1 \in 1..Len(s)
  BY <1>1
<1>3. Kept(s, r, {})
  BY <1>1, <1>2 DEF Kept
<1>4. DoingOf(s) = IF Head(s).kind = "schedule" THEN Begun(s[2]) ELSE {}
  BY DEF DoingOf, Begun
<1>5. CASE Head(s).kind = "schedule"
  <2>1. ~Base(th, Head(s))
    BY <1>5 DEF Base
  <2>2. r # <<>> /\ Head(r) = s[2] /\ s[2].kind = "call"
    BY <1>1, <1>5, <2>1 DEF Above
  <2> QED
    BY <1>3, <1>4, <1>5, <2>2 DEF DoingOf
<1>6. CASE Head(s).kind # "schedule"
  <2>1. r = <<>> \/ (r # <<>> /\ Head(r) = s[2] /\ Above(Head(s), s[2]))
    BY <1>1
  <2>2. CASE r = <<>>
    BY <1>3, <1>4, <1>6, <2>2 DEF DoingOf
  <2>3. CASE r # <<>> /\ Head(r) = s[2] /\ Above(Head(s), s[2])
    <3>1. Head(r).kind # "schedule" /\ Begun(Head(r)) = {}
      BY <1>6, <2>3 DEF Above, Begun
    <3> QED
      BY <1>3, <1>4, <1>6, <2>3, <3>1 DEF DoingOf
  <2> QED
    BY <2>1, <2>2, <2>3
<1> QED
  BY <1>5, <1>6

\* ... and when a call returns.
LEMMA BackKept ==
  ASSUME NEW th, NEW s, WellStacked(th, s), s # <<>>, Head(s).kind = "call",
         NEW g, NEW r, r = Back(s, g), NEW G, g \in G
  PROVE  Kept(s, r, G) /\ Head(r) = g /\ r # <<>> /\ (g.kind # "schedule" => DoingOf(r) = Begun(g))
<1>1. PICK S : S = AllFrames \cup {g}
  OBVIOUS
<1>2. PICK n : n = Len(s) /\ n \in Nat /\ n >= 2
  BY NotAlone DEF Base
<1>3. s \in Seq(S) /\ g \in S
  BY <1>1, MoreFrames DEF WellStacked
<1>4. PICK u : u = SubSeq(s, 3, n) /\ r = <<g>> \o u
  BY <1>2 DEF Back
<1>5. /\ Len(r) = n - 1 /\ r # <<>> /\ r[1] = g /\ Head(r) = g
      /\ \A i \in 2..n - 1 : r[i] = s[i + 1]
  BY ONLY <1>2, <1>3, <1>4, BackTop
<1>6. \A i \in 1..n - 1 : i = 1 \/ (i \in 2..n - 1 /\ i + 1 \in 1..n)
  BY <1>2
<1>7. Kept(s, r, G)
  BY <1>2, <1>5, <1>6 DEF Kept
<1> QED
  BY <1>5, <1>7 DEF DoingOf
--------------------------------------------------------------------------------
\* The invariant after a step that adds the activations in G, which take nothing for done that is not.
LEMMA PartedStep ==
  ASSUME Parted, NEW G, \A o \in Threads : Kept(stack[o], stack'[o], G),
         Busy' \subseteq Busy, Apart(Doing, Queues)', QueuedOnce', Counted',
         \A g \in G : Over(g, held') \cap Busy' = {},
         \A t \in held : t \in held' \/ Span(t) \cap Busy' = {}
  PROVE  Parted'
<1>1. ASSUME NEW f, Over(f, held) \cap Busy = {} PROVE Over(f, held') \cap Busy' = {}
  BY <1>1 DEF Over
<1>2. ASSUME NEW o \in Threads, NEW i \in 1..Len(stack'[o]) PROVE Over(stack'[o][i], held') \cap Busy' = {}
  <2>1. stack'[o][i] \in G \/ \E j \in 1..Len(stack[o]) : stack'[o][i] = stack[o][j]
    BY DEF Kept
  <2>2. \A j \in 1..Len(stack[o]) : Over(stack[o][j], held) \cap Busy = {}
    BY DEF Parted, Settled
  <2> QED
    BY <1>1, <2>1, <2>2
<1>3. Settled'
  BY <1>2 DEF Settled
<1> QED
  BY <1>3 DEF Parted

\* parallel_for has not returned by a step of another thread, or of its own call.
LEMMA Unreturned ==
  ASSUME Stacked, NEW th \in Threads, \A o \in Threads : o # th => stack'[o] = stack[o],
         th # Main \/ Top(Main).kind # "client"
  PROVE  HasReturned => HasReturned'
BY PoolNumbers DEF HasReturned, On, Top

\* A step that moves no work serves ForEach by doing nothing.
LEMMA IdleSteps ==
  ASSUME Parted, NEW G, \A o \in Threads : Kept(stack[o], stack'[o], G),
         \A o \in Threads : DoingOf(stack'[o]) = DoingOf(stack[o]), UNCHANGED <<deque, public, calls, throwing>>,
         \A g \in G : Over(g, held') \cap Busy = {},
         \A t \in held : t \in held' \/ Span(t) \cap Busy = {}, HasReturned => HasReturned'
  PROVE  Served
<1>1. Doing' = Doing
  BY DEF Doing
<1>2. Queues' = Queues /\ QueuedOnce' /\ Counted'
  BY DEF Queues, QueuedOnce, Counted, Parted
<1>3. Busy' = Busy /\ Apart(Doing, Queues)'
  BY <1>1, <1>2 DEF Busy, Remaining, Apart, Parted
<1>4. Parted'
  BY <1>2, <1>3, PartedStep
<1> QED
  BY <1>3, <1>4 DEF Served

\* One stack changed, the others keep their activations.
LEMMA AllKept ==
  ASSUME NEW th \in Threads, NEW G, Kept(stack[th], stack'[th], G),
         \A o \in Threads : o # th => stack'[o] = stack[o]
  PROVE  \A o \in Threads : Kept(stack[o], stack'[o], G)
BY DEF Kept

\* The same for a step of one thread.
LEMMA IdleStep ==
  ASSUME Parted, NEW th \in Threads, NEW G, Kept(stack[th], stack'[th], G),
         \A o \in Threads : o # th => stack'[o] = stack[o],
         DoingOf(stack'[th]) = DoingOf(stack[th]), UNCHANGED <<deque, public, calls, throwing>>,
         \A g \in G : Over(g, held') \cap Busy = {},
         \A t \in held : t \in held' \/ Span(t) \cap Busy = {}, HasReturned => HasReturned'
  PROVE  Served
<1>1. \A o \in Threads : Kept(stack[o], stack'[o], G)
  BY AllKept
<1>2. \A o \in Threads : DoingOf(stack'[o]) = DoingOf(stack[o])
  OBVIOUS
<1> QED
  BY <1>1, <1>2, IdleSteps
--------------------------------------------------------------------------------
(* Steps that move no work.                                                    *)

\* What idle steps leave alone.
WorkSame == <<deque, public, calls, throwing, held>>

\* Loops, starts, waits and the rest of schedule have no work and take none for done.
LEMMA OverNone ==
  ASSUME NEW f, NEW h, f.kind \in {"start", "loop", "schedule", "wait"}
  PROVE  Over(f, h) = {} /\ Begun(f) = {}
BY DEF Over, Begun

\* What is on a stack keeps to what is over.
LEMMA TopSettled ==
  ASSUME IInv, Parted, NEW th \in Threads, stack[th] # <<>>
  PROVE  /\ Over(Head(stack[th]), held) \cap Busy = {}
         /\ ~Base(th, Head(stack[th])) => Over(stack[th][2], held) \cap Busy = {}
<1>1. PICK s : s = stack[th] /\ s # <<>> /\ WellStacked(th, s)
  BY IInvParts
<1>2. \A i \in 1..Len(s) : Over(s[i], held) \cap Busy = {}
  BY <1>1 DEF Parted, Settled
<1>3. Len(s) \in Nat /\ Len(s) >= 1 /\ Head(s) = s[1] /\ (~Base(th, Head(s)) => Len(s) >= 2)
  BY <1>1, NotAlone
<1>4. 1 \in 1..Len(s) /\ (~Base(th, Head(s)) => 2 \in 1..Len(s))
  BY <1>3
<1> QED
  BY <1>1, <1>2, <1>3, <1>4

\* A stack is replaced, the others stay.
LEMMA StackTo ==
  ASSUME IInv, NEW th \in Threads, NEW r, stack' = [stack EXCEPT ![th] = r]
  PROVE  /\ stack'[th] = r /\ WellStacked(th, stack[th])
         /\ \A o \in Threads : o # th => stack'[o] = stack[o]
BY IInvParts

\* Steps of one thread that move no work: the top goes on in place, ...
LEMMA IdlePut ==
  ASSUME IInv, Parted, NEW th \in Threads, stack[th] # <<>>, NEW g,
         stack' = [stack EXCEPT ![th] = Put(stack[th], g)], UNCHANGED WorkSame,
         \/ g.kind # "schedule" /\ Head(stack[th]).kind # "schedule" /\ Begun(g) = Begun(Head(stack[th]))
         \/ g.kind = "schedule" /\ Head(stack[th]).kind = "schedule",
         Over(g, held) \cap Busy = {}, HasReturned => HasReturned'
  PROVE  Served
<1>1. PICK s, r, G : s = stack[th] /\ r = Put(s, g) /\ G = {g} /\ g \in G
  OBVIOUS
<1>2. /\ WellStacked(th, s) /\ s # <<>> /\ stack'[th] = r /\ \A o \in Threads : o # th => stack'[o] = stack[o]
  BY <1>1, StackTo
<1>3. /\ Kept(s, r, G)
      /\ g.kind # "schedule" => DoingOf(r) = Begun(g)
      /\ g.kind = "schedule" /\ Head(s).kind = "schedule" => DoingOf(r) = DoingOf(s)
  BY ONLY <1>1, <1>2, PutKept
<1>4. DoingOf(r) = DoingOf(s)
  BY <1>1, <1>2, <1>3 DEF DoingOf
<1> QED
  BY <1>1, <1>2, <1>3, <1>4, IdleStep DEF WorkSame

\* ... it calls something with the same work, ...
LEMMA IdlePush ==
  ASSUME IInv, Parted, NEW th \in Threads, stack[th] # <<>>, NEW h, NEW g,
         stack' = [stack EXCEPT ![th] = PutTwo(stack[th], h, g)], UNCHANGED WorkSame,
         h.kind # "schedule", Head(stack[th]).kind # "schedule", Begun(h) = Begun(Head(stack[th])),
         Over(g, held) \cap Busy = {}, Over(h, held) \cap Busy = {}, HasReturned => HasReturned'
  PROVE  Served
<1>1. PICK s, r, G : s = stack[th] /\ r = PutTwo(s, h, g) /\ G = {h, g}
  OBVIOUS
<1>2. /\ WellStacked(th, s) /\ s # <<>> /\ stack'[th] = r /\ \A o \in Threads : o # th => stack'[o] = stack[o]
  BY <1>1, StackTo
<1>6. h \in G /\ g \in G
  BY <1>1
<1>7. Kept(s, r, G) /\ (h.kind # "schedule" => DoingOf(r) = Begun(h))
  BY ONLY <1>1, <1>2, <1>6, PushKept
<1>3. Kept(s, r, G) /\ DoingOf(r) = Begun(h)
  BY <1>7
<1>4. DoingOf(r) = DoingOf(s)
  BY <1>1, <1>2, <1>3 DEF DoingOf
<1>5. \A x \in G : Over(x, held) \cap Busy = {}
  BY <1>1
<1> QED
  BY <1>1, <1>2, <1>3, <1>4, <1>5, IdleStep DEF WorkSame

\* ... or ends, maybe with the pool's reference to a task whose work is done.
LEMMA IdlePop ==
  ASSUME IInv, Parted, NEW th \in Threads, stack[th] # <<>>,
         stack' = [stack EXCEPT ![th] = Rest(stack[th])], UNCHANGED <<deque, public, calls, throwing>>,
         \/ Head(stack[th]).kind \in {"schedule", "loop", "wait"}
         \/ Head(stack[th]).kind = "task" /\ Head(stack[th]).at = "flush",
         \A t \in held : t \in held' \/ Span(t) \cap Busy = {}, HasReturned => HasReturned'
  PROVE  Served
<1>1. PICK s, r : s = stack[th] /\ r = Rest(s)
  OBVIOUS
<1>2. /\ WellStacked(th, s) /\ s # <<>> /\ stack'[th] = r /\ \A o \in Threads : o # th => stack'[o] = stack[o]
  BY <1>1, StackTo
<1>3. Kept(s, r, {}) /\ DoingOf(r) = DoingOf(s)
  BY <1>1, <1>2, PopKept
<1> QED
  BY <1>1, <1>2, <1>3, IdleStep

\* A thread of the pool does not return to the client.
LEMMA WorkerIdle ==
  ASSUME IInv, NEW w \in Workers, NEW r, stack' = [stack EXCEPT ![w] = r]
  PROVE  HasReturned => HasReturned'
<1>1. w \in Threads /\ w # Main
  BY PoolNumbers
<1> QED
  BY <1>1, StackTo, IInvParts, Unreturned

\* The same for a worker that loops, starts threads or wakes them.
LEMMA PlainPut ==
  ASSUME IInv, Parted, NEW w \in Workers, NEW k, NEW a, On(w, k, a), NEW g,
         stack' = [stack EXCEPT ![w] = Put(stack[w], g)], UNCHANGED WorkSame,
         k \in {"start", "loop", "schedule"}, g.kind \in {"start", "loop", "schedule"},
         g.kind = "schedule" <=> k = "schedule"
  PROVE  Served
<1>1. w \in Threads /\ stack[w] # <<>> /\ Head(stack[w]) = Top(w) /\ Top(w).kind = k
  BY WorkerOnTop
<1>2. Over(g, held) = {} /\ Begun(g) = {}
  BY OverNone
<1>4. Begun(Top(w)) = {}
  BY <1>1, OverNone
<1>3. HasReturned => HasReturned'
  BY WorkerIdle
<1> QED
  BY <1>1, <1>2, <1>3, <1>4, IdlePut

\* Such an activation ends.
LEMMA PlainPop ==
  ASSUME IInv, Parted, NEW w \in Workers, NEW k, NEW a, On(w, k, a), k \in {"loop", "schedule"},
         stack' = [stack EXCEPT ![w] = Rest(stack[w])], UNCHANGED WorkSame
  PROVE  Served
<1>1. w \in Threads /\ stack[w] # <<>> /\ Head(stack[w]) = Top(w) /\ Top(w).kind = k
  BY WorkerOnTop
<1>2. HasReturned => HasReturned'
  BY WorkerIdle
<1> QED
  BY <1>1, <1>2, IdlePop DEF WorkSame
--------------------------------------------------------------------------------
\* The start of the threads, the loop's tests and sleep, and the end of schedule move no work.
LEMMA PlainSteps ==
  ASSUME IInv, Parted, NEW w \in Workers, UNCHANGED clientVars,
         AssignHandle(w) \/ EnterLoop(w) \/ Test(w) \/ ExitLoop(w) \/ Sleep(w) \/ Wake(w) \/ Relock(w)
         \/ CheckWaiters(w) \/ WakeForTask(w)
  PROVE  Served
<1>1. CASE AssignHandle(w)
  <2>1. PICK f, g : f = Top(w) /\ g = [f EXCEPT !.at = "spawn"] /\ On(w, "start", "assign")
    BY <1>1 DEF AssignHandle
  <2>2. f \in Starts
    BY <2>1, WorkerOnTop, KindOf
  <2>3. g.kind = "start" /\ stack' = [stack EXCEPT ![w] = Put(stack[w], g)]
    BY <1>1, <2>1, <2>2 DEF AssignHandle, Move, Instead, Put, Starts
  <2>4. UNCHANGED WorkSame
    BY <1>1 DEF AssignHandle, WorkSame, clientVars
  <2> QED
    BY <2>1, <2>3, <2>4, PlainPut
<1>2. CASE EnterLoop(w)
  <2>1. PICK g : g = Loop(NoTask) /\ g.kind = "loop" /\ On(w, "start", "spawn")
    BY <1>2 DEF EnterLoop, Loop
  <2>2. stack' = [stack EXCEPT ![w] = Put(stack[w], g)] /\ UNCHANGED WorkSame
    BY <1>2, <2>1 DEF EnterLoop, Instead, Put, WorkSame, clientVars
  <2> QED
    BY <2>1, <2>2, PlainPut
<1>3. CASE Test(w)
  <2>1. On(w, "loop", "test") /\ UNCHANGED WorkSame
    BY <1>3 DEF Test, WorkSame, clientVars
  <2>2. CASE stack' = Leave(w)
    BY <2>1, <2>2, PlainPop DEF Leave, Rest
  <2>3. CASE stack' = Move(w, "pop")
    <3>1. PICK g : g = [Top(w) EXCEPT !.at = "pop"]
      OBVIOUS
    <3>k. g.kind = "loop"
      <4>1. PICK f \in TaskLoops : f = Top(w)
        BY <2>1, WorkerOnTop, KindOf
      <4> QED
        BY <3>1, <4>1 DEF TaskLoops
    <3>2. stack' = [stack EXCEPT ![w] = Put(stack[w], g)]
      BY <2>3, <3>1 DEF Move, Instead, Put
    <3> QED
      BY <2>1, <3>k, <3>2, PlainPut
  <2> QED
    BY <1>3, <2>2, <2>3 DEF Test
<1>4. CASE ExitLoop(w)
  <2>1. On(w, "loop", "steal") /\ UNCHANGED WorkSame /\ stack' = [stack EXCEPT ![w] = Rest(stack[w])]
    BY <1>4 DEF ExitLoop, Looks, WorkSame, clientVars, Leave, Rest
  <2> QED
    BY <2>1, PlainPop
<1>5. CASE Sleep(w)
  <2>1. On(w, "loop", "steal") /\ UNCHANGED WorkSame
    BY <1>5 DEF Sleep, Looks, WorkSame, clientVars
  <2>2. PICK g : g = [Top(w) EXCEPT !.at = "sleep", !.added = Waiting(w)]
    OBVIOUS
  <2>k. g.kind = "loop"
    <3>1. PICK f \in TaskLoops : f = Top(w)
      BY <2>1, WorkerOnTop, KindOf
    <3> QED
      BY <2>2, <3>1 DEF TaskLoops
  <2>3. stack' = [stack EXCEPT ![w] = Put(stack[w], g)]
    BY <1>5, <2>2 DEF Sleep, Instead, Put
  <2> QED
    BY <2>1, <2>k, <2>3, PlainPut
<1>6. CASE Wake(w)
  <2>1. On(w, "loop", "sleep") /\ UNCHANGED WorkSame
    BY <1>6 DEF Wake, WorkSame, clientVars
  <2>2. PICK g : g = [Top(w) EXCEPT !.at = "relock", !.got = Returned(event[w])]
    OBVIOUS
  <2>k. g.kind = "loop"
    <3>1. PICK f \in TaskLoops : f = Top(w)
      BY <2>1, WorkerOnTop, KindOf
    <3> QED
      BY <2>2, <3>1 DEF TaskLoops
  <2>3. stack' = [stack EXCEPT ![w] = Put(stack[w], g)]
    BY <1>6, <2>2 DEF Wake, Instead, Put
  <2> QED
    BY <2>1, <2>k, <2>3, PlainPut
<1>7. CASE Relock(w)
  <2>1. On(w, "loop", "relock") /\ UNCHANGED WorkSame
    BY <1>7 DEF Relock, WorkSame, clientVars
  <2>2. CASE stack' = Leave(w)
    BY <2>1, <2>2, PlainPop DEF Leave, Rest
  <2>3. CASE stack' = Instead(w, [Top(w) EXCEPT !.at = "steal", !.left = Others(w)])
    <3>1. PICK g : g = [Top(w) EXCEPT !.at = "steal", !.left = Others(w)]
      OBVIOUS
    <3>k. g.kind = "loop"
      <4>1. PICK f \in TaskLoops : f = Top(w)
        BY <2>1, WorkerOnTop, KindOf
      <4> QED
        BY <3>1, <4>1 DEF TaskLoops
    <3>2. stack' = [stack EXCEPT ![w] = Put(stack[w], g)]
      BY <2>3, <3>1 DEF Instead, Put
    <3> QED
      BY <2>1, <3>k, <3>2, PlainPut
  <2> QED
    BY <1>7, <2>2, <2>3 DEF Relock
<1>8. CASE CheckWaiters(w)
  <2>1. On(w, "schedule", "check") /\ UNCHANGED WorkSame
    BY <1>8 DEF CheckWaiters, WorkSame, clientVars
  <2>2. CASE stack' = Leave(w)
    BY <2>1, <2>2, PlainPop DEF Leave, Rest
  <2>3. CASE stack' = Move(w, "lock")
    <3>1. Top(w) \in Rests
      BY <2>1, WorkerOnTop, KindOf
    <3>4. PICK f, g : f = Top(w) /\ g = [f EXCEPT !.at = "lock"]
      OBVIOUS
    <3>2. g = [Top(w) EXCEPT !.at = "lock"] /\ g.kind = "schedule"
      BY <3>1, <3>4 DEF Rests
    <3>3. stack' = [stack EXCEPT ![w] = Put(stack[w], g)]
      BY <2>3, <3>2 DEF Move, Instead, Put
    <3> QED
      BY <2>1, <3>2, <3>3, PlainPut
  <2> QED
    BY <1>8, <2>2, <2>3 DEF CheckWaiters
<1>9. CASE WakeForTask(w)
  <2>1. On(w, "schedule", "lock") /\ UNCHANGED WorkSame /\ stack' = [stack EXCEPT ![w] = Rest(stack[w])]
    BY <1>9 DEF WakeForTask, WorkSame, clientVars, Leave, Rest
  <2> QED
    BY <2>1, PlainPop
<1> QED
  BY <1>1, <1>2, <1>3, <1>4, <1>5, <1>6, <1>7, <1>8, <1>9
--------------------------------------------------------------------------------
\* A finished task that signals moves no work.
LEMMA TellServed ==
  ASSUME IInv, Parted, NEW w \in Workers, UNCHANGED clientVars, TellWaiter(w)
  PROVE  Served
<1>1. UNCHANGED <<stack, deque, public, calls, throwing, held>>
  BY DEF TellWaiter, clientVars
<1>2. PICK G : G = {}
  OBVIOUS
<1>3. \A o \in Threads : Kept(stack[o], stack'[o], G)
  BY <1>1 DEF Kept
<1>4. HasReturned => HasReturned'
  BY <1>1 DEF HasReturned, On, Top
<1> QED
  BY <1>1, <1>2, <1>3, <1>4, IdleSteps

\* Nor does a new thread have any.
LEMMA StartServed ==
  ASSUME IInv, Parted, NEW w \in Workers, UNCHANGED clientVars, StartThread(w)
  PROVE  Served
<1>1. /\ w \in Threads /\ w # Main /\ stack[w] # <<>> /\ Head(stack[w]) = Top(w) /\ Top(w).kind = "start"
      /\ Top(w) \in Starts /\ WellStacked(w, stack[w]) /\ Starting(w) /\ Share(w) \subseteq Workers
      /\ \A v \in Share(w) \ {w} : stack[v] = <<>>
  BY StartTop DEF StartThread
<1>2. PICK n, half, mid : n = Top(w).threads /\ half = n \div 2 /\ mid = w + half
  OBVIOUS
<1>3. /\ n \in Nat /\ n > 1 /\ half \in Nat /\ half >= 1 /\ half < n /\ w \in Nat
      /\ Share(w) = w..w + n - 1
  BY <1>1, <1>2, Halves, PoolNumbers DEF Starts, StartThread, Share
<1>4. mid \in Share(w) /\ mid # w /\ mid \in Workers /\ stack[mid] = <<>>
  <2>1. mid \in Nat /\ mid # w /\ mid \in w..w + n - 1
    BY <1>2, <1>3
  <2>2. mid \in Share(w)
    BY <1>3, <2>1
  <2> QED
    BY <1>1, <2>1, <2>2
<1>5. mid \in Threads /\ mid # Main
  BY <1>4, PoolNumbers
<1>6. PICK f, g, h : /\ f = Top(w) /\ g = [f EXCEPT !.at = "assign", !.threads = half, !.other = mid]
                     /\ h = Start(n - half)
  OBVIOUS
<1>7. g.kind = "start" /\ h.kind = "start"
  BY <1>1, <1>6 DEF Starts, Start
<1>8. PICK s, r, u, G : s = stack[w] /\ r = Put(s, g) /\ u = <<h>> /\ G = {g, h}
  OBVIOUS
<1>9. stack' = [[stack EXCEPT ![w] = r] EXCEPT ![mid] = u]
  BY <1>2, <1>6, <1>8 DEF StartThread, Instead, Put
<1>10. /\ stack'[w] = r /\ stack'[mid] = u
       /\ \A o \in Threads : o # w /\ o # mid => stack'[o] = stack[o]
  BY <1>1, <1>4, <1>5, <1>9, IInvParts
<1>11. g \in G /\ h \in G /\ WellStacked(w, s) /\ s # <<>>
  BY <1>1, <1>8
<1>12. Kept(s, r, G) /\ (g.kind # "schedule" => DoingOf(r) = Begun(g))
  BY ONLY <1>8, <1>11, PutKept
<1>13. Kept(stack[mid], u, G) /\ DoingOf(u) = {} /\ DoingOf(stack[mid]) = {}
  <2>1. Len(u) = 1 /\ u[1] = h /\ Head(u) = h /\ u # <<>>
    BY <1>8
  <2>2. \A i \in 1..Len(u) : u[i] \in G
    BY <1>11, <2>1
  <2>3. DoingOf(u) = Begun(h)
    BY <1>7, <2>1 DEF DoingOf
  <2> QED
    BY <1>4, <1>7, <2>2, <2>3, OverNone DEF Kept, DoingOf
<1>14. DoingOf(r) = {} /\ DoingOf(s) = {}
  <2>1. DoingOf(s) = Begun(Top(w))
    BY <1>1, <1>8 DEF DoingOf
  <2> QED
    BY <1>1, <1>7, <1>12, <2>1, OverNone
<1>15. \A o \in Threads : Kept(stack[o], stack'[o], G) /\ DoingOf(stack'[o]) = DoingOf(stack[o])
  <2> SUFFICES ASSUME NEW o \in Threads PROVE Kept(stack[o], stack'[o], G) /\ DoingOf(stack'[o]) = DoingOf(stack[o])
    OBVIOUS
  <2>1. CASE o = w
    BY <1>8, <1>10, <1>12, <1>14, <2>1
  <2>2. CASE o = mid
    BY <1>10, <1>13, <2>2
  <2>3. CASE o # w /\ o # mid
    BY <1>10, <2>3 DEF Kept
  <2> QED
    BY <2>1, <2>2, <2>3
<1>16. \A x \in G : Over(x, held') \cap Busy = {}
  <2>1. \A x \in G : x.kind = "start"
    BY <1>7, <1>8
  <2>2. \A x \in G : Over(x, held') = {}
    BY <2>1 DEF Over
  <2> QED
    BY <2>2
<1>17. UNCHANGED <<deque, public, calls, throwing, held>>
  BY DEF StartThread, clientVars
<1>18. HasReturned => HasReturned'
  BY <1>1, <1>5, <1>10, PoolNumbers DEF HasReturned, On, Top
<1> QED
  BY <1>15, <1>16, <1>17, <1>18, IdleSteps

\* A task that stores its result has done its work, ...
LEMMA StoreServed ==
  ASSUME IInv, Parted, NEW w \in Workers, StoreResult(w)
  PROVE  Served
<1>1. /\ w \in Threads /\ w # Main /\ stack[w] # <<>> /\ Head(stack[w]) = Top(w) /\ Top(w).kind = "task"
      /\ Top(w).at = "store" /\ Top(w) \in Runs
  BY TaskTop DEF StoreResult, StoreState
<1>2. PICK f, g : f = Top(w) /\ g = [f EXCEPT !.at = "flush"]
  OBVIOUS
<1>3. g.kind = "task" /\ g.at = "flush" /\ g.task = f.task
  BY <1>1, <1>2 DEF Runs
<1>4. stack' = [stack EXCEPT ![w] = Put(stack[w], g)]
  BY <1>2 DEF StoreResult, StoreState, Move, Instead, Put
<1>5. UNCHANGED WorkSame
  BY DEF StoreResult, StoreState, WorkSame
<1>6. Over(g, held) = Over(f, held) /\ Begun(g) = Begun(f)
  BY <1>1, <1>2, <1>3 DEF Over, Begun
<1>7. Over(f, held) \cap Busy = {}
  BY <1>1, <1>2, TopSettled
<1>8. HasReturned => HasReturned'
  BY <1>4, WorkerIdle
<1> QED
  BY <1>1, <1>2, <1>3, <1>4, <1>5, <1>6, <1>7, <1>8, IdlePut

\* ... hence the call that forked it may take it for done when the pool lets go of it.
LEMMA ReleaseServed ==
  ASSUME IInv, Parted, NEW w \in Workers, UNCHANGED clientVars, ReleaseTask(w)
  PROVE  Served
<1>1. /\ w \in Threads /\ w # Main /\ stack[w] # <<>> /\ Head(stack[w]) = Top(w) /\ Top(w).kind = "task"
      /\ Top(w).at = "flush"
  BY TaskTop DEF ReleaseTask
<1>2. stack' = [stack EXCEPT ![w] = Rest(stack[w])] /\ UNCHANGED <<deque, public, calls, throwing>>
  BY DEF ReleaseTask, Leave, Rest, clientVars
<1>3. Span(Top(w).task) \cap Busy = {}
  BY <1>1, TopSettled DEF Over
<1>4. \A t \in held : t \in held' \/ Span(t) \cap Busy = {}
  BY <1>3 DEF ReleaseTask
<1>5. HasReturned => HasReturned'
  BY <1>2, WorkerIdle
<1> QED
  BY <1>1, <1>2, <1>4, <1>5, IdlePop

\* The work of a task goes to the call it makes.
LEMMA EnterServed ==
  ASSUME IInv, Parted, NEW w \in Workers, EnterTask(w)
  PROVE  Served
<1>1. /\ w \in Threads /\ w # Main /\ stack[w] # <<>> /\ Head(stack[w]) = Top(w) /\ Top(w).kind = "task"
      /\ Top(w).at = "run" /\ Top(w) \in Runs
  BY TaskTop DEF EnterTask
<1>2. PICK f, t, g, h : /\ f = Top(w) /\ g = [f EXCEPT !.at = "called"] /\ t = f.task
                        /\ h = Call(t[1], t[2], subpart[t][1], subpart[t][2])
  OBVIOUS
<1>3. g.kind = "task" /\ g.at = "called"
  BY <1>1, <1>2 DEF Runs
<1>4. h.kind = "call" /\ h.at = "split" /\ h.lo = t[1] /\ h.hi = t[2]
  BY <1>2 DEF Call
<1>5. stack' = [stack EXCEPT ![w] = PutTwo(stack[w], h, g)]
  BY <1>2 DEF EnterTask, PutTwo
<1>6. UNCHANGED WorkSame
  BY DEF EnterTask, clientVars, WorkSame
<1>7. Over(g, held) = {} /\ Over(h, held) = {} /\ Begun(h) = Begun(f)
  BY <1>1, <1>2, <1>3, <1>4 DEF Over, Begun
<1>8. HasReturned => HasReturned'
  BY <1>5, WorkerIdle
<1>9. /\ Begun(h) = Begun(Head(stack[w])) /\ h.kind # "schedule" /\ Head(stack[w]).kind # "schedule"
      /\ Over(g, held) \cap Busy = {} /\ Over(h, held) \cap Busy = {}
  BY <1>1, <1>2, <1>4, <1>7
<1> QED
  BY <1>1, <1>5, <1>6, <1>8, <1>9, IdlePush
--------------------------------------------------------------------------------
\* What is known of a call on top of a stack.
LEMMA CallBelow ==
  ASSUME IInv, Parted, NEW th \in Threads, NEW a, On(th, "call", a)
  PROVE  /\ stack[th] # <<>> /\ Head(stack[th]) = Top(th) /\ Top(th).kind = "call" /\ Top(th).at = a
         /\ Top(th) \in AnyCalls /\ SoundCall(Top(th)) /\ Over(Top(th), held) \cap Busy = {}
         /\ Over(stack[th][2], held) \cap Busy = {}
         /\ \A r : stack' = [stack EXCEPT ![th] = r] => (HasReturned => HasReturned')
<1>1. /\ stack[th] # <<>> /\ Head(stack[th]) = Top(th) /\ Top(th).kind = "call" /\ Top(th).at = a
      /\ Top(th) \in AnyCalls /\ SoundCall(Top(th)) /\ ~Base(th, Top(th))
  BY CallTop
<1>2. Over(Top(th), held) \cap Busy = {} /\ Over(stack[th][2], held) \cap Busy = {}
  BY <1>1, TopSettled
<1>3. ASSUME NEW r, stack' = [stack EXCEPT ![th] = r] PROVE HasReturned => HasReturned'
  <2>1. \A o \in Threads : o # th => stack'[o] = stack[o]
    BY <1>3, StackTo
  <2>2. th # Main \/ Top(Main).kind # "client"
    BY <1>1
  <2> QED
    BY <2>1, <2>2, IInvParts, Unreturned
<1> QED
  BY <1>1, <1>2, <1>3

\* The work of a call's first part goes to the nested call.
LEMMA DescendServed ==
  ASSUME IInv, Parted, NEW th \in Threads, Descend(th)
  PROVE  Served
<1>1. On(th, "call", "left")
  BY DEF Descend
<1>2. /\ stack[th] # <<>> /\ Head(stack[th]) = Top(th) /\ Top(th).kind = "call" /\ Top(th).at = "left"
      /\ Top(th) \in AnyCalls /\ Over(Top(th), held) \cap Busy = {}
  BY <1>1, CallBelow
<1>3. PICK f, g, h : /\ f = Top(th) /\ g = [f EXCEPT !.at = "nested"]
                     /\ h = Call(f.lo, f.hi, f.threads, f.last)
  OBVIOUS
<1>4. g.kind = "call" /\ g.at = "nested" /\ g.sub = f.sub
  BY <1>2, <1>3 DEF AnyCalls
<1>5. h.kind = "call" /\ h.at = "split" /\ h.lo = f.lo /\ h.hi = f.hi
  BY <1>3 DEF Call
<1>6. stack' = [stack EXCEPT ![th] = PutTwo(stack[th], h, g)] /\ UNCHANGED WorkSame
  BY <1>3 DEF Descend, PutTwo, clientVars, WorkSame
<1>7. Over(g, held) = Over(f, held) /\ Over(h, held) = {} /\ Begun(h) = Begun(f)
  BY <1>2, <1>3, <1>4, <1>5 DEF Over, Begun
<1>8. HasReturned => HasReturned'
  BY <1>1, <1>6, CallBelow
<1>9. /\ Begun(h) = Begun(Head(stack[th])) /\ h.kind # "schedule" /\ Head(stack[th]).kind # "schedule"
      /\ Over(g, held) \cap Busy = {} /\ Over(h, held) \cap Busy = {}
  BY <1>2, <1>3, <1>5, <1>7
<1> QED
  BY <1>2, <1>6, <1>8, <1>9, IdlePush

\* A call whose first part has returned goes on.
LEMMA CallOn ==
  ASSUME IInv, Parted, NEW th \in Threads, NEW a, On(th, "call", a), NEW b,
         a \in {"get", "read", "join"}, b \in {"get", "read", "join", "spin"}, NEW g,
         g.kind = "call", g.at = b, g.lo = Top(th).lo, g.hi = Top(th).hi, g.sub = Top(th).sub
  PROVE  /\ Over(g, held) \cap Busy = {} /\ Begun(g) = {} /\ Begun(Top(th)) = {}
<1>1. Top(th).kind = "call" /\ Top(th).at = a /\ Over(Top(th), held) \cap Busy = {}
  BY CallBelow
<1>2. Over(g, held) = Over(Top(th), held)
  BY <1>1 DEF Over
<1> QED
  BY <1>1, <1>2 DEF Begun

\* Waiting for a task moves no work, ...
LEMMA WaitServed ==
  ASSUME IInv, Parted, NEW th \in Threads, NEW a, On(th, "call", a), NEW then,
         <<a, then>> \in {<<"get", "read">>, <<"join", "spin">>},
         WaitFor(th, Top(th).sub, then), UNCHANGED <<deque, public, held, clientVars>>
  PROVE  Served
<1>1. /\ stack[th] # <<>> /\ Head(stack[th]) = Top(th) /\ Top(th).kind = "call" /\ Top(th) \in AnyCalls
  BY CallBelow
<1>2. PICK f, g : f = Top(th) /\ g = [f EXCEPT !.at = then]
  OBVIOUS
<1>3. g.kind = "call" /\ g.at = then /\ g.lo = f.lo /\ g.hi = f.hi /\ g.sub = f.sub
  BY <1>1, <1>2 DEF AnyCalls
<1>4. Over(g, held) \cap Busy = {} /\ Begun(f) = {}
  <2>1. a \in {"get", "read", "join"} /\ then \in {"get", "read", "join", "spin"}
    OBVIOUS
  <2>2. g.kind = "call" /\ g.at = then /\ g.lo = Top(th).lo /\ g.hi = Top(th).hi /\ g.sub = Top(th).sub
    BY <1>2, <1>3
  <2>3. Over(g, held) \cap Busy = {} /\ Begun(Top(th)) = {}
    BY ONLY IInv, Parted, th \in Threads, On(th, "call", a), <2>1, <2>2, CallOn
  <2> QED
    BY <1>2, <2>3
<1>a. PICK h : h = IF th = Main THEN [kind |-> "wait", at |-> "sleep"] ELSE Loop(f.sub)
  OBVIOUS
<1>5. h.kind \in {"wait", "loop"} /\ stack' = [stack EXCEPT ![th] = PutTwo(stack[th], h, g)]
  <2>1. CASE th = Main
    BY <1>2, <1>a, <2>1 DEF WaitFor, PutTwo
  <2>2. CASE th # Main
    <3>1. h = Loop(f.sub) /\ h.kind = "loop"
      BY <1>a, <2>2 DEF Loop
    <3>2. stack' = [stack EXCEPT ![th] = PutTwo(stack[th], h, g)]
      BY <1>2, <2>2, <3>1 DEF WaitFor, PutTwo
    <3> QED
      BY <3>1, <3>2
  <2> QED
    BY <2>1, <2>2
<1>6. Over(h, held) = {} /\ Begun(h) = {} /\ h.kind # "schedule"
  BY <1>5, OverNone
<1>7. UNCHANGED WorkSame
  BY DEF clientVars, WorkSame
<1>8. HasReturned => HasReturned'
  BY <1>5, CallBelow
<1> QED
  BY <1>1, <1>2, <1>4, <1>5, <1>6, <1>7, <1>8, IdlePush

\* ... get() does not, ...
LEMMA GetServed ==
  ASSUME IInv, Parted, NEW th \in Threads, Get(th)
  PROVE  Served
<1>1. On(th, "call", "get")
  BY DEF Get
<1>2. CASE Finished(Top(th).sub)
  <2>1. /\ stack[th] # <<>> /\ Head(stack[th]) = Top(th) /\ Top(th).kind = "call" /\ Top(th) \in AnyCalls
    BY <1>1, CallBelow
  <2>2. PICK f, g : f = Top(th) /\ g = [f EXCEPT !.at = "read"]
    OBVIOUS
  <2>3. g.kind = "call" /\ g.at = "read" /\ g.lo = f.lo /\ g.hi = f.hi /\ g.sub = f.sub
    BY <2>1, <2>2 DEF AnyCalls
  <2>4. Over(g, held) \cap Busy = {} /\ Begun(f) = {} /\ Begun(g) = {}
    BY <1>1, <2>2, <2>3, CallOn
  <2>5. stack' = [stack EXCEPT ![th] = Put(stack[th], g)] /\ UNCHANGED WorkSame
    BY <1>2, <2>2 DEF Get, Move, Instead, Put, clientVars, WorkSame
  <2>6. HasReturned => HasReturned'
    BY <1>1, <2>5, CallBelow
  <2> QED
    BY <2>1, <2>2, <2>3, <2>4, <2>5, <2>6, IdlePut
<1>3. CASE ~Finished(Top(th).sub)
  <2>1. WaitFor(th, Top(th).sub, "read") /\ UNCHANGED <<deque, public, held, clientVars>>
    BY <1>3 DEF Get
  <2> QED
    BY <1>1, <2>1, WaitServed
<1> QED
  BY <1>2, <1>3

\* ... nor does the read of its result, ...
LEMMA ReadServed ==
  ASSUME IInv, Parted, NEW th \in Threads, Read(th)
  PROVE  Served
<1>1. On(th, "call", "read")
  BY DEF Read
<1>2. /\ stack[th] # <<>> /\ Head(stack[th]) = Top(th) /\ Top(th).kind = "call" /\ Top(th) \in AnyCalls
  BY <1>1, CallBelow
<1>3. PICK f : f = Top(th)
  OBVIOUS
<1>4. PICK g : /\ stack' = Instead(th, g)
               /\ \/ g = [f EXCEPT !.at = "join", !.thrown = TRUE]
                  \/ g = [f EXCEPT !.at = "join", !.out = Reduce(@, result[f.sub])]
  BY <1>3 DEF Read
<1>5. g.kind = "call" /\ g.at = "join" /\ g.lo = f.lo /\ g.hi = f.hi /\ g.sub = f.sub
  BY <1>2, <1>3, <1>4 DEF AnyCalls
<1>6. Over(g, held) \cap Busy = {} /\ Begun(f) = {} /\ Begun(g) = {}
  BY <1>1, <1>3, <1>5, CallOn
<1>7. stack' = [stack EXCEPT ![th] = Put(stack[th], g)] /\ UNCHANGED WorkSame
  BY <1>4 DEF Read, Instead, Put, clientVars, WorkSame
<1>8. HasReturned => HasReturned'
  BY <1>1, <1>7, CallBelow
<1> QED
  BY <1>2, <1>3, <1>5, <1>6, <1>7, <1>8, IdlePut

\* ... nor the second wait, in ~local_task.
LEMMA WaitAgainServed ==
  ASSUME IInv, Parted, NEW th \in Threads, WaitAgain(th)
  PROVE  Served
<1>1. /\ On(th, "call", "join") /\ WaitFor(th, Top(th).sub, "spin") /\ UNCHANGED <<deque, public, held, clientVars>>
  BY DEF WaitAgain
<1> QED
  BY <1>1, WaitServed
--------------------------------------------------------------------------------
(* Calls that return, and the client.                                          *)

\* What lies below a call that returns, and what becomes of it.
Returning(f, below, g) ==
  /\ below.kind = "task" => g.kind = "task" /\ g.at = "store" /\ g.task = below.task
  /\ below.kind = "client" => g.kind = "client" /\ g.at = "returned"
  /\ below.kind = "call" => /\ g.kind = "call" /\ g.at \in {"join", "get"}
                            /\ g.lo = below.lo /\ g.hi = below.hi /\ g.sub = below.sub

\* A call returns to what made it.
LEMMA ReturnTo ==
  ASSUME IInv, NEW th \in Threads, NEW a, On(th, "call", a), NEW thrown, NEW out, Return(th, thrown, out)
  PROVE  \E g : Returning(Top(th), stack[th][2], g) /\ stack' = [stack EXCEPT ![th] = Back(stack[th], g)]
<1>1. Above(Top(th), stack[th][2]) /\ stack[th][2] \in AllFrames /\ Top(th).kind = "call"
  BY CallTop
<1>2. PICK below, at : /\ below = stack[th][2]
                       /\ at = IF below.kind = "task" THEN "store"
                               ELSE IF below.kind = "client" THEN "returned"
                               ELSE IF thrown THEN "join" ELSE "get"
  OBVIOUS
<1>3. PICK g : g = [below EXCEPT !.at = at, !.thrown = thrown, !.out = out]
  OBVIOUS
<1>4. stack' = [stack EXCEPT ![th] = Back(stack[th], g)]
  BY <1>2, <1>3 DEF Return, Back
<1>5. Returning(Top(th), below, g)
  <2>1. ASSUME below.kind = "task" PROVE g.kind = "task" /\ g.at = "store" /\ g.task = below.task
    <3>1. below \in Runs
      BY <1>1, <1>2, <2>1, KindOf DEF SoundRuns
    <3> QED
      BY <1>2, <1>3, <2>1, <3>1 DEF Runs
  <2>2. ASSUME below.kind = "client" PROVE g.kind = "client" /\ g.at = "returned"
    <3>1. below \in Clients
      BY <1>1, <1>2, <2>2, KindOf DEF SoundClients
    <3> QED
      BY <1>2, <1>3, <2>2, <3>1 DEF Clients
  <2>3. ASSUME below.kind = "call"
        PROVE  /\ g.kind = "call" /\ g.at \in {"join", "get"}
               /\ g.lo = below.lo /\ g.hi = below.hi /\ g.sub = below.sub
    <3>1. below \in AnyCalls
      BY <1>1, <1>2, <2>3, KindOf DEF SplitCalls
    <3> QED
      BY <1>2, <1>3, <2>3, <3>1 DEF AnyCalls
  <2> QED
    BY <2>1, <2>2, <2>3 DEF Returning
<1> QED
  BY <1>2, <1>4, <1>5

\* What made a call takes its range for done from then on.
LEMMA ReturnOver ==
  ASSUME NEW f, NEW below, f.kind = "call", Above(f, below), NEW g, Returning(f, below, g), NEW H, NEW B,
         Over(below, H) \cap B = {}, Span(Extent(f)) \cap B = {}
  PROVE  Over(g, H) \cap B = {} /\ Begun(g) = {} /\ g.kind # "schedule"
<1>1. CASE below.kind = "task"
  BY <1>1 DEF Above, Returning, Over, Begun
<1>2. CASE below.kind = "client"
  BY <1>2 DEF Above, Returning, Over, Begun, Span
<1>3. CASE below.kind = "call"
  <2>1. /\ below.at = "nested" /\ Span(Extent(f)) = below.lo..below.hi - 1
        /\ g.kind = "call" /\ g.at \in {"join", "get"} /\ g.lo = below.lo /\ g.hi = below.hi /\ g.sub = below.sub
    BY <1>3 DEF Above, Returning, Span
  <2>2. Over(g, H) \subseteq Over(below, H) \cup Span(Extent(f))
    BY <1>3, <2>1 DEF Over
  <2> QED
    BY <2>1, <2>2 DEF Begun
<1> QED
  BY <1>1, <1>2, <1>3 DEF Above

\* A joined call has both parts done: its own and that of a task which the pool no longer has.
LEMMA JoinServed ==
  ASSUME IInv, Parted, NEW th \in Threads, Join(th)
  PROVE  Served
<1>1. PICK a \in {"join", "spin"} : On(th, "call", a)
  BY DEF Join
<1>2. PICK f, s, below : f = Top(th) /\ s = stack[th] /\ below = s[2]
  OBVIOUS
<1>3. /\ s # <<>> /\ Head(s) = f /\ f.kind = "call" /\ f.at = a /\ f \in AnyCalls /\ SoundCall(f)
      /\ Over(f, held) \cap Busy = {} /\ Over(below, held) \cap Busy = {}
  BY <1>1, <1>2, CallBelow
<1>4. Above(f, below) /\ WellStacked(th, s)
  BY <1>1, <1>2, CallTop
<1>5. f.sub \notin held /\ Return(th, Top(th).thrown, Top(th).out)
  BY <1>2 DEF Join
<1>6. PICK g : Returning(f, below, g) /\ stack' = [stack EXCEPT ![th] = Back(s, g)]
  BY <1>1, <1>2, <1>5, ReturnTo
<1>7. Span(Extent(f)) \cap Busy = {}
  <2>1. Over(f, held) = (f.lo..f.hi - 1) \cup Span(f.sub)
    BY <1>1, <1>3, <1>5 DEF Over
  <2>2. f.lo \in Nat /\ f.hi \in Nat /\ f.sub[1] = f.hi /\ f.sub[2] \in Nat /\ Extent(f) = <<f.lo, f.sub[2]>>
    BY <1>1, <1>3, TaskRange DEF AnyCalls, SoundCall, Extent
  <2>3. \A e \in f.lo..f.sub[2] - 1 : e \in f.lo..f.hi - 1 \/ e \in f.sub[1]..f.sub[2] - 1
    BY <2>2
  <2>4. Span(Extent(f)) \subseteq Over(f, held)
    BY <2>1, <2>2, <2>3 DEF Span
  <2> QED
    BY <1>3, <2>4
<1>8. Over(g, held) \cap Busy = {} /\ Begun(g) = {} /\ g.kind # "schedule"
  <2>1. PICK B, H : B = Busy /\ H = held
    OBVIOUS
  <2>2. Over(below, H) \cap B = {} /\ Span(Extent(f)) \cap B = {}
    BY <1>3, <1>7, <2>1
  <2>3. f.kind = "call" /\ Above(f, below) /\ Returning(f, below, g)
    BY <1>3, <1>4, <1>6
  <2>4. Over(g, H) \cap B = {} /\ Begun(g) = {} /\ g.kind # "schedule"
    BY ONLY <2>2, <2>3, ReturnOver
  <2> QED
    BY <2>1, <2>4
<1>9. PICK r, G : r = Back(s, g) /\ G = {g} /\ g \in G
  OBVIOUS
<1>10. Kept(s, r, G) /\ (g.kind # "schedule" => DoingOf(r) = Begun(g))
  BY ONLY <1>3, <1>4, <1>9, BackKept
<1>11. DoingOf(s) = {}
  BY <1>1, <1>3 DEF DoingOf, Begun
<1>12. stack'[th] = r /\ \A o \in Threads : o # th => stack'[o] = stack[o]
  BY <1>6, <1>9, StackTo
<1>13. UNCHANGED <<deque, public, calls, throwing, held>>
  BY DEF Join, clientVars
<1>14. HasReturned => HasReturned'
  BY <1>1, <1>6, CallBelow
<1> QED
  BY <1>2, <1>8, <1>9, <1>10, <1>11, <1>12, <1>13, <1>14, IdleStep
--------------------------------------------------------------------------------
\* The client gives the whole range to its call.
LEMMA BeginServed ==
  ASSUME IInv, Parted, BeginCall
  PROVE  Served
<1>1. /\ Main \in Threads /\ stack[Main] # <<>> /\ Head(stack[Main]) = Top(Main) /\ Top(Main).kind = "client"
      /\ Top(Main).at = "start" /\ Rest(stack[Main]) = <<>>
  BY ClientTop DEF BeginCall
<1>2. PICK g, h : g = [Client EXCEPT !.at = "called"] /\ h = Call(0, Elements, 0, Nobody)
  OBVIOUS
<1>3. g.kind = "client" /\ g.at = "called"
  BY <1>2 DEF Client
<1>4. h.kind = "call" /\ h.at = "split" /\ h.lo = 0 /\ h.hi = Elements
  BY <1>2 DEF Call
<1>5. stack' = [stack EXCEPT ![Main] = PutTwo(stack[Main], h, g)]
  <2>1. PutTwo(stack[Main], h, g) = <<h, g>> \o <<>>
    BY <1>1 DEF PutTwo, Rest
  <2>2. <<h, g>> \o <<>> = <<h, g>>
    BY ConcatEmptySeq
  <2> QED
    BY <1>2, <2>1, <2>2 DEF BeginCall
<1>6. UNCHANGED WorkSame
  BY DEF BeginCall, clientVars, WorkSame
<1>7. Over(g, held) = {} /\ Over(h, held) = {} /\ Begun(h) = Begun(Top(Main))
  BY <1>1, <1>3, <1>4 DEF Over, Begun
<1>8. ~HasReturned
  BY <1>1 DEF HasReturned, On
<1>9. /\ Begun(h) = Begun(Head(stack[Main])) /\ h.kind # "schedule" /\ Head(stack[Main]).kind # "schedule"
      /\ Over(g, held) \cap Busy = {} /\ Over(h, held) \cap Busy = {}
  BY <1>1, <1>4, <1>7
<1> QED
  BY <1>1, <1>5, <1>6, <1>8, <1>9, IdlePush

\* The main thread wakes up with no work of its own.
LEMMA WakeMainServed ==
  ASSUME IInv, Parted, WakeMain
  PROVE  Served
<1>1. /\ Main \in Threads /\ stack[Main] # <<>> /\ Head(stack[Main]) = Top(Main) /\ Top(Main).kind = "wait"
  BY PoolNumbers, IInvParts, OnTop DEF WakeMain
<1>2. stack' = [stack EXCEPT ![Main] = Rest(stack[Main])] /\ UNCHANGED <<deque, public, calls, throwing, held>>
  BY DEF WakeMain, Leave, Rest, clientVars
<1>3. ~HasReturned
  BY <1>1 DEF HasReturned, On
<1> QED
  BY <1>1, <1>2, <1>3, IdlePop

\* The client goes on after its call has returned.
LEMMA ClientServed ==
  ASSUME IInv, Parted, NEW a, On(Main, "client", a), a \in {"returned", "joining"}, NEW g,
         stack' = Instead(Main, g), g.kind = "client", g.at \in {"joining", "over", "terminated"},
         UNCHANGED WorkSame
  PROVE  Served
<1>1. /\ Main \in Threads /\ stack[Main] # <<>> /\ Head(stack[Main]) = Top(Main) /\ Top(Main).kind = "client"
      /\ Top(Main).at = a /\ WellStacked(Main, stack[Main])
  BY ClientTop
<1>2. stack' = [stack EXCEPT ![Main] = Put(stack[Main], g)]
  BY DEF Instead, Put
<1>3. Over(g, held) = Over(Top(Main), held) /\ Begun(g) = {} /\ Begun(Top(Main)) = {}
  BY <1>1 DEF Over, Begun
<1>4. Over(g, held) \cap Busy = {}
  BY <1>1, <1>3, TopSettled
<1>5. HasReturned'
  <2>1. PICK r : r = Put(stack[Main], g)
    OBVIOUS
  <2>2. stack'[Main] = r
    BY <1>1, <1>2, <2>1, StackTo
  <2>3. PICK s, G : s = stack[Main] /\ G = {g} /\ g \in G
    OBVIOUS
  <2>4. s # <<>> /\ WellStacked(Main, s) /\ r = Put(s, g)
    BY <1>1, <2>1, <2>3
  <2>5. r # <<>> /\ Head(r) = g
    BY ONLY <2>3, <2>4, PutKept
  <2> QED
    BY <2>2, <2>5 DEF HasReturned, On, Top
<1>6. g.kind # "schedule" /\ Head(stack[Main]).kind # "schedule" /\ Begun(g) = Begun(Head(stack[Main]))
  BY <1>1, <1>3
<1> QED
  BY <1>1, <1>2, <1>4, <1>5, <1>6, IdlePut

\* The destructor comes after the call, ...
LEMMA ShutdownServed ==
  ASSUME IInv, Parted, Shutdown, UNCHANGED clientVars
  PROVE  Served
<1>1. Top(Main) \in Clients /\ On(Main, "client", "returned")
  BY ClientTop DEF Shutdown
<1>2. PICK f, g : f = Top(Main) /\ g = [f EXCEPT !.at = "joining"]
  OBVIOUS
<1>3. g.kind = "client" /\ g.at = "joining"
  BY <1>1, <1>2 DEF Clients
<1>4. stack' = Instead(Main, g) /\ UNCHANGED WorkSame
  BY <1>2 DEF Shutdown, Move, clientVars, WorkSame
<1> QED
  BY <1>1, <1>3, <1>4, ClientServed

\* ... and so does each join().
LEMMA JoinThreadServed ==
  ASSUME IInv, Parted, JoinThread, UNCHANGED clientVars
  PROVE  Served
<1>1. Top(Main) \in Clients /\ On(Main, "client", "joining")
  BY ClientTop DEF JoinThread
<1>2. PICK f : f = Top(Main)
  OBVIOUS
<1>3. PICK g : /\ stack' = Instead(Main, g)
               /\ \/ g = [f EXCEPT !.at = "terminated"]
                  \/ g = [f EXCEPT !.at = "over"]
                  \/ g = [f EXCEPT !.next = f.next + 1]
  BY <1>2 DEF JoinThread
<1>4. g.kind = "client" /\ g.at \in {"joining", "over", "terminated"}
  BY <1>1, <1>2, <1>3 DEF Clients, On
<1>5. UNCHANGED WorkSame
  BY DEF JoinThread, clientVars, WorkSame
<1> QED
  BY <1>1, <1>3, <1>4, <1>5, ClientServed
--------------------------------------------------------------------------------
(* Steps that move work: tasks are taken and forked.                           *)

\* The work of one thread and the tasks of one queue, ...
LEMMA DoingAt ==
  /\ \A th \in Threads : Doing[th] = DoingOf(stack[th])
  /\ \A w \in Workers : Queues[w] = ToSet(deque[w])
  /\ Queues[Main] = Inside(public)
BY PoolNumbers DEF Doing, Queues

\* ... and after a step.
LEMMA DoingAtNext ==
  /\ \A th \in Threads : Doing'[th] = DoingOf(stack'[th])
  /\ \A w \in Workers : Queues'[w] = ToSet(deque'[w])
  /\ Queues'[Main] = Inside(public')
BY PoolNumbers DEF Doing, Queues

\* Work that goes from one to another.
LEMMA MovedWork ==
  ASSUME Parted, NEW th \in Threads, NEW G, Kept(stack[th], stack'[th], G),
         \A o \in Threads : o # th => stack'[o] = stack[o],
         Apart(Doing', Queues'), Remaining(Doing', Queues') = Remaining(Doing, Queues), QueuedOnce',
         UNCHANGED <<calls, throwing>>, held \subseteq held', \A g \in G : Over(g, held') = {},
         HasReturned => HasReturned'
  PROVE  Served
<1>1. \A o \in Threads : Kept(stack[o], stack'[o], G)
  BY AllKept
<1>2. Apart(Doing, Queues)' /\ Busy' = Busy
  BY DEF Apart, Busy, Remaining
<1>3. Counted'
  BY DEF Counted, Parted
<1>4. Parted'
  BY <1>1, <1>2, <1>3, PartedStep
<1> QED
  BY <1>2, <1>4 DEF Served

\* A task that is run was in one queue, and leaves it.
LEMMA TakeServed ==
  ASSUME IInv, Parted, NEW w \in Workers, NEW a, On(w, "loop", a), NEW t, Run(w, t), NEW y \in Threads,
         t \in Queues[y], Queues'[y] = Queues[y] \ {t}, \A z \in Threads : z # y => Queues'[z] = Queues[z],
         QueuedOnce', UNCHANGED <<calls, throwing, held>>
  PROVE  Served
<1>1. /\ w \in Threads /\ stack[w] # <<>> /\ Head(stack[w]) = Top(w) /\ Top(w).kind = "loop"
      /\ Top(w) \in TaskLoops /\ WellStacked(w, stack[w])
  BY WorkerOnTop, KindOf
<1>2. PICK f, s, g, h : f = Top(w) /\ s = stack[w] /\ g = [f EXCEPT !.at = "test"] /\ h = Running(t)
  OBVIOUS
<1>3. g.kind = "loop" /\ h.kind = "task" /\ h.at = "run" /\ h.task = t
  BY <1>1, <1>2 DEF TaskLoops, Running
<1>4. PICK r, G : r = PutTwo(s, h, g) /\ G = {h, g}
  OBVIOUS
<1>5. stack' = [stack EXCEPT ![w] = r]
  BY <1>2, <1>4 DEF Run, PutTwo
<1>6. stack'[w] = r /\ \A o \in Threads : o # w => stack'[o] = stack[o]
  BY <1>1, <1>5, StackTo
<1>7. h \in G /\ g \in G /\ s # <<>> /\ WellStacked(w, s)
  BY <1>1, <1>2, <1>4
<1>8. Kept(s, r, G) /\ (h.kind # "schedule" => DoingOf(r) = Begun(h))
  BY ONLY <1>4, <1>7, PushKept
<1>9. Doing'[w] = Span(t)
  BY <1>1, <1>3, <1>6, <1>8, DoingAtNext DEF Begun, Span
<1>10. Doing[w] = {}
  BY <1>1, DoingAt DEF DoingOf, Begun
<1>11. \A z \in Threads : z # w => Doing'[z] = Doing[z]
  BY <1>6, DoingAt, DoingAtNext
<1>12. PICK D, Q, D2, Q2 : D = Doing /\ Q = Queues /\ D2 = Doing' /\ Q2 = Queues'
  OBVIOUS
<1>13. Apart(D, Q) /\ Taken(D, Q, D2, Q2, w, y, t) /\ w \in Threads /\ y \in Threads
  BY <1>1, <1>9, <1>10, <1>11, <1>12 DEF Parted, Taken
<1>14. Apart(D2, Q2) /\ Remaining(D2, Q2) = Remaining(D, Q)
  BY ONLY <1>13, TakeWork
<1>15. \A x \in G : Over(x, held') = {}
  BY <1>3, <1>4 DEF Over
<1>16. HasReturned => HasReturned'
  BY <1>5, WorkerIdle
<1> QED
  BY <1>1, <1>2, <1>6, <1>8, <1>12, <1>14, <1>15, <1>16, MovedWork

\* A worker takes the newest task of its own queue, ...
LEMMA PopOwnServed ==
  ASSUME IInv, Parted, NEW w \in Workers, UNCHANGED clientVars, PopOwn(w)
  PROVE  Served
<1>1. On(w, "loop", "pop") /\ UNCHANGED <<public, calls, throwing, held>> /\ w \in Threads /\ w # Main
  BY PoolNumbers DEF PopOwn, clientVars
<1>2. CASE deque[w] = <<>>
  <2>1. deque' = deque /\ stack' = Instead(w, [Top(w) EXCEPT !.at = "steal", !.left = Others(w)])
    BY <1>2 DEF PopOwn
  <2>2. PICK f \in TaskLoops : f = Top(w)
    BY <1>1, WorkerOnTop, KindOf
  <2>3. PICK g : g = [f EXCEPT !.at = "steal", !.left = Others(w)]
    OBVIOUS
  <2>4. g.kind = "loop" /\ stack' = [stack EXCEPT ![w] = Put(stack[w], g)]
    BY <2>1, <2>2, <2>3 DEF TaskLoops, Instead, Put
  <2> QED
    BY <1>1, <2>1, <2>4, PlainPut DEF WorkSame
<1>3. CASE deque[w] # <<>>
  <2>1. PICK s, r, t : s = deque[w] /\ r = Front(s) /\ t = Last(s)
    OBVIOUS
  <2>2. Run(w, t) /\ deque' = [deque EXCEPT ![w] = r]
    BY <1>3, <2>1 DEF PopOwn
  <2>3. s \in Seq(Tasks) /\ s # <<>> /\ IsInjective(s) /\ deque \in [Workers -> Seq(Tasks)]
    BY <1>3, <2>1, IInvParts DEF Types, Parted, QueuedOnce
  <2>4. IsInjective(r) /\ t \in ToSet(s) /\ ToSet(r) = ToSet(s) \ {t}
    BY <2>1, <2>3, SetOfFront
  <2>5. deque'[w] = r /\ \A v \in Workers : v # w => deque'[v] = deque[v]
    BY <2>2, <2>3
  <2>6. t \in Queues[w] /\ Queues'[w] = Queues[w] \ {t}
    BY <2>1, <2>4, <2>5, DoingAt, DoingAtNext
  <2>7. \A z \in Threads : z # w => Queues'[z] = Queues[z]
    BY <1>1, <2>5, DoingAt, DoingAtNext DEF Threads
  <2>8. QueuedOnce'
    BY <1>1, <2>4, <2>5 DEF Parted, QueuedOnce
  <2> QED
    BY <1>1, <2>2, <2>6, <2>7, <2>8, TakeServed
<1> QED
  BY <1>2, <1>3

\* ... the oldest of another's, ...
LEMMA StealServed ==
  ASSUME IInv, Parted, NEW w \in Workers, UNCHANGED clientVars, Steal(w)
  PROVE  Served
<1>1. On(w, "loop", "steal") /\ UNCHANGED <<public, calls, throwing, held>>
  BY DEF Steal, clientVars
<1>2. PICK f \in TaskLoops : f = Top(w)
  BY <1>1, WorkerOnTop, KindOf
<1>3. PICK v \in Workers :
        \/ deque[v] # <<>> /\ Run(w, Head(deque[v])) /\ deque' = [deque EXCEPT ![v] = Tail(@)]
        \/ deque[v] = <<>> /\ deque' = deque /\ stack' = Instead(w, [Top(w) EXCEPT !.left = @ \ {v}])
  BY <1>2 DEF Steal, TaskLoops
<1>4. CASE deque[v] = <<>> /\ deque' = deque /\ stack' = Instead(w, [Top(w) EXCEPT !.left = @ \ {v}])
  <2>1. PICK g : g = [f EXCEPT !.left = @ \ {v}]
    OBVIOUS
  <2>2. g.kind = "loop" /\ stack' = [stack EXCEPT ![w] = Put(stack[w], g)]
    BY <1>2, <1>4, <2>1 DEF TaskLoops, Instead, Put
  <2> QED
    BY <1>1, <1>4, <2>2, PlainPut DEF WorkSame
<1>5. CASE deque[v] # <<>> /\ Run(w, Head(deque[v])) /\ deque' = [deque EXCEPT ![v] = Tail(@)]
  <2>1. PICK s, r, t : s = deque[v] /\ r = Tail(s) /\ t = Head(s)
    OBVIOUS
  <2>2. Run(w, t) /\ deque' = [deque EXCEPT ![v] = r]
    BY <1>5, <2>1
  <2>3. s \in Seq(Tasks) /\ s # <<>> /\ IsInjective(s) /\ deque \in [Workers -> Seq(Tasks)]
    BY <1>5, <2>1, IInvParts DEF Types, Parted, QueuedOnce
  <2>4. IsInjective(r) /\ t \in ToSet(s) /\ ToSet(r) = ToSet(s) \ {t}
    BY <2>1, <2>3, SetOfTail
  <2>5. deque'[v] = r /\ \A u \in Workers : u # v => deque'[u] = deque[u]
    BY <2>2, <2>3
  <2>6. t \in Queues[v] /\ Queues'[v] = Queues[v] \ {t}
    BY <2>1, <2>4, <2>5, DoingAt, DoingAtNext
  <2>7. v \in Threads /\ \A z \in Threads : z # v => Queues'[z] = Queues[z]
    BY <1>1, <2>5, DoingAt, DoingAtNext DEF Threads
  <2>8. QueuedOnce'
    BY <1>1, <2>4, <2>5 DEF Parted, QueuedOnce
  <2> QED
    BY <1>1, <2>2, <2>6, <2>7, <2>8, TakeServed
<1> QED
  BY <1>3, <1>4, <1>5

\* ... or the first of the public queue.
LEMMA TakePublicServed ==
  ASSUME IInv, Parted, NEW w \in Workers, UNCHANGED clientVars, TakePublic(w)
  PROVE  Served
<1>1. /\ On(w, "loop", "steal") /\ UNCHANGED <<deque, calls, throwing, held>> /\ ~IsEmpty(public)
  BY DEF TakePublic, Looks, clientVars
<1>2. PICK q, r, t : q = public /\ r = Dequeue(q) /\ t = First(q)
  OBVIOUS
<1>3. Run(w, t) /\ public' = r
  BY <1>2 DEF TakePublic
<1>4. IsQueue(q) /\ ~IsEmpty(q) /\ OnceInside(q)
  BY <1>1, <1>2, IInvParts DEF Types, Parted, QueuedOnce
<1>5. t \in Inside(q) /\ Inside(r) = Inside(q) \ {t} /\ OnceInside(r)
  BY <1>2, <1>4, InsideDequeue
<1>6. t \in Queues[Main] /\ Queues'[Main] = Queues[Main] \ {t}
  BY <1>2, <1>3, <1>5, DoingAt, DoingAtNext
<1>7. Main \in Threads /\ \A z \in Threads : z # Main => Queues'[z] = Queues[z]
  BY <1>1, DoingAt, DoingAtNext DEF Threads
<1>8. QueuedOnce'
  BY <1>1, <1>3, <1>5 DEF Parted, QueuedOnce
<1> QED
  BY <1>1, <1>3, <1>6, <1>7, <1>8, TakeServed
--------------------------------------------------------------------------------
\* The call that splits gives away the upper part of its range, as a task that was in no queue.
LEMMA ForkRange ==
  ASSUME IInv, Parted, NEW th \in Threads, Fork(th), NEW f, f = Top(th), NEW t, t = <<Middle(f), f.hi>>,
         NEW g, g = FirstPart(th, f, Middle(f), NumThreads(th, f))
  PROVE  /\ On(th, "call", "split") /\ t \in Tasks /\ g.kind = "call" /\ g.at = "left" /\ g.sub = t
         /\ held' = held \cup {t} /\ stack[th] # <<>> /\ WellStacked(th, stack[th])
         /\ Doing[th] = Begun(g) \cup Span(t) /\ Begun(g) \cap Span(t) = {} /\ Span(t) # {}
         /\ \A o \in Threads : t \notin Queues[o]
<1>1. /\ t \in Tasks /\ f \in SplitCalls /\ On(th, "call", "split")
      /\ g \in SplitCalls /\ g.kind = "call" /\ g.at = "left" /\ g.sub = t /\ Extent(g) = Extent(f)
      /\ held' = held \cup {t}
  BY ForkFacts
<1>2. /\ stack[th] # <<>> /\ Head(stack[th]) = f /\ f.kind = "call" /\ f.at = "split" /\ WellStacked(th, stack[th])
  BY <1>1, CallTop
<1>3. /\ f.lo \in Nat /\ f.hi \in Nat /\ g.lo \in Nat /\ g.hi \in Nat /\ g.lo < g.hi /\ t[1] = g.hi
  BY <1>1, <1>2, PoolAssumption DEF SplitCalls, AnyCalls, SoundCall
<1>4. g.lo = f.lo /\ t[2] = f.hi
  BY <1>1, <1>2 DEF Extent
<1>5. t[1] < t[2]
  BY <1>1, TaskRange
<1>6. Begun(f) = f.lo..f.hi - 1 /\ Begun(g) = g.lo..g.hi - 1 /\ Span(t) = g.hi..f.hi - 1
  BY <1>1, <1>2, <1>3, <1>4 DEF Begun, Span
<1>7. PICK a, b, c \in Nat : a = f.lo /\ b = g.hi /\ c = f.hi /\ a < b /\ b < c
  BY <1>3, <1>4, <1>5
<1>8. a..c - 1 = (a..b - 1) \cup (b..c - 1) /\ (a..b - 1) \cap (b..c - 1) = {} /\ b \in b..c - 1
  BY <1>7
<1>9. Begun(f) = Begun(g) \cup Span(t) /\ Begun(g) \cap Span(t) = {} /\ Span(t) # {}
  BY <1>4, <1>6, <1>7, <1>8
<1>10. Doing[th] = Begun(f)
  BY <1>2, DoingAt DEF DoingOf
<1>11. \A o \in Threads : t \notin Queues[o]
  BY <1>9, <1>10 DEF Parted, Apart
<1> QED
  BY <1>1, <1>2, <1>9, <1>10, <1>11

\* A fork moves that part into a queue.
LEMMA ForkMoved ==
  ASSUME IInv, Parted, NEW th \in Threads, Fork(th), NEW f, f = Top(th), NEW t, t = <<Middle(f), f.hi>>,
         NEW g, g = FirstPart(th, f, Middle(f), NumThreads(th, f)), NEW o \in Threads,
         Doing'[th] = Begun(g), \A z \in Threads : z # th => Doing'[z] = Doing[z],
         Queues'[o] = Queues[o] \cup {t}, \A z \in Threads : z # o => Queues'[z] = Queues[z]
  PROVE  Apart(Doing', Queues') /\ Remaining(Doing', Queues') = Remaining(Doing, Queues)
<1>1. Doing[th] = Begun(g) \cup Span(t) /\ Begun(g) \cap Span(t) = {} /\ Span(t) # {}
  BY ForkRange
<1>2. PICK D, Q, D2, Q2 : D = Doing /\ Q = Queues /\ D2 = Doing' /\ Q2 = Queues'
  OBVIOUS
<1>3. Apart(D, Q) /\ Shared(D, Q, D2, Q2, th, o, t)
  BY <1>1, <1>2 DEF Parted, Shared
<1>4. Apart(D2, Q2) /\ Remaining(D2, Q2) = Remaining(D, Q)
  BY ONLY <1>3, th \in Threads, o \in Threads, SplitWork
<1> QED
  BY <1>2, <1>4

\* A worker forks into its own queue, ...
LEMMA ForkInsideServed ==
  ASSUME IInv, Parted, NEW w \in Workers, Fork(w)
  PROVE  Served
<1>0. w \in Threads /\ w # Main
  BY PoolNumbers
<1>1. PICK f, t, g : f = Top(w) /\ t = <<Middle(f), f.hi>> /\ g = FirstPart(w, f, Middle(f), NumThreads(w, f))
  OBVIOUS
<1>19. PICK h : h = [kind |-> "schedule", at |-> "check"]
  OBVIOUS
<1>2. h = [kind |-> "schedule", at |-> "check"] /\ h.kind = "schedule"
  BY <1>19
<1>20. PICK s, r, G : s = stack[w] /\ r = PutTwo(s, h, g) /\ G = {h, g}
  OBVIOUS
<1>3. s = stack[w] /\ r = PutTwo(s, h, g) /\ G = {h, g} /\ h \in G /\ g \in G
  BY <1>20
<1>4. /\ On(w, "call", "split") /\ t \in Tasks /\ g.kind = "call" /\ g.at = "left" /\ g.sub = t
      /\ held' = held \cup {t} /\ s # <<>> /\ WellStacked(w, s)
      /\ \A o \in Threads : t \notin Queues[o]
  BY <1>0, <1>1, <1>3, ForkRange
<1>5. /\ stack' = [stack EXCEPT ![w] = r] /\ deque' = [deque EXCEPT ![w] = Append(deque[w], t)]
      /\ UNCHANGED <<public, calls, throwing>>
  BY <1>0, <1>1, <1>2, <1>3 DEF Fork, ScheduleInside, PutTwo
<1>6. stack'[w] = r /\ \A o \in Threads : o # w => stack'[o] = stack[o]
  BY <1>0, <1>5, StackTo
<1>7. Kept(s, r, G) /\ (h.kind = "schedule" => DoingOf(r) = Begun(g))
  <2>1. s # <<>> /\ WellStacked(w, s) /\ r = PutTwo(s, h, g) /\ h \in G /\ g \in G
    BY <1>3, <1>4
  <2> QED
    BY ONLY <2>1, PushKept
<1>8. Doing'[w] = Begun(g) /\ \A z \in Threads : z # w => Doing'[z] = Doing[z]
  BY <1>0, <1>2, <1>6, <1>7, DoingAt, DoingAtNext
<1>9. PICK p, q : p = deque[w] /\ q = Append(p, t)
  OBVIOUS
<1>10. t \in Tasks /\ p \in Seq(Tasks) /\ IsInjective(p) /\ t \notin ToSet(p) /\ deque \in [Workers -> Seq(Tasks)]
  BY <1>0, <1>4, <1>9, DoingAt, IInvParts DEF Types, Parted, QueuedOnce
<1>11. IsInjective(q) /\ ToSet(q) = ToSet(p) \cup {t}
  <2>1. t \in Tasks /\ p \in Seq(Tasks) /\ IsInjective(p) /\ t \notin ToSet(p) /\ q = Append(p, t)
    BY <1>9, <1>10
  <2> QED
    BY ONLY <2>1, SetOfAppend
<1>12. deque'[w] = q /\ \A v \in Workers : v # w => deque'[v] = deque[v]
  BY <1>5, <1>9, <1>10
<1>13. Queues'[w] = Queues[w] \cup {t} /\ \A z \in Threads : z # w => Queues'[z] = Queues[z]
  <2>1. Queues'[w] = Queues[w] \cup {t}
    BY <1>9, <1>11, <1>12, DoingAt, DoingAtNext
  <2>2. ASSUME NEW z \in Threads, z # w PROVE Queues'[z] = Queues[z]
    BY <1>5, <1>12, <2>2, DoingAt, DoingAtNext DEF Threads
  <2> QED
    BY <2>1, <2>2
<1>14. QueuedOnce'
  BY <1>5, <1>11, <1>12 DEF Parted, QueuedOnce
<1>15. Apart(Doing', Queues') /\ Remaining(Doing', Queues') = Remaining(Doing, Queues)
  BY <1>0, <1>1, <1>8, <1>13, ForkMoved
<1>16. \A x \in G : Over(x, held') = {}
  BY <1>2, <1>3, <1>4 DEF Over
<1>17. HasReturned => HasReturned'
  BY <1>5, WorkerIdle
<1>18. held \subseteq held'
  BY <1>4
<1> QED
  BY <1>0, <1>3, <1>5, <1>6, <1>7, <1>14, <1>15, <1>16, <1>17, <1>18, MovedWork

\* ... another thread into the public one.
LEMMA ForkOutsideServed ==
  ASSUME IInv, Parted, Fork(Main)
  PROVE  Served
<1>0. Main \in Threads
  BY PoolNumbers
<1>1. PICK f, t, g : f = Top(Main) /\ t = <<Middle(f), f.hi>> /\ g = FirstPart(Main, f, Middle(f), NumThreads(Main, f))
  OBVIOUS
<1>3. PICK s, r, G : s = stack[Main] /\ r = Put(s, g) /\ G = {g} /\ g \in G
  OBVIOUS
<1>4. /\ On(Main, "call", "split") /\ t \in Tasks /\ g.kind = "call" /\ g.at = "left" /\ g.sub = t
      /\ held' = held \cup {t} /\ s # <<>> /\ WellStacked(Main, s)
      /\ \A o \in Threads : t \notin Queues[o]
  BY <1>0, <1>1, <1>3, ForkRange
<1>5. /\ stack' = [stack EXCEPT ![Main] = r] /\ public' = Enqueue(public, t, NoTask)
      /\ UNCHANGED <<deque, calls, throwing>>
  BY <1>1, <1>3 DEF Fork, ScheduleOutside, Instead, Put
<1>6. stack'[Main] = r /\ \A o \in Threads : o # Main => stack'[o] = stack[o]
  BY <1>0, <1>5, StackTo
<1>7. Kept(s, r, G) /\ (g.kind # "schedule" => DoingOf(r) = Begun(g))
  BY ONLY <1>3, <1>4, PutKept
<1>8. Doing'[Main] = Begun(g) /\ \A z \in Threads : z # Main => Doing'[z] = Doing[z]
  BY <1>0, <1>4, <1>6, <1>7, DoingAt, DoingAtNext
<1>9. PICK p, q : p = public /\ q = Enqueue(p, t, NoTask)
  OBVIOUS
<1>10. IsQueue(p) /\ OnceInside(p) /\ t \notin Inside(p)
  BY <1>0, <1>4, <1>9, DoingAt, IInvParts DEF Types, Parted, QueuedOnce
<1>11. Inside(q) = Inside(p) \cup {t} /\ OnceInside(q)
  BY ONLY <1>4, <1>9, <1>10, InsideEnqueue
<1>13. Queues'[Main] = Queues[Main] \cup {t} /\ \A z \in Threads : z # Main => Queues'[z] = Queues[z]
  <2>1. Queues'[Main] = Queues[Main] \cup {t}
    BY <1>5, <1>9, <1>11, DoingAt, DoingAtNext
  <2>2. ASSUME NEW z \in Threads, z # Main PROVE Queues'[z] = Queues[z]
    BY <1>5, <2>2, DoingAt, DoingAtNext DEF Threads
  <2> QED
    BY <2>1, <2>2
<1>14. QueuedOnce'
  BY <1>5, <1>9, <1>11 DEF Parted, QueuedOnce
<1>15. Apart(Doing', Queues') /\ Remaining(Doing', Queues') = Remaining(Doing, Queues)
  BY <1>0, <1>1, <1>8, <1>13, ForkMoved
<1>16. \A x \in G : Over(x, held') = {}
  BY <1>3, <1>4 DEF Over
<1>17. HasReturned => HasReturned'
  BY <1>0, <1>4, <1>5, CallBelow
<1>18. held \subseteq held'
  BY <1>4
<1> QED
  BY <1>0, <1>3, <1>5, <1>6, <1>7, <1>14, <1>15, <1>16, <1>17, <1>18, MovedWork
--------------------------------------------------------------------------------
(* The step that does work.                                                    *)

\* The elements of A up to the first one in T.
UpTo(A, T) == {e \in A : \A x \in T \cap A : e <= x}

\* The calls for the elements up to the first that throws are all, or one of them has thrown.
LEMMA UpToTheFirst ==
  ASSUME NEW A, A \subseteq Nat, NEW T, NEW S, S = UpTo(A, T)
  PROVE  S \subseteq A /\ (S # A => S \cap T # {})
<1>0. S = {e \in A : \A x \in T \cap A : e <= x}
  BY DEF UpTo
<1> SUFFICES ASSUME S # A PROVE S \cap T # {}
  BY <1>0
<1>1. T \cap A # {} /\ T \cap A \subseteq Nat
  BY <1>0
<1>2. PICK x \in T \cap A : \A y \in T \cap A : x <= y
  BY <1>1, Least
<1> QED
  BY <1>0, <1>2

\* The function is called for the elements of S.
CalledFor(S) == calls' = [e \in 0..Elements - 1 |-> IF e \in S THEN calls[e] + 1 ELSE calls[e]]

\* A call that does not split calls the function for its range, or up to the first that throws.
LEMMA InlineWork ==
  ASSUME IInv, Parted, NEW th \in Threads, RunInline(th), NEW f, f = Top(th), NEW A, A = f.lo..f.hi - 1,
         NEW S, S = UpTo(A, throwing)
  PROVE  /\ On(th, "call", "split") /\ (\E thrown, out : Return(th, thrown, out))
         /\ CalledFor(S)
         /\ UNCHANGED <<deque, public, held, throwing>> /\ Counted'
         /\ Doing[th] = A /\ A # {} /\ Span(Extent(f)) = A /\ S \subseteq A
         /\ S # A => S \cap throwing # {}
<1>1. On(th, "call", "split") /\ (\E thrown, out : Return(th, thrown, out))
  BY DEF RunInline
<1>2. /\ stack[th] # <<>> /\ Head(stack[th]) = f /\ f.kind = "call" /\ f.at = "split" /\ f.lo \in Nat /\ f.hi \in Nat
      /\ f.lo < f.hi
  BY <1>1, CallTop, PoolAssumption DEF AnyCalls, SoundCall
<1>3. DOMAIN calls = 0..Elements - 1 /\ calls \in [0..Elements - 1 -> Nat]
  BY DEF Parted, Counted
<1>4. CalledFor(S)
  BY <1>3 DEF RunInline, UpTo, CalledFor
<1>5. UNCHANGED <<deque, public, held, throwing>>
  BY DEF RunInline
<1>6. Counted'
  <2>1. calls' \in [0..Elements - 1 -> Nat]
    BY <1>3, <1>4 DEF CalledFor
  <2> QED
    BY <1>5, <2>1 DEF Counted, Parted
<1>7. Doing[th] = A
  BY <1>2, DoingAt DEF DoingOf, Begun
<1>8. A # {} /\ Span(Extent(f)) = A /\ A \subseteq Nat
  <2>1. f.lo \in A /\ A \subseteq Nat
    BY <1>2
  <2>2. Extent(f) = <<f.lo, f.hi>>
    BY <1>2 DEF Extent
  <2> QED
    BY <2>1, <2>2 DEF Span
<1>9. S \subseteq A /\ (S # A => S \cap throwing # {})
  BY <1>8, UpToTheFirst
<1> QED
  BY <1>1, <1>4, <1>5, <1>6, <1>7, <1>8, <1>9

\* It is the only step that makes the work less, and the calls are for that work.
LEMMA InlineServed ==
  ASSUME IInv, Parted, NEW th \in Threads, RunInline(th)
  PROVE  Served
<1>1. PICK f, A, s, below : f = Top(th) /\ A = f.lo..f.hi - 1 /\ s = stack[th] /\ below = s[2]
  OBVIOUS
<1>2. PICK S : S = UpTo(A, throwing)
  OBVIOUS
<1>3. /\ On(th, "call", "split") /\ (\E thrown, out : Return(th, thrown, out))
      /\ CalledFor(S)
      /\ UNCHANGED <<deque, public, held, throwing>> /\ Counted'
      /\ Doing[th] = A /\ A # {} /\ Span(Extent(f)) = A /\ S \subseteq A
      /\ S # A => S \cap throwing # {}
  <2>1. f = Top(th) /\ A = f.lo..f.hi - 1 /\ S = UpTo(A, throwing)
    BY <1>1, <1>2
  <2>2. On(th, "call", "split") /\ (\E thrown, out : Return(th, thrown, out))
    BY ONLY IInv, Parted, th \in Threads, RunInline(th), <2>1, InlineWork
  <2>3. CalledFor(S) /\ Counted' /\ UNCHANGED <<deque, public, held, throwing>>
    BY ONLY IInv, Parted, th \in Threads, RunInline(th), <2>1, InlineWork
  <2>4. Doing[th] = A /\ A # {}
    BY ONLY IInv, Parted, th \in Threads, RunInline(th), <2>1, InlineWork
  <2>5. Span(Extent(f)) = A
    BY ONLY IInv, Parted, th \in Threads, RunInline(th), <2>1, InlineWork
  <2>6. S \subseteq A
    BY ONLY IInv, Parted, th \in Threads, RunInline(th), <2>1, InlineWork
  <2>7. S # A => S \cap throwing # {}
    BY ONLY IInv, Parted, th \in Threads, RunInline(th), <2>1, InlineWork
  <2> QED
    BY <2>2, <2>3, <2>4, <2>5, <2>6, <2>7
<1>4. /\ s # <<>> /\ Head(s) = f /\ f.kind = "call" /\ Over(below, held) \cap Busy = {}
      /\ Above(f, below) /\ WellStacked(th, s)
  BY <1>1, <1>3, CallBelow, CallTop
<1>5. PICK g : Returning(f, below, g) /\ stack' = [stack EXCEPT ![th] = Back(s, g)]
  <2>1. PICK thrown, out : Return(th, thrown, out)
    BY <1>3
  <2> QED
    BY <1>1, <1>3, <2>1, ReturnTo
<1>6. PICK B, H : B = Busy \ A /\ H = held
  OBVIOUS
<1>7. Over(below, H) \cap B = {} /\ Span(Extent(f)) \cap B = {}
  BY <1>3, <1>4, <1>6
<1>8. Over(g, H) \cap B = {} /\ Begun(g) = {} /\ g.kind # "schedule"
  <2>1. f.kind = "call" /\ Above(f, below) /\ Returning(f, below, g)
    BY <1>4, <1>5
  <2> QED
    BY ONLY <1>7, <2>1, ReturnOver
<1>9. PICK r, G : r = Back(s, g) /\ G = {g} /\ g \in G
  OBVIOUS
<1>10. Kept(s, r, G) /\ (g.kind # "schedule" => DoingOf(r) = Begun(g))
  BY ONLY <1>4, <1>9, BackKept
<1>11. stack'[th] = r /\ \A o \in Threads : o # th => stack'[o] = stack[o]
  BY <1>5, <1>9, StackTo
<1>12. Doing'[th] = {} /\ (\A z \in Threads : z # th => Doing'[z] = Doing[z]) /\ Queues' = Queues
  <2>1. Queues' = Queues
    BY <1>3 DEF Queues
  <2> QED
    BY <1>8, <1>10, <1>11, <2>1, DoingAt, DoingAtNext
<1>13. PICK D, Q, D2 : D = Doing /\ Q = Queues /\ D2 = Doing'
  OBVIOUS
<1>14. Apart(D, Q) /\ Finishes(D, Q, D2, th)
  BY <1>12, <1>13 DEF Parted, Finishes
<1>15. Apart(D2, Q) /\ Remaining(D2, Q) = Remaining(D, Q) \ D[th] /\ D[th] \subseteq Remaining(D, Q)
  BY ONLY <1>14, th \in Threads, EndWork
<1>16. Apart(Doing, Queues)' /\ Busy' = B /\ A \subseteq Busy
  BY <1>3, <1>6, <1>12, <1>13, <1>15 DEF Apart, Busy, Remaining
<1>17. QueuedOnce'
  BY <1>3 DEF Parted, QueuedOnce
<1>18. \A o \in Threads : Kept(stack[o], stack'[o], G)
  BY <1>1, <1>10, <1>11, AllKept
<1>19. Parted'
  <2>1. \A x \in G : Over(x, held') \cap Busy' = {}
    BY <1>3, <1>6, <1>8, <1>9, <1>16
  <2>2. Busy' \subseteq Busy /\ \A t \in held : t \in held' \/ Span(t) \cap Busy' = {}
    BY <1>3, <1>6, <1>16
  <2> QED
    BY <1>3, <1>16, <1>17, <1>18, <2>1, <2>2, PartedStep
<1>20. HasReturned => HasReturned'
  BY <1>3, <1>5, CallBelow
<1>21. Busy \ Busy' = A /\ Busy' # Busy /\ Busy' \subseteq Busy
  BY <1>3, <1>6, <1>16
<1>22. S \in SUBSET (Busy \ Busy') /\ (S # Busy \ Busy' => S \cap throwing # {})
  BY <1>3, <1>21
<1>23. \E X \in SUBSET (Busy \ Busy') :
         /\ calls' = [e \in 0..Elements - 1 |-> IF e \in X THEN calls[e] + 1 ELSE calls[e]]
         /\ X # Busy \ Busy' => X \cap throwing # {}
  BY <1>3, <1>22 DEF CalledFor
<1> QED
  BY <1>3, <1>19, <1>20, <1>21, <1>23 DEF Served
--------------------------------------------------------------------------------
(* All steps, and the refinement.                                              *)

\* A stuttering step serves.
LEMMA StandStill ==
  ASSUME Parted, UNCHANGED vars
  PROVE  Served
<1>1. UNCHANGED <<stack, deque, public, calls, throwing, held>>
  BY DEF vars, poolVars, clientVars
<1>2. PICK G : G = {}
  OBVIOUS
<1>3. \A o \in Threads : Kept(stack[o], stack'[o], G)
  BY <1>1 DEF Kept
<1>4. HasReturned => HasReturned'
  BY <1>1 DEF HasReturned, On, Top
<1> QED
  BY <1>1, <1>2, <1>3, <1>4, IdleSteps

\* All steps of a thread in the pool, ...
LEMMA PoolServed ==
  ASSUME IInv, Parted, NEW w \in Workers, PoolStep(w)
  PROVE  Served
<1>1. UNCHANGED clientVars /\ WorkerStep(w) /\ ~On(w, "task", "store")
  BY DEF PoolStep
<1>2. CASE AssignHandle(w) \/ EnterLoop(w) \/ Test(w) \/ ExitLoop(w) \/ Sleep(w) \/ Wake(w) \/ Relock(w)
           \/ CheckWaiters(w) \/ WakeForTask(w)
  BY <1>1, <1>2, PlainSteps
<1>3. CASE StartThread(w)
  BY <1>1, <1>3, StartServed
<1>4. CASE PopOwn(w)
  BY <1>1, <1>4, PopOwnServed
<1>5. CASE Steal(w)
  BY <1>1, <1>5, StealServed
<1>6. CASE TakePublic(w)
  BY <1>1, <1>6, TakePublicServed
<1>7. CASE TellWaiter(w)
  BY <1>1, <1>7, TellServed
<1>8. CASE ReleaseTask(w)
  BY <1>1, <1>8, ReleaseServed
<1>9. ~StoreState(w)
  BY <1>1 DEF StoreState
<1> QED
  BY <1>1, <1>2, <1>3, <1>4, <1>5, <1>6, <1>7, <1>8, <1>9 DEF WorkerStep

\* ... all steps of a call, ...
LEMMA CallServed ==
  ASSUME IInv, Parted, NEW th \in Threads, CallStep(th)
  PROVE  Served
<1>1. CASE RunInline(th)
  BY <1>1, InlineServed
<1>2. CASE Fork(th)
  <2>1. th = Main \/ th \in Workers
    BY DEF Threads
  <2> QED
    BY <1>2, <2>1, ForkInsideServed, ForkOutsideServed
<1>3. CASE Descend(th)
  BY <1>3, DescendServed
<1>4. CASE Get(th)
  BY <1>4, GetServed
<1>5. CASE Read(th)
  BY <1>5, ReadServed
<1>6. CASE WaitAgain(th)
  BY <1>6, WaitAgainServed
<1>7. CASE Join(th)
  BY <1>7, JoinServed
<1> QED
  BY <1>1, <1>2, <1>3, <1>4, <1>5, <1>6, <1>7 DEF CallStep

\* ... and all steps serve.
LEMMA EveryStepServes ==
  ASSUME IInv, Parted, [Next]_vars
  PROVE  Served
<1>1. ASSUME NEW w \in Workers, Worker(w) PROVE Served
  <2>1. w \in Threads
    BY PoolNumbers
  <2>2. CASE PoolStep(w)
    BY <2>2, PoolServed
  <2>3. CASE StoreResult(w)
    BY <2>3, StoreServed
  <2>4. CASE EnterTask(w)
    BY <2>4, EnterServed
  <2>5. CASE CallStep(w)
    BY <2>1, <2>5, CallServed
  <2> QED
    BY <1>1, <2>2, <2>3, <2>4, <2>5 DEF Worker
<1>2. ASSUME MainThread PROVE Served
  <2>1. Main \in Threads
    BY PoolNumbers
  <2>2. CASE BeginCall
    BY <2>2, BeginServed
  <2>3. CASE CallStep(Main)
    BY <2>1, <2>3, CallServed
  <2>4. CASE WakeMain
    BY <2>4, WakeMainServed
  <2>5. CASE Shutdown /\ UNCHANGED clientVars
    BY <2>5, ShutdownServed
  <2>6. CASE JoinThread /\ UNCHANGED clientVars
    BY <2>6, JoinThreadServed
  <2> QED
    BY <1>2, <2>2, <2>3, <2>4, <2>5, <2>6 DEF MainThread
<1>3. CASE UNCHANGED vars
  BY <1>3, StandStill
<1> QED
  BY <1>1, <1>2, <1>3 DEF Next
--------------------------------------------------------------------------------
\* The invariant of the refinement.
Within == Parted /\ Busy \subseteq 0..Elements - 1

\* At first the client has all the work.
LEMMA AllToDo ==
  ASSUME Init
  PROVE  Within /\ Busy = 0..Elements - 1 /\ ~HasReturned
<1>1. /\ stack = [th \in Threads |-> IF th = 0 THEN <<Start(size)>> ELSE IF th = Main THEN <<Client>> ELSE <<>>]
      /\ deque = [w \in Workers |-> <<>>] /\ public = NewQueue(FirstSize, NoTask) /\ held = {}
      /\ calls = [e \in 0..Elements - 1 |-> 0]
  BY DEF Init, InitPool
<1>2. Main \in Threads /\ Main # 0 /\ 0 \in Workers /\ \A w \in Workers : w \in Threads /\ w # Main
  BY PoolNumbers, PoolAssumption DEF Workers
<1>3. Client.kind = "client" /\ Client.at = "start"
  BY DEF Client
<1>4. Start(size).kind = "start"
  BY DEF Start
<1>5. stack[Main] = <<Client>> /\ \A th \in Threads : th # Main => stack[th] = <<>> \/ stack[th] = <<Start(size)>>
  BY <1>1, <1>2
<1>6. Doing[Main] = 0..Elements - 1
  BY <1>2, <1>3, <1>5, DoingAt DEF DoingOf, Begun
<1>7. DoingOf(<<>>) = {} /\ DoingOf(<<Start(size)>>) = {}
  BY <1>4 DEF DoingOf, Begun
<1>8. \A th \in Threads : th # Main => Doing[th] = {}
  BY <1>5, <1>7, DoingAt
<1>9. \A th \in Threads : Queues[th] = {}
  <2>1. Queues[Main] = {}
    BY <1>1, DoingAt, InsideNew
  <2>2. ToSet(<<>>) = {}
    BY DEF ToSet
  <2>3. \A w \in Workers : deque[w] = <<>>
    BY <1>1
  <2>4. \A w \in Workers : Queues[w] = ToSet(deque[w])
    BY DoingAt
  <2>5. \A w \in Workers : Queues[w] = {}
    BY <2>2, <2>3, <2>4
  <2> QED
    BY <2>1, <2>5 DEF Threads
<1>10. Apart(Doing, Queues)
  BY <1>8, <1>9 DEF Apart
<1>11. Busy = 0..Elements - 1
  <2>1. \A e : e \in Busy <=> (\E th \in Threads : e \in Doing[th]) \/ \E th \in Threads : \E t \in Queues[th] : e \in Span(t)
    BY DEF Busy, Remaining
  <2>2. \A e : e \in Busy <=> e \in Doing[Main]
    BY <1>2, <1>8, <1>9, <2>1
  <2> QED
    BY <1>6, <2>2
<1>12. Settled
  <2> SUFFICES ASSUME NEW th \in Threads, NEW i \in 1..Len(stack[th]) PROVE Over(stack[th][i], held) = {}
    BY DEF Settled
  <2>1. stack[th] = <<Client>> \/ stack[th] = <<Start(size)>>
    <3>1. stack[th] # <<>>
      OBVIOUS
    <3> QED
      BY <1>5, <3>1
  <2>2. stack[th][i] = Client \/ stack[th][i] = Start(size)
    BY <2>1
  <2> QED
    BY <1>3, <1>4, <2>2 DEF Over
<1>13. QueuedOnce
  BY <1>1, InsideNew DEF QueuedOnce, IsInjective
<1>14. Counted
  BY <1>1, RangeAssumption DEF Init, Counted
<1>15. ~HasReturned
  BY <1>3, <1>5 DEF HasReturned, On, Top
<1> QED
  BY <1>10, <1>11, <1>12, <1>13, <1>14, <1>15 DEF Within, Parted

\* The invariant is kept.
LEMMA WithinKept ==
  ASSUME IInv, Within, [Next]_vars
  PROVE  Within'
<1>1. Served
  BY EveryStepServes DEF Within
<1> QED
  BY <1>1 DEF Served, Within

\* When parallel_for has returned nobody has work left.
LEMMA NothingLeft ==
  ASSUME IInv, Within, HasReturned
  PROVE  Busy = {}
<1>1. PICK a \in {"returned", "joining", "over", "terminated"} : On(Main, "client", a)
  BY DEF HasReturned
<1>2. /\ Main \in Threads /\ stack[Main] # <<>> /\ Head(stack[Main]) = Top(Main) /\ Top(Main).kind = "client"
      /\ Top(Main).at = a
  BY <1>1, ClientTop
<1>3. Over(Top(Main), held) = 0..Elements - 1
  BY <1>2 DEF Over
<1> QED
  BY <1>2, <1>3, TopSettled DEF Within

\* Of a stack only the top has work, or the call it schedules for.
LEMMA OnlyTheTop ==
  ASSUME NEW th, NEW s, WellStacked(th, s)
  PROVE  DoingOf(s) = UNION {Begun(s[i]) : i \in 1..Len(s)}
<1>1. Len(s) \in Nat /\ \A i \in 1..Len(s) - 1 : Above(s[i], s[i + 1]) /\ ~Base(th, s[i])
  BY DEF WellStacked
<1>2. ASSUME NEW i \in 1..Len(s), i >= 2
      PROVE  Begun(s[i]) = {} \/ (i = 2 /\ s[1].kind = "schedule")
  <2>1. i - 1 \in 1..Len(s) - 1 /\ (i - 1) + 1 = i
    BY <1>1, <1>2
  <2>2. Above(s[i - 1], s[i])
    BY <1>1, <2>1
  <2>3. Begun(s[i]) = {} \/ s[i - 1].kind = "schedule"
    BY <2>2 DEF Above, Begun
  <2>4. CASE i = 2
    BY <2>3, <2>4
  <2>5. CASE i # 2
    <3>1. i - 2 \in 1..Len(s) - 1 /\ (i - 2) + 1 = i - 1
      BY <1>1, <1>2, <2>5
    <3>2. Above(s[i - 2], s[i - 1])
      BY <1>1, <3>1
    <3>3. s[i - 1].kind # "schedule"
      BY <3>2 DEF Above
    <3> QED
      BY <2>3, <3>3
  <2> QED
    BY <2>4, <2>5
<1>3. CASE s = <<>>
  BY <1>3 DEF DoingOf
<1>4. CASE s # <<>>
  <2>1. Head(s) = s[1] /\ 1 \in 1..Len(s) /\ (~Base(th, s[1]) => 2 \in 1..Len(s))
    BY <1>1, <1>4, NotAlone
  <2>2. CASE s[1].kind = "schedule"
    <3>1. 2 \in 1..Len(s) /\ Begun(s[1]) = {}
      BY <2>1, <2>2 DEF Base, Begun
    <3>2. \A i \in 1..Len(s) : i = 2 \/ Begun(s[i]) = {}
      <4>1. \A i \in 1..Len(s) : i = 1 \/ i >= 2
        BY <1>1
      <4> QED
        BY <1>2, <3>1, <4>1
    <3>3. DoingOf(s) = Begun(s[2])
      BY <1>4, <2>1, <2>2 DEF DoingOf
    <3> QED
      BY <3>1, <3>2, <3>3
  <2>3. CASE s[1].kind # "schedule"
    <3>1. \A i \in 1..Len(s) : i = 1 \/ Begun(s[i]) = {}
      BY <1>1, <1>2, <2>3
    <3>2. DoingOf(s) = Begun(s[1])
      BY <1>4, <2>1, <2>3 DEF DoingOf
    <3> QED
      BY <2>1, <3>1, <3>2
  <2> QED
    BY <2>2, <2>3
<1> QED
  BY <1>3, <1>4

\* The work of the threads and of the queues is what the refinement mapping looks at, ...
LEMMA BusyIs == IInv => Busy = StillBusy
<1> SUFFICES ASSUME IInv PROVE Busy = StillBusy
  OBVIOUS
<1>1. \A th \in Threads : DOMAIN stack[th] = 1..Len(stack[th]) /\ WellStacked(th, stack[th])
  BY IInvParts
<1>2. \A th \in Threads : Doing[th] = UNION {Begun(stack[th][i]) : i \in 1..Len(stack[th])}
  BY <1>1, OnlyTheTop, DoingAt
<1>3. \A e : (\E f \in UNION {Frames(th) : th \in Threads} : e \in Begun(f)) <=> \E th \in Threads : e \in Doing[th]
  BY <1>1, <1>2 DEF Frames
<1>4. Queues[Main] = ToSet(Queued(public)) /\ \A w \in Workers : Queues[w] = ToSet(deque[w])
  BY DoingAt, IInvParts, QueuedInside DEF Types
<1>5. \A t : t \in Enqueued <=> \E th \in Threads : t \in Queues[th]
  BY <1>4 DEF Enqueued, Threads
<1>6. \A e : e \in StillBusy <=> (\E th \in Threads : e \in Doing[th]) \/ \E t \in Enqueued : e \in Span(t)
  BY <1>3 DEF StillBusy, Span
<1>7. \A e : e \in Busy <=> (\E th \in Threads : e \in Doing[th]) \/ \E th \in Threads : \E t \in Queues[th] : e \in Span(t)
  BY DEF Busy, Remaining
<1> QED
  BY <1>5, <1>6, <1>7

\* ... also after a step.
LEMMA BusyIsNext == IInv' => (Busy = StillBusy)'
BY BusyIs, PTL

\* The same as an implication, ...
LEMMA ReturnedEmpty == IInv /\ Within /\ HasReturned => Busy = {}
BY NothingLeft

\* ... and after a step.
LEMMA NothingLeftNext == IInv' /\ Within' /\ HasReturned' => (Busy = {})'
BY ReturnedEmpty, PTL

\* A step serves by a step of ForEach, or by a stutter.
LEMMA StepOfForEach ==
  ASSUME IInv, Within, IInv', Within', [Next]_vars
  PROVE  [Loops!Call]_<<throwing, calls, StillBusy, HasReturned>>
<1>1. Served
  BY EveryStepServes DEF Within
<1>2. Busy = StillBusy /\ Busy' = StillBusy'
  BY BusyIs, BusyIsNext
<1>3. PICK B, C, r, q : B = StillBusy /\ C = StillBusy' /\ r = HasReturned /\ q = HasReturned'
  OBVIOUS
<1>4. HasReturned \in BOOLEAN /\ HasReturned' \in BOOLEAN
  BY DEF HasReturned
<1>5. CASE HasReturned
  <2>1. HasReturned' /\ StillBusy = {} /\ StillBusy' = {} /\ throwing' = throwing
    BY <1>1, <1>2, <1>5, NothingLeft, NothingLeftNext DEF Served
  <2>2. calls' = calls
    BY <1>1, <1>2, <2>1 DEF Served
  <2>3. HasReturned' = HasReturned
    BY <1>4, <1>5, <2>1
  <2> QED
    BY <2>1, <2>2, <2>3
<1>6. CASE ~HasReturned
  <2>1. HasReturned' => StillBusy' = {}
    BY <1>2, NothingLeftNext
  <2>2. StillBusy' \subseteq StillBusy /\ UNCHANGED throwing
    BY <1>1, <1>2 DEF Served
  <2>3. \E S \in SUBSET (StillBusy \ StillBusy') :
          /\ calls' = [e \in 0..Elements - 1 |-> IF e \in S THEN calls[e] + 1 ELSE calls[e]]
          /\ S # StillBusy \ StillBusy' => S \cap throwing # {}
    <3>1. CASE Busy' = Busy /\ calls' = calls
      <4>1. PICK S : S = {}
        OBVIOUS
      <4>2. calls = [e \in 0..Elements - 1 |-> IF e \in S THEN calls[e] + 1 ELSE calls[e]]
        BY <4>1 DEF Within, Parted, Counted
      <4>3. S \in SUBSET (StillBusy \ StillBusy') /\ S = StillBusy \ StillBusy'
        BY <1>2, <3>1, <4>1
      <4> QED
        BY <3>1, <4>2, <4>3
    <3>2. CASE Busy' # Busy
      BY <1>1, <1>2, <3>2 DEF Served
    <3> QED
      BY <1>1, <3>1, <3>2 DEF Served
  <2>4. Loops!Call
    BY <1>4, <1>6, <2>1, <2>2, <2>3 DEF Loops!Call, Loops!All
  <2> QED
    BY <2>4
<1> QED
  BY <1>5, <1>6

\* Whoever steals, sleeps or throws, and in whatever order the parts are done, parallel_for calls
\* the function once for each element, gives elements up only for a call that throws, and returns
\* when nobody has any part of the range left (ImplementsForEach).
THEOREM LoopsImplemented == Spec => ImplementsForEach
<1>1. Init => Loops!Init
  <2> SUFFICES ASSUME Init PROVE Loops!Init
    OBVIOUS
  <2>1. IInv /\ Busy = 0..Elements - 1 /\ ~HasReturned /\ Within
    BY Initially, AllToDo
  <2>2. StillBusy = 0..Elements - 1
    BY <2>1, BusyIs
  <2>3. HasReturned = FALSE
    BY <2>1 DEF HasReturned
  <2>4. throwing \subseteq 0..Elements - 1
    BY <2>1 DEF Within, Parted, Counted
  <2>5. calls = [e \in 0..Elements - 1 |-> 0]
    BY DEF Init
  <2> QED
    BY <2>2, <2>3, <2>4, <2>5 DEF Loops!Init, Loops!All
<1>2. Init => IInv /\ Within
  BY Initially, AllToDo
<1>3. IInv /\ Within /\ [Next]_vars => IInv' /\ Within'
  BY NextKeeps, WithinKept
<1>4. IInv /\ Within /\ IInv' /\ Within' /\ [Next]_vars
      => [Loops!Call]_<<throwing, calls, StillBusy, HasReturned>>
  BY StepOfForEach
<1> QED
  BY <1>1, <1>2, <1>3, <1>4, PTL DEF Spec, ImplementsForEach, Loops!Spec
================================================================================
