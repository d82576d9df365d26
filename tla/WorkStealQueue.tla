----------------------------- MODULE WorkStealQueue -----------------------------
(***************************************************************************)
(* The work-stealing queue of a pool thread (Chase and Lev), every access  *)
(* to top, bottom and the array a step. The fences of the code make these  *)
(* steps sequentially consistent where their order matters.                *)
(*                                                                         *)
(* top and bottom are size_t in the code and only grow but for the one     *)
(* that pop takes back: 2^64 pushes are out of reach and b - t is at least *)
(* -1, so to_signed is subtraction of integers here.                       *)
(***************************************************************************)
EXTENDS Integers, Sequences, FiniteSets

CONSTANTS
  Thieves,    \* the other threads of the pool
  FirstSize,  \* the size of the first array, 32 in the code
  MaxPushes   \* bound: how many tasks are pushed

ASSUME QueueAssumption == FirstSize \in Nat \ {0} /\ MaxPushes \in Nat

Tasks   == 1..MaxPushes
Nothing == 0

VARIABLES
  top, bottom,
  arrays,   \* all the circular arrays there have been, the last one in use
  pushed,   \* how many tasks were pushed; they are numbered in that order
  given,    \* the tasks that were returned to a caller or canceled
  pc,       \* where the owner is, and its local variables b, t and x
  b, t, x,
  thief     \* per thief: where it is, and its local variables t, b, a and x

owner == <<pc, b, t, x>>
vars  == <<top, bottom, arrays, pushed, given, owner, thief>>

Idle == [at |-> "idle", t |-> 0, b |-> 0, x |-> Nothing]

Init ==
  /\ top = 0 /\ bottom = 0
  /\ arrays = <<[i \in 0..FirstSize - 1 |-> Nothing]>>
  /\ pushed = 0 /\ given = {}
  /\ pc = "idle" /\ b = 0 /\ t = 0 /\ x = Nothing
  /\ thief = [w \in Thieves |-> Idle]

Size(a)   == Cardinality(DOMAIN a)
Get(a, i) == a[i % Size(a)]
Put(a, i, v) == [a EXCEPT ![i % Size(a)] = v]
Array     == arrays[Len(arrays)]

\* Faulty: the bigger array starts empty.
GrowEmpty(a, p, q) == [i \in 0..2 * Size(a) - 1 |-> Nothing]

\* A new array with the tasks from p to q - 1 of the old one, which stays for those
\* who still read it.
Grow(a, p, q) ==
  LET n == 2 * Size(a) IN
  [i \in 0..n - 1 |-> IF \E j \in p..q - 1 : j % n = i
                      THEN Get(a, CHOOSE j \in p..q - 1 : j % n = i) ELSE Nothing]

Goto(p)       == pc' = p
Step(w, p)    == thief' = [thief EXCEPT ![w].at = p]
Out(v)        == given' = given \cup {v}
--------------------------------------------------------------------------------
(* Faulty variants of steps below, each a slip the code could have had.          *)

\* pop reads top before its store to bottom is visible.
PopStoreBottomLate ==
  /\ pc = "pop" /\ bottom - top > 0
  /\ b' = bottom - 1 /\ t' = top
  /\ IF bottom - 1 = top THEN Goto("last") /\ x' = Get(Array, b') /\ UNCHANGED <<given, bottom>>
     ELSE Goto("idle") /\ Out(Get(Array, b')) /\ bottom' = b' /\ UNCHANGED x
  /\ UNCHANGED <<top, arrays, pushed, thief>>

\* steal takes a queue of one task for empty.
StealEmptyEarly(w) ==
  /\ thief[w].at = "bottom" /\ bottom - thief[w].t <= 1
  /\ thief' = [thief EXCEPT ![w] = Idle]
  /\ UNCHANGED <<top, bottom, arrays, pushed, given, owner>>
--------------------------------------------------------------------------------
(* The owner.                                                                  *)

\* push reads bottom and top; if the array looks full it is replaced.
Push ==
  /\ pc = "idle" /\ pushed < MaxPushes
  /\ pushed' = pushed + 1 /\ b' = bottom /\ t' = top /\ Goto("grow")
  /\ UNCHANGED <<top, bottom, arrays, given, x, thief>>

GrowArray ==
  /\ pc = "grow" /\ Goto("put")
  /\ arrays' = IF b - t >= Size(Array) THEN Append(arrays, Grow(Array, t, b)) ELSE arrays
  /\ UNCHANGED <<top, bottom, pushed, given, b, t, x, thief>>

PutTask ==
  /\ pc = "put" /\ Goto("publish")
  /\ arrays' = [arrays EXCEPT ![Len(arrays)] = Put(Array, b, pushed)]
  /\ UNCHANGED <<top, bottom, pushed, given, b, t, x, thief>>

\* The store of bottom publishes the task.
Publish ==
  /\ pc = "publish" /\ Goto("idle")
  /\ bottom' = b + 1
  /\ UNCHANGED <<top, arrays, pushed, given, b, t, x, thief>>

Pop ==
  /\ pc = "idle" /\ Goto("pop")
  /\ UNCHANGED <<top, bottom, arrays, pushed, given, b, t, x, thief>>

PopEmpty ==
  /\ pc = "pop" /\ bottom - top <= 0 /\ Goto("idle")
  /\ UNCHANGED <<top, bottom, arrays, pushed, given, b, t, x, thief>>

\* bottom is stored before top is read again.
PopStoreBottom ==
  /\ pc = "pop" /\ bottom - top > 0 /\ Goto("decide")
  /\ bottom' = bottom - 1 /\ b' = bottom - 1
  /\ UNCHANGED <<top, arrays, pushed, given, t, x, thief>>

\* More than one task: the last one is the owner's. One: thieves may want it too.
PopDecide ==
  /\ pc = "decide" /\ t' = top
  /\ \/ b < top /\ Goto("restore") /\ UNCHANGED <<given, x>>
     \/ b = top /\ Goto("last") /\ x' = Get(Array, b) /\ UNCHANGED given
     \/ b > top /\ Goto("idle") /\ Out(Get(Array, b)) /\ UNCHANGED x
  /\ UNCHANGED <<top, bottom, arrays, pushed, b, thief>>

PopWin ==
  /\ pc = "last" /\ top = t
  /\ top' = t + 1 /\ Out(x) /\ Goto("restore")
  /\ UNCHANGED <<bottom, arrays, pushed, b, t, x, thief>>

PopLose ==
  /\ pc = "last" /\ top # t /\ Goto("restore")
  /\ UNCHANGED <<top, bottom, arrays, pushed, given, b, t, x, thief>>

Restore ==
  /\ pc = "restore" /\ Goto("idle")
  /\ bottom' = b + 1
  /\ UNCHANGED <<top, arrays, pushed, given, b, t, x, thief>>

\* The destructor, when nobody uses the queue any more, cancels what is left.
Destroy ==
  /\ pc = "idle" /\ \A w \in Thieves : thief[w].at = "idle"
  /\ given' = given \cup {Get(Array, i) : i \in top..bottom - 1}
  /\ Goto("destroyed")
  /\ UNCHANGED <<top, bottom, arrays, pushed, b, t, x, thief>>
--------------------------------------------------------------------------------
(* A thief.                                                                    *)

Steal(w) ==
  /\ thief[w].at = "idle" /\ pc # "destroyed"
  /\ Step(w, "top") /\ UNCHANGED <<top, bottom, arrays, pushed, given, owner>>

ReadTop(w) ==
  /\ thief[w].at = "top"
  /\ thief' = [thief EXCEPT ![w].at = "bottom", ![w].t = top]
  /\ UNCHANGED <<top, bottom, arrays, pushed, given, owner>>

StealEmpty(w) ==
  /\ thief[w].at = "bottom" /\ bottom - thief[w].t <= 0
  /\ thief' = [thief EXCEPT ![w] = Idle]
  /\ UNCHANGED <<top, bottom, arrays, pushed, given, owner>>

ReadBottom(w) ==
  /\ thief[w].at = "bottom" /\ bottom - thief[w].t > 0
  /\ Step(w, "array")
  /\ UNCHANGED <<top, bottom, arrays, pushed, given, owner>>

ReadArray(w) ==
  /\ thief[w].at = "array"
  /\ thief' = [thief EXCEPT ![w].at = "item", ![w].b = Len(arrays)]
  /\ UNCHANGED <<top, bottom, arrays, pushed, given, owner>>

ReadItem(w) ==
  /\ thief[w].at = "item"
  /\ thief' = [thief EXCEPT ![w].at = "cas", ![w].x = Get(arrays[thief[w].b], thief[w].t)]
  /\ UNCHANGED <<top, bottom, arrays, pushed, given, owner>>

\* compare_exchange_weak: it fails if top has moved, and may fail if it has not.
StealCAS(w) ==
  /\ thief[w].at = "cas" /\ top = thief[w].t
  /\ top' = top + 1 /\ Out(thief[w].x) /\ thief' = [thief EXCEPT ![w] = Idle]
  /\ UNCHANGED <<bottom, arrays, pushed, owner>>

StealRetry(w) ==
  /\ thief[w].at = "cas" /\ Step(w, "top")
  /\ UNCHANGED <<top, bottom, arrays, pushed, given, owner>>

OwnerCall == Push \/ Pop \/ Destroy
OwnerStep ==
  \/ GrowArray \/ PutTask \/ Publish \/ PopEmpty \/ PopStoreBottom \/ PopDecide
  \/ PopWin \/ PopLose \/ Restore
ThiefStep(w) ==
  ReadTop(w) \/ StealEmpty(w) \/ ReadBottom(w) \/ ReadArray(w) \/ ReadItem(w) \/ StealCAS(w)

Next == OwnerCall \/ OwnerStep \/ \E w \in Thieves : Steal(w) \/ ThiefStep(w) \/ StealRetry(w)

Spec == Init /\ [][Next]_vars
--------------------------------------------------------------------------------
\* The index after the last task that nobody has taken yet: pop stores bottom
\* before it knows whether the task is its own.
End == IF pc \in {"decide", "last"} THEN bottom + 1 ELSE bottom
\* The items of an array from p to q - 1.
Slice(a, p, q) == [i \in 1..q - p |-> Get(a, p + i - 1)]
Contents == IF pc = "destroyed" THEN <<>> ELSE Slice(Array, top, End)

Deque == INSTANCE StealDeque WITH deque <- Contents

\* push, pop and steal act on one atomic double-ended queue: no task is lost or
\* given out twice, however pop, several steals and a growing array overlap.
ImplementsDeque == Deque!Spec

\* pop says that the queue is empty only when it is; steal only when it is, or when
\* the owner is about to take the last task.
EmptyHandedOnlyIfEmpty ==
  [][/\ pc \notin {"idle", "publish"} /\ pc' = "idle" /\ given' = given => Contents = <<>>
     /\ \A w \in Thieves : StealEmpty(w) =>
          Contents = <<>> \/ (pc \in {"decide", "last"} /\ Len(Contents) = 1)]_vars

\* Types; a thief never holds an index beyond the next one of the top.
TypeOK ==
  /\ top \in Nat /\ bottom \in Nat /\ pushed \in 0..MaxPushes /\ given \subseteq Tasks
  /\ top <= bottom + 1 /\ (pc = "idle" => top <= bottom)
  /\ pc \in {"idle", "grow", "put", "publish", "pop", "decide", "last", "restore", "destroyed"}
  /\ \A w \in Thieves : thief[w].t <= top
================================================================================
