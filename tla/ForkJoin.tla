--------------------------------- MODULE ForkJoin ---------------------------------
(***************************************************************************)
(* parallel_for, parallel_map_reduce and parallel_invoke on a thread pool. *)
(*                                                                         *)
(* They are the same recursion: a range is split, a local_task runs the    *)
(* second part, the call itself the first, and the local_task is joined.   *)
(* They differ in how they split, the client picks that. What the calls    *)
(* reduce is kept as the sequence of the elements they were made for.      *)
(***************************************************************************)
EXTENDS ThreadPool

CONSTANTS
  Elements,    \* how many elements the range has
  Grain,       \* the grain of the static partitioner
  Hardware,    \* hardware_concurrency()
  Plans        \* bound: the ways to split the client picks from, each with the
               \* elements the function throws for

ASSUME RangeAssumption ==
  /\ Elements \in Nat \ {0} /\ Grain \in Nat \ {0} /\ Hardware \in Nat \ {0}
  /\ \A p \in Plans : p[1] \in {"static", "auto", "invoke"} /\ p[2] \subseteq 0..Elements - 1
  /\ Tasks = {r \in (0..Elements) \X (0..Elements) : r[1] < r[2]}

VARIABLES
  splitter,   \* how the range is split
  throwing,   \* the elements the function throws for
  subpart,    \* of a task: num_threads and last_thread of its partitioner
  result,     \* of a task: what it has stored
  calls       \* how often the function was called for an element

clientVars == <<splitter, throwing, subpart, result, calls>>
vars == <<poolVars, clientVars>>

Unwritten == <<Elements>>     \* the result of a task that has not stored one

Call(lo, hi, n, last) ==
  [kind |-> "call", at |-> "split", lo |-> lo, hi |-> hi, threads |-> n, last |-> last,
   sub |-> NoTask, thrown |-> FALSE, out |-> <<>>]

Client == [kind |-> "client", at |-> "start", next |-> 0, thrown |-> FALSE, out |-> <<>>]

Init ==
  /\ InitPool
  /\ stack = [th \in Threads |-> IF th = 0 THEN <<Start(size)>>
                                 ELSE IF th = Main THEN <<Client>> ELSE <<>>]
  /\ \E p \in Plans : splitter = p[1] /\ throwing = p[2]
  /\ subpart = [t \in Tasks |-> <<0, Nobody>>] /\ result = [t \in Tasks |-> Unwritten]
  /\ calls = [e \in 0..Elements - 1 |-> 0]

\* The call on top of th is over; the activation below takes what it returns or throws.
Return(th, thrown, out) ==
  LET below == stack[th][2]
      at    == IF below.kind = "task" THEN "store"
               ELSE IF below.kind = "client" THEN "returned"
               ELSE IF thrown THEN "join" ELSE "get"
  IN stack' = [stack EXCEPT ![th] = <<[below EXCEPT !.at = at, !.thrown = thrown, !.out = out]>>
                                     \o SubSeq(@, 3, Len(@))]
--------------------------------------------------------------------------------
(* Faulty variants of steps below, each a slip the code could have had.          *)

\* The call keeps the part that it has given to the task.
WholePart(th, f, mid, n) ==
  [f EXCEPT !.at = "left", !.sub = <<mid, f.hi>>, !.last = th, !.threads = n - n \div 2]

\* The results are reduced in the order in which they are there.
ReduceLate(out, more) == more \o out

\* After an exception the local_task is not waited for.
JoinUnlessThrown(th) ==
  /\ On(th, "call", "join") \/ On(th, "call", "spin")
  /\ Top(th).thrown \/ Top(th).sub \notin held
  /\ Return(th, Top(th).thrown, Top(th).out)
  /\ UNCHANGED <<size, handles, deque, public, lists, shutdown, state, conts, held, clientVars>>
--------------------------------------------------------------------------------
(* How a range is split.                                                       *)

\* num_threads starts anew in a thread that has not split this range before.
NumThreads(th, f) == IF f.last # th THEN Hardware ELSE f.threads

AutoGrain == LET g == Elements \div (8 * Hardware)
             IN IF g < 1 THEN 1 ELSE IF g > 2048 THEN 2048 ELSE g

Splits(th, f) ==
  LET length == f.hi - f.lo IN
  \/ splitter = "static" /\ length > Grain
  \/ splitter = "auto" /\ length > AutoGrain /\ NumThreads(th, f) > 1
  \/ splitter = "invoke" /\ length > 1

Middle(f) == f.lo + (IF splitter = "invoke" THEN (f.hi - f.lo) \div 2 ELSE (f.hi - f.lo + 1) \div 2)
--------------------------------------------------------------------------------
(* The recursion.                                                              *)

BeginCall ==
  /\ On(Main, "client", "start")
  /\ stack' = [stack EXCEPT ![Main] = <<Call(0, Elements, 0, Nobody), [Client EXCEPT !.at = "called"]>>]
  /\ UNCHANGED <<size, handles, deque, public, lists, shutdown, state, conts, held, clientVars>>

\* A task that is run calls the function with the partitioner it was given.
EnterTask(w) ==
  /\ On(w, "task", "run")
  /\ LET t == Top(w).task
     IN stack' = [stack EXCEPT ![w] = <<Call(t[1], t[2], subpart[t][1], subpart[t][2]),
                                        [Top(w) EXCEPT !.at = "called"]>> \o Tail(@)]
  /\ UNCHANGED <<size, handles, deque, public, lists, shutdown, state, conts, held, clientVars>>

\* The function is called for the elements in turn, up to the first it throws for.
RunInline(th) ==
  /\ On(th, "call", "split") /\ ~Splits(th, Top(th))
  /\ LET f    == Top(th)
         all  == f.lo..f.hi - 1
         done == {e \in all : \A x \in throwing \cap all : e <= x}
     IN /\ calls' = [e \in DOMAIN calls |-> IF e \in done THEN calls[e] + 1 ELSE calls[e]]
        /\ Return(th, all \cap throwing # {}, [i \in 1..f.hi - f.lo |-> f.lo + i - 1])
  /\ UNCHANGED <<size, handles, deque, public, lists, shutdown, state, conts, held,
                 splitter, throwing, subpart, result>>

\* What the call keeps to do itself, and waits for afterwards.
FirstPart(th, f, mid, n) ==
  [f EXCEPT !.at = "left", !.hi = mid, !.sub = <<mid, f.hi>>, !.last = th,
            !.threads = n - n \div 2]

Fork(th) ==
  /\ On(th, "call", "split") /\ Splits(th, Top(th))
  /\ LET f    == Top(th)
         mid  == Middle(f)
         t    == <<mid, f.hi>>
         n    == NumThreads(th, f)
         rest == FirstPart(th, f, mid, n)
     IN /\ subpart' = [subpart EXCEPT ![t] = <<n \div 2, th>>]
        /\ IF th = Main
           THEN ScheduleOutside(t) /\ stack' = Instead(th, rest)
           ELSE /\ ScheduleInside(th, t)
                /\ stack' = [stack EXCEPT ![th] = <<[kind |-> "schedule", at |-> "check"], rest>> \o Tail(@)]
  /\ UNCHANGED <<size, handles, shutdown, splitter, throwing, result, calls>>

\* The first part is done by a nested call.
Descend(th) ==
  /\ On(th, "call", "left")
  /\ LET f == Top(th)
     IN stack' = [stack EXCEPT ![th] = <<Call(f.lo, f.hi, f.threads, f.last),
                                         [f EXCEPT !.at = "nested"]>> \o Tail(@)]
  /\ UNCHANGED <<size, handles, deque, public, lists, shutdown, state, conts, held, clientVars>>

\* wait_for_task: a worker goes back to its loop, another thread sleeps on an event of its own.
WaitFor(th, t, then) ==
  LET f == [Top(th) EXCEPT !.at = then] IN
  IF th = Main
  THEN /\ Tell(Main, t, {}) /\ UNCHANGED waiters
       /\ stack' = [stack EXCEPT ![th] = <<[kind |-> "wait", at |-> "sleep"], f>> \o Tail(@)]
  ELSE /\ stack' = [stack EXCEPT ![th] = <<Loop(t), f>> \o Tail(@)]
       /\ UNCHANGED <<lists, conts>>

WakeMain ==
  /\ On(Main, "wait", "sleep") /\ event[Main] # {}
  /\ event' = [event EXCEPT ![Main] = {}] /\ stack' = Leave(Main)
  /\ UNCHANGED <<size, handles, deque, public, waiters, shutdown, state, conts, held, clientVars>>

Get(th) ==
  /\ On(th, "call", "get")
  /\ IF Finished(Top(th).sub)
     THEN stack' = Move(th, "read") /\ UNCHANGED <<lists, conts>>
     ELSE WaitFor(th, Top(th).sub, "read")
  /\ UNCHANGED <<size, handles, deque, public, shutdown, state, held, clientVars>>

Reduce(out, more) == out \o more

\* get() throws what the task threw, or takes its result, whatever that is now.
Read(th) ==
  /\ On(th, "call", "read")
  /\ stack' = Instead(th, IF state[Top(th).sub] = "canceled"
                          THEN [Top(th) EXCEPT !.at = "join", !.thrown = TRUE]
                          ELSE [Top(th) EXCEPT !.at = "join", !.out = Reduce(@, result[Top(th).sub])])
  /\ UNCHANGED <<size, handles, deque, public, lists, shutdown, state, conts, held, clientVars>>

\* ~local_task waits once more if it has to ...
WaitAgain(th) ==
  /\ On(th, "call", "join") /\ ~Finished(Top(th).sub)
  /\ WaitFor(th, Top(th).sub, "spin")
  /\ UNCHANGED <<size, handles, deque, public, shutdown, state, held, clientVars>>

\* ... and spins until its reference is the only one.
Join(th) ==
  /\ (On(th, "call", "join") /\ Finished(Top(th).sub)) \/ On(th, "call", "spin")
  /\ Top(th).sub \notin held
  /\ Return(th, Top(th).thrown, Top(th).out)
  /\ UNCHANGED <<size, handles, deque, public, lists, shutdown, state, conts, held, clientVars>>

CallStep(th) ==
  RunInline(th) \/ Fork(th) \/ Descend(th) \/ Get(th) \/ Read(th) \/ WaitAgain(th) \/ Join(th)

\* The result is stored before the state says so.
StoreResult(w) ==
  /\ StoreState(w)
  /\ result' = IF Top(w).thrown THEN result ELSE [result EXCEPT ![Top(w).task] = Top(w).out]
  /\ UNCHANGED <<splitter, throwing, subpart, calls>>

PoolStep(w) == On(w, "task", "store") = FALSE /\ WorkerStep(w) /\ UNCHANGED clientVars

Worker(w)  == PoolStep(w) \/ StoreResult(w) \/ EnterTask(w) \/ CallStep(w)
MainThread == BeginCall \/ CallStep(Main) \/ WakeMain
              \/ ((Shutdown \/ JoinThread) /\ UNCHANGED clientVars)

Next == (\E w \in Workers : Worker(w)) \/ MainThread

Spec == Init /\ [][Next]_vars

\* Every thread that can go on does; locks are not held across steps.
FairSpec == Spec /\ (\A w \in Workers : WF_vars(Worker(w))) /\ WF_vars(MainThread)
--------------------------------------------------------------------------------
(* Properties.                                                                 *)

Frames(th) == {stack[th][i] : i \in DOMAIN stack[th]}
Calls      == {f \in UNION {Frames(th) : th \in Threads} : f.kind = "call"}

\* A sleeping thread is on the list at most once, and nobody else is on it: the
\* array has one place for each thread.
TypeOK ==
  /\ IsInjective(waiters)
  /\ \A i \in DOMAIN waiters : \/ On(waiters[i], "loop", "sleep")
                              \/ On(waiters[i], "loop", "relock")
  /\ \A th \in Threads : event[th] \subseteq {"finished", "available"}
  /\ \A t \in Tasks : state[t] \in {"absent", "pending", "completed", "canceled"}
  /\ held \subseteq {t \in Tasks : state[t] # "absent"} /\ Room(public) >= FirstSize

\* No wakeup is lost: as long as a task is in a queue there is a thread that will look
\* into it. A thread sleeps only after it has emptied its own queue, and with a task in
\* the public queue at least one thread is awake or has been signalled.
QueuesAreLookedInto ==
  /\ ~IsEmpty(public) => \E w \in Workers : stack[w] # <<>> /\ ~Asleep(w)
  /\ \A w \in Workers : deque[w] # <<>> => ~Asleep(w)

\* A task refers to variables of the call that forked it: as long as the pool has the
\* task, that call has not returned, not even by an exception, and it has not been
\* woken for the task with the task unfinished when it comes to destroy it.
TasksStayInTheirCall == \A t \in held : \E f \in Calls : f.sub = t

\* What a result was put together from stands in it in the order of the range and once,
\* whoever steals which part. It is the whole range, or has a gap: a part that get() read
\* before it was there, after a wait that came back early (WaitEndsWithItsTask).
Gap == Unwritten[1]

InOrder(out, lo, hi) ==
  /\ \A i \in DOMAIN out : out[i] = Gap \/ out[i] \in lo..hi - 1
  /\ \A i, j \in DOMAIN out : i < j /\ out[i] # Gap /\ out[j] # Gap => out[i] < out[j]
  /\ out = [i \in 1..hi - lo |-> lo + i - 1] \/ Contains(out, Gap)

ReducedInOrderButForGaps ==
  /\ \A t \in Tasks : result[t] # Unwritten => InOrder(result[t], t[1], t[2])
  /\ (On(Main, "client", "returned") /\ ~Top(Main).thrown) => InOrder(Top(Main).out, 0, Elements)

\* parallel_for calls the function once for each element whatever is stolen, and
\* returns when nobody works on an element any more.
Begun(f) == IF f.kind = "call" /\ f.at \in {"split", "left"} THEN f.lo..f.hi - 1
            ELSE IF f.kind = "task" /\ f.at = "run" THEN f.task[1]..f.task[2] - 1
            ELSE IF f.kind = "client" /\ f.at = "start" THEN 0..Elements - 1
            ELSE {}

Enqueued == UNION ({ToSet(deque[w]) : w \in Workers} \cup {ToSet(Queued(public))})

StillBusy == UNION ({Begun(f) : f \in UNION {Frames(th) : th \in Threads}}
                    \cup {t[1]..t[2] - 1 : t \in Enqueued})

HasReturned == \E a \in {"returned", "joining", "over", "terminated"} : On(Main, "client", a)

Loops == INSTANCE ForEach WITH busy <- StillBusy, returned <- HasReturned

ImplementsForEach == Loops!Spec

\* The call returns, and the pool can be destroyed: no thread sleeps, spins or waits
\* for another for ever, and each std::thread object has been assigned by another worker
\* when it is joined, or else the program is terminated.
EverythingEnds == <>On(Main, "client", "over")

\* "Wait for the task to finish executing" (task_base.h:144): get() goes on to read a result
\* when the task has finished. The loop of a waiting worker is to make sure of that: "Check
\* again if the task has finished" (threadpool_scheduler.cpp:257).
WaitEndsWithItsTask == \A th \in Threads : On(th, "call", "read") => Finished(Top(th).sub)
================================================================================
