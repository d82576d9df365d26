-------------------------------- MODULE ThreadPool --------------------------------
(***************************************************************************)
(* threadpool_scheduler of async++: its threads, their queues, the public  *)
(* queue, the list of sleeping threads and the events they sleep on.       *)
(*                                                                         *)
(* stack[th] is what a thread is in the middle of, the innermost call      *)
(* first; each record in it is one activation, at names the place it has   *)
(* reached. A task that runs is an activation on top of the loop that took *)
(* it, and a task that waits for another puts a loop on top of itself.     *)
(* What the tasks do, and the thread that uses the pool, come with the     *)
(* module that extends this one.                                           *)
(***************************************************************************)
EXTENDS Naturals, Sequences, SequencesExt, FifoQueue

CONSTANTS
  Sizes,      \* bound: the numbers of threads the pool is made with
  Tasks,
  NoTask,     \* what a loop waits for that waits for nothing
  FirstSize   \* bound: the length of the array of the public queue, 32 in the code

Workers == 0..Max(Sizes) - 1
Main    == Max(Sizes)            \* a thread outside the pool
Threads == Workers \cup {Main}
Nobody  == Max(Sizes) + 1

ASSUME PoolAssumption ==
  /\ Sizes # {} /\ Max(Sizes) \in Nat /\ Sizes \subseteq 1..Max(Sizes)
  /\ NoTask \notin Tasks /\ FirstSize \in Nat \ {0}

VARIABLES
  size,      \* how many threads the pool has
  stack,     \* the activations of a thread, see above
  handles,   \* the workers whose std::thread object has been assigned
  deque,     \* the work-stealing queue of a worker, as StealDeque promises it
  public,    \* the queue that all threads share
  waiters,   \* the sleeping workers that nobody has woken yet
  event,     \* event_mask of a thread's task_wait_event
  shutdown,
  state,     \* the state of a task, "absent" before it is made
  conts,     \* the threads a finished task still has to tell
  held       \* the tasks to which the pool holds a reference

lists    == <<waiters, event>>
poolVars == <<size, stack, handles, deque, public, lists, shutdown, state, conts, held>>

Finished(t) == state[t] \in {"completed", "canceled"}
Others(w)   == 0..size - 1 \ {w}

Top(th)       == Head(stack[th])
On(th, k, a)  == stack[th] # <<>> /\ Top(th).kind = k /\ Top(th).at = a
Instead(th, f) == [stack EXCEPT ![th] = <<f>> \o Tail(@)]
Move(th, a)   == Instead(th, [Top(th) EXCEPT !.at = a])
Leave(th)     == [stack EXCEPT ![th] = Tail(@)]

Start(n)   == [kind |-> "start", at |-> "spawn", threads |-> n, other |-> Nobody]
Loop(t)    == [kind |-> "loop", at |-> "test", task |-> t, added |-> FALSE, left |-> {}, got |-> {}]
Running(t) == [kind |-> "task", at |-> "run", task |-> t, thrown |-> FALSE, out |-> <<>>]

InitPool ==
  /\ size \in Sizes /\ handles = {0}
  /\ deque = [w \in Workers |-> <<>>] /\ public = NewQueue(FirstSize, NoTask)
  /\ waiters = <<>> /\ event = [th \in Threads |-> {}] /\ shutdown = FALSE
  /\ state = [t \in Tasks |-> "absent"] /\ conts = [t \in Tasks |-> <<>>] /\ held = {}

\* A worker sleeps and no signal is on its way to it.
Asleep(w) == On(w, "loop", "sleep") /\ event[w] = {}
--------------------------------------------------------------------------------
(* Faulty variants of steps below, each a slip the code could have had.          *)

\* The thread is taken off the list, and the signal is forgotten.
TakeLastOff ==
  IF waiters = <<>> THEN UNCHANGED lists ELSE waiters' = Front(waiters) /\ UNCHANGED event

\* A thread that wakes up for its task stays on the list.
StillListed(ws, w) == ws

\* The list is emptied although only one thread was told.
WakeOneOfAll ==
  /\ event' = [w \in Threads |-> IF waiters # <<>> /\ w = waiters[1]
                                 THEN event[w] \cup {"available"} ELSE event[w]]
  /\ waiters' = <<>>
--------------------------------------------------------------------------------
(* The list of sleeping threads, which the pool's lock protects.               *)

\* The entry of w is exchanged with the last one, which is taken off.
Without(ws, w) ==
  LET i == CHOOSE j \in DOMAIN ws : ws[j] = w IN
  IF \E j \in DOMAIN ws : ws[j] = w THEN Front([ws EXCEPT ![i] = Last(ws)]) ELSE ws

\* The last thread on the list is taken off and woken.
WakeLast(ev) ==
  /\ event' = [event EXCEPT ![Last(waiters)] = @ \cup {ev}]
  /\ waiters' = Front(waiters)

WakeOne == IF waiters = <<>> THEN UNCHANGED lists ELSE WakeLast("available")

WakeAll ==
  /\ event' = [th \in Threads |-> IF \E i \in DOMAIN waiters : waiters[i] = th
                                  THEN event[th] \cup {"available"} ELSE event[th]]
  /\ waiters' = <<>>

\* What task_wait_event::wait returns: result != 0, which is 1, task_finished.
Returned(mask) == IF mask # {} THEN {"finished"} ELSE {}

\* on_finish: the event is signalled when t has finished, or at once.
Tell(th, t, mask) ==
  IF Finished(t)
  THEN event' = [event EXCEPT ![th] = mask \cup {"finished"}] /\ UNCHANGED conts
  ELSE event' = [event EXCEPT ![th] = mask] /\ conts' = [conts EXCEPT ![t] = Append(@, th)]
--------------------------------------------------------------------------------
(* The start of the threads.                                                   *)

\* The thread that starts another goes on with half of the indices.
StartThread(w) ==
  /\ On(w, "start", "spawn") /\ Top(w).threads > 1
  /\ LET half == Top(w).threads \div 2
         mid  == w + half
     IN stack' = [Instead(w, [Top(w) EXCEPT !.at = "assign", !.threads = half, !.other = mid])
                    EXCEPT ![mid] = <<Start(Top(w).threads - half)>>]
  /\ UNCHANGED <<size, handles, deque, public, lists, shutdown, state, conts, held>>

AssignHandle(w) ==
  /\ On(w, "start", "assign")
  /\ handles' = handles \cup {Top(w).other}
  /\ stack' = Move(w, "spawn")
  /\ UNCHANGED <<size, deque, public, lists, shutdown, state, conts, held>>

EnterLoop(w) ==
  /\ On(w, "start", "spawn") /\ Top(w).threads = 1
  /\ stack' = Instead(w, Loop(NoTask))
  /\ UNCHANGED <<size, handles, deque, public, lists, shutdown, state, conts, held>>
--------------------------------------------------------------------------------
(* thread_task_loop, for a worker with nothing to do or that waits for a task. *)

Waiting(w) == Top(w).task # NoTask

\* With a continuation added, it is the event that has to be signalled.
Awaited(w) ==
  Waiting(w) /\ IF Top(w).added THEN "finished" \in event[w] ELSE Finished(Top(w).task)

Test(w) ==
  /\ On(w, "loop", "test")
  /\ stack' = IF Awaited(w) THEN Leave(w) ELSE Move(w, "pop")
  /\ event' = IF Waiting(w) /\ Top(w).added
              THEN [event EXCEPT ![w] = @ \ {"finished"}] ELSE event
  /\ UNCHANGED <<size, handles, deque, public, waiters, shutdown, state, conts, held>>

\* The loop runs t; when that is over it goes on at the test.
Run(w, t) == stack' = [stack EXCEPT ![w] = <<Running(t), [Top(w) EXCEPT !.at = "test"]>> \o Tail(@)]

PopOwn(w) ==
  /\ On(w, "loop", "pop")
  /\ \/ deque[w] # <<>> /\ Run(w, Last(deque[w])) /\ deque' = [deque EXCEPT ![w] = Front(@)]
     \/ /\ deque[w] = <<>> /\ UNCHANGED deque
        /\ stack' = Instead(w, [Top(w) EXCEPT !.at = "steal", !.left = Others(w)])
  /\ UNCHANGED <<size, handles, public, lists, shutdown, state, conts, held>>

\* The victims are tried one after the other, in any order.
Steal(w) ==
  /\ On(w, "loop", "steal")
  /\ \E v \in Top(w).left :
       \/ deque[v] # <<>> /\ Run(w, Head(deque[v])) /\ deque' = [deque EXCEPT ![v] = Tail(@)]
       \/ /\ deque[v] = <<>> /\ UNCHANGED deque
          /\ stack' = Instead(w, [Top(w) EXCEPT !.left = @ \ {v}])
  /\ UNCHANGED <<size, handles, public, lists, shutdown, state, conts, held>>

\* All victims were tried: the thread takes the lock.
Looks(w) == On(w, "loop", "steal") /\ Top(w).left = {}

TakePublic(w) ==
  /\ Looks(w) /\ ~IsEmpty(public)
  /\ Run(w, First(public)) /\ public' = Dequeue(public)
  /\ UNCHANGED <<size, handles, deque, lists, shutdown, state, conts, held>>

\* A thread that waits for nothing ends when the pool is being shut down.
ExitLoop(w) ==
  /\ Looks(w) /\ IsEmpty(public) /\ ~Waiting(w) /\ shutdown
  /\ stack' = Leave(w)
  /\ UNCHANGED <<size, handles, deque, public, lists, shutdown, state, conts, held>>

Sleep(w) ==
  /\ Looks(w) /\ IsEmpty(public) /\ (Waiting(w) \/ ~shutdown)
  /\ stack' = Instead(w, [Top(w) EXCEPT !.at = "sleep", !.added = Waiting(w)])
  /\ waiters' = Append(waiters, w)
  /\ IF Waiting(w) /\ ~Top(w).added THEN Tell(w, Top(w).task, event[w])
                                    ELSE UNCHANGED <<event, conts>>
  /\ UNCHANGED <<size, handles, deque, public, shutdown, state, held>>

Wake(w) ==
  /\ On(w, "loop", "sleep") /\ event[w] # {}
  /\ stack' = Instead(w, [Top(w) EXCEPT !.at = "relock", !.got = Returned(event[w])])
  /\ event' = [event EXCEPT ![w] = {}]
  /\ UNCHANGED <<size, handles, deque, public, waiters, shutdown, state, conts, held>>

Relock(w) ==
  /\ On(w, "loop", "relock")
  /\ waiters' = Without(waiters, w)
  /\ stack' = IF Waiting(w) /\ "finished" \in Top(w).got THEN Leave(w)
              ELSE Instead(w, [Top(w) EXCEPT !.at = "steal", !.left = Others(w)])
  /\ UNCHANGED <<size, handles, deque, public, event, shutdown, state, conts, held>>
--------------------------------------------------------------------------------
(* schedule, and the end of a task.                                            *)

MakeTask(t) == state[t] = "absent" /\ state' = [state EXCEPT ![t] = "pending"] /\ held' = held \cup {t}

\* A thread outside the pool holds the lock throughout.
ScheduleOutside(t) ==
  /\ MakeTask(t) /\ public' = Enqueue(public, t, NoTask) /\ WakeOne
  /\ UNCHANGED <<deque, conts>>

\* A worker pushes to its own queue; the rest of schedule is an activation.
ScheduleInside(w, t) ==
  /\ MakeTask(t) /\ deque' = [deque EXCEPT ![w] = Append(@, t)]
  /\ UNCHANGED <<public, lists, conts>>

\* num_waiters is read without the lock.
CheckWaiters(w) ==
  /\ On(w, "schedule", "check")
  /\ stack' = IF waiters = <<>> THEN Leave(w) ELSE Move(w, "lock")
  /\ UNCHANGED <<size, handles, deque, public, lists, shutdown, state, conts, held>>

WakeForTask(w) ==
  /\ On(w, "schedule", "lock")
  /\ WakeOne /\ stack' = Leave(w)
  /\ UNCHANGED <<size, handles, deque, public, shutdown, state, conts, held>>

StoreState(w) ==
  /\ On(w, "task", "store")
  /\ state' = [state EXCEPT ![Top(w).task] = IF Top(w).thrown THEN "canceled" ELSE "completed"]
  /\ stack' = Move(w, "flush")
  /\ UNCHANGED <<size, handles, deque, public, lists, shutdown, conts, held>>

\* run_continuations tells one thread after the other.
TellWaiter(w) ==
  /\ On(w, "task", "flush") /\ conts[Top(w).task] # <<>>
  /\ event' = [event EXCEPT ![Head(conts[Top(w).task])] = @ \cup {"finished"}]
  /\ conts' = [conts EXCEPT ![Top(w).task] = Tail(@)]
  /\ UNCHANGED <<size, stack, handles, deque, public, waiters, shutdown, state, held>>

ReleaseTask(w) ==
  /\ On(w, "task", "flush") /\ conts[Top(w).task] = <<>>
  /\ held' = held \ {Top(w).task} /\ stack' = Leave(w)
  /\ UNCHANGED <<size, handles, deque, public, lists, shutdown, state, conts>>

WorkerStep(w) ==
  \/ StartThread(w) \/ AssignHandle(w) \/ EnterLoop(w) \/ Test(w) \/ PopOwn(w) \/ Steal(w)
  \/ TakePublic(w) \/ ExitLoop(w) \/ Sleep(w) \/ Wake(w) \/ Relock(w) \/ CheckWaiters(w)
  \/ WakeForTask(w) \/ StoreState(w) \/ TellWaiter(w) \/ ReleaseTask(w)
--------------------------------------------------------------------------------
(* The destructor, called by a thread outside; it is at "joining" next.        *)

Joined(i) == i

Shutdown ==
  /\ On(Main, "client", "returned")
  /\ shutdown' = TRUE /\ WakeAll
  /\ stack' = Move(Main, "joining")
  /\ UNCHANGED <<size, handles, deque, public, state, conts, held>>

\* join() of a std::thread object that has not been assigned yet throws.
JoinThread ==
  /\ On(Main, "client", "joining")
  /\ LET i == Top(Main).next
         w == Joined(i)
     IN /\ stack[w] = <<>> \/ w \notin handles
        /\ stack' = Instead(Main, IF w \notin handles THEN [Top(Main) EXCEPT !.at = "terminated"]
                                  ELSE IF i + 1 = size THEN [Top(Main) EXCEPT !.at = "over"]
                                  ELSE [Top(Main) EXCEPT !.next = i + 1])
  /\ UNCHANGED <<size, handles, deque, public, lists, shutdown, state, conts, held>>
================================================================================
