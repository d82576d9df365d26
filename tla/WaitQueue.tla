------------------------------- MODULE WaitQueue -------------------------------
(***************************************************************************)
(* CustomSchedulerWaitQueue: a scheduler whose tasks are run by one thread *)
(* of the program, its worker, which loops over waitAndPerformAllTasks()   *)
(* until isStopRequested() and then resets the only pointer to the object  *)
(* (customSchedulerWaitQueueThreadFunction in SchedulersTest.cpp).         *)
(*                                                                         *)
(* Tasks are numbered in the order of the pushes; 0 is an empty handle.    *)
(***************************************************************************)
EXTENDS Naturals, Sequences, FiniteSets

CONSTANTS
  Worker,    \* the thread that runs the tasks and owns the scheduler
  Clients,   \* other threads that schedule tasks
  Main,      \* the thread that asks the worker to stop
  MaxTasks   \* bound: how many tasks are ever queued

ASSUME QueueAssumption ==
  /\ Worker \notin Clients /\ Main \notin Clients \cup {Worker}
  /\ MaxTasks \in Nat

VARIABLES
  stopWaiting,  \* _stopWaiting
  waiting,      \* whether the worker is blocked in _condVar
  queue,        \* _queue
  destroyed,    \* the object is gone
  misused,      \* a member function has gone on after that
  pc,           \* where the worker is
  job,          \* the task the worker has taken
  call,         \* where a thread is in schedule() or stopWaiting()
  queued        \* how many tasks have been queued

vars == <<stopWaiting, waiting, queue, destroyed, misused, pc, job, call, queued>>

Callers   == Clients \cup {Worker, Main}
MutexFree == pc # "block"     \* no other critical section spans two steps

Init ==
  /\ stopWaiting = FALSE /\ waiting = FALSE /\ queue = <<>>
  /\ destroyed = FALSE /\ misused = FALSE
  /\ pc = "test" /\ job = 0
  /\ call = [t \in Callers |-> "idle"]
  /\ queued = 0

-----------------------------------------------------------------------------
(* Faulty variants of steps below, each a slip the code could have had. They   *)
(* are not part of the specification: every property is broken by one of them. *)

\* The predicate of the wait is only about the stop.
LockAndTestStopOnly ==
  /\ pc = "lock" /\ ~waiting
  /\ IF stopWaiting /\ queue # <<>>
     THEN /\ pc' = "run" /\ job' = Head(queue) /\ queue' = Tail(queue)
     ELSE /\ pc' = IF stopWaiting THEN "test" ELSE "block"
          /\ UNCHANGED <<job, queue>>
  /\ UNCHANGED <<stopWaiting, waiting, destroyed, misused, call, queued>>

\* The predicate of the wait is only about work.
LockAndTestWorkOnly ==
  /\ pc = "lock" /\ ~waiting
  /\ IF queue # <<>>
     THEN /\ pc' = "run" /\ job' = Head(queue) /\ queue' = Tail(queue)
     ELSE /\ pc' = "block"
          /\ UNCHANGED <<job, queue>>
  /\ UNCHANGED <<stopWaiting, waiting, destroyed, misused, call, queued>>

\* After a task the queue is read from its end.
RelockTakesLast ==
  /\ pc = "relock"
  /\ IF queue = <<>>
     THEN pc' = "test" /\ job' = 0 /\ UNCHANGED queue
     ELSE /\ pc' = "run" /\ job' = queue[Len(queue)]
          /\ queue' = SubSeq(queue, 1, Len(queue) - 1)
  /\ UNCHANGED <<stopWaiting, waiting, destroyed, misused, call, queued>>

\* schedule() notifies nobody.
PushSilently(t) ==
  /\ call[t] = "push" /\ MutexFree
  /\ IF destroyed THEN misused' = TRUE /\ UNCHANGED <<queue, queued, call>>
     ELSE /\ queued' = queued + 1
          /\ queue' = Append(queue, queued')
          /\ call' = [call EXCEPT ![t] = "idle"]
          /\ UNCHANGED misused
  /\ UNCHANGED <<stopWaiting, waiting, destroyed, pc, job>>

-----------------------------------------------------------------------------
(* The worker's thread function.                                           *)

TestStop ==
  /\ pc = "test"
  /\ pc' = IF stopWaiting THEN "drop" ELSE "lock"
  /\ UNCHANGED <<stopWaiting, waiting, queue, destroyed, misused, job, call, queued>>

\* Lock _mutex, on entry or on the way out of _condVar.wait, and test the predicate;
\* if there is a task, take it and unlock.
LockAndTest ==
  /\ pc = "lock" /\ ~waiting
  /\ IF queue # <<>>
     THEN /\ pc' = "run" /\ job' = Head(queue) /\ queue' = Tail(queue)
     ELSE /\ pc' = IF stopWaiting THEN "test" ELSE "block"
          /\ UNCHANGED <<job, queue>>
  /\ UNCHANGED <<stopWaiting, waiting, destroyed, misused, call, queued>>

Block ==
  /\ pc = "block"
  /\ pc' = "lock" /\ waiting' = TRUE
  /\ UNCHANGED <<stopWaiting, queue, destroyed, misused, job, call, queued>>

SpuriousWakeup ==
  /\ waiting
  /\ waiting' = FALSE
  /\ UNCHANGED <<stopWaiting, queue, destroyed, misused, pc, job, call, queued>>

\* handle.run() returns. While it ran, the task may have scheduled others.
FinishTask ==
  /\ pc = "run" /\ call[Worker] = "idle"
  /\ pc' = "relock"
  /\ UNCHANGED <<stopWaiting, waiting, queue, destroyed, misused, job, call, queued>>

Relock ==
  /\ pc = "relock"
  /\ IF queue = <<>>
     THEN pc' = "test" /\ job' = 0 /\ UNCHANGED queue
     ELSE pc' = "run" /\ job' = Head(queue) /\ queue' = Tail(queue)
  /\ UNCHANGED <<stopWaiting, waiting, destroyed, misused, call, queued>>

\* customSchedulerWaitQueue = nullptr: ~queue cancels the tasks left in it.
DropScheduler ==
  /\ pc = "drop"
  /\ pc' = "done"
  /\ destroyed' = TRUE /\ queue' = <<>>
  /\ UNCHANGED <<stopWaiting, waiting, misused, job, call, queued>>

-----------------------------------------------------------------------------
(* The member functions that other threads call, and tasks.                *)

Schedule(t) ==
  /\ t # Main /\ call[t] = "idle" /\ ~destroyed
  /\ t = Worker => pc = "run"
  /\ queued + Cardinality({u \in Callers : call[u] \in {"schedule", "push"}}) < MaxTasks
  /\ call' = [call EXCEPT ![t] = "schedule"]
  /\ UNCHANGED <<stopWaiting, waiting, queue, destroyed, misused, pc, job, queued>>

\* A task that comes after the stop is refused: its handle cancels it.
TestStopRequested(t) ==
  /\ call[t] = "schedule"
  /\ IF destroyed THEN misused' = TRUE /\ UNCHANGED call
     ELSE /\ call' = [call EXCEPT ![t] = IF stopWaiting THEN "idle" ELSE "push"]
          /\ UNCHANGED misused
  /\ UNCHANGED <<stopWaiting, waiting, queue, destroyed, pc, job, queued>>

Push(t) ==
  /\ call[t] = "push" /\ MutexFree
  /\ IF destroyed THEN misused' = TRUE /\ UNCHANGED <<queue, queued, call>>
     ELSE /\ queued' = queued + 1
          /\ queue' = Append(queue, queued')
          /\ call' = [call EXCEPT ![t] = "notify"]
          /\ UNCHANGED misused
  /\ UNCHANGED <<stopWaiting, waiting, destroyed, pc, job>>

\* _condVar.notify_all(), at the end of schedule() and of stopWaiting()
NotifyAll(t) ==
  /\ call[t] = "notify"
  /\ IF destroyed THEN misused' = TRUE /\ UNCHANGED <<waiting, call>>
     ELSE /\ waiting' = FALSE
          /\ call' = [call EXCEPT ![t] = "idle"]
          /\ UNCHANGED misused
  /\ UNCHANGED <<stopWaiting, queue, destroyed, pc, job, queued>>

StopWaiting ==
  /\ call[Main] = "idle" /\ ~stopWaiting
  /\ stopWaiting' = TRUE
  /\ call' = [call EXCEPT ![Main] = "notify"]
  /\ UNCHANGED <<waiting, queue, destroyed, misused, pc, job, queued>>

-----------------------------------------------------------------------------

WorkerStep ==
  TestStop \/ LockAndTest \/ Block \/ FinishTask \/ Relock \/ DropScheduler
CallStep(t) == TestStopRequested(t) \/ Push(t) \/ NotifyAll(t)

Next ==
  /\ ~misused
  /\ \/ WorkerStep \/ SpuriousWakeup \/ StopWaiting
     \/ \E t \in Callers : Schedule(t) \/ CallStep(t)

Spec == Init /\ [][Next]_vars

\* Threads go on, and tasks return; nobody is forced to schedule or to stop.
Fairness ==
  /\ SF_vars(~misused /\ WorkerStep)
  /\ \A t \in Callers : SF_vars(~misused /\ CallStep(t))

FairSpec == Spec /\ Fairness

-----------------------------------------------------------------------------
(* What the scheduler promises: it is a serial executor.                   *)

Scheduler == "queue"
Running   == [e \in {Scheduler} |-> IF pc = "run" THEN {job} ELSE {}]

Serial == INSTANCE SerialExecutors WITH
            Executors <- {Scheduler}, pending <- [e \in {Scheduler} |-> queue],
            running <- Running, submitted <- queued

\* waitAndPerformAllTasks() runs what schedule() has queued one task at a time and
\* first come first run, whoever calls schedule() meanwhile, the running task included.
ImplementsSerialExecutors == Serial!Spec

-----------------------------------------------------------------------------
(* Properties. *)

\* Types; a handle that is run is not empty, and was queued before.
TypeOK ==
  /\ stopWaiting \in BOOLEAN /\ waiting \in BOOLEAN
  /\ destroyed \in BOOLEAN /\ misused \in BOOLEAN
  /\ queued \in Nat
  /\ queue \in Seq(1..queued) /\ job \in 0..queued /\ (pc = "run" => job # 0)
  /\ pc \in {"test", "lock", "block", "run", "relock", "drop", "done"}
  /\ call \in [Callers -> {"idle", "schedule", "push", "notify"}]

\* No lost wakeup on the work path: if the worker sleeps while there are tasks, a
\* thread is on its way to notify it.
WorkNoticed == queue # <<>> /\ waiting => \E t \in Callers : call[t] = "notify"

\* A task in the queue is run or, after a stop, cancelled with the scheduler.
QueuedTasksRun == queue # <<>> ~> queue = <<>> \/ misused

\* stopWaiting() ends the worker's loop, if the worker is not between its test of the
\* predicate and its sleep when notify_all is called.
StopEndsLoopUnlessRaced == call[Main] = "notify" /\ pc # "block" ~> pc = "done" \/ misused
===============================================================================
