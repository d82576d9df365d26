------------------------------- MODULE Balancer --------------------------------
(***************************************************************************)
(* CustomSchedulerBalancer: a scheduler with a thread of its own, which is *)
(* detached, so the destructor tells it to stop and waits until it says    *)
(* that it is about to end. Whoever lets the last shared_ptr to the        *)
(* scheduler go runs the destructor: the main thread, whose vector         *)
(* testContextCustomSchedulers holds one, or the scheduler's thread, when  *)
(* the closure of a task it runs holds one (SchedulersTest.cpp:168-192).   *)
(*                                                                         *)
(* Tasks are numbered in the order of the pushes; 0 is no task.            *)
(***************************************************************************)
EXTENDS Naturals, Sequences, FiniteSets

CONSTANTS
  Worker,    \* the scheduler's thread
  Clients,   \* other threads that schedule tasks
  Main,      \* the thread that holds the scheduler in its vector
  MaxTasks   \* bound: how many tasks are ever queued

ASSUME BalancerAssumption ==
  /\ Worker \notin Clients /\ Main \notin Clients \cup {Worker}
  /\ MaxTasks \in Nat

VARIABLES
  stopThread,   \* _stopThread
  threadExit,   \* _threadExitSuccess
  taskIsInWork, \* _taskIsInWork
  queue,        \* _queue
  waiting,      \* whether the worker is blocked in _condVar
  waitingExit,  \* whether the destructor is blocked in _condVarExit
  references,   \* who holds a shared_ptr: Main's vector, a caller for its task, a task
  destroyed,    \* the object is gone
  misused,      \* a thread has gone on with the object after that
  crashed,      \* lock.unlock() has thrown and std::terminate ended the program
  pc,           \* where the worker is
  job,          \* the task it has taken
  call,         \* where a thread is in schedule() or in the destructor
  queued        \* how many tasks have been queued

lifeVars == <<references, destroyed, misused, crashed>>
vars == <<stopThread, threadExit, taskIsInWork, queue, waiting, waitingExit, lifeVars,
          pc, job, call, queued>>

Callers == Clients \cup {Worker, Main}

Init ==
  /\ stopThread = FALSE /\ threadExit = FALSE /\ taskIsInWork = FALSE
  /\ queue = <<>> /\ waiting = FALSE /\ waitingExit = FALSE
  /\ references = {Main} /\ destroyed = FALSE /\ misused = FALSE /\ crashed = FALSE
  /\ pc = "test" /\ job = 0
  /\ call = [t \in Callers |-> "idle"]
  /\ queued = 0

\* Only the two waits keep _mutex from their test of the predicate to their sleep.
MutexFree == pc # "block" /\ \A t \in Callers : call[t] # "exitblock"

Take  == pc' = "begin" /\ job' = Head(queue) /\ queue' = Tail(queue)
Leave(place) == pc' = place /\ UNCHANGED <<job, queue>>

-----------------------------------------------------------------------------
(* Faulty variants of steps below, each a slip the code could have had. They   *)
(* are not part of the specification: every property is broken by one of them. *)

\* The predicate of the wait is only about the stop.
LockAndTestStopOnly ==
  /\ pc = "lock" /\ ~waiting /\ MutexFree
  /\ IF stopThread THEN IF queue # <<>> THEN Take ELSE Leave("test")
     ELSE Leave("block")
  /\ UNCHANGED <<stopThread, threadExit, taskIsInWork, waiting, waitingExit, lifeVars, call, queued>>

\* The drain takes the newest task.
RelockTakesLast ==
  /\ pc = "relock" /\ MutexFree
  /\ IF queue # <<>>
     THEN /\ pc' = "begin" /\ job' = queue[Len(queue)]
          /\ queue' = SubSeq(queue, 1, Len(queue) - 1)
     ELSE Leave("test")
  /\ UNCHANGED <<stopThread, threadExit, taskIsInWork, waiting, waitingExit, lifeVars, call, queued>>

\* schedule() notifies nobody.
PushSilently(t) ==
  /\ call[t] = "push" /\ MutexFree
  /\ IF destroyed THEN misused' = TRUE /\ UNCHANGED <<queue, queued, call, references>>
     ELSE /\ queued' = queued + 1
          /\ queue' = Append(queue, queued')
          /\ references' = (references \ {t}) \cup {queued' : u \in references \cap {t}}
          /\ call' = [call EXCEPT ![t] = "idle"]
          /\ UNCHANGED misused
  /\ UNCHANGED <<stopThread, threadExit, taskIsInWork, waiting, waitingExit, destroyed, crashed, pc, job>>

\* The worker does not say that it ends.
TellExitSilently ==
  /\ pc = "exit"
  /\ threadExit' = TRUE /\ pc' = "gone"
  /\ UNCHANGED <<stopThread, taskIsInWork, queue, waiting, waitingExit, lifeVars, job, call, queued>>

\* The destructor's wait has no predicate: any wakeup ends it.
LockAndTestExitOnce(t) ==
  /\ call[t] = "exitlock" /\ ~waitingExit /\ MutexFree
  /\ call' = [call EXCEPT ![t] = "idle"]
  /\ destroyed' = TRUE /\ queue' = <<>>
  /\ UNCHANGED <<stopThread, threadExit, taskIsInWork, waiting, waitingExit, references, misused, crashed, pc, job, queued>>

-----------------------------------------------------------------------------
(* The thread function.                                                    *)

TestStop ==
  /\ pc = "test"
  /\ pc' = IF stopThread THEN "exit" ELSE "lock"
  /\ UNCHANGED <<stopThread, threadExit, taskIsInWork, queue, waiting, waitingExit, lifeVars, job, call, queued>>

\* Lock _mutex, on entry or on the way out of _condVar.wait, and test the predicate;
\* if there is a task, take it and unlock.
LockAndTest ==
  /\ pc = "lock" /\ ~waiting /\ MutexFree
  /\ IF queue # <<>> THEN Take
     ELSE Leave(IF stopThread THEN "test" ELSE "block")
  /\ UNCHANGED <<stopThread, threadExit, taskIsInWork, waiting, waitingExit, lifeVars, call, queued>>

Block ==
  /\ pc = "block"
  /\ pc' = "lock" /\ waiting' = TRUE
  /\ UNCHANGED <<stopThread, threadExit, taskIsInWork, queue, waitingExit, lifeVars, job, call, queued>>

SpuriousWakeup ==
  /\ \/ waiting /\ waiting' = FALSE /\ UNCHANGED waitingExit
     \/ waitingExit /\ waitingExit' = FALSE /\ UNCHANGED waiting
  /\ UNCHANGED <<stopThread, threadExit, taskIsInWork, queue, lifeVars, pc, job, call, queued>>

BeginTask ==
  /\ pc = "begin"
  /\ pc' = "run" /\ taskIsInWork' = TRUE
  /\ UNCHANGED <<stopThread, threadExit, queue, waiting, waitingExit, lifeVars, job, call, queued>>

\* handle.run() returns: the task's closure is gone, and with it the reference it held.
FinishTask ==
  /\ pc = "run" /\ call[Worker] = "idle" /\ job \notin references
  /\ pc' = "testrelock" /\ taskIsInWork' = FALSE
  /\ UNCHANGED <<stopThread, threadExit, queue, waiting, waitingExit, lifeVars, job, call, queued>>

\* _mutex is locked again only if the flag is set by now ...
TestRelock ==
  /\ pc = "testrelock"
  /\ pc' = IF stopThread THEN "relock" ELSE "testagain"
  /\ UNCHANGED <<stopThread, threadExit, taskIsInWork, queue, waiting, waitingExit, lifeVars, job, call, queued>>

Relock ==
  /\ pc = "relock" /\ MutexFree
  /\ IF queue # <<>> THEN Take ELSE Leave("test")
  /\ UNCHANGED <<stopThread, threadExit, taskIsInWork, waiting, waitingExit, lifeVars, call, queued>>

\* ... and the flag is read once more to decide on another round. If it was set in
\* between, the queue is read and popped without _mutex, and lock.unlock() throws.
TestAgain ==
  /\ pc = "testagain"
  /\ IF stopThread /\ queue # <<>>
     THEN crashed' = TRUE /\ UNCHANGED pc
     ELSE pc' = "test" /\ UNCHANGED crashed
  /\ UNCHANGED <<stopThread, threadExit, taskIsInWork, queue, waiting, waitingExit, references,
                 destroyed, misused, job, call, queued>>

TellExit ==
  /\ pc = "exit"
  /\ threadExit' = TRUE /\ pc' = "notifyexit"
  /\ UNCHANGED <<stopThread, taskIsInWork, queue, waiting, waitingExit, lifeVars, job, call, queued>>

\* _condVarExit.notify_all(), the last thing the thread does
NotifyExit ==
  /\ pc = "notifyexit"
  /\ IF destroyed THEN misused' = TRUE /\ UNCHANGED <<waitingExit, pc>>
     ELSE waitingExit' = FALSE /\ pc' = "gone" /\ UNCHANGED misused
  /\ UNCHANGED <<stopThread, threadExit, taskIsInWork, queue, waiting, references, destroyed,
                 crashed, job, call, queued>>

-----------------------------------------------------------------------------
(* schedule(), called by clients and by tasks.                             *)

\* A task that comes after the stop is refused: its handle cancels it. Any other comes
\* with a reference to the scheduler in its closure or without.
Schedule(t) ==
  /\ t # Main /\ call[t] = "idle" /\ ~stopThread
  /\ t = Worker => pc = "run"
  /\ queued + Cardinality({u \in Callers : call[u] = "push"}) < MaxTasks
  /\ call' = [call EXCEPT ![t] = "push"]
  /\ references' \in {references, references \cup {t}}
  /\ UNCHANGED <<stopThread, threadExit, taskIsInWork, queue, waiting, waitingExit, destroyed,
                 misused, crashed, pc, job, queued>>

\* Push the handle; a reference in its closure is now the task's.
Push(t) ==
  /\ call[t] = "push" /\ MutexFree
  /\ IF destroyed THEN misused' = TRUE /\ UNCHANGED <<queue, queued, call, references>>
     ELSE /\ queued' = queued + 1
          /\ queue' = Append(queue, queued')
          /\ references' = (references \ {t}) \cup {queued' : u \in references \cap {t}}
          /\ call' = [call EXCEPT ![t] = "notify"]
          /\ UNCHANGED misused
  /\ UNCHANGED <<stopThread, threadExit, taskIsInWork, waiting, waitingExit, destroyed, crashed, pc, job>>

\* _condVar.notify_all(), at the end of schedule() and in the destructor
NotifyAll(t) ==
  /\ call[t] \in {"notify", "stopnotify"}
  /\ IF destroyed THEN misused' = TRUE /\ UNCHANGED <<waiting, call>>
     ELSE /\ waiting' = FALSE
          /\ call' = [call EXCEPT ![t] = IF @ = "notify" THEN "idle" ELSE "exitlock"]
          /\ UNCHANGED misused
  /\ UNCHANGED <<stopThread, threadExit, taskIsInWork, queue, waitingExit, references, destroyed,
                 crashed, pc, job, queued>>

-----------------------------------------------------------------------------
(* The destructor, run by the thread that lets the last reference go.      *)

\* Thread t lets reference r go; if it was the last one, t enters the destructor.
Release(t, r) ==
  /\ call[t] = "idle" /\ r \in references
  /\ references' = references \ {r}
  /\ IF references' = {}
     THEN stopThread' = TRUE /\ call' = [call EXCEPT ![t] = "stopnotify"]
     ELSE UNCHANGED <<stopThread, call>>
  /\ UNCHANGED <<threadExit, taskIsInWork, queue, waiting, waitingExit, destroyed, misused,
                 crashed, pc, job, queued>>

\* testContextCustomSchedulers.clear()
ClearVector == Release(Main, Main)

\* The closure of the task that has run is destroyed.
DestroyClosure == pc = "run" /\ Release(Worker, job)

\* Lock _mutex, on entry or on the way out of _condVarExit.wait, and test the predicate.
\* The end of the destructor cancels the tasks left in the queue.
LockAndTestExit(t) ==
  /\ call[t] = "exitlock" /\ ~waitingExit /\ MutexFree
  /\ IF threadExit
     THEN /\ call' = [call EXCEPT ![t] = "idle"]
          /\ destroyed' = TRUE /\ queue' = <<>>
     ELSE /\ call' = [call EXCEPT ![t] = "exitblock"]
          /\ UNCHANGED <<destroyed, queue>>
  /\ UNCHANGED <<stopThread, threadExit, taskIsInWork, waiting, waitingExit, references, misused, crashed, pc, job, queued>>

BlockExit(t) ==
  /\ call[t] = "exitblock"
  /\ call' = [call EXCEPT ![t] = "exitlock"] /\ waitingExit' = TRUE
  /\ UNCHANGED <<stopThread, threadExit, taskIsInWork, queue, waiting, lifeVars, pc, job, queued>>

-----------------------------------------------------------------------------

WorkerStep ==
  \/ TestStop \/ LockAndTest \/ Block \/ BeginTask \/ DestroyClosure \/ FinishTask
  \/ TestRelock \/ Relock \/ TestAgain \/ TellExit \/ NotifyExit
CallStep(t) == Push(t) \/ NotifyAll(t) \/ LockAndTestExit(t) \/ BlockExit(t)

Next ==
  /\ ~misused /\ ~crashed
  /\ \/ WorkerStep \/ SpuriousWakeup \/ ClearVector
     \/ \E t \in Callers : Schedule(t) \/ CallStep(t)

Spec == Init /\ [][Next]_vars

\* Threads go on, and tasks return; nobody is forced to schedule or to let its
\* reference go.
Fairness ==
  /\ SF_vars(~misused /\ ~crashed /\ WorkerStep)
  /\ \A t \in Callers : SF_vars(~misused /\ ~crashed /\ CallStep(t))

FairSpec == Spec /\ Fairness

-----------------------------------------------------------------------------
(* What the scheduler promises: it is a serial executor.                   *)

Scheduler == "balancer"
Running   == [e \in {Scheduler} |-> IF pc \in {"begin", "run"} THEN {job} ELSE {}]

Serial == INSTANCE SerialExecutors WITH
            Executors <- {Scheduler}, pending <- [e \in {Scheduler} |-> queue],
            running <- Running, submitted <- queued

\* The scheduler's thread runs what schedule() has queued one task at a time and first
\* come first run, whoever calls schedule() meanwhile and whenever the scheduler stops.
ImplementsSerialExecutors == Serial!Spec

-----------------------------------------------------------------------------
(* Properties. *)

\* Types; a handle that is run is not empty, and was queued before.
TypeOK ==
  /\ stopThread \in BOOLEAN /\ threadExit \in BOOLEAN /\ waiting \in BOOLEAN
  /\ waitingExit \in BOOLEAN /\ taskIsInWork \in BOOLEAN
  /\ destroyed \in BOOLEAN /\ misused \in BOOLEAN /\ crashed \in BOOLEAN
  /\ queued \in Nat
  /\ queue \in Seq(1..queued) /\ job \in 0..queued /\ (pc \in {"begin", "run"} => job # 0)
  /\ references \subseteq Callers \cup 1..queued
  /\ pc \in {"test", "lock", "block", "begin", "run", "testrelock", "relock", "testagain",
             "exit", "notifyexit", "gone"}
  /\ call \in [Callers -> {"idle", "push", "notify", "stopnotify", "exitlock", "exitblock"}]

\* No lost wakeup on the work path: if the worker sleeps while there are tasks, a
\* thread is on its way to notify it.
WorkNoticed ==
  queue # <<>> /\ waiting => \E t \in Callers : call[t] \in {"notify", "stopnotify"}

\* The destructor does not end before the worker has left its loop: nothing runs a task
\* or looks at the queue of a scheduler that is gone.
DestroyedAfterLoop == destroyed => pc \in {"notifyexit", "gone"}

\* A task in the queue is run, unless the scheduler is told to stop.
QueuedTasksRun == queue # <<>> ~> queue = <<>> \/ stopThread

\* The destructor returns if it is not run by the worker itself and neither of its two
\* notifications comes between a test of the predicate and the sleep that follows it.
DestructorEndsUnlessRaced ==
  call[Main] = "stopnotify" /\ pc # "block"
    ~> destroyed \/ crashed \/ misused \/ (pc = "notifyexit" /\ call[Main] = "exitblock")
===============================================================================
