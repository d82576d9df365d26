----------------------------- MODULE BalancerProofs ----------------------------
(***************************************************************************)
(* Theorems of the two schedulers with a queue and one thread, Balancer    *)
(* and WaitQueue, for any number of clients and tasks.                     *)
(***************************************************************************)
EXTENDS Balancer, SequenceTheorems, TLAPS

\* Only inside _condVar.wait does the worker sleep, and no task came since its test of
\* the predicate while it is about to sleep, because it still holds _mutex.
SleepsUnaware ==
  /\ waiting => pc = "lock"
  /\ pc = "block" => queue = <<>>

\* _threadExitSuccess is set by a worker that has left its loop, and only then does the
\* destructor end.
ExitHandshake ==
  /\ threadExit => pc \in {"notifyexit", "gone"}
  /\ destroyed => threadExit

IInv == TypeOK /\ SleepsUnaware /\ WorkNoticed /\ ExitHandshake

-----------------------------------------------------------------------------

\* The constructor establishes the invariant.
LEMMA InitIInv == Init => IInv
<1> SUFFICES ASSUME Init PROVE IInv
  OBVIOUS
<1>1. queue \in Seq(1..queued) /\ job \in 0..queued /\ queued \in Nat
  BY EmptySeq DEF Init
<1>2. /\ call \in [Callers -> {"idle", "push", "notify", "stopnotify", "exitlock", "exitblock"}]
      /\ references \subseteq Callers \cup 1..queued
  BY DEF Init, Callers
<1> QED
  BY <1>1, <1>2 DEF Init, IInv, TypeOK, SleepsUnaware, WorkNoticed, ExitHandshake

\* Taking the first task of the queue keeps the types.
LEMMA TakeType ==
  ASSUME TypeOK, queue # <<>>, Take, queued' = queued
  PROVE  job' \in 1..queued' /\ queue' \in Seq(1..queued') /\ pc' = "begin"
BY HeadTailProperties DEF TypeOK, Take

\* A push keeps the types, the numbers in the queue being those used so far.
LEMMA PushType ==
  ASSUME TypeOK
  PROVE  /\ Append(queue, queued + 1) \in Seq(1..queued + 1)
         /\ queue \in Seq(1..queued + 1) /\ job \in 0..queued + 1
         /\ references \subseteq Callers \cup 1..queued + 1
<1>1. /\ queued \in Nat /\ queue \in Seq(1..queued) /\ job \in 0..queued
      /\ references \subseteq Callers \cup 1..queued
  BY DEF TypeOK
<1>2. 1..queued \subseteq 1..(queued + 1)
  BY <1>1
<1>3. queue \in Seq(1..queued + 1) /\ references \subseteq Callers \cup 1..queued + 1
  BY <1>1, <1>2
<1>4. queued + 1 \in 1..queued + 1
  BY <1>1
<1> QED
  BY <1>1, <1>3, <1>4, AppendProperties

\* Letting a reference go keeps the invariant: the last one leads into the destructor.
LEMMA ReleaseKeeps ==
  ASSUME IInv, NEW t \in Callers, NEW r, Release(t, r) PROVE IInv'
<1> USE DEF IInv, TypeOK, SleepsUnaware, WorkNoticed, ExitHandshake
<1>1. CASE references' = {}
  <2>1. /\ call[t] = "idle" /\ call' = [call EXCEPT ![t] = "stopnotify"] /\ stopThread' = TRUE
        /\ references' \subseteq references
        /\ UNCHANGED <<threadExit, taskIsInWork, queue, waiting, waitingExit, destroyed, misused,
                       crashed, pc, job, queued>>
    BY <1>1 DEF Release
  <2>2. TypeOK'
    BY <2>1
  <2>3. WorkNoticed'
    BY <2>1
  <2> QED
    BY <2>1, <2>2, <2>3
<1>2. CASE references' # {}
  <2>1. /\ references' \subseteq references
        /\ UNCHANGED <<threadExit, taskIsInWork, queue, waiting, waitingExit, destroyed, misused,
                       crashed, pc, job, queued, stopThread, call>>
    BY <1>2 DEF Release
  <2> QED
    BY <2>1
<1> QED
  BY <1>1, <1>2

\* Every step keeps the invariant.
LEMMA NextIInv == IInv /\ [Next]_vars => IInv'
<1> SUFFICES ASSUME IInv, [Next]_vars PROVE IInv'
  OBVIOUS
<1> USE DEF IInv, TypeOK, SleepsUnaware, WorkNoticed, ExitHandshake, lifeVars, Leave
<1>1. CASE TestStop
  BY <1>1 DEF TestStop
<1>2. CASE LockAndTest
  <2>1. CASE queue = <<>>
    BY <1>2, <2>1 DEF LockAndTest
  <2>2. CASE queue # <<>>
    <3>1. /\ Take /\ pc = "lock" /\ ~waiting
          /\ UNCHANGED <<stopThread, threadExit, taskIsInWork, waiting, waitingExit, references,
                         destroyed, misused, crashed, call, queued>>
      BY <1>2, <2>2 DEF LockAndTest
    <3>2. job' \in 1..queued' /\ queue' \in Seq(1..queued') /\ pc' = "begin"
      BY <3>1, <2>2, TakeType
    <3> QED
      BY <3>1, <3>2
  <2> QED
    BY <2>1, <2>2
<1>3. CASE Block
  BY <1>3 DEF Block
<1>4. CASE SpuriousWakeup
  <2>1. UNCHANGED <<stopThread, threadExit, taskIsInWork, queue, references,
                    destroyed, misused, crashed, pc, job, call, queued>>
    BY <1>4 DEF SpuriousWakeup
  <2>2. \/ waiting' = FALSE /\ waitingExit' = waitingExit
        \/ waitingExit' = FALSE /\ waiting' = waiting
    BY <1>4, Zenon DEF SpuriousWakeup
  <2>3. CASE waiting' = FALSE /\ waitingExit' = waitingExit
    BY <2>1, <2>3
  <2>4. CASE waitingExit' = FALSE /\ waiting' = waiting
    BY <2>1, <2>4
  <2> QED
    BY <2>2, <2>3, <2>4
<1>5. CASE BeginTask
  BY <1>5 DEF BeginTask
<1>6. CASE DestroyClosure
  BY <1>6, ReleaseKeeps DEF DestroyClosure, Callers
<1>7. CASE ClearVector
  BY <1>7, ReleaseKeeps DEF ClearVector, Callers
<1>8. CASE FinishTask
  BY <1>8 DEF FinishTask
<1>9. CASE TestRelock
  BY <1>9 DEF TestRelock
<1>10. CASE Relock
  <2>1. CASE queue = <<>>
    BY <1>10, <2>1 DEF Relock
  <2>2. CASE queue # <<>>
    <3>1. /\ Take /\ pc = "relock" /\ ~waiting
          /\ UNCHANGED <<stopThread, threadExit, taskIsInWork, waiting, waitingExit, references,
                         destroyed, misused, crashed, call, queued>>
      BY <1>10, <2>2 DEF Relock
    <3>2. job' \in 1..queued' /\ queue' \in Seq(1..queued') /\ pc' = "begin"
      BY <3>1, <2>2, TakeType
    <3> QED
      BY <3>1, <3>2
  <2> QED
    BY <2>1, <2>2
<1>11. CASE TestAgain
  BY <1>11 DEF TestAgain
<1>12. CASE TellExit
  BY <1>12 DEF TellExit
<1>13. CASE NotifyExit
  BY <1>13 DEF NotifyExit
<1>14. ASSUME NEW t \in Callers, Schedule(t) PROVE IInv'
  BY <1>14 DEF Schedule
<1>15. ASSUME NEW t \in Callers, Push(t) PROVE IInv'
  <2>1. CASE destroyed
    BY <1>15, <2>1 DEF Push
  <2>2. CASE ~destroyed
    <3>1. /\ queued' = queued + 1 /\ queue' = Append(queue, queued + 1)
          /\ references' \subseteq references \cup {queued + 1}
          /\ call' = [call EXCEPT ![t] = "notify"] /\ pc # "block"
          /\ UNCHANGED <<stopThread, threadExit, taskIsInWork, waiting, waitingExit,
                         destroyed, misused, crashed, pc, job>>
      BY <1>15, <2>2 DEF Push, MutexFree
    <3>2. queue' \in Seq(1..queued') /\ job' \in 0..queued' /\ queued' \in Nat
      BY <3>1, PushType
    <3>3. references' \subseteq Callers \cup 1..queued'
      BY <3>1, PushType
    <3>4. call'[t] = "notify"
      BY <3>1
    <3> QED
      BY <3>1, <3>2, <3>3, <3>4
  <2> QED
    BY <2>1, <2>2
<1>16. ASSUME NEW t \in Callers, NotifyAll(t) PROVE IInv'
  <2>1. CASE destroyed
    BY <1>16, <2>1 DEF NotifyAll
  <2>2. CASE ~destroyed
    <3>1. /\ waiting' = FALSE
          /\ call' = [call EXCEPT ![t] = IF @ = "notify" THEN "idle" ELSE "exitlock"]
          /\ UNCHANGED <<stopThread, threadExit, taskIsInWork, queue, waitingExit, references,
                         destroyed, misused, crashed, pc, job, queued>>
      BY <1>16, <2>2 DEF NotifyAll
    <3>2. call' \in [Callers -> {"idle", "push", "notify", "stopnotify", "exitlock", "exitblock"}]
      BY <3>1
    <3> QED
      BY <3>1, <3>2
  <2> QED
    BY <2>1, <2>2
<1>17. ASSUME NEW t \in Callers, LockAndTestExit(t) PROVE IInv'
  <2>1. CASE threadExit
    <3>1. queue' = <<>> /\ queue' \in Seq(1..queued')
      BY <1>17, <2>1, EmptySeq DEF LockAndTestExit
    <3> QED
      BY <1>17, <2>1, <3>1 DEF LockAndTestExit
  <2>2. CASE ~threadExit
    BY <1>17, <2>2 DEF LockAndTestExit
  <2> QED
    BY <2>1, <2>2
<1>18. ASSUME NEW t \in Callers, BlockExit(t) PROVE IInv'
  BY <1>18 DEF BlockExit
<1>19. CASE UNCHANGED vars
  BY <1>19 DEF vars
<1> QED
  BY <1>1, <1>2, <1>3, <1>4, <1>5, <1>6, <1>7, <1>8, <1>9, <1>10, <1>11, <1>12, <1>13,
     <1>14, <1>15, <1>16, <1>17, <1>18, <1>19
  DEF Next, WorkerStep, CallStep

\* The invariant always holds.
LEMMA SpecIInv == Spec => []IInv
BY InitIInv, NextIInv, PTL DEF Spec

-----------------------------------------------------------------------------

\* Every variable of the scheduler keeps its type, and handle.run() is never called on
\* an empty handle (the thread function, CustomSchedulerBalancer.cpp:27-35).
THEOREM TypeCorrect == Spec => []TypeOK
<1>1. IInv => TypeOK
  BY DEF IInv
<1> QED
  BY <1>1, SpecIInv, PTL

\* The worker never sleeps over a task that schedule() has queued and notified of.
THEOREM NoLostWakeup == Spec => []WorkNoticed
<1>1. IInv => WorkNoticed
  BY DEF IInv
<1> QED
  BY <1>1, SpecIInv, PTL

\* The destructor ends only after the worker has left its loop, so no task is run and no
\* queue read in a destroyed scheduler (CustomSchedulerBalancer.cpp:52-62).
THEOREM LoopLeftFirst == Spec => []DestroyedAfterLoop
<1>1. IInv => DestroyedAfterLoop
  BY DEF IInv, ExitHandshake, DestroyedAfterLoop
<1> QED
  BY <1>1, SpecIInv, PTL

-----------------------------------------------------------------------------

\* Taking the first task of the queue is the beginning of a task.
LEMMA BeginImplemented ==
  ASSUME pc \notin {"begin", "run"}, pc' = "begin", queue # <<>>, job' = Head(queue),
         queue' = Tail(queue), queued' = queued
  PROVE  Serial!Next
<1>1. Running = [e \in {Scheduler} |-> {}] /\ Running' = [e \in {Scheduler} |-> {Head(queue)}]
  BY DEF Running
<1>2. Serial!Begin(Scheduler)
  BY <1>1 DEF Serial!Begin
<1> QED
  BY <1>2 DEF Serial!Next

\* The destruction of the queue drops its tasks.
LEMMA DropImplemented ==
  ASSUME Running' = Running, queue' = <<>>, queued' = queued
  PROVE  Serial!Next
<1>1. Serial!Drop({Scheduler})
  BY DEF Serial!Drop
<1> QED
  BY <1>1 DEF Serial!Next

\* Every step of the scheduler is a step of a serial executor, or changes nothing it has.
LEMMA RefinementStep == [Next]_vars => [Serial!Next]_(Serial!vars)
<1> SUFFICES ASSUME [Next]_vars PROVE [Serial!Next]_(Serial!vars)
  OBVIOUS
<1> USE DEF Serial!vars, Leave
<1>1. CASE TestStop \/ Block \/ BeginTask \/ TestRelock \/ TestAgain
  BY <1>1 DEF TestStop, Block, BeginTask, TestRelock, TestAgain, Running
<1>2. CASE TellExit \/ NotifyExit \/ SpuriousWakeup \/ ClearVector \/ DestroyClosure
  BY <1>2 DEF TellExit, NotifyExit, SpuriousWakeup, ClearVector, DestroyClosure, Release, Running
<1>3. CASE LockAndTest
  <2>1. CASE queue = <<>>
    BY <1>3, <2>1 DEF LockAndTest, Running
  <2>2. CASE queue # <<>>
    BY <1>3, <2>2, BeginImplemented DEF LockAndTest, Take
  <2> QED
    BY <2>1, <2>2
<1>4. CASE Relock
  <2>1. CASE queue = <<>>
    BY <1>4, <2>1 DEF Relock, Running
  <2>2. CASE queue # <<>>
    BY <1>4, <2>2, BeginImplemented DEF Relock, Take
  <2> QED
    BY <2>1, <2>2
<1>5. CASE FinishTask
  <2>1. Running = [e \in {Scheduler} |-> {job}] /\ Running' = [e \in {Scheduler} |-> {}]
    BY <1>5 DEF FinishTask, Running
  <2>2. Serial!End(Scheduler)
    BY <1>5, <2>1 DEF FinishTask, Serial!End
  <2> QED
    BY <2>2 DEF Serial!Next
<1>6. ASSUME NEW t \in Callers, Push(t) PROVE [Serial!Next]_(Serial!vars)
  <2>1. CASE destroyed
    BY <1>6, <2>1 DEF Push, Running
  <2>2. CASE ~destroyed
    <3>1. Running' = Running /\ queued' = queued + 1 /\ queue' = Append(queue, queued')
      BY <1>6, <2>2 DEF Push, Running
    <3>2. Serial!Submit(Scheduler)
      BY <3>1 DEF Serial!Submit
    <3> QED
      BY <3>2 DEF Serial!Next
  <2> QED
    BY <2>1, <2>2
<1>7. ASSUME NEW t \in Callers, LockAndTestExit(t) PROVE [Serial!Next]_(Serial!vars)
  <2>1. CASE threadExit
    BY <1>7, <2>1, DropImplemented DEF LockAndTestExit, Running
  <2>2. CASE ~threadExit
    BY <1>7, <2>2 DEF LockAndTestExit, Running
  <2> QED
    BY <2>1, <2>2
<1>8. ASSUME NEW t \in Callers, Schedule(t) \/ NotifyAll(t) \/ BlockExit(t)
      PROVE  [Serial!Next]_(Serial!vars)
  BY <1>8 DEF Schedule, NotifyAll, BlockExit, Running
<1>9. CASE UNCHANGED vars
  BY <1>9 DEF vars, Running
<1> QED
  BY <1>1, <1>2, <1>3, <1>4, <1>5, <1>6, <1>7, <1>8, <1>9 DEF Next, WorkerStep, CallStep

\* The balancer implements the serial executor: its thread runs one task at a time and
\* first come first run, for any number of clients that call schedule().
THEOREM SerialExecutorImplemented == Spec => ImplementsSerialExecutors
<1>1. Init => Serial!Init
  BY DEF Init, Serial!Init, Running
<1> QED
  BY <1>1, RefinementStep, PTL DEF Spec, ImplementsSerialExecutors, Serial!Spec

-----------------------------------------------------------------------------
(***************************************************************************)
(* The other scheduler with a queue and one thread, WaitQueue: what both   *)
(* have goes by the same names, and so do its constants and the assumption *)
(* on them.                                                                *)
(***************************************************************************)
WQ == INSTANCE WaitQueue WITH stopWaiting <- stopThread

\* Only inside _condVar.wait does the worker sleep, and no task came since its test
\* of the predicate while it is about to sleep, because it still holds _mutex.
QueueSleepsUnaware ==
  /\ waiting => pc = "lock"
  /\ pc = "block" => queue = <<>>

QueueInv == WQ!TypeOK /\ QueueSleepsUnaware /\ WQ!WorkNoticed

-----------------------------------------------------------------------------

\* The constructor establishes the invariant.
LEMMA QueueInitially == WQ!Init => QueueInv
<1> SUFFICES ASSUME WQ!Init PROVE QueueInv
  OBVIOUS
<1>1. queue \in Seq(1..queued) /\ job \in 0..queued /\ queued \in Nat
  BY EmptySeq DEF WQ!Init
<1>2. call \in [WQ!Callers -> {"idle", "schedule", "push", "notify"}]
  BY DEF WQ!Init
<1> QED
  BY <1>1, <1>2 DEF WQ!Init, QueueInv, WQ!TypeOK, QueueSleepsUnaware, WQ!WorkNoticed

\* Taking the first task of the queue keeps the types.
LEMMA QueueTakeType ==
  ASSUME WQ!TypeOK, queue # <<>>
  PROVE  Head(queue) \in 1..queued /\ Tail(queue) \in Seq(1..queued)
BY HeadTailProperties DEF WQ!TypeOK

\* A push keeps the types, the numbers in the queue being those used so far.
LEMMA QueuePushType ==
  ASSUME WQ!TypeOK
  PROVE  /\ Append(queue, queued + 1) \in Seq(1..queued + 1)
         /\ queue \in Seq(1..queued + 1) /\ job \in 0..queued + 1
<1>1. queued \in Nat /\ queue \in Seq(1..queued) /\ job \in 0..queued
  BY BalancerAssumption DEF WQ!TypeOK, BalancerAssumption
<1>2. 1..queued \subseteq 1..(queued + 1)
  BY <1>1
<1>3. queue \in Seq(1..queued + 1)
  BY <1>1, <1>2
<1>4. queued + 1 \in 1..queued + 1
  BY <1>1
<1> QED
  BY <1>1, <1>3, <1>4, AppendProperties

\* Every step keeps the invariant.
LEMMA QueueNextKeeps == QueueInv /\ [WQ!Next]_(WQ!vars) => QueueInv'
<1> SUFFICES ASSUME QueueInv, [WQ!Next]_(WQ!vars) PROVE QueueInv'
  OBVIOUS
<1> USE BalancerAssumption DEF BalancerAssumption, QueueInv, WQ!TypeOK, QueueSleepsUnaware, WQ!WorkNoticed, WQ!Callers
<1>1. CASE WQ!TestStop
  BY <1>1 DEF WQ!TestStop
<1>2. CASE WQ!LockAndTest
  <2>1. CASE queue = <<>>
    BY <1>2, <2>1 DEF WQ!LockAndTest
  <2>2. CASE queue # <<>>
    <3>1. /\ pc' = "run" /\ job' = Head(queue) /\ queue' = Tail(queue)
          /\ UNCHANGED <<stopThread, waiting, destroyed, misused, call, queued>>
      BY <1>2, <2>2 DEF WQ!LockAndTest
    <3>2. job' \in 1..queued' /\ queue' \in Seq(1..queued')
      BY <3>1, <2>2, QueueTakeType
    <3>3. ~waiting
      BY <1>2 DEF WQ!LockAndTest
    <3> QED
      BY <3>1, <3>2, <3>3
  <2> QED
    BY <2>1, <2>2
<1>3. CASE WQ!Block
  BY <1>3 DEF WQ!Block
<1>4. CASE WQ!SpuriousWakeup
  BY <1>4 DEF WQ!SpuriousWakeup
<1>5. CASE WQ!FinishTask
  BY <1>5 DEF WQ!FinishTask
<1>6. CASE WQ!Relock
  <2>1. CASE queue = <<>>
    BY <1>6, <2>1 DEF WQ!Relock
  <2>2. CASE queue # <<>>
    <3>1. /\ pc' = "run" /\ job' = Head(queue) /\ queue' = Tail(queue)
          /\ UNCHANGED <<stopThread, waiting, destroyed, misused, call, queued>>
      BY <1>6, <2>2 DEF WQ!Relock
    <3>2. job' \in 1..queued' /\ queue' \in Seq(1..queued')
      BY <3>1, <2>2, QueueTakeType
    <3>3. ~waiting
      BY <1>6 DEF WQ!Relock
    <3> QED
      BY <3>1, <3>2, <3>3
  <2> QED
    BY <2>1, <2>2
<1>7. CASE WQ!DropScheduler
  BY <1>7 DEF WQ!DropScheduler
<1>8. CASE WQ!StopWaiting
  BY <1>8 DEF WQ!StopWaiting
<1>9. ASSUME NEW t \in WQ!Callers, WQ!Schedule(t) PROVE QueueInv'
  BY <1>9 DEF WQ!Schedule
<1>10. ASSUME NEW t \in WQ!Callers, WQ!TestStopRequested(t) PROVE QueueInv'
  BY <1>10 DEF WQ!TestStopRequested
<1>11. ASSUME NEW t \in WQ!Callers, WQ!Push(t) PROVE QueueInv'
  <2>1. CASE destroyed
    BY <1>11, <2>1 DEF WQ!Push
  <2>2. CASE ~destroyed
    <3>1. /\ queued' = queued + 1 /\ queue' = Append(queue, queued + 1)
          /\ call' = [call EXCEPT ![t] = "notify"] /\ pc # "block"
          /\ UNCHANGED <<stopThread, waiting, destroyed, misused, pc, job>>
      BY <1>11, <2>2 DEF WQ!Push, WQ!MutexFree
    <3>2. queue' \in Seq(1..queued') /\ job' \in 0..queued'
      BY <3>1, QueuePushType
    <3>3. call'[t] = "notify"
      BY <3>1
    <3> QED
      BY <3>1, <3>2, <3>3
  <2> QED
    BY <2>1, <2>2
<1>12. ASSUME NEW t \in WQ!Callers, WQ!NotifyAll(t) PROVE QueueInv'
  BY <1>12 DEF WQ!NotifyAll
<1>13. CASE UNCHANGED WQ!vars
  BY <1>13 DEF WQ!vars
<1> QED
  BY <1>1, <1>2, <1>3, <1>4, <1>5, <1>6, <1>7, <1>8, <1>9, <1>10, <1>11, <1>12, <1>13
  DEF WQ!Next, WQ!WorkerStep, WQ!CallStep

\* The invariant always holds.
LEMMA QueueInvariance == WQ!Spec => []QueueInv
BY QueueInitially, QueueNextKeeps, PTL DEF WQ!Spec

-----------------------------------------------------------------------------

\* Every variable of the scheduler keeps its type, and handle.run() is never called on
\* an empty handle (waitAndPerformAllTasks, CustomSchedulerWaitQueue.cpp:28-34).
THEOREM QueueTypeCorrect == WQ!Spec => []WQ!TypeOK
<1>1. QueueInv => WQ!TypeOK
  BY DEF QueueInv
<1> QED
  BY <1>1, QueueInvariance, PTL

\* The worker never sleeps over a task that schedule() has queued and notified of.
THEOREM QueueNoLostWakeup == WQ!Spec => []WQ!WorkNoticed
<1>1. QueueInv => WQ!WorkNoticed
  BY DEF QueueInv
<1> QED
  BY <1>1, QueueInvariance, PTL

-----------------------------------------------------------------------------

\* Taking the first task of the queue is the beginning of a task.
LEMMA QueueBegins ==
  ASSUME pc # "run", pc' = "run", queue # <<>>, job' = Head(queue),
         queue' = Tail(queue), queued' = queued
  PROVE  WQ!Serial!Next
<1>1. WQ!Running = [e \in {WQ!Scheduler} |-> {}] /\ WQ!Running' = [e \in {WQ!Scheduler} |-> {Head(queue)}]
  BY DEF WQ!Running
<1>2. WQ!Serial!Begin(WQ!Scheduler)
  BY <1>1 DEF WQ!Serial!Begin
<1> QED
  BY <1>2 DEF WQ!Serial!Next

\* The destruction of the queue drops its tasks.
LEMMA QueueDrops ==
  ASSUME WQ!Running' = WQ!Running, queue' = <<>>, queued' = queued
  PROVE  WQ!Serial!Next
<1>1. WQ!Serial!Drop({WQ!Scheduler})
  BY DEF WQ!Serial!Drop
<1> QED
  BY <1>1 DEF WQ!Serial!Next

\* Every step of the scheduler is a step of a serial executor, or changes nothing it has.
LEMMA QueueStepImplemented == [WQ!Next]_(WQ!vars) => [WQ!Serial!Next]_(WQ!Serial!vars)
<1> SUFFICES ASSUME [WQ!Next]_(WQ!vars) PROVE [WQ!Serial!Next]_(WQ!Serial!vars)
  OBVIOUS
<1> USE DEF WQ!Serial!vars
<1>1. CASE WQ!TestStop \/ WQ!Block
  BY <1>1 DEF WQ!TestStop, WQ!Block, WQ!Running
<1>2. CASE WQ!LockAndTest
  <2>1. CASE queue = <<>>
    BY <1>2, <2>1 DEF WQ!LockAndTest, WQ!Running
  <2>2. CASE queue # <<>>
    BY <1>2, <2>2, QueueBegins DEF WQ!LockAndTest
  <2> QED
    BY <2>1, <2>2
<1>3. CASE WQ!FinishTask
  <2>1. WQ!Running = [e \in {WQ!Scheduler} |-> {job}] /\ WQ!Running' = [e \in {WQ!Scheduler} |-> {}]
    BY <1>3 DEF WQ!FinishTask, WQ!Running
  <2>2. WQ!Serial!End(WQ!Scheduler)
    BY <1>3, <2>1 DEF WQ!FinishTask, WQ!Serial!End
  <2> QED
    BY <2>2 DEF WQ!Serial!Next
<1>4. CASE WQ!Relock
  <2>1. CASE queue = <<>>
    BY <1>4, <2>1 DEF WQ!Relock, WQ!Running
  <2>2. CASE queue # <<>>
    BY <1>4, <2>2, QueueBegins DEF WQ!Relock
  <2> QED
    BY <2>1, <2>2
<1>5. CASE WQ!DropScheduler
  BY <1>5, QueueDrops DEF WQ!DropScheduler, WQ!Running
<1>6. CASE WQ!SpuriousWakeup \/ WQ!StopWaiting \/ UNCHANGED WQ!vars
  BY <1>6 DEF WQ!SpuriousWakeup, WQ!StopWaiting, WQ!vars, WQ!Running
<1>7. ASSUME NEW t \in WQ!Callers, WQ!Push(t) PROVE [WQ!Serial!Next]_(WQ!Serial!vars)
  <2>1. CASE destroyed
    BY <1>7, <2>1 DEF WQ!Push, WQ!Running
  <2>2. CASE ~destroyed
    <3>1. WQ!Running' = WQ!Running /\ queued' = queued + 1 /\ queue' = Append(queue, queued')
      BY <1>7, <2>2 DEF WQ!Push, WQ!Running
    <3>2. WQ!Serial!Submit(WQ!Scheduler)
      BY <3>1 DEF WQ!Serial!Submit
    <3> QED
      BY <3>2 DEF WQ!Serial!Next
  <2> QED
    BY <2>1, <2>2
<1>8. ASSUME NEW t \in WQ!Callers, WQ!Schedule(t) \/ WQ!TestStopRequested(t) \/ WQ!NotifyAll(t)
      PROVE  [WQ!Serial!Next]_(WQ!Serial!vars)
  BY <1>8 DEF WQ!Schedule, WQ!TestStopRequested, WQ!NotifyAll, WQ!Running
<1> QED
  BY <1>1, <1>2, <1>3, <1>4, <1>5, <1>6, <1>7, <1>8 DEF WQ!Next, WQ!WorkerStep, WQ!CallStep

\* The wait queue implements the serial executor: waitAndPerformAllTasks() runs one task
\* at a time and first come first run, for any number of clients that call schedule().
THEOREM QueueImplementsExecutor == WQ!Spec => WQ!ImplementsSerialExecutors
<1>1. WQ!Init => WQ!Serial!Init
  BY DEF WQ!Init, WQ!Serial!Init, WQ!Running
<1> QED
  BY <1>1, QueueStepImplemented, PTL DEF WQ!Spec, WQ!ImplementsSerialExecutors, WQ!Serial!Spec
===============================================================================
