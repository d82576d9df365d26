------------------------------ MODULE ContextPool ------------------------------
(***************************************************************************)
(* CustomSchedulerThreadPool and CustomSchedulerContextInPool: a pool of   *)
(* worker threads that runs the tasks of serial execution contexts.        *)
(* schedule() puts a task on its context's queue, then the context on the  *)
(* pool's execution queue; a worker pops a context, runs one task of it    *)
(* and puts it back.                                                       *)
(*                                                                         *)
(* A critical section that cannot block inside is one action, guarded by   *)
(* MutexFree. The worker loop keeps _mutex over several steps (Held),      *)
(* because the atomic _needStop and the reference counts change under it.  *)
(* Tasks are numbered in the order of the pushes; 0 is an empty handle.    *)
(***************************************************************************)
EXTENDS Naturals, Sequences, FiniteSets

CONSTANTS
  Workers,    \* the pool's threads
  Clients,    \* other threads that schedule tasks
  Owner,      \* the thread that creates and drops the pool and the contexts
  Contexts,   \* identities for the contexts the owner makes
  NoContext,  \* an empty pointer to a context
  MaxTasks    \* bound: how many tasks are ever scheduled

ASSUME PoolAssumption ==
  /\ Workers # {} /\ IsFiniteSet(Workers)
  /\ Workers \cap Clients = {}
  /\ Owner \notin Workers \cup Clients
  /\ NoContext \notin Contexts
  /\ MaxTasks \in Nat

VARIABLES
  needStop,    \* _needStop
  waiting,     \* workers blocked in _condVar
  execQueue,   \* _contextsExecutionQueue
  completed,   \* _threadsCompleted
  reg,         \* a context's place in _contexts: not made yet, listed, removed
  ownerRef,    \* whether the owner's shared_ptr to the pool is set
  destroyed,   \* the pool's members are gone
  crashed,     \* which null shared_ptr has been dereferenced, "no" if none
  pc,          \* where a worker is in its loop
  cur,         \* the context a worker has popped
  job,         \* the task a worker has taken, 0 for none
  call,        \* the pool or context operation a thread is in, and its context
  taskQ,       \* _taskQueue of a context
  inProgress,  \* _executionInProgress of a context
  scheduled    \* how many tasks have been scheduled

poolVars   == <<needStop, waiting, execQueue, completed>>
lifeVars   == <<reg, ownerRef, destroyed, crashed>>
workerVars == <<pc, cur, job>>
taskVars   == <<taskQ, inProgress, scheduled>>
vars       == <<poolVars, lifeVars, workerVars, call, taskVars>>

Callers == Workers \cup Clients \cup {Owner}
Idle    == [at |-> "idle", ctx |-> NoContext]

Held     == {"block", "inner", "expired", "lockCtx"}      \* _mutex is locked
Using    == {"cas", "take", "run", "clear", "relock"}     \* contextShared is set
Claiming == {"take", "run", "clear"}                      \* between CAS and store
TempRef  == {"enqueue", "notify", "release"}              \* _threadPool.lock() is alive
Stopping == {"stop", "notifyAll", "await"}                \* inside stopAll()

MutexFree == \A w \in Workers : pc[w] \notin Held

\* The use counts of the two shared_ptr are not 0 (weak_ptr::expired is false).
PoolReferenced == ownerRef \/ \E t \in Callers : call[t].at \in TempRef

Referenced(c) ==
  \/ reg[c] = "listed"
  \/ \E w \in Workers : pc[w] \in Using /\ cur[w] = c
  \/ \E t \in Callers : call[t].ctx = c

\* ~CustomSchedulerContextInPool clears the queue of a context whose last
\* reference goes. The emptied handles cancel nothing: their tasks are dropped.
ClearDestroyed ==
  taskQ' = [c \in Contexts |-> IF Referenced(c)' THEN taskQ[c] ELSE <<>>]

Goto(w, place)  == pc' = [pc EXCEPT ![w] = place]
Proceed(t, place) == call' = [call EXCEPT ![t] = [at |-> place, ctx |-> @.ctx]]
WakeOne == IF waiting = {} THEN UNCHANGED waiting
           ELSE \E w \in waiting : waiting' = waiting \ {w}

Init ==
  /\ needStop = FALSE /\ waiting = {} /\ execQueue = <<>> /\ completed = 0
  /\ reg = [c \in Contexts |-> "new"]
  /\ ownerRef = TRUE /\ destroyed = FALSE /\ crashed = "no"
  /\ pc = [w \in Workers |-> "test"]
  /\ cur = [w \in Workers |-> NoContext]
  /\ job = [w \in Workers |-> 0]
  /\ call = [t \in Callers |-> Idle]
  /\ taskQ = [c \in Contexts |-> <<>>]
  /\ inProgress = [c \in Contexts |-> FALSE]
  /\ scheduled = 0

-----------------------------------------------------------------------------
(* Faulty variants of steps below, each a slip the code could have had. They   *)
(* are not part of the specification: every property is broken by one of them. *)

\* The worker tests its predicate without _needStop.
LockAndTestWorkOnly(w) ==
  /\ pc[w] = "lock" /\ w \notin waiting
  /\ MutexFree
  /\ Goto(w, IF execQueue # <<>> THEN "inner" ELSE "block")
  /\ UNCHANGED <<poolVars, lifeVars, cur, job, call, taskVars>>

\* The result of the compare_exchange on _executionInProgress is not looked at.
ClaimAlways(w) ==
  /\ pc[w] = "cas"
  /\ Goto(w, "take")
  /\ inProgress' = [inProgress EXCEPT ![cur[w]] = TRUE]
  /\ UNCHANGED <<poolVars, lifeVars, cur, job, call, taskQ, scheduled>>

\* The newest task is taken, not the oldest.
TakeNewest(w) ==
  /\ pc[w] = "take"
  /\ LET q == taskQ[cur[w]] IN
     IF q = <<>>
     THEN Goto(w, "clear") /\ UNCHANGED <<job, taskQ>>
     ELSE /\ Goto(w, "run")
          /\ job' = [job EXCEPT ![w] = q[Len(q)]]
          /\ taskQ' = [taskQ EXCEPT ![cur[w]] = SubSeq(q, 1, Len(q) - 1)]
  /\ UNCHANGED <<poolVars, lifeVars, cur, call, inProgress, scheduled>>

\* The context is never queued again.
RelockForgets(w) ==
  /\ pc[w] = "relock"
  /\ MutexFree
  /\ Goto(w, "inner")
  /\ cur' = [cur EXCEPT ![w] = NoContext]
  /\ job' = [job EXCEPT ![w] = 0]
  /\ UNCHANGED <<poolVars, lifeVars, call, inProgress, scheduled>>
  /\ ClearDestroyed

\* A worker is counted each time it leaves the inner loop after a stop.
ExitAgain(w) ==
  /\ pc[w] = "exit"
  /\ Goto(w, "test")
  /\ completed' = completed + 1
  /\ UNCHANGED <<needStop, waiting, execQueue, lifeVars, cur, job, call, taskVars>>

\* wakeUpForContext does not notify.
EnqueueSilently(t) ==
  /\ call[t].at = "enqueue"
  /\ MutexFree
  /\ execQueue' = Append(execQueue, call[t].ctx)
  /\ Proceed(t, "release")
  /\ UNCHANGED <<needStop, waiting, completed, lifeVars, workerVars, taskVars>>

\* stopAll() does not wait for _threadsCompleted.
NotifyAllAwaitsNobody(t) ==
  /\ call[t].at = "notifyAll"
  /\ waiting' = {}
  /\ Proceed(t, "stop")
  /\ UNCHANGED <<needStop, execQueue, completed, lifeVars, workerVars, taskVars>>

-----------------------------------------------------------------------------
(* The worker loop.                                                        *)

TestStop(w) ==
  /\ pc[w] = "test"
  /\ Goto(w, IF needStop THEN "exit" ELSE "lock")
  /\ UNCHANGED <<poolVars, lifeVars, cur, job, call, taskVars>>

\* Lock _mutex, on entry or on the way out of _condVar.wait, and test its predicate.
LockAndTest(w) ==
  /\ pc[w] = "lock" /\ w \notin waiting
  /\ MutexFree
  /\ Goto(w, IF execQueue # <<>> \/ needStop THEN "inner" ELSE "block")
  /\ UNCHANGED <<poolVars, lifeVars, cur, job, call, taskVars>>

\* The predicate was false: release _mutex and sleep in _condVar.
Block(w) ==
  /\ pc[w] = "block"
  /\ Goto(w, "lock")
  /\ waiting' = waiting \cup {w}
  /\ UNCHANGED <<needStop, execQueue, completed, lifeVars, cur, job, call, taskVars>>

SpuriousWakeup(w) ==
  /\ w \in waiting
  /\ waiting' = waiting \ {w}
  /\ UNCHANGED <<needStop, execQueue, completed, lifeVars, workerVars, call, taskVars>>

PopContext(w) ==
  /\ pc[w] = "inner"
  /\ execQueue # <<>> /\ ~needStop
  /\ cur' = [cur EXCEPT ![w] = Head(execQueue)]
  /\ execQueue' = Tail(execQueue)
  /\ Goto(w, "expired")
  /\ UNCHANGED <<needStop, waiting, completed, lifeVars, job, call, taskVars>>

LeaveInner(w) ==
  /\ pc[w] = "inner"
  /\ execQueue = <<>> \/ needStop
  /\ Goto(w, "test")
  /\ UNCHANGED <<poolVars, lifeVars, cur, job, call, taskVars>>

TestExpired(w) ==
  /\ pc[w] = "expired"
  /\ IF Referenced(cur[w])
     THEN Goto(w, "lockCtx") /\ UNCHANGED cur
     ELSE Goto(w, "inner") /\ cur' = [cur EXCEPT ![w] = NoContext]
  /\ UNCHANGED <<poolVars, lifeVars, job, call, taskVars>>

\* context.lock() may return null, although expired() was false a moment ago.
LockContext(w) ==
  /\ pc[w] = "lockCtx"
  /\ IF Referenced(cur[w]) THEN Goto(w, "cas") /\ UNCHANGED crashed
     ELSE crashed' = "context" /\ UNCHANGED pc
  /\ UNCHANGED <<poolVars, reg, ownerRef, destroyed, cur, job, call, taskVars>>

Claim(w) ==
  /\ pc[w] = "cas"
  /\ Goto(w, IF inProgress[cur[w]] THEN "relock" ELSE "take")
  /\ inProgress' = [inProgress EXCEPT ![cur[w]] = TRUE]
  /\ UNCHANGED <<poolVars, lifeVars, cur, job, call, taskQ, scheduled>>

TakeTask(w) ==
  /\ pc[w] = "take"
  /\ LET c == cur[w] IN
     IF taskQ[c] = <<>>
     THEN Goto(w, "clear") /\ UNCHANGED <<job, taskQ>>
     ELSE /\ Goto(w, "run")
          /\ job' = [job EXCEPT ![w] = Head(taskQ[c])]
          /\ taskQ' = [taskQ EXCEPT ![c] = Tail(@)]
  /\ UNCHANGED <<poolVars, lifeVars, cur, call, inProgress, scheduled>>

\* task.run() returns. While it ran, the task may have scheduled others (Schedule).
FinishTask(w) ==
  /\ pc[w] = "run" /\ call[w] = Idle
  /\ Goto(w, "clear")
  /\ UNCHANGED <<poolVars, lifeVars, cur, job, call, taskVars>>

Unclaim(w) ==
  /\ pc[w] = "clear"
  /\ Goto(w, "relock")
  /\ inProgress' = [inProgress EXCEPT ![cur[w]] = FALSE]
  /\ UNCHANGED <<poolVars, lifeVars, cur, job, call, taskQ, scheduled>>

\* Queue the context again if a task was run; contextShared goes out of scope.
Relock(w) ==
  /\ pc[w] = "relock"
  /\ MutexFree
  /\ Goto(w, "inner")
  /\ execQueue' = IF job[w] # 0 THEN Append(execQueue, cur[w]) ELSE execQueue
  /\ cur' = [cur EXCEPT ![w] = NoContext]
  /\ job' = [job EXCEPT ![w] = 0]
  /\ UNCHANGED <<needStop, waiting, completed, lifeVars, call, inProgress, scheduled>>
  /\ ClearDestroyed

Exit(w) ==
  /\ pc[w] = "exit"
  /\ Goto(w, "gone")
  /\ completed' = completed + 1
  /\ UNCHANGED <<needStop, waiting, execQueue, lifeVars, cur, job, call, taskVars>>

-----------------------------------------------------------------------------
(* CustomSchedulerContextInPool::schedule, by any thread that holds a      *)
(* shared_ptr to the context for the duration of the call.                 *)

MayCall(t) == call[t] = Idle /\ (t \in Workers => pc[t] = "run")

Schedule(t, c) ==
  /\ MayCall(t) /\ Referenced(c)
  /\ scheduled < MaxTasks
  /\ scheduled' = scheduled + 1
  /\ taskQ' = [taskQ EXCEPT ![c] = Append(@, scheduled')]
  /\ call' = [call EXCEPT ![t] = [at |-> "expired", ctx |-> c]]
  /\ UNCHANGED <<poolVars, lifeVars, workerVars, inProgress>>

\* The call returns and its caller's temporary shared_ptr to the context goes.
Return(t) ==
  /\ call' = [call EXCEPT ![t] = Idle]
  /\ UNCHANGED <<inProgress, scheduled>>
  /\ ClearDestroyed

TestPool(t) ==
  /\ call[t].at = "expired"
  /\ UNCHANGED <<poolVars, lifeVars, workerVars>>
  /\ IF PoolReferenced THEN Proceed(t, "lockPool") /\ UNCHANGED taskVars
     ELSE Return(t)

\* _threadPool.lock() may return null, although expired() was false a moment ago.
LockPool(t) ==
  /\ call[t].at = "lockPool"
  /\ IF PoolReferenced THEN Proceed(t, "enqueue") /\ UNCHANGED crashed
     ELSE crashed' = "pool" /\ UNCHANGED call
  /\ UNCHANGED <<poolVars, reg, ownerRef, destroyed, workerVars, taskVars>>

\* wakeUpForContext
Enqueue(t) ==
  /\ call[t].at = "enqueue"
  /\ MutexFree
  /\ execQueue' = Append(execQueue, call[t].ctx)
  /\ Proceed(t, "notify")
  /\ UNCHANGED <<needStop, waiting, completed, lifeVars, workerVars, taskVars>>

Notify(t) ==
  /\ call[t].at = "notify"
  /\ WakeOne
  /\ Proceed(t, "release")
  /\ UNCHANGED <<needStop, execQueue, completed, lifeVars, workerVars, taskVars>>

\* The temporary shared_ptr to the pool goes; if it was the last one, this
\* thread runs ~CustomSchedulerThreadPool.
ReleasePool(t) ==
  /\ call[t].at = "release"
  /\ UNCHANGED <<poolVars, lifeVars, workerVars>>
  /\ IF ownerRef \/ \E u \in Callers \ {t} : call[u].at \in TempRef
     THEN Return(t)
     ELSE Proceed(t, "stop") /\ UNCHANGED taskVars

ClearAllTasks(c) ==
  /\ Referenced(c)
  /\ taskQ' = [taskQ EXCEPT ![c] = <<>>]
  /\ UNCHANGED <<poolVars, lifeVars, workerVars, call, inProgress, scheduled>>

-----------------------------------------------------------------------------
(* The owner's operations on the pool, and the pool's destruction.         *)

OwnerReady == call[Owner] = Idle /\ ownerRef

MakeNewContext(c) ==
  /\ OwnerReady /\ ~needStop
  /\ reg[c] = "new" /\ MutexFree
  /\ reg' = [reg EXCEPT ![c] = "listed"]
  /\ Proceed(Owner, "wakeUp")
  /\ UNCHANGED <<poolVars, ownerRef, destroyed, crashed, workerVars, taskVars>>

RemoveContext(c) ==
  /\ OwnerReady
  /\ reg[c] # "new" /\ MutexFree
  /\ reg' = [reg EXCEPT ![c] = "removed"]
  /\ Proceed(Owner, "wakeUp")
  /\ UNCHANGED <<poolVars, ownerRef, destroyed, crashed, workerVars, inProgress, scheduled>>
  /\ ClearDestroyed

WakeUp ==
  /\ call[Owner].at = "wakeUp"
  /\ WakeOne
  /\ Proceed(Owner, "idle")
  /\ UNCHANGED <<needStop, execQueue, completed, lifeVars, workerVars, taskVars>>

OwnerStops ==
  /\ OwnerReady
  /\ Proceed(Owner, "stop")
  /\ UNCHANGED <<poolVars, lifeVars, workerVars, taskVars>>

\* customSchedulerThreadPool = nullptr
OwnerDrops ==
  /\ OwnerReady
  /\ ownerRef' = FALSE
  /\ IF \E t \in Callers : call[t].at \in TempRef
     THEN UNCHANGED call
     ELSE Proceed(Owner, "stop")
  /\ UNCHANGED <<poolVars, reg, destroyed, crashed, workerVars, taskVars>>

\* stopAll(): the compare_exchange on _needStop succeeds.
RaiseStop(t) ==
  /\ call[t].at = "stop" /\ ~needStop
  /\ needStop' = TRUE
  /\ Proceed(t, "notifyAll")
  /\ UNCHANGED <<waiting, execQueue, completed, lifeVars, workerVars, taskVars>>

NotifyAll(t) ==
  /\ call[t].at = "notifyAll"
  /\ waiting' = {}
  /\ Proceed(t, "await")
  /\ UNCHANGED <<needStop, execQueue, completed, lifeVars, workerVars, taskVars>>

\* stopAll() returns: it was called before, or every worker has completed.
\* When it was called by the destructor, the pool's members go next.
StopReturns(t) ==
  /\ \/ call[t].at = "stop" /\ needStop
     \/ call[t].at = "await" /\ completed = Cardinality(Workers)
  /\ destroyed' = (destroyed \/ ~PoolReferenced)
  /\ reg' = IF PoolReferenced THEN reg
            ELSE [c \in Contexts |-> IF reg[c] = "listed" THEN "removed" ELSE reg[c]]
  /\ UNCHANGED <<poolVars, ownerRef, crashed, workerVars>>
  /\ Return(t)

-----------------------------------------------------------------------------

WorkerStep(w) ==
  \/ TestStop(w) \/ LockAndTest(w) \/ Block(w)
  \/ PopContext(w) \/ LeaveInner(w) \/ TestExpired(w) \/ LockContext(w)
  \/ Claim(w) \/ TakeTask(w) \/ FinishTask(w) \/ Unclaim(w) \/ Relock(w)
  \/ Exit(w)

CallStep(t) ==
  \/ TestPool(t) \/ LockPool(t) \/ Enqueue(t) \/ Notify(t) \/ ReleasePool(t)
  \/ RaiseStop(t) \/ NotifyAll(t) \/ StopReturns(t)

OwnerStep ==
  \/ \E c \in Contexts : MakeNewContext(c) \/ RemoveContext(c)
  \/ WakeUp \/ OwnerStops \/ OwnerDrops

Next ==
  /\ crashed = "no"
  /\ \/ \E w \in Workers : WorkerStep(w) \/ SpuriousWakeup(w)
     \/ \E t \in Callers : CallStep(t) \/ \E c \in Contexts : Schedule(t, c)
     \/ \E c \in Contexts : ClearAllTasks(c)
     \/ OwnerStep

Spec == Init /\ [][Next]_vars

\* Every thread that can take a step again and again takes it, tasks return,
\* and a thread that finds _mutex free again and again gets it. No operation
\* is ever forced to be called.
Fairness ==
  /\ \A w \in Workers : SF_vars(crashed = "no" /\ WorkerStep(w))
  /\ \A t \in Callers : SF_vars(crashed = "no" /\ CallStep(t))
  /\ WF_vars(crashed = "no" /\ WakeUp)

FairSpec == Spec /\ Fairness

-----------------------------------------------------------------------------
(* What the contexts promise: they are serial executors. A context is       *)
(* running the tasks of the workers that are inside task.run() for it.      *)

Running == [c \in Contexts |-> {job[w] : w \in {v \in Workers : pc[v] = "run" /\ cur[v] = c}}]

Serial == INSTANCE SerialExecutors WITH
            Executors <- Contexts, pending <- taskQ, running <- Running, submitted <- scheduled

\* Whatever the workers, the callers and the owner do, a context runs what is
\* given to schedule() one task at a time and first come first run; a task leaves
\* the queue only to be run, or with the whole queue (CustomSchedulerContextInPool.cpp:156-203).
ImplementsSerialExecutors == Serial!Spec

-----------------------------------------------------------------------------
(* Properties.                                                             *)

\* Types, and _threadsCompleted counts no worker twice.
TypeOK ==
  /\ needStop \in BOOLEAN /\ ownerRef \in BOOLEAN /\ destroyed \in BOOLEAN
  /\ waiting \subseteq Workers
  /\ execQueue \in Seq(Contexts)
  /\ completed \in 0..Cardinality(Workers)
  /\ reg \in [Contexts -> {"new", "listed", "removed"}]
  /\ crashed \in {"no", "context", "pool"}
  /\ pc \in [Workers -> {"test", "lock", "exit", "gone"} \cup Held \cup Using]
  /\ cur \in [Workers -> Contexts \cup {NoContext}]
  /\ job \in [Workers -> 0..MaxTasks]
  /\ call \in [Callers -> [at : {"idle", "expired", "lockPool", "wakeUp"} \cup TempRef \cup Stopping,
                           ctx : Contexts \cup {NoContext}]]
  /\ taskQ \in [Contexts -> Seq(1..MaxTasks)]
  /\ inProgress \in [Contexts -> BOOLEAN]
  /\ scheduled \in 0..MaxTasks

\* The tasks of a context run one at a time, and none before one that was
\* scheduled earlier: "задачи будут исполняться гарантированно последовательно"
\* (CustomSchedulerContextInPool.cpp:193), whichever workers run them.
SerialContexts ==
  \A w \in Workers : pc[w] = "run" =>
    /\ \A i \in 1..Len(taskQ[cur[w]]) : job[w] < taskQ[cur[w]][i]
    /\ \A v \in Workers \ {w} : pc[v] = "run" => cur[v] # cur[w]

\* No lost wakeup on the work path: while a context waits in the execution
\* queue, not every worker sleeps in _condVar, or a notify_one is on its way.
SomeoneAwake ==
  execQueue # <<>> =>
    \/ \E w \in Workers : w \notin waiting
    \/ \E t \in Callers : call[t].at = "notify"

\* stopAll() that returns after it raised _needStop leaves no worker behind,
\* and the pool is destroyed under no thread that still uses it.
StopQuiesces ==
  /\ needStop /\ (\A t \in Callers : call[t].at \notin {"notifyAll", "await"})
       => \A w \in Workers : pc[w] = "gone"
  /\ destroyed => \A t \in Callers : call[t].at \notin {"enqueue", "notify"}

\* Somebody will look at the queue of context c: it is in the execution queue,
\* a call is about to put it there, or a worker is about to take a task from it
\* or has run one and will put it back.
Covered(c) ==
  \/ \E i \in 1..Len(execQueue) : execQueue[i] = c
  \/ \E t \in Callers : call[t].ctx = c /\ call[t].at \in {"expired", "lockPool", "enqueue"}
  \/ \E w \in Workers : /\ cur[w] = c
                        /\ \/ pc[w] \in {"expired", "lockCtx", "cas", "take"}
                           \/ pc[w] \in {"run", "clear", "relock"} /\ job[w] # 0

\* The only step that leaves queued tasks of a context unattended is a worker
\* that gives up on a context because another worker holds it that has already
\* found its queue empty.
CoverageLostOnlyByCollision ==
  [][\A c \in Contexts :
       Covered(c) /\ taskQ'[c] # <<>> /\ ~Covered(c)' /\ PoolReferenced =>
         \E w, v \in Workers :
           /\ pc[w] = "cas" /\ pc'[w] = "relock" /\ cur[w] = c
           /\ pc[v] = "clear" /\ cur[v] = c /\ job[v] = 0]_vars

\* Queued tasks of a context that stays attended are run, unless the pool stops.
QueuedTasksRun ==
  \A c \in Contexts :
    taskQ[c] # <<>> ~> (taskQ[c] = <<>> \/ ~Covered(c) \/ needStop \/ crashed # "no")

\* stopAll() ends every worker, if no worker is between its test of the wait
\* predicate and its sleep when notify_all is called, and it is not a worker
\* that calls it: the destructor in a task waits for the task's own thread.
StopEndsWorkersUnlessRaced ==
  (/\ \E t \in Callers \ Workers : call[t].at = "notifyAll"
   /\ \A w \in Workers : pc[w] # "block")
    ~> ((\A w \in Workers : pc[w] = "gone") \/ crashed # "no")

\* A task in the queue of a live context is not forgotten: "это нужно, чтобы не
\* терялись задачи в случае, если несколько потоков начинают обрабатывать одну
\* очередь" (CustomSchedulerContextInPool.cpp:52-54). It would be, if no worker
\* is awake and no call is in progress that wakes one for it.
NoTaskForgotten ==
  ~ \E c \in Contexts :
      /\ Referenced(c) /\ taskQ[c] # <<>> /\ ~needStop
      /\ waiting = Workers
      /\ \A t \in Callers : call[t] = Idle
===============================================================================
