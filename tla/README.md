# AsyncCpp_Examples: specifications, model checking and proofs

The repository shows how to write schedulers for the task library async++: a
pool of threads with serial execution contexts, a queue that a thread of the
program waits on, and a scheduler with a thread of its own for load balancing.
It carries async++ itself, a blocking concurrent queue and a channel. All of that
is code that is hard to test: condition variables, atomic flags that are set
outside the mutex, lock-free queues, use counts that reach zero in an unexpected
thread. The modules here model it, TLC checks them on small instances, and TLAPS
proves, for every size, their invariants and that they implement what they promise: three
kinds of schedulers a common abstract specification of serial execution, the tasks
one of futures, the work-stealing queue an atomic deque, and the blocking queue a hand-over of
elements.

Paths below are relative to `src/` of the repository; `CP` is
`src/CustomSchedulerContextInPool.cpp`, `WQ` `src/CustomSchedulerWaitQueue.cpp`,
`BA` `src/CustomSchedulerBalancer.cpp`, `A` `libs/asyncplusplus`.

## The system

| Component | State | Operations | Interacts with |
|---|---|---|---|
| Pool and contexts (CP) | pool: `_needStop`, execution queue of weak pointers to contexts, list of contexts, count of completed threads, two mutexes with condition variables; context: task queue, `_executionInProgress` | worker loop, `performOneTask`; `schedule`, `clearAllTasks`; `makeNewContext`, `removeContext`, `wakeUp`, `wakeUpForContext`, `stopAll`, destructors | async++ calls `schedule` with task handles; a task may schedule others on the same or other contexts; weak and shared pointers in both directions |
| Wait queue (WQ) | `_stopWaiting`, task queue, mutex, condition variable | `waitAndPerformAllTasks`, `isStopRequested`, `stopWaiting`, `schedule` | a thread function in `src/SchedulersTest.cpp:62-71` loops over it and destroys it; the main thread stops it |
| Balancer (BA) | `_stopThread`, `_threadExitSuccess`, `_taskIsInWork`, task queue, mutex, two condition variables | detached thread function, `schedule`, `getQueueSize`, `taskIsInWork`, destructor; `selectTheBestScheduler` over several balancers | closures of tasks hold shared pointers to the scheduler that runs them (`src/SchedulersTest.cpp:168-192`) |
| Contexts of `src/ContextSwitchTest.cpp`, with `SpinMutexAdvanced` | last task of a chain of continuations, a spin lock | `perform`, `getTask`; `lock`, `unlock` | async++ continuations on its default pool; the main thread looks at the last task without the lock |
| async++ tasks (`A/include/async++/task*.h`, `continuation_vector.h`, `when_all_any.h`) | task states, continuation vectors, the shared states of `when_all` and `when_any` | `spawn`, `make_task`, `then`, `wait`, `get`, `event_task::set`, `when_all`, `when_any`; run, cancel or drop a handle | calls `schedule` of every scheduler above, from the thread that completes the antecedent task |
| async++ thread pool (`A/src/threadpool_scheduler.cpp`, `task_wait_event.h`, `fifo_queue.h`) | a work-stealing queue and an event per thread, the public queue, the list of sleeping threads | `schedule`, `thread_task_loop`, `steal_task`, start and destruction | runs what tasks, `perform` and the parallel algorithms schedule; a task that waits runs others |
| Work-stealing queue (`A/src/work_steal_queue.h`) | `top`, `bottom`, circular arrays that grow | `push`, `pop`, `steal` | its owner and the other threads of the pool |
| Parallel algorithms (`parallel_for.h`, `parallel_reduce.h`, `parallel_invoke.h`, `partitioner.h`) | ranges, `local_task`s on the caller's stack | recursive split, fork, join, reduce | the thread pool |
| cpp-channel (`libs/cpp-channel/include/channel.h`) | a bounded queue, five flags, three condition variables | `send`, `recv`, `select` | stands alone |
| concurrentqueue, blockingconcurrentqueue (`libs/concurrentqueue`) | per producer a queue of blocks and four counters; a semaphore with a count | enqueue and dequeue, single, bulk, blocking, timed | stands alone |
| Tests and `main` | counters, flags of the main loop | demonstrations | all of the above |

Hard behaviours, and what correctness is for each component:

- *Pool and contexts.* Several workers can hold the same context, from several
  entries of the execution queue. The tasks of a context must run one at a time
  and in order; no task may be forgotten; no worker may sleep through work or
  through a stop; `stopAll` must leave no worker behind; pointers must not be
  used after the object they lead to.
- *Wait queue and balancer.* The same for one worker: order, no lost wakeup, an
  end that comes, an object that is not used after its destruction. The
  balancer's destructor and its detached thread must agree on who goes first.
- *Contexts on continuations.* The same promise as a context of the pool, but kept
  by chaining tasks. Whoever looks at the last task must find one.
- *Tasks.* A continuation added while its task completes is neither lost nor
  run twice; an event is set once; a task settles after what it follows, and passes
  on the exception of a task whose value it asked for; dropped handles settle too.
- *Work stealing and the pool.* Owner and thieves get each task once, whatever the
  array does. A thread that goes to sleep, or that waits for a task by running others,
  misses no task; the pool can be destroyed.
- *Parallel algorithms.* A forked task refers to its caller's stack, also when a
  function throws; results are reduced in order whoever computes them.
- *Channel.* Three condition variables and flags decide who is notified, and
  `notify_one` must never pick the wrong one. A send returns only when it may.
- *Blocking queue.* Consumers race with four counters and no lock: whom the
  semaphore lets in must find an element; a block is used again only when it is empty;
  a timeout races the signal that comes late.

There is no persistence and no network in the program, hence neither crash
recovery nor unreliable delivery.

`PROJECT.json` lists the components, the hazards at their lines with the
properties that cover them, the lines each definition models, the faulty variant
that breaks each property, the runs, the findings and the theorems.

## Modules

| Module | Content |
|---|---|
| `SerialExecutors` | abstract: tasks run one at a time per executor, in the order they came, or are dropped with the whole queue |
| `ContextPool` | the pool, its contexts, their callers and their owner |
| `WaitQueue` | the wait queue, its worker's thread function, clients, and the main thread that stops it |
| `Balancer` | one balancer, its thread, clients, and the reference counting that starts its destructor |
| `ContextSwitch` | the contexts of `ContextSwitchTest.cpp`, their spin lock, the tasks and the main thread of the test |
| `Futures` | abstract: what those who hold a task may rely on |
| `Tasks` | task objects, continuation vectors, events, unwrapping, `when_all`, `when_any` |
| `StealDeque` | abstract: one atomic double-ended queue of which each task is given out once |
| `WorkStealQueue` | owner and thieves on the circular arrays |
| `FifoQueue` | the circular array of the public queue, as operators |
| `ThreadPool` | the pool's threads, queues, waiters and events (extends `FifoQueue`; its work-stealing queues are the deques that `StealDeque` promises) |
| `ForEach` | abstract: what `parallel_for` promises |
| `ForkJoin` | extends `ThreadPool` with the parallel algorithms as its client |
| `Channel` | channel, `send`, `recv`, `select` |
| `HandOver` | abstract: what a blocking queue of several producers promises |
| `Totals` | sums over the producers, as operators |
| `ConcurrentQueue` | producers' queues, blocks and counters |
| `BlockingQueue` | extends `ConcurrentQueue` with the semaphore and its blocking and timed calls |
| `MC...` | instances for TLC |
| `ContextPoolProofs`, `BalancerProofs`, `ContextSwitchProofs`, `TasksProofs`, `WorkStealQueueProofs`, `ForkJoinProofs`, `ChannelProofs`, `BlockingQueueProofs` | theorems; those of `WaitQueue` are in `BalancerProofs`, through an instance `WQ`, since both schedulers need the same assumptions and nearly the same invariant |

The schedulers compose with the tasks at one interface, `schedule(task_run_handle)`:
`Tasks` leaves open when and by which thread a scheduled task is run or dropped, and
the modules of the schedulers leave open what a task does and who schedules it.
`ContextSwitch` and `ForkJoin` are compositions of their own: continuations with
a lock, and the pool with calls that wait for its tasks.

### How code becomes actions

A step of a model is what one thread does between two points at which others can
interfere. A critical section that contains no wait and reads no atomic outside
the mutex's protection is one action, guarded by `MutexFree`. A thread that
blocks on a condition variable does so in two steps: it tests the predicate with
the mutex held (`LockAndTest`), and then sleeps and lets the mutex go (`Block`).
In between the mutex is held, but the atomic flags, which are set without it,
may change. That gap is where the stop notifications are lost. After a
wakeup, spurious ones included (`SpuriousWakeup`), the worker is again in front of
`LockAndTest`. Reads and writes of atomics are steps of their own whenever another
thread can tell: `expired()` and the `lock()` after it, the two reads of
`_stopThread` at BA:38 and BA:41, `_stopWaiting = true` and the `notify_all` after
it, the flag `_threadExitSuccess` and the notification after it.

All atomics of the schedulers are sequentially consistent, so interleaving is
faithful. async++ and the queues order their atomics by hand; there the
models take each access for a step and assume what the fences give, as said below. Tasks are numbers in the order of the pushes; 0 is an empty handle.
What a task does is abstract, except that it may call `schedule` of any scheduler
it can reach (its caller is then the worker) and, for the balancer, that its
closure may hold a `shared_ptr` to the scheduler.

*ContextPool.* `pc` is a worker's place in the loop CP:16-74, `cur` the context it
popped, `job` the task it took. `call` is the place of a thread in `schedule`,
`wakeUp` or `stopAll` and the context it holds a `shared_ptr` to. Use counts are not
counters but are derived from who holds a pointer: `Referenced(c)` (the
pool's list, a worker with `contextShared`, a caller) and `PoolReferenced` (the owner,
or the temporary of `_threadPool.lock()` at CP:162). When a step takes the last
reference to a context away, `~CustomSchedulerContextInPool` clears its queue
(`ClearDestroyed`); the thread that takes the pool's last reference away enters
`stopAll` from the destructor. A dereference of null ends the behaviour in
`crashed`. Contexts are made, removed and the pool dropped by the owner only, as
the comment at `src/CustomSchedulerContextInPool.h:12` asks.

*WaitQueue.* The worker is the thread function of `src/SchedulersTest.cpp:62-71`:
`TestStop` is its `isStopRequested()`, the steps up to `Relock` are
`waitAndPerformAllTasks`, `DropScheduler` resets the pointer. A call that goes on with
the object after that is recorded in `misused`, where the behaviour ends.

*Balancer.* The worker's steps are those of the lambda BA:14-48. `references` says
who holds a `shared_ptr`: the main thread (its vector), a caller for the closure
of the task it schedules, a task. The step that empties it (`ClearVector` or
`DestroyClosure`) enters the destructor, in that thread. An `unlock()` of a mutex
that is not locked throws, in a detached thread, so the program ends (`crashed`).

*ContextSwitch.* A task is reduced to the task it continues (`prev`) and its state.
`at` is the place of a task's function, or of the main thread, in `perform()`; `then()`
moves `_lastTask` out (`valid` becomes `FALSE`) and the assignment puts the new task there.
The loads of the spin lock and exchanges that fail change nothing and are no steps.
`getTask()` is called anew for each look, without the lock. Where the code asserts or throws
for an empty task, the function ends with an exception and its continuations are canceled;
in the main thread the program terminates.

*Tasks.* `kind`, `parent` and `target` say what an object is and whom it
follows; which objects a program makes is one of `Programs`. `place` follows an object
from its making over the parent's vector (`adding`, `trying`, `waiting`, `pushing`, `listed`)
to its scheduler, its function, and `run_continuations` (`finished`, `flushing`, `over`).
`vector`, `locked` and `mutex` are the two low bits of the vector's pointer and the mutex of
its slow path. A hidden continuation works for another object: it forwards the
result of a task that a function returned, counts down `when_all`, or tries to set the
event of `when_any`. `Discard` is a handle destroyed unrun, `Forget` one that is overwritten,
which cancels nobody (`A/include/async++/scheduler.h:112-116`). The futures' `phase` is derived
from `state`; stored values are left out, but whether a task ended by an exception is kept.

*WorkStealQueue.* Owner and thieves step from one access to `top`, `bottom`, `array` or an
item to the next. `compare_exchange_weak` may fail for no reason. The sequentially consistent
fence between the owner's store of `bottom` and its load of `top`, and that between a thief's two
loads, make interleaving faithful at the points where the algorithm depends on it.
Old arrays stay, as in the code. The abstract deque is what lies between `top` and
`bottom`, and one more while `pop` has taken `bottom` back but has not decided.

*ThreadPool and ForkJoin.* `stack[th]` is the stack of a thread, an activation per record:
the task loop, a task in it, a call of the algorithm, a loop in that call that waits
for the forked task and runs others meanwhile. A loop without a task to wait for ends with
the pool. `waiters` and `event` are the list of sleeping threads, under the lock, and their
event masks; `task_wait_event::wait` returns 1 for any event, as the code does, so a
waiting thread that was woken for work believes its task has finished and goes on; the
destructor of `local_task` waits again. A `local_task` is named by the range it is made for;
`held` are those to which the pool still has a reference. The reduction is concatenation.
Threads start each other in a tree, and a thread's handle is assigned by whoever started it.

*Channel.* A step is a critical section, or a notification, which the code issues after
it has unlocked. `waiting` are the threads in a wait that have not been notified.
`select` is reduced to the calls it makes: a case is tried again until it succeeds
(`wait`), or given up before (`try_once`).

*ConcurrentQueue and BlockingQueue.* Elements are named by producer and index.
A dequeue steps through its loads and additions of the counters, in the order of the code; the
elements it has claimed are moved block by block. An enqueue reserves its blocks, by using
empty ones of its ring again (explicit producers) as long as the next one is empty, and then
from the pool, fills them and publishes the tail; if an allocation fails it takes all back.
An explicit producer finds its blocks in a circular index: `headers` are the indices it has had, each
with its `size`, `front` and `entries` (`base` counts blocks), `nextSlot` and `slotsUsed` are
`pr_blockIndexFront` and `pr_blockIndexSlotsUsed`. Every block that is got is written to the next slot (`Enters`);
`Grow` is `new_block_index`, which copies a full index into one of twice the size while consumers look in the
old one; `Fail` restores `nextSlot` and `slotsUsed` as lines 2027-2043 do and keeps the
blocks. A consumer reads the index (`ReadIndex`), then its front and the slot to look in (`ReadFront`), and finds the
block there (`Found`); what it has read is in `sees`. A slot that was never written holds no address in the code, and the
consumer stops there. `index` is a history: the blocks a producer has used, in order; the code decides nothing by it
for an explicit producer. For an implicit one it stands for its own index, whose slots are emptied by
who frees a block and never overwritten before. `takenBack` is a history too: an enqueue of an explicit producer
has failed after it had got a block. `m_count` and `m_sema` are the
semaphore; a consumer that has been let in goes round the producers until it has found as many
elements as it was let in for. Single and bulk calls are one model with a count.

Each module has a section of faulty variants of its own steps. They are
no part of the specification; each is a slip the code could have had, and
replacing the step by the variant breaks the property named in `PROJECT.json`, on
the instance of the run. A property thus says something about the code.

## Runs

| Run | Instance | Expected | Shows |
|---|---|---|---|
| `pool` | 2 workers, 1 client, the owner, 1 context, 2 tasks, fair | pass | `TypeOK`, `SerialContexts`, `SomeoneAwake`, `StopQuiesces`, `CoverageLostOnlyByCollision`, `ImplementsSerialExecutors`, `QueuedTasksRun`, `StopEndsWorkersUnlessRaced` |
| `pool_forgotten` | the same, without fairness | violation | `NoTaskForgotten` |
| `wait_queue` | 2 clients, 3 tasks, fair | pass | `WorkNoticed`, `ImplementsSerialExecutors`, `QueuedTasksRun`, `StopEndsLoopUnlessRaced` |
| `balancer` | 2 clients, 3 tasks, fair | pass | `WorkNoticed`, `DestroyedAfterLoop`, `ImplementsSerialExecutors`, `QueuedTasksRun`, `DestructorEndsUnlessRaced` |
| `contexts` | `testContextsSwitch` (9 tasks, 3 contexts) and a program that contends for a context, fair | pass | `TypeOK`, `ImplementsSerialExecutors`, `ContextsDrain` |
| `contexts_empty` | the same programs | violation | `NoEmptyTaskUsed` |
| `tasks` | 8 programs of 5 to 7 objects, fair | pass | `TypeOK`, `NoneLeftBehind`, `ContinuationsFollow`, `KeepPromise` |
| `worksteal` | the owner and 2 thieves, a first array of 2, 5 pushes | pass | `ImplementsDeque`, `EmptyHandedOnlyIfEmpty` |
| `forkjoin` | pools of 1 and of 2 threads and the main thread; 4 elements, grain 1; split statically, by `auto` (once with a function that throws) and as `parallel_invoke` with a function that throws; fair | pass | `TypeOK`, `QueuesAreLookedInto`, `TasksStayInTheirCall`, `ReducedInOrderButForGaps`, `ImplementsForEach`, `EverythingEnds` |
| `forkjoin_misled` | the same programs | violation | `WaitEndsWithItsTask` |
| `channel` | 13 programs of 4 threads with room for 0, 1 or 2 elements, fair | pass | `TypeOK`, `FullQueueHasItsSender`, `SentFitsOrIsAwaited`, `CallsEndUnlessUnheard` |
| `bqueue` | an explicit producer (2, 4, then 3 elements) and an implicit one (2), a consumer that waits for 2 and one that waits for 3 with a timeout, then tries for 1; 3 blocks of 2, an index of 2 slots | pass | `NobodySleepsBesideElements`, `ElementsStayUnlessTakenBack`, `ImplementsHandOver` |

`CHECK_DEADLOCK` is off everywhere: each of these systems may stop, when the
schedulers have been destroyed, when the bound on the tasks is reached and the
workers sleep, when the program has crashed, or when all calls have returned. That
nobody waits for ever who should not is what `CallsEndUnlessUnheard`, `EverythingEnds`,
`ContextsDrain` and the leads-to properties say.

### Bounds

*Schedulers.* `MaxTasks` bounds the tasks ever scheduled, and with it the queues. Two
tasks are enough for the pool's races: a context with one task running and one
queued, or a context in the execution queue twice. Two
workers are the least that can collide on a context; a client and the
worker's own task are two callers that differ (the worker cannot go on until its
call returns), and the owner is a third. Contexts share the execution queue, the workers and their wakeups,
and nothing else: what the safety properties say of several is proved for any number. With one worker the wait queue and the balancer need two tasks for
order and a third for one that comes in during a drain; two clients for calls
that overlap. The theorems below do not depend on any of these bounds.

*Tasks.* A program fixes who follows whom; when and in which threads its objects are
made, continued, claimed, run, thrown out or dropped is open. Three continuations
on one vector are the least with which a second adder meets the one that holds the
mutex while the task completes. `when_all` and `when_any` have two inputs,
of different kinds; each special case of a continuation occurs in some program
(value and whole-task continuations, waiting threads, events, tasks made ready, a
returned task that is an event, or that the task follows already).

*Work stealing.* With an array of two, the third push makes it grow while
thieves hold indices and the old array, and the fifth again. Two thieves and the
owner can compete for the last task.

*Fork and join.* Four elements with grain 1 give a tree of two levels, so that a
thief forks itself, and a thread that waits for a stolen task runs another. The public
queue is used by the main thread. A pool of one thread makes the main thread wait for
a single worker.

*Channel.* Room for none (rendezvous), for one, and for two, with two threads that
send and two that receive, or with four that do both; a select of each kind. Three
condition variables then have more than one waiter. No program has selects at both
ends of the channel, which the code does not support yet (`channel.h:91`). One has a select that sends, a sender and two
receivers without a buffer, the case that `CallsEndUnlessUnheard` makes an exception of.

*Blocking queue.* The producers need six blocks of two and there are three: blocks
must be used again as soon as they are empty, or the enqueue fails and takes its
reservation back. `MostAdded` bounds the counters of
dequeues that fail (their retries); it is larger than the number of consumers, so
each of them can fail beside a dequeue that succeeds. An index of two slots is the smallest that can be full
with a block left in the pool: the enqueue of four elements needs two more blocks at once, finds the index full at the second,
and makes it grow while consumers may have the old one; if the implicit producer has taken a block, it fails half-way.
Two consumers asleep when the first two elements come are the least that a bulk signal can forget.

### Fairness

Every thread that can go on does. In the pool, the wait queue and the balancer the steps of a
thread get strong fairness, because a lock or the end of a wait may be enabled
only now and then, while others take the mutex: the guarantee is that a thread that finds
the mutex free again and again gets it at last. Tasks return (the step that ends a
task is part of the thread's). Nothing makes a client schedule, an owner stop or drop, or a
wakeup happen spuriously.

In the other modules weak fairness of each thread (or task) is enough: a lock is not held across
steps, or in the end nobody takes it any more. It is a strong assumption only in `Tasks`:
whoever was given a task runs it or drops it at last. A `select` tries
again and again, so that its tries need strong fairness: one that could succeed again
and again succeeds. `WorkStealQueue`, `ConcurrentQueue` and `BlockingQueue` claim safety
only: a `compare_exchange_weak` may fail for ever, and so may two consumers that guess from
stale counts.

### What the violations show

- `pool_forgotten`: worker A claims a context, finds its queue empty, and is about to
  let go of the claim (CP:191-201). A task is pushed and the context queued;
  worker B pops the context, fails to claim it and drops it (CP:180-182, 55). A
  took no task, so it does not queue the context again. The task stays
  until something else schedules on the context. `CoverageLostOnlyByCollision`,
  which is proved, says that this is the only way.
- `forkjoin_misled`: `task_wait_event::wait` returns 1 for whichever event (`A/src/task_wait_event.h:53`), and 1 is
  `task_finished`: a thread that waits for a task and is woken for work leaves its loop, and `get()`
  goes on with a result that is not there. `local_task` is
  safe all the same, since its destructor waits again (`TasksStayInTheirCall`); what is reduced then has a
  gap, and only that (`ReducedInOrderButForGaps`).
- `contexts_empty`: `perform()` moves `_lastTask` out by `then()` and assigns the new task
  after that, under the lock; the main thread calls `getTask()` without it
  (`src/ContextSwitchTest.cpp:121-128`), one time to test `valid()`, and again to ask and to wait.
  The later looks find the moved task: `task.h:65` asserts, `task.h:99` throws. At the end
  `get()` leaves the context without a task, while tasks of other contexts may still perform in it.

### What else the modules reach

These behaviours are in the models and TLC walks through them. They have no run of their own: either
no line of the repository promises the contrary, or the properties of a passing run say where they are the exception.

- The owner removes a context, and the last thread in a call on it lets go of it, between a
  worker's `expired()` and `lock()` (CP:38-46): `performOneTask` is called on a null pointer (`crashed = "context"`).
- On an unbuffered channel a select can send only while `m_is_recv_ready` is set
  (`channel.h:681`). Two receivers wait, and a sender comes: the one that receives clears the flag (118), although the other
  still waits. Nobody sets it again, and the select tries for ever beside a receiver that waits for ever, whom the
  comment at 81 says to "give `try_send()` a chance". `CallsEndUnlessUnheard` excepts exactly this.
- `send()` returns when its element fits into the buffer (`channel.h:797`). If another sender then fills the queue,
  the thread finds its own element in front when it comes to receive, and the assertion at 815 (or 733, 828, 842) fails.
- A select that receives sets `m_is_try_recv_ready` and gives up (`channel.h:719`, `try_once`);
  a select that sends later finds both flags set, and `assert(!is_try_ready())` at 678 fails with one select in the channel
  (`Channel` allows it; no program of the run has both).
- A bulk enqueue gets one of two blocks, and fails for want of the other. The block stays in
  the ring, but `pr_blockIndexSlotsUsed` is restored (`concurrentqueue.h:2028`, `2043`). The next enqueue uses the block
  again (1791, 2003), which counts nothing, since a block used again is thought to have a slot already (1795). The index is then
  full at a lower count, the test at 2024 passes, and the next block overwrites the slot of the oldest one while elements are
  in it. A consumer that claims one of these looks into another block. `ElementsStayUnlessTakenBack` says
  that this needs an enqueue that has failed half-way; `ElementsStay`, without that premise, is violated in
  the instance of `bqueue` (a behaviour of 24 steps).
- `stopAll` sets `_needStop` and notifies without `_mutex` (CP:90): a worker between its test
  and its sleep misses it. `StopEndsWorkersUnlessRaced` excludes this case, and
  likewise `StopEndsLoopUnlessRaced` and `DestructorEndsUnlessRaced`.
- A task's `schedule` holds a temporary owner of the pool (CP:162); if the owner drops its own
  meanwhile, the destructor runs in a worker, for which it waits.
- `stopWaiting` uses the condition variable after the flag that lets the worker destroy the
  object (WQ:42).
- The balancer's thread locks depending on `_stopThread` at BA:38 and unlocks depending
  on it later; set in between, `unlock()` throws (BA:41). Its destructor may end before the
  thread has called `notify_all` on `_condVarExit` (BA:47).
- `when_any` moves the list of tasks out before it is decided who is first
  (`when_all_any.h:98`): the winner may deliver the empty list.
- Two consumers may fail each other again and again although there are elements for both
  (`concurrentqueue.h:1978`).

## Proofs

The theorems hold for any number of workers, clients, contexts, tasks, thieves or
threads, from the assumptions the modules name: `PoolAssumption` (the pool has finitely many
workers, at least one; workers, clients and the owner are different threads;
`NoContext` is no context), `QueueAssumption`, `BalancerAssumption`, `ScriptAssumption` (a
function that is performed is a task of its own, and a call's functions run in one context), `TasksAssumption` (every program is
well-formed: who follows, has a task to follow, and a hidden continuation works for an object of
the kind it serves), `ThreadPool`'s `PoolAssumption` (the pool is made with finitely many sizes, each at least
one, and its public queue with a place) and `RangeAssumption` (a range with elements, a positive grain; tasks
are subranges), `ChannelAssumption`, `CallsAssumption` (finitely many producers and
consumers, with calls for at least one element).

*ContextPool.* `SerialContexts` is not inductive: nothing in it says that a worker in
`task.run()` has the claim, or that a queue is in order. `IInv` in
`ContextPoolProofs` adds, each as a named part:

- `Counted`: `_threadsCompleted` is the number of workers that have left;
- `KnowsContext`: a worker between pop and re-queue, and a thread in a call, has a context;
- `SleepersWait` and `NoWorkUnseen`: only a worker in front of the predicate sleeps,
  and while one is about to sleep, holding `_mutex`, the execution queue is empty,
  which with `SomeoneAwake` gives the wakeup argument;
- `OneClaim`: at most one worker is between the compare_exchange and the store for a
  context, and then `_executionInProgress` is set;
- `OldestFirst`: queues are increasing, below the number of scheduled tasks, and
  above the task that runs;
- `NobodyAfterStop`, `NoRevival`, `NewIsUnknown`: what the stop and the use
  counts make impossible: a raised stop that nobody waits for any more finds every worker gone, a pool or
  a context without references gets none again, a context that has not been made is nowhere.

The refinement, `Spec => ImplementsSerialExecutors`: `TakeTask` maps to
`Begin`, `FinishTask` to `End`, `Schedule` to `Submit`, steps that empty queues to
`Drop`, and every other step to stuttering. The set of running tasks of a context
is derived from `pc`, `cur` and `job`; that `Begin` finds it empty needs `OneClaim`.

`CoverageLostOnlyByCollision` needs two facts more: a claim that
is set is held by a worker (`ClaimIsHeld`), which is then the other party of the
collision, and a context without references has an empty queue (`UnheardEmpty`),
so that who pops an expired one leaves nothing behind.

*WaitQueue and Balancer.* `IInv` adds that the worker sleeps only inside the wait
and that the queue is empty while it is about to sleep (`SleepsUnaware`), and for
the balancer that `_threadExitSuccess` comes after the loop and before the end of
the destructor (`ExitHandshake`). Proved are the types (with them, that `run()` is never
called on an empty handle), `WorkNoticed`, `DestroyedAfterLoop` and the refinement of
`SerialExecutors`.

*Tasks.* `NoneLeftBehind` is proved for every set of tasks and every program. The step that
matters is the one from a locked vector to a flushed one: an adder that comes
later must see the lock, and one that holds the mutex must be waited for. `IInv` adds, for
each task, that its state, its place and its vector's bits agree (`Fits`), that a
continuation is given away only when its parent has settled (`Joins`), and that a hidden
continuation works for a task that is past its own waiting (`Works`).

`KeepPromise`, the refinement of `Futures`, rests on `PInv`, which adds that a task on its
way is pending (`Unsettled`), that a continuation which asked for a value runs only if there is one
(`HasValue`), that who works for another does so while that one waits for it (`Serves`), and
that a function returns one task (`OneForward`). A step maps to `Create`, `Settle` or a
stutter, and the unwrapping of a returned task to `Follow`. The proof found that
`Follow` was too narrow: a function may return the very task that its own
follows already, and then nothing is added to what the result waits for. The run has a
program with that case.

*ContextSwitch.* `TypeOK` (with it, that the spin lock excludes and that a context is without a
last task only under the lock or after the main thread's `get()`), and the refinement of
`SerialExecutors`, for every program that satisfies `ScriptAssumption`. The number
of a task is its place in `came`, and the abstract queue is the sorted set of the places
of a context's tasks that have not begun; so the proof needs what the operators that sort return
(`Numbers`, `Ranked`). The invariant's part on order, `Ordered`, is a chain: no task
came twice (`CameOnce`), the last task of a context is the newest (`LastIsNewest`), each follows
the one that came before it (`FollowsPrevious`), hence one waits until all before it have ended
(`OneAfterTheOther`). `ValidOrReplaced` says that only under the lock can `_lastTask` be empty
before the end, which is why `perform` never finds it so; `getTask`, without the lock, does
(`contexts_empty`).

*WorkStealQueue.* `Spec => ImplementsDeque` and `EmptyHandedOnlyIfEmpty`. In the inductive
invariant, `OwnerKnows` says place by place what the owner's local copies of
`top` and `bottom` are worth, `Fits` that the tasks fit into the array, `Once` that the tasks in
it have not been given out and lie in the order of their pushes, `ThiefSees` that a thief
whose copy of `top` is still the top has the right task, even from an array that has
been replaced. The arithmetic is in `NoWrap` and `Apart`: indices closer than the size
do not share a place.

*ForkJoin.* `TypeOK`, `QueuesAreLookedInto`, `TasksStayInTheirCall` and `ReducedInOrderButForGaps`, for every size of
the pool, range, grain and way to split. None of them is inductive. The invariant says what stacks look like
(`WellStacked`): each activation is one that its thread can have (`Own`), lies on one that
it belongs to (`Above`: a task on the loop that took it, a call on the task or the call it was made by with
just the range it was made for, a loop on the call that waits), and the lowest is the thread's loop or the client
(`Base`). Then a call that returns hands its result to the right activation, and stays below whatever runs
while it waits. `Supported` says that every task the pool has is referred to by a
call on some stack; it is `TasksStayInTheirCall` in a form that a step on one stack can keep. `SoundCall` and
`SoundRuns` say place by place how much of a result is there, and `ResultsInOrder` that what was stored is in
order, and complete unless it has a gap. For the wakeups: `Listed` (who sleeps without a signal is on the list, who is on it sleeps or was just woken),
`EmptyWhenLooking` (who looks elsewhere, or sleeps, has emptied its own queue) and `ShutLast` (nobody ends
before the client has its result, so there is always somebody to wake). `StartedOnce` says that the shares of the threads that are
starting others lie apart. Actions are few kinds of steps of a stack (it goes on, pushes, pops, returns),
and a lemma for each kind shows what it keeps.

`ImplementsForEach`, for the same constants, rests on a second inductive invariant, `Within`, that counts what
is left to do. `Apart`: each element is with one thread, or in one queued task, at most. A thread's part is what the
activation on top of its stack has begun with (`OnlyTheTop`), since the calls below have given theirs to those above. `Settled`
is why a call may return: what any activation takes for done (`Over`), nobody works on; for the
second part of a call that is so as soon as the pool has let go of its task, which `ReleaseTask` does only on top of a finished
task. A fork, a steal and a take move work (`SplitWork`, `TakeWork`) and leave the sum of it as it is; only
`RunInline` makes it less (`EndWork`), by just the elements that the function is called for, or up to the first that
throws, whose existence is the least-number principle, taken from the library's theorem that `<` is well-founded.
All other steps map to stutters. The proof found `ForEach` too narrow: a range that is not split at all is worked on, and
returned from, in one step of the model, and `ForEach` had two. The run could not show it, since its four elements are
always split.

*Channel.* The types, `SentFitsOrIsAwaited` and `FullQueueHasItsSender`, for every program and room. The invariant says that
`m_is_send_done` is a lock of blocking sends (`OneSend`), and why a queue is full (`WhyFull`):
its last element belongs to a send that is under way, or to a nonblocking one
that found a receiver waiting. The assertions at `channel.h:110`, `113`, `727` and `730` follow. Those at 733, 815, 828 and 842
and `assert(!is_try_ready())` do not hold ("What else the modules reach").

*BlockingQueue.* `NobodySleepsBesideElements` and the refinement of `HandOver`, for
any number of producers, consumers and elements. The proof must exclude that a
consumer which the counters have let in finds no element. Per producer, `Accounted` balances the
books: every increment of `dequeueOptimisticCount` ends as one of the head or of
`dequeueOvercommit`, or is held by a consumer between the two. `Covered` draws the conclusion:
however far the producer gets, and however stale the overcommit that a consumer has
read, what consumers may claim together with what is claimed already is never more than what has been
enqueued. It quantifies over all later tails, since a consumer that has added its
count reads the tail anew; stated for the present tail alone it is not
inductive. Over all producers, `Balanced` says that what is enqueued and not claimed is what
consumers have been let in for, what has not been signalled yet, and the semaphore's
count less its sleepers; and that for each sleeper whom the count does not hold a post is under
way. The sums range over finite sets; `Total` is defined through cardinality, so that no induction is
needed.

*Model-checked only.* All leads-to and other liveness properties, since liveness under fairness
is beyond the proof system: `ContinuationsFollow`, `CallsEndUnlessUnheard`, `ContextsDrain`,
`EverythingEnds`, `QueuedTasksRun` and the ends of the loops. Of the safety invariants of the passing runs
only `ElementsStayUnlessTakenBack` has no theorem: what is proved of the blocking queue speaks of its counters and its
semaphore, not of its blocks and their index.

## Not modelled

- `selectTheBestScheduler` (BA:88-126): it changes no state, and what it returns is a guess from values
  read one after the other. The comparator at BA:111-123 never tests the busy flag.
- `SpinMutex`, and `try_lock` of both mutexes: they have no user.
- A continuation that keeps a bare reference to a scheduler beyond the life of that
  scheduler (`src/SchedulersTest.cpp:138`): the schedulers' modules let a thread call
  `schedule` through a pointer it holds, `Tasks` leaves the scheduler out.
- async++: what is stored in a task, allocation that fails, exceptions of moves,
  cancellation tokens (one flag that makes a function throw; `Throw` stands for it), the
  counting of references (who holds a task is modelled where it matters), `thread_scheduler`'s
  count of threads at exit, the emulation of thread-local storage, the Windows variant.
- cpp-channel: exceptions of an element's copy. The random choice of `select` is nondeterministic.
- concurrentqueue: the list of producers and the hash by which a thread finds its own, the circular form of an
  implicit producer's index of blocks, a first index that the constructor cannot allocate (a larger one may fail: `Fail`), `MAX_SUBQUEUE_SIZE`, the inside of the free list, exceptions of elements, the wrap-around of
  indices. Orderings weaker than sequential consistency are taken for what the code's fences
  make of them.
- Construction and detachment of threads (a worker of the schedulers is at its loop from the start; the
  threads of async++'s pool are started step by step), log output, exceptions of `std::thread`.
  The pool's `_exitMutex` section (CP:71-73) is one step, since the predicate of `_exitCondVar`
  only changes under it.
- The test drivers and `main`, which have no state of their own. What they do to a scheduler
  is in the schedulers' modules.
