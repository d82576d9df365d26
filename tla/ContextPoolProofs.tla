--------------------------- MODULE ContextPoolProofs ---------------------------
(***************************************************************************)
(* Theorems of ContextPool, for any number of workers, callers, contexts   *)
(* and tasks.                                                              *)
(***************************************************************************)
EXTENDS ContextPool, FiniteSetTheorems, SequenceTheorems, TLAPS

Gone == {w \in Workers : pc[w] = "gone"}

\* _threadsCompleted counts the workers that are gone.
Counted == completed = Cardinality(Gone)

\* A worker that has popped a context knows it, and so does a thread in schedule().
KnowsContext ==
  /\ \A w \in Workers : pc[w] \in {"expired", "lockCtx"} \cup Using => cur[w] \in Contexts
  /\ \A t \in Callers : call[t].at \in {"expired", "lockPool"} \cup TempRef => call[t].ctx \in Contexts

\* ~CustomSchedulerContextInPool leaves queues of tasks.
LEMMA ClearedType ==
  ASSUME ClearDestroyed, taskQ \in [Contexts -> Seq(1..MaxTasks)]
  PROVE  taskQ' \in [Contexts -> Seq(1..MaxTasks)]
<1>1. <<>> \in Seq(1..MaxTasks)
  OBVIOUS
<1> QED
  BY <1>1 DEF ClearDestroyed

Places == {"idle", "expired", "lockPool", "wakeUp"} \cup TempRef \cup Stopping

\* A thread moves to another place of its call.
LEMMA ProceedType ==
  ASSUME call \in [Callers -> [at : Places, ctx : Contexts \cup {NoContext}]],
         NEW t \in Callers, NEW place \in Places, Proceed(t, place)
  PROVE  call' \in [Callers -> [at : Places, ctx : Contexts \cup {NoContext}]]
BY DEF Proceed

\* A call that returns leaves the types of the callers' places and of the queues.
LEMMA ReturnType ==
  ASSUME call \in [Callers -> [at : Places, ctx : Contexts \cup {NoContext}]],
         taskQ \in [Contexts -> Seq(1..MaxTasks)],
         NEW t \in Callers, Return(t)
  PROVE  /\ call' \in [Callers -> [at : Places, ctx : Contexts \cup {NoContext}]]
         /\ taskQ' \in [Contexts -> Seq(1..MaxTasks)]
<1>1. Idle \in [at : Places, ctx : Contexts \cup {NoContext}]
  BY DEF Idle, Places
<1> QED
  BY <1>1, ClearedType DEF Return

\* The gone workers are finitely many, and no more than the workers.
LEMMA GoneBound ==
  Gone \subseteq Workers /\ Cardinality(Gone) <= Cardinality(Workers) /\ IsFiniteSet(Gone)
  BY PoolAssumption, FS_Subset DEF PoolAssumption, Gone

-----------------------------------------------------------------------------
(* The inductive invariant. *)

\* Only a worker inside _condVar.wait sleeps.
SleepersWait == \A w \in waiting : pc[w] = "lock"

\* A worker that is about to sleep still holds _mutex, so that no work came since
\* its test of the predicate.
NoWorkUnseen == \A w \in Workers : pc[w] = "block" => execQueue = <<>>

\* _executionInProgress is set while a worker is between its compare_exchange and
\* its store, and no two workers are there for the same context.
OneClaim ==
  /\ \A w \in Workers : pc[w] \in Claiming => inProgress[cur[w]]
  /\ \A v, w \in Workers : pc[v] \in Claiming /\ pc[w] \in Claiming /\ cur[v] = cur[w] => v = w

Sorted(q)   == \A i, j \in 1..Len(q) : i < j => q[i] < q[j]
Below(q, n) == \A i \in 1..Len(q) : q[i] < n
Above(q, n) == \A i \in 1..Len(q) : n < q[i]

\* A queue is ordered by age.
QueuesSorted == \A c \in Contexts : Sorted(taskQ[c])

\* No thread knows a task that has not been scheduled.
OnlyScheduled ==
  /\ \A c \in Contexts : Below(taskQ[c], scheduled + 1)
  /\ \A w \in Workers : job[w] < scheduled + 1

\* A running task is older than the queued ones of its context.
RunningIsOldest ==
  \A w \in Workers : pc[w] = "run" => job[w] > 0 /\ Above(taskQ[cur[w]], job[w])

OldestFirst == QueuesSorted /\ OnlyScheduled /\ RunningIsOldest

\* Once stopAll() has nobody inside, no worker is left.
NobodyAfterStop ==
  needStop /\ (\A t \in Callers : call[t].at \notin {"notifyAll", "await"})
    => \A w \in Workers : pc[w] = "gone"

\* A destroyed pool is never referenced again.
NoRevival == destroyed => ~PoolReferenced

IInv ==
  /\ TypeOK /\ Counted /\ KnowsContext
  /\ SleepersWait /\ NoWorkUnseen /\ SomeoneAwake
  /\ OneClaim /\ OldestFirst
  /\ NobodyAfterStop /\ NoRevival

-----------------------------------------------------------------------------
(* Facts about sequences. *)

\* An empty queue is in order.
LEMMA EmptyOrder == Sorted(<<>>) /\ \A n : Below(<<>>, n) /\ Above(<<>>, n)
BY DEF Sorted, Below, Above

\* A queue in order stays so when its first task, its oldest, is taken.
LEMMA TailOrder ==
  ASSUME NEW q \in Seq(1..MaxTasks), q # <<>>, Sorted(q)
  PROVE  /\ Head(q) \in 1..MaxTasks
         /\ Sorted(Tail(q)) /\ Above(Tail(q), Head(q))
         /\ \A n \in Nat : Below(q, n) => Head(q) < n /\ Below(Tail(q), n)
         /\ \A n \in Nat : Above(q, n) => Above(Tail(q), n)
<1>1. Len(q) \in Nat \ {0} /\ Head(q) = q[1]
  BY EmptySeq
<1>2. Tail(q) \in Seq(1..MaxTasks) /\ Len(Tail(q)) = Len(q) - 1 /\ Head(q) \in 1..MaxTasks
  BY HeadTailProperties
<1>3. \A i \in 1..Len(Tail(q)) : Tail(q)[i] = q[i + 1] /\ i + 1 \in 1..Len(q)
  BY <1>1, <1>2, HeadTailProperties
<1>4. \A i \in 1..Len(q) : q[i] \in 1..MaxTasks
  BY ElementOfSeq
<1>5. Sorted(Tail(q))
  BY <1>1, <1>2, <1>3 DEF Sorted
<1>6. Above(Tail(q), Head(q))
  BY <1>1, <1>2, <1>3 DEF Sorted, Above
<1>7. \A n \in Nat : Below(q, n) => Head(q) < n /\ Below(Tail(q), n)
  BY <1>1, <1>2, <1>3 DEF Below
<1>8. \A n \in Nat : Above(q, n) => Above(Tail(q), n)
  BY <1>1, <1>2, <1>3 DEF Above
<1> QED
  BY <1>2, <1>5, <1>6, <1>7, <1>8

\* A queue in order stays so when a newer task is appended.
LEMMA AppendOrder ==
  ASSUME NEW q \in Seq(1..MaxTasks), NEW n \in 1..MaxTasks, Sorted(q), Below(q, n)
  PROVE  /\ Sorted(Append(q, n)) /\ Below(Append(q, n), n + 1)
         /\ \A m \in Nat : m < n /\ Above(q, m) => Above(Append(q, n), m)
<1> DEFINE r == Append(q, n)
<1>1. Len(q) \in Nat /\ Len(r) = Len(q) + 1
  BY LenProperties, AppendProperties
<1>2. \A i \in 1..Len(q) : q[i] \in 1..MaxTasks
  BY ElementOfSeq
<1>3. (\A i \in 1..Len(q) : r[i] = q[i]) /\ r[Len(q) + 1] = n
  BY AppendProperties
<1>4. \A i \in 1..Len(r) : i \in 1..Len(q) \/ i = Len(q) + 1
  BY <1>1
<1> HIDE DEF r
<1>5. Sorted(r)
  BY <1>1, <1>2, <1>3, <1>4 DEF Sorted, Below
<1>6. Below(r, n + 1)
  BY <1>1, <1>2, <1>3, <1>4 DEF Below
<1>7. \A m \in Nat : m < n /\ Above(q, m) => Above(r, m)
  BY <1>1, <1>3, <1>4 DEF Above
<1> QED
  BY <1>5, <1>6, <1>7 DEF r
-----------------------------------------------------------------------------
(* Each part of it is kept by every step. *)

\* Every step keeps the types; the last worker to leave makes _threadsCompleted reach the
\* number of threads, and no step makes it larger.
LEMMA TypeStep == TypeOK /\ KnowsContext /\ Counted /\ [Next]_vars => TypeOK'
<1> SUFFICES ASSUME TypeOK, KnowsContext, Counted, [Next]_vars PROVE TypeOK'
  OBVIOUS
<1> USE PoolAssumption DEF TypeOK, KnowsContext, Callers, Idle, Held, Using, TempRef, Stopping,
        poolVars, lifeVars, workerVars, taskVars
<1>1. ASSUME NEW w \in Workers, TestStop(w) PROVE TypeOK'
  BY <1>1 DEF TestStop, Goto
<1>2. ASSUME NEW w \in Workers, LockAndTest(w) PROVE TypeOK'
  BY <1>2 DEF LockAndTest, Goto
<1>3. ASSUME NEW w \in Workers, Block(w) PROVE TypeOK'
  BY <1>3 DEF Block, Goto
<1>4. ASSUME NEW w \in Workers, SpuriousWakeup(w) PROVE TypeOK'
  BY <1>4 DEF SpuriousWakeup
<1>5. ASSUME NEW w \in Workers, PopContext(w) PROVE TypeOK'
  BY <1>5 DEF PopContext, Goto
<1>6. ASSUME NEW w \in Workers, LeaveInner(w) PROVE TypeOK'
  BY <1>6 DEF LeaveInner, Goto
<1>7. ASSUME NEW w \in Workers, TestExpired(w) PROVE TypeOK'
  BY <1>7 DEF TestExpired, Goto
<1>8. ASSUME NEW w \in Workers, LockContext(w) PROVE TypeOK'
  BY <1>8 DEF LockContext, Goto
<1>9. ASSUME NEW w \in Workers, Claim(w) PROVE TypeOK'
  BY <1>9 DEF Claim, Goto
<1>10. ASSUME NEW w \in Workers, TakeTask(w) PROVE TypeOK'
  <2>1. cur[w] \in Contexts
    BY <1>10 DEF TakeTask
  <2>2. CASE taskQ[cur[w]] = <<>>
    BY <1>10, <2>1, <2>2 DEF TakeTask, Goto
  <2>3. CASE taskQ[cur[w]] # <<>>
    <3>1. Head(taskQ[cur[w]]) \in 1..MaxTasks /\ Tail(taskQ[cur[w]]) \in Seq(1..MaxTasks)
      BY <2>1, <2>3
    <3>2. /\ job' = [job EXCEPT ![w] = Head(taskQ[cur[w]])]
          /\ taskQ' = [taskQ EXCEPT ![cur[w]] = Tail(taskQ[cur[w]])]
      BY <1>10, <2>3 DEF TakeTask
    <3>3. job' \in [Workers -> 0..MaxTasks] /\ taskQ' \in [Contexts -> Seq(1..MaxTasks)]
      BY <3>1, <3>2, <2>1
    <3>4. pc' = [pc EXCEPT ![w] = "run"]
      BY <1>10, <2>3 DEF TakeTask, Goto
    <3> QED
      BY <1>10, <3>3, <3>4 DEF TakeTask
  <2> QED
    BY <2>2, <2>3
<1>11. ASSUME NEW w \in Workers, FinishTask(w) PROVE TypeOK'
  BY <1>11 DEF FinishTask, Goto
<1>12. ASSUME NEW w \in Workers, Unclaim(w) PROVE TypeOK'
  BY <1>12 DEF Unclaim, Goto
<1>13. ASSUME NEW w \in Workers, Relock(w) PROVE TypeOK'
  <2>1. taskQ' \in [Contexts -> Seq(1..MaxTasks)]
    BY <1>13, ClearedType DEF Relock
  <2>2. execQueue' \in Seq(Contexts)
    BY <1>13 DEF Relock
  <2> QED
    BY <1>13, <2>1, <2>2 DEF Relock, Goto
<1>14. ASSUME NEW w \in Workers, Exit(w) PROVE TypeOK'
  <2>1. Gone' = Gone \cup {w} /\ w \notin Gone
    BY <1>14 DEF Exit, Goto, Gone
  <2>2. completed' = completed + 1 /\ completed \in Nat
    BY <1>14 DEF Exit
  <2>3. Cardinality(Gone') = Cardinality(Gone) + 1
    BY <2>1, GoneBound, FS_AddElement
  <2>4. Gone' \subseteq Workers
    BY DEF Gone
  <2>5. Cardinality(Gone') <= Cardinality(Workers)
    BY <2>4, FS_Subset DEF PoolAssumption
  <2>6. Cardinality(Workers) \in Nat
    BY FS_CardinalityType DEF PoolAssumption
  <2>7. completed' \in 0..Cardinality(Workers)
    BY <2>2, <2>3, <2>5, <2>6 DEF Counted
  <2> QED
    BY <1>14, <2>7 DEF Exit, Goto
<1>15. ASSUME NEW t \in Callers, TestPool(t) PROVE TypeOK'
  <2>1. CASE PoolReferenced
    <3>1. Proceed(t, "lockPool") /\ UNCHANGED taskVars
      BY <1>15, <2>1, Zenon DEF TestPool
    <3> QED
      BY <1>15, <3>1 DEF TestPool, Proceed
  <2>2. CASE ~PoolReferenced
    <3>1. Return(t)
      BY <1>15, <2>2, Zenon DEF TestPool
    <3> QED
      BY <1>15, <3>1, ReturnType DEF TestPool, Return, Places
  <2> QED
    BY <2>1, <2>2
<1>16. ASSUME NEW t \in Callers, LockPool(t) PROVE TypeOK'
  <2>1. CASE PoolReferenced
    <3>1. Proceed(t, "enqueue") /\ UNCHANGED crashed
      BY <1>16, <2>1, Zenon DEF LockPool
    <3> QED
      BY <1>16, <3>1 DEF LockPool, Proceed
  <2>2. CASE ~PoolReferenced
    BY <1>16, <2>2 DEF LockPool
  <2> QED
    BY <2>1, <2>2
<1>17. ASSUME NEW t \in Callers, Enqueue(t) PROVE TypeOK'
  <2>1. execQueue' \in Seq(Contexts)
    BY <1>17 DEF Enqueue
  <2> QED
    BY <1>17, <2>1 DEF Enqueue, Proceed
<1>18. ASSUME NEW t \in Callers, Notify(t) PROVE TypeOK'
  BY <1>18 DEF Notify, Proceed, WakeOne
<1>19. ASSUME NEW t \in Callers, ReleasePool(t) PROVE TypeOK'
  <2>1. CASE ownerRef \/ \E u \in Callers \ {t} : call[u].at \in TempRef
    <3>1. Return(t)
      BY <1>19, <2>1 DEF ReleasePool
    <3>2. taskQ' \in [Contexts -> Seq(1..MaxTasks)]
      BY <3>1, ClearedType DEF Return
    <3> QED
      BY <1>19, <3>1, <3>2 DEF ReleasePool, Return
  <2>2. CASE ~(ownerRef \/ \E u \in Callers \ {t} : call[u].at \in TempRef)
    <3>1. Proceed(t, "stop") /\ UNCHANGED taskVars
      BY <1>19, <2>2 DEF ReleasePool
    <3> QED
      BY <1>19, <3>1 DEF ReleasePool, Proceed
  <2> QED
    BY <2>1, <2>2
<1>20. ASSUME NEW t \in Callers, RaiseStop(t) PROVE TypeOK'
  BY <1>20 DEF RaiseStop, Proceed
<1>21. ASSUME NEW t \in Callers, NotifyAll(t) PROVE TypeOK'
  BY <1>21 DEF NotifyAll, Proceed
<1>22. ASSUME NEW t \in Callers, StopReturns(t) PROVE TypeOK'
  <2>1. taskQ' \in [Contexts -> Seq(1..MaxTasks)]
    BY <1>22, ClearedType DEF StopReturns, Return
  <2>2. reg' \in [Contexts -> {"new", "listed", "removed"}]
    <3>1. CASE PoolReferenced
      BY <1>22, <3>1 DEF StopReturns
    <3>2. CASE ~PoolReferenced
      BY <1>22, <3>2 DEF StopReturns
    <3> QED
      BY <3>1, <3>2
  <2>3. destroyed' \in BOOLEAN
    BY <1>22 DEF StopReturns
  <2>4. call' = [call EXCEPT ![t] = Idle]
    BY <1>22 DEF StopReturns, Return
  <2> QED
    BY <1>22, <2>1, <2>2, <2>3, <2>4 DEF StopReturns, Return
<1>23. ASSUME NEW t \in Callers, NEW c \in Contexts, Schedule(t, c) PROVE TypeOK'
  BY <1>23 DEF Schedule, MayCall
<1>24. ASSUME NEW c \in Contexts, ClearAllTasks(c) PROVE TypeOK'
  BY <1>24 DEF ClearAllTasks
<1>25. ASSUME NEW c \in Contexts, MakeNewContext(c) PROVE TypeOK'
  BY <1>25 DEF MakeNewContext, Proceed, OwnerReady
<1>26. ASSUME NEW c \in Contexts, RemoveContext(c) PROVE TypeOK'
  <2>1. taskQ' \in [Contexts -> Seq(1..MaxTasks)]
    BY <1>26, ClearedType DEF RemoveContext
  <2> QED
    BY <1>26, <2>1 DEF RemoveContext, Proceed
<1>27. ASSUME WakeUp PROVE TypeOK'
  BY <1>27 DEF WakeUp, Proceed, WakeOne
<1>28. ASSUME OwnerStops PROVE TypeOK'
  BY <1>28 DEF OwnerStops, Proceed, OwnerReady
<1>29. ASSUME OwnerDrops PROVE TypeOK'
  <2>1. CASE \E t \in Callers : call[t].at \in TempRef
    BY <1>29, <2>1 DEF OwnerDrops
  <2>2. CASE ~ \E t \in Callers : call[t].at \in TempRef
    <3>1. Proceed(Owner, "stop")
      BY <1>29, <2>2 DEF OwnerDrops
    <3> QED
      BY <1>29, <3>1 DEF OwnerDrops, Proceed
  <2> QED
    BY <2>1, <2>2
<1>30. CASE UNCHANGED vars
  BY <1>30 DEF vars
<1> QED
  BY <1>1, <1>2, <1>3, <1>4, <1>5, <1>6, <1>7, <1>8, <1>9, <1>10, <1>11, <1>12, <1>13, <1>14,
     <1>15, <1>16, <1>17, <1>18, <1>19, <1>20, <1>21, <1>22, <1>23, <1>24, <1>25, <1>26, <1>27,
     <1>28, <1>29, <1>30
  DEF Next, WorkerStep, CallStep, OwnerStep

\* A worker gets a context from the queue before it uses it, a caller has its own.
LEMMA KnowsContextStep == TypeOK /\ KnowsContext /\ [Next]_vars => KnowsContext'
<1> SUFFICES ASSUME TypeOK, KnowsContext, [Next]_vars PROVE KnowsContext'
  OBVIOUS
<1> USE DEF KnowsContext, TypeOK, Callers, Idle, Held, Using, TempRef, Stopping, poolVars,
        lifeVars, workerVars, taskVars
<1>1. ASSUME NEW w \in Workers, TestStop(w) PROVE KnowsContext'
  BY <1>1 DEF TestStop, Goto
<1>2. ASSUME NEW w \in Workers, LockAndTest(w) PROVE KnowsContext'
  BY <1>2 DEF LockAndTest, Goto
<1>3. ASSUME NEW w \in Workers, Block(w) PROVE KnowsContext'
  BY <1>3 DEF Block, Goto
<1>4. ASSUME NEW w \in Workers, SpuriousWakeup(w) PROVE KnowsContext'
  BY <1>4 DEF SpuriousWakeup
<1>5. ASSUME NEW w \in Workers, PopContext(w) PROVE KnowsContext'
  BY <1>5 DEF PopContext, Goto
<1>6. ASSUME NEW w \in Workers, LeaveInner(w) PROVE KnowsContext'
  BY <1>6 DEF LeaveInner, Goto
<1>7. ASSUME NEW w \in Workers, TestExpired(w) PROVE KnowsContext'
  BY <1>7 DEF TestExpired, Goto
<1>8. ASSUME NEW w \in Workers, LockContext(w) PROVE KnowsContext'
  BY <1>8 DEF LockContext, Goto
<1>9. ASSUME NEW w \in Workers, Claim(w) PROVE KnowsContext'
  BY <1>9 DEF Claim, Goto
<1>10. ASSUME NEW w \in Workers, TakeTask(w) PROVE KnowsContext'
  BY <1>10 DEF TakeTask, Goto
<1>11. ASSUME NEW w \in Workers, FinishTask(w) PROVE KnowsContext'
  BY <1>11 DEF FinishTask, Goto
<1>12. ASSUME NEW w \in Workers, Unclaim(w) PROVE KnowsContext'
  BY <1>12 DEF Unclaim, Goto
<1>13. ASSUME NEW w \in Workers, Relock(w) PROVE KnowsContext'
  BY <1>13 DEF Relock, Goto, ClearDestroyed
<1>14. ASSUME NEW w \in Workers, Exit(w) PROVE KnowsContext'
  BY <1>14 DEF Exit, Goto
<1>15. ASSUME NEW t \in Callers, TestPool(t) PROVE KnowsContext'
  <2>1. Return(t) \/ (Proceed(t, "lockPool") /\ call[t].at = "expired")
    BY <1>15, Zenon DEF TestPool
  <2>2. CASE Return(t)
    BY <1>15, <2>2 DEF TestPool, Return
  <2>3. CASE Proceed(t, "lockPool") /\ call[t].at = "expired"
    BY <1>15, <2>3 DEF TestPool, Proceed
  <2> QED
    BY <2>1, <2>2, <2>3
<1>16. ASSUME NEW t \in Callers, LockPool(t) PROVE KnowsContext'
  <2>1. (Proceed(t, "enqueue") \/ UNCHANGED call) /\ call[t].at = "lockPool"
    BY <1>16, Zenon DEF LockPool
  <2>2. CASE Proceed(t, "enqueue")
    BY <1>16, <2>1, <2>2 DEF LockPool, Proceed
  <2>3. CASE UNCHANGED call
    BY <1>16, <2>3 DEF LockPool
  <2> QED
    BY <2>1, <2>2, <2>3
<1>17. ASSUME NEW t \in Callers, Enqueue(t) PROVE KnowsContext'
  BY <1>17 DEF Enqueue, Proceed
<1>18. ASSUME NEW t \in Callers, Notify(t) PROVE KnowsContext'
  BY <1>18 DEF Notify, Proceed, WakeOne
<1>19. ASSUME NEW t \in Callers, ReleasePool(t) PROVE KnowsContext'
  <2>1. Return(t) \/ Proceed(t, "stop")
    BY <1>19, Zenon DEF ReleasePool
  <2>2. CASE Return(t)
    BY <1>19, <2>2 DEF ReleasePool, Return
  <2>3. CASE Proceed(t, "stop")
    BY <1>19, <2>3 DEF ReleasePool, Proceed
  <2> QED
    BY <2>1, <2>2, <2>3
<1>20. ASSUME NEW t \in Callers, RaiseStop(t) PROVE KnowsContext'
  BY <1>20 DEF RaiseStop, Proceed
<1>21. ASSUME NEW t \in Callers, NotifyAll(t) PROVE KnowsContext'
  BY <1>21 DEF NotifyAll, Proceed
<1>22. ASSUME NEW t \in Callers, StopReturns(t) PROVE KnowsContext'
  BY <1>22 DEF StopReturns, Return, ClearDestroyed, PoolReferenced
<1>23. ASSUME NEW t \in Callers, NEW c \in Contexts, Schedule(t, c) PROVE KnowsContext'
  BY <1>23 DEF Schedule, MayCall
<1>24. ASSUME NEW c \in Contexts, ClearAllTasks(c) PROVE KnowsContext'
  BY <1>24 DEF ClearAllTasks
<1>25. ASSUME NEW c \in Contexts, MakeNewContext(c) PROVE KnowsContext'
  BY <1>25 DEF MakeNewContext, Proceed, OwnerReady
<1>26. ASSUME NEW c \in Contexts, RemoveContext(c) PROVE KnowsContext'
  BY <1>26 DEF RemoveContext, Proceed, OwnerReady, ClearDestroyed
<1>27. ASSUME WakeUp PROVE KnowsContext'
  BY <1>27 DEF WakeUp, Proceed, WakeOne
<1>28. ASSUME OwnerStops PROVE KnowsContext'
  BY <1>28 DEF OwnerStops, Proceed, OwnerReady
<1>29. ASSUME OwnerDrops PROVE KnowsContext'
  BY <1>29 DEF OwnerDrops, Proceed, OwnerReady
<1>30. CASE UNCHANGED vars
  BY <1>30 DEF vars
<1> QED
  BY <1>1, <1>2, <1>3, <1>4, <1>5, <1>6, <1>7, <1>8, <1>9, <1>10, <1>11, <1>12, <1>13, <1>14,
     <1>15, <1>16, <1>17, <1>18, <1>19, <1>20, <1>21, <1>22, <1>23, <1>24, <1>25, <1>26, <1>27,
     <1>28, <1>29, <1>30
  DEF Next, WorkerStep, CallStep, OwnerStep

\* _threadsCompleted grows exactly when a worker leaves.
LEMMA CountedStep == TypeOK /\ Counted /\ [Next]_vars => Counted'
<1> SUFFICES ASSUME TypeOK, Counted, [Next]_vars PROVE Counted'
  OBVIOUS
<1> USE DEF Counted, Gone, TypeOK, Callers, Idle, Held, Using, TempRef, Stopping, poolVars,
        lifeVars, workerVars, taskVars
<1>1. ASSUME NEW w \in Workers, TestStop(w) PROVE Counted'
  BY <1>1 DEF TestStop, Goto
<1>2. ASSUME NEW w \in Workers, LockAndTest(w) PROVE Counted'
  BY <1>2 DEF LockAndTest, Goto
<1>3. ASSUME NEW w \in Workers, Block(w) PROVE Counted'
  BY <1>3 DEF Block, Goto
<1>4. ASSUME NEW w \in Workers, SpuriousWakeup(w) PROVE Counted'
  BY <1>4 DEF SpuriousWakeup
<1>5. ASSUME NEW w \in Workers, PopContext(w) PROVE Counted'
  BY <1>5 DEF PopContext, Goto
<1>6. ASSUME NEW w \in Workers, LeaveInner(w) PROVE Counted'
  BY <1>6 DEF LeaveInner, Goto
<1>7. ASSUME NEW w \in Workers, TestExpired(w) PROVE Counted'
  BY <1>7 DEF TestExpired, Goto
<1>8. ASSUME NEW w \in Workers, LockContext(w) PROVE Counted'
  BY <1>8 DEF LockContext, Goto
<1>9. ASSUME NEW w \in Workers, Claim(w) PROVE Counted'
  BY <1>9 DEF Claim, Goto
<1>10. ASSUME NEW w \in Workers, TakeTask(w) PROVE Counted'
  BY <1>10 DEF TakeTask, Goto
<1>11. ASSUME NEW w \in Workers, FinishTask(w) PROVE Counted'
  BY <1>11 DEF FinishTask, Goto
<1>12. ASSUME NEW w \in Workers, Unclaim(w) PROVE Counted'
  BY <1>12 DEF Unclaim, Goto
<1>13. ASSUME NEW w \in Workers, Relock(w) PROVE Counted'
  BY <1>13 DEF Relock, Goto, ClearDestroyed
<1>14. ASSUME NEW w \in Workers, Exit(w) PROVE Counted'
  <2>1. Gone' = Gone \cup {w} /\ w \notin Gone
    BY <1>14 DEF Exit, Goto
  <2>2. IsFiniteSet({v \in Workers : pc[v] = "gone"})
    BY GoneBound
  <2>3. Cardinality(Gone') = Cardinality(Gone) + 1
    BY <2>1, <2>2, FS_AddElement
  <2> QED
    BY <1>14, <2>3 DEF Exit
<1>15. ASSUME NEW t \in Callers, TestPool(t) PROVE Counted'
  BY <1>15 DEF TestPool, Proceed, Return, ClearDestroyed, PoolReferenced
<1>16. ASSUME NEW t \in Callers, LockPool(t) PROVE Counted'
  BY <1>16 DEF LockPool, Proceed, PoolReferenced
<1>17. ASSUME NEW t \in Callers, Enqueue(t) PROVE Counted'
  BY <1>17 DEF Enqueue, Proceed
<1>18. ASSUME NEW t \in Callers, Notify(t) PROVE Counted'
  BY <1>18 DEF Notify, Proceed, WakeOne
<1>19. ASSUME NEW t \in Callers, ReleasePool(t) PROVE Counted'
  BY <1>19 DEF ReleasePool, Proceed, Return, ClearDestroyed
<1>20. ASSUME NEW t \in Callers, RaiseStop(t) PROVE Counted'
  BY <1>20 DEF RaiseStop, Proceed
<1>21. ASSUME NEW t \in Callers, NotifyAll(t) PROVE Counted'
  BY <1>21 DEF NotifyAll, Proceed
<1>22. ASSUME NEW t \in Callers, StopReturns(t) PROVE Counted'
  BY <1>22 DEF StopReturns, Return, ClearDestroyed, PoolReferenced
<1>23. ASSUME NEW t \in Callers, NEW c \in Contexts, Schedule(t, c) PROVE Counted'
  BY <1>23 DEF Schedule, MayCall
<1>24. ASSUME NEW c \in Contexts, ClearAllTasks(c) PROVE Counted'
  BY <1>24 DEF ClearAllTasks
<1>25. ASSUME NEW c \in Contexts, MakeNewContext(c) PROVE Counted'
  BY <1>25 DEF MakeNewContext, Proceed, OwnerReady
<1>26. ASSUME NEW c \in Contexts, RemoveContext(c) PROVE Counted'
  BY <1>26 DEF RemoveContext, Proceed, OwnerReady, ClearDestroyed
<1>27. ASSUME WakeUp PROVE Counted'
  BY <1>27 DEF WakeUp, Proceed, WakeOne
<1>28. ASSUME OwnerStops PROVE Counted'
  BY <1>28 DEF OwnerStops, Proceed, OwnerReady
<1>29. ASSUME OwnerDrops PROVE Counted'
  BY <1>29 DEF OwnerDrops, Proceed, OwnerReady
<1>30. CASE UNCHANGED vars
  BY <1>30 DEF vars
<1> QED
  BY <1>1, <1>2, <1>3, <1>4, <1>5, <1>6, <1>7, <1>8, <1>9, <1>10, <1>11, <1>12, <1>13, <1>14,
     <1>15, <1>16, <1>17, <1>18, <1>19, <1>20, <1>21, <1>22, <1>23, <1>24, <1>25, <1>26, <1>27,
     <1>28, <1>29, <1>30
  DEF Next, WorkerStep, CallStep, OwnerStep

\* A worker enters _condVar's wait set only as it leaves the predicate's test.
LEMMA SleepersWaitStep == TypeOK /\ SleepersWait /\ [Next]_vars => SleepersWait'
<1> SUFFICES ASSUME TypeOK, SleepersWait, [Next]_vars PROVE SleepersWait'
  OBVIOUS
<1> USE DEF SleepersWait, TypeOK, Callers, Idle, Held, Using, TempRef, Stopping, poolVars,
        lifeVars, workerVars, taskVars
<1>1. ASSUME NEW w \in Workers, TestStop(w) PROVE SleepersWait'
  BY <1>1 DEF TestStop, Goto
<1>2. ASSUME NEW w \in Workers, LockAndTest(w) PROVE SleepersWait'
  BY <1>2 DEF LockAndTest, Goto
<1>3. ASSUME NEW w \in Workers, Block(w) PROVE SleepersWait'
  BY <1>3 DEF Block, Goto
<1>4. ASSUME NEW w \in Workers, SpuriousWakeup(w) PROVE SleepersWait'
  BY <1>4 DEF SpuriousWakeup
<1>5. ASSUME NEW w \in Workers, PopContext(w) PROVE SleepersWait'
  BY <1>5 DEF PopContext, Goto
<1>6. ASSUME NEW w \in Workers, LeaveInner(w) PROVE SleepersWait'
  BY <1>6 DEF LeaveInner, Goto
<1>7. ASSUME NEW w \in Workers, TestExpired(w) PROVE SleepersWait'
  BY <1>7 DEF TestExpired, Goto
<1>8. ASSUME NEW w \in Workers, LockContext(w) PROVE SleepersWait'
  BY <1>8 DEF LockContext, Goto
<1>9. ASSUME NEW w \in Workers, Claim(w) PROVE SleepersWait'
  BY <1>9 DEF Claim, Goto
<1>10. ASSUME NEW w \in Workers, TakeTask(w) PROVE SleepersWait'
  BY <1>10 DEF TakeTask, Goto
<1>11. ASSUME NEW w \in Workers, FinishTask(w) PROVE SleepersWait'
  BY <1>11 DEF FinishTask, Goto
<1>12. ASSUME NEW w \in Workers, Unclaim(w) PROVE SleepersWait'
  BY <1>12 DEF Unclaim, Goto
<1>13. ASSUME NEW w \in Workers, Relock(w) PROVE SleepersWait'
  BY <1>13 DEF Relock, Goto, ClearDestroyed
<1>14. ASSUME NEW w \in Workers, Exit(w) PROVE SleepersWait'
  BY <1>14 DEF Exit, Goto
<1>15. ASSUME NEW t \in Callers, TestPool(t) PROVE SleepersWait'
  BY <1>15 DEF TestPool, Proceed, Return, ClearDestroyed, PoolReferenced
<1>16. ASSUME NEW t \in Callers, LockPool(t) PROVE SleepersWait'
  BY <1>16 DEF LockPool, Proceed, PoolReferenced
<1>17. ASSUME NEW t \in Callers, Enqueue(t) PROVE SleepersWait'
  BY <1>17 DEF Enqueue, Proceed
<1>18. ASSUME NEW t \in Callers, Notify(t) PROVE SleepersWait'
  BY <1>18 DEF Notify, Proceed, WakeOne
<1>19. ASSUME NEW t \in Callers, ReleasePool(t) PROVE SleepersWait'
  BY <1>19 DEF ReleasePool, Proceed, Return, ClearDestroyed
<1>20. ASSUME NEW t \in Callers, RaiseStop(t) PROVE SleepersWait'
  BY <1>20 DEF RaiseStop, Proceed
<1>21. ASSUME NEW t \in Callers, NotifyAll(t) PROVE SleepersWait'
  BY <1>21 DEF NotifyAll, Proceed
<1>22. ASSUME NEW t \in Callers, StopReturns(t) PROVE SleepersWait'
  BY <1>22 DEF StopReturns, Return, ClearDestroyed, PoolReferenced
<1>23. ASSUME NEW t \in Callers, NEW c \in Contexts, Schedule(t, c) PROVE SleepersWait'
  BY <1>23 DEF Schedule, MayCall
<1>24. ASSUME NEW c \in Contexts, ClearAllTasks(c) PROVE SleepersWait'
  BY <1>24 DEF ClearAllTasks
<1>25. ASSUME NEW c \in Contexts, MakeNewContext(c) PROVE SleepersWait'
  BY <1>25 DEF MakeNewContext, Proceed, OwnerReady
<1>26. ASSUME NEW c \in Contexts, RemoveContext(c) PROVE SleepersWait'
  BY <1>26 DEF RemoveContext, Proceed, OwnerReady, ClearDestroyed
<1>27. ASSUME WakeUp PROVE SleepersWait'
  BY <1>27 DEF WakeUp, Proceed, WakeOne
<1>28. ASSUME OwnerStops PROVE SleepersWait'
  BY <1>28 DEF OwnerStops, Proceed, OwnerReady
<1>29. ASSUME OwnerDrops PROVE SleepersWait'
  BY <1>29 DEF OwnerDrops, Proceed, OwnerReady
<1>30. CASE UNCHANGED vars
  BY <1>30 DEF vars
<1> QED
  BY <1>1, <1>2, <1>3, <1>4, <1>5, <1>6, <1>7, <1>8, <1>9, <1>10, <1>11, <1>12, <1>13, <1>14,
     <1>15, <1>16, <1>17, <1>18, <1>19, <1>20, <1>21, <1>22, <1>23, <1>24, <1>25, <1>26, <1>27,
     <1>28, <1>29, <1>30
  DEF Next, WorkerStep, CallStep, OwnerStep

\* No context is pushed while a worker is between its test of the predicate and its sleep.
LEMMA NoWorkUnseenStep == TypeOK /\ NoWorkUnseen /\ [Next]_vars => NoWorkUnseen'
<1> SUFFICES ASSUME TypeOK, NoWorkUnseen, [Next]_vars PROVE NoWorkUnseen'
  OBVIOUS
<1> USE DEF NoWorkUnseen, MutexFree, TypeOK, Callers, Idle, Held, Using, TempRef, Stopping,
        poolVars, lifeVars, workerVars, taskVars
<1>1. ASSUME NEW w \in Workers, TestStop(w) PROVE NoWorkUnseen'
  BY <1>1 DEF TestStop, Goto
<1>2. ASSUME NEW w \in Workers, LockAndTest(w) PROVE NoWorkUnseen'
  BY <1>2 DEF LockAndTest, Goto
<1>3. ASSUME NEW w \in Workers, Block(w) PROVE NoWorkUnseen'
  BY <1>3 DEF Block, Goto
<1>4. ASSUME NEW w \in Workers, SpuriousWakeup(w) PROVE NoWorkUnseen'
  BY <1>4 DEF SpuriousWakeup
<1>5. ASSUME NEW w \in Workers, PopContext(w) PROVE NoWorkUnseen'
  BY <1>5 DEF PopContext, Goto
<1>6. ASSUME NEW w \in Workers, LeaveInner(w) PROVE NoWorkUnseen'
  BY <1>6 DEF LeaveInner, Goto
<1>7. ASSUME NEW w \in Workers, TestExpired(w) PROVE NoWorkUnseen'
  BY <1>7 DEF TestExpired, Goto
<1>8. ASSUME NEW w \in Workers, LockContext(w) PROVE NoWorkUnseen'
  BY <1>8 DEF LockContext, Goto
<1>9. ASSUME NEW w \in Workers, Claim(w) PROVE NoWorkUnseen'
  BY <1>9 DEF Claim, Goto
<1>10. ASSUME NEW w \in Workers, TakeTask(w) PROVE NoWorkUnseen'
  BY <1>10 DEF TakeTask, Goto
<1>11. ASSUME NEW w \in Workers, FinishTask(w) PROVE NoWorkUnseen'
  BY <1>11 DEF FinishTask, Goto
<1>12. ASSUME NEW w \in Workers, Unclaim(w) PROVE NoWorkUnseen'
  BY <1>12 DEF Unclaim, Goto
<1>13. ASSUME NEW w \in Workers, Relock(w) PROVE NoWorkUnseen'
  BY <1>13 DEF Relock, Goto, ClearDestroyed
<1>14. ASSUME NEW w \in Workers, Exit(w) PROVE NoWorkUnseen'
  BY <1>14 DEF Exit, Goto
<1>15. ASSUME NEW t \in Callers, TestPool(t) PROVE NoWorkUnseen'
  BY <1>15 DEF TestPool, Proceed, Return, ClearDestroyed, PoolReferenced
<1>16. ASSUME NEW t \in Callers, LockPool(t) PROVE NoWorkUnseen'
  BY <1>16 DEF LockPool, Proceed, PoolReferenced
<1>17. ASSUME NEW t \in Callers, Enqueue(t) PROVE NoWorkUnseen'
  BY <1>17 DEF Enqueue, Proceed
<1>18. ASSUME NEW t \in Callers, Notify(t) PROVE NoWorkUnseen'
  BY <1>18 DEF Notify, Proceed, WakeOne
<1>19. ASSUME NEW t \in Callers, ReleasePool(t) PROVE NoWorkUnseen'
  BY <1>19 DEF ReleasePool, Proceed, Return, ClearDestroyed
<1>20. ASSUME NEW t \in Callers, RaiseStop(t) PROVE NoWorkUnseen'
  BY <1>20 DEF RaiseStop, Proceed
<1>21. ASSUME NEW t \in Callers, NotifyAll(t) PROVE NoWorkUnseen'
  BY <1>21 DEF NotifyAll, Proceed
<1>22. ASSUME NEW t \in Callers, StopReturns(t) PROVE NoWorkUnseen'
  BY <1>22 DEF StopReturns, Return, ClearDestroyed, PoolReferenced
<1>23. ASSUME NEW t \in Callers, NEW c \in Contexts, Schedule(t, c) PROVE NoWorkUnseen'
  BY <1>23 DEF Schedule, MayCall
<1>24. ASSUME NEW c \in Contexts, ClearAllTasks(c) PROVE NoWorkUnseen'
  BY <1>24 DEF ClearAllTasks
<1>25. ASSUME NEW c \in Contexts, MakeNewContext(c) PROVE NoWorkUnseen'
  BY <1>25 DEF MakeNewContext, Proceed, OwnerReady
<1>26. ASSUME NEW c \in Contexts, RemoveContext(c) PROVE NoWorkUnseen'
  BY <1>26 DEF RemoveContext, Proceed, OwnerReady, ClearDestroyed
<1>27. ASSUME WakeUp PROVE NoWorkUnseen'
  BY <1>27 DEF WakeUp, Proceed, WakeOne
<1>28. ASSUME OwnerStops PROVE NoWorkUnseen'
  BY <1>28 DEF OwnerStops, Proceed, OwnerReady
<1>29. ASSUME OwnerDrops PROVE NoWorkUnseen'
  BY <1>29 DEF OwnerDrops, Proceed, OwnerReady
<1>30. CASE UNCHANGED vars
  BY <1>30 DEF vars
<1> QED
  BY <1>1, <1>2, <1>3, <1>4, <1>5, <1>6, <1>7, <1>8, <1>9, <1>10, <1>11, <1>12, <1>13, <1>14,
     <1>15, <1>16, <1>17, <1>18, <1>19, <1>20, <1>21, <1>22, <1>23, <1>24, <1>25, <1>26, <1>27,
     <1>28, <1>29, <1>30
  DEF Next, WorkerStep, CallStep, OwnerStep

\* Every push is by a worker that is awake or is followed by notify_one, which wakes a worker
\* if all sleep.
LEMMA SomeoneAwakeStep ==
  TypeOK /\ SleepersWait /\ NoWorkUnseen /\ SomeoneAwake /\ [Next]_vars => SomeoneAwake'
<1> SUFFICES ASSUME TypeOK, SleepersWait, NoWorkUnseen, SomeoneAwake, [Next]_vars PROVE SomeoneAwake'
  OBVIOUS
<1> USE PoolAssumption DEF PoolAssumption, SleepersWait, NoWorkUnseen, SomeoneAwake, TypeOK,
        Callers, Idle, Held, Using, TempRef, Stopping, poolVars, lifeVars, workerVars, taskVars
<1>1. ASSUME NEW w \in Workers, TestStop(w) PROVE SomeoneAwake'
  BY <1>1 DEF TestStop, Goto
<1>2. ASSUME NEW w \in Workers, LockAndTest(w) PROVE SomeoneAwake'
  BY <1>2 DEF LockAndTest, Goto
<1>3. ASSUME NEW w \in Workers, Block(w) PROVE SomeoneAwake'
  BY <1>3 DEF Block, Goto
<1>4. ASSUME NEW w \in Workers, SpuriousWakeup(w) PROVE SomeoneAwake'
  BY <1>4 DEF SpuriousWakeup
<1>5. ASSUME NEW w \in Workers, PopContext(w) PROVE SomeoneAwake'
  BY <1>5 DEF PopContext, Goto
<1>6. ASSUME NEW w \in Workers, LeaveInner(w) PROVE SomeoneAwake'
  BY <1>6 DEF LeaveInner, Goto
<1>7. ASSUME NEW w \in Workers, TestExpired(w) PROVE SomeoneAwake'
  BY <1>7 DEF TestExpired, Goto
<1>8. ASSUME NEW w \in Workers, LockContext(w) PROVE SomeoneAwake'
  BY <1>8 DEF LockContext, Goto
<1>9. ASSUME NEW w \in Workers, Claim(w) PROVE SomeoneAwake'
  BY <1>9 DEF Claim, Goto
<1>10. ASSUME NEW w \in Workers, TakeTask(w) PROVE SomeoneAwake'
  BY <1>10 DEF TakeTask, Goto
<1>11. ASSUME NEW w \in Workers, FinishTask(w) PROVE SomeoneAwake'
  BY <1>11 DEF FinishTask, Goto
<1>12. ASSUME NEW w \in Workers, Unclaim(w) PROVE SomeoneAwake'
  BY <1>12 DEF Unclaim, Goto
<1>13. ASSUME NEW w \in Workers, Relock(w) PROVE SomeoneAwake'
  BY <1>13 DEF Relock, Goto, ClearDestroyed
<1>14. ASSUME NEW w \in Workers, Exit(w) PROVE SomeoneAwake'
  BY <1>14 DEF Exit, Goto
<1>15. ASSUME NEW t \in Callers, TestPool(t) PROVE SomeoneAwake'
  <2>1. UNCHANGED <<waiting, execQueue>> /\ call[t].at = "expired" /\ (Return(t) \/ Proceed(t, "lockPool"))
    BY <1>15, Zenon DEF TestPool
  <2>2. \A u \in Callers : u # t => call'[u] = call[u]
    BY <2>1 DEF Return, Proceed
  <2> QED
    BY <2>1, <2>2
<1>16. ASSUME NEW t \in Callers, LockPool(t) PROVE SomeoneAwake'
  BY <1>16 DEF LockPool, Proceed, PoolReferenced
<1>17. ASSUME NEW t \in Callers, Enqueue(t) PROVE SomeoneAwake'
  BY <1>17 DEF Enqueue, Proceed
<1>18. ASSUME NEW t \in Callers, Notify(t) PROVE SomeoneAwake'
  BY <1>18 DEF Notify, Proceed, WakeOne
<1>19. ASSUME NEW t \in Callers, ReleasePool(t) PROVE SomeoneAwake'
  <2>1. UNCHANGED <<waiting, execQueue>> /\ call[t].at = "release" /\ (Return(t) \/ Proceed(t, "stop"))
    BY <1>19, Zenon DEF ReleasePool
  <2>2. \A u \in Callers : u # t => call'[u] = call[u]
    BY <2>1 DEF Return, Proceed
  <2> QED
    BY <2>1, <2>2
<1>20. ASSUME NEW t \in Callers, RaiseStop(t) PROVE SomeoneAwake'
  BY <1>20 DEF RaiseStop, Proceed
<1>21. ASSUME NEW t \in Callers, NotifyAll(t) PROVE SomeoneAwake'
  BY <1>21 DEF NotifyAll, Proceed
<1>22. ASSUME NEW t \in Callers, StopReturns(t) PROVE SomeoneAwake'
  BY <1>22 DEF StopReturns, Return, ClearDestroyed, PoolReferenced
<1>23. ASSUME NEW t \in Callers, NEW c \in Contexts, Schedule(t, c) PROVE SomeoneAwake'
  BY <1>23 DEF Schedule, MayCall
<1>24. ASSUME NEW c \in Contexts, ClearAllTasks(c) PROVE SomeoneAwake'
  BY <1>24 DEF ClearAllTasks
<1>25. ASSUME NEW c \in Contexts, MakeNewContext(c) PROVE SomeoneAwake'
  BY <1>25 DEF MakeNewContext, Proceed, OwnerReady
<1>26. ASSUME NEW c \in Contexts, RemoveContext(c) PROVE SomeoneAwake'
  BY <1>26 DEF RemoveContext, Proceed, OwnerReady, ClearDestroyed
<1>27. ASSUME WakeUp PROVE SomeoneAwake'
  BY <1>27 DEF WakeUp, Proceed, WakeOne
<1>28. ASSUME OwnerStops PROVE SomeoneAwake'
  BY <1>28 DEF OwnerStops, Proceed, OwnerReady
<1>29. ASSUME OwnerDrops PROVE SomeoneAwake'
  BY <1>29 DEF OwnerDrops, Proceed, OwnerReady
<1>30. CASE UNCHANGED vars
  BY <1>30 DEF vars
<1> QED
  BY <1>1, <1>2, <1>3, <1>4, <1>5, <1>6, <1>7, <1>8, <1>9, <1>10, <1>11, <1>12, <1>13, <1>14,
     <1>15, <1>16, <1>17, <1>18, <1>19, <1>20, <1>21, <1>22, <1>23, <1>24, <1>25, <1>26, <1>27,
     <1>28, <1>29, <1>30
  DEF Next, WorkerStep, CallStep, OwnerStep

\* The compare_exchange lets one worker into performOneTask() of a context.
LEMMA OneClaimStep == TypeOK /\ KnowsContext /\ OneClaim /\ [Next]_vars => OneClaim'
<1> SUFFICES ASSUME TypeOK, KnowsContext, OneClaim, [Next]_vars PROVE OneClaim'
  OBVIOUS
<1> USE DEF KnowsContext, OneClaim, Claiming, TypeOK, Callers, Idle, Held, Using, TempRef,
        Stopping, poolVars, lifeVars, workerVars, taskVars
<1>1. ASSUME NEW w \in Workers, TestStop(w) PROVE OneClaim'
  BY <1>1 DEF TestStop, Goto
<1>2. ASSUME NEW w \in Workers, LockAndTest(w) PROVE OneClaim'
  BY <1>2 DEF LockAndTest, Goto
<1>3. ASSUME NEW w \in Workers, Block(w) PROVE OneClaim'
  BY <1>3 DEF Block, Goto
<1>4. ASSUME NEW w \in Workers, SpuriousWakeup(w) PROVE OneClaim'
  BY <1>4 DEF SpuriousWakeup
<1>5. ASSUME NEW w \in Workers, PopContext(w) PROVE OneClaim'
  BY <1>5 DEF PopContext, Goto
<1>6. ASSUME NEW w \in Workers, LeaveInner(w) PROVE OneClaim'
  BY <1>6 DEF LeaveInner, Goto
<1>7. ASSUME NEW w \in Workers, TestExpired(w) PROVE OneClaim'
  <2>1. /\ pc' = [pc EXCEPT ![w] = "lockCtx"] \/ pc' = [pc EXCEPT ![w] = "inner"]
        /\ \A v \in Workers : v # w => cur'[v] = cur[v]
        /\ UNCHANGED inProgress
    <3>1. CASE Referenced(cur[w])
      BY <1>7, <3>1, Zenon DEF TestExpired, Goto
    <3>2. CASE ~Referenced(cur[w])
      BY <1>7, <3>2 DEF TestExpired, Goto
    <3> QED
      BY <3>1, <3>2
  <2>2. \A v \in Workers : pc'[v] \in Claiming => v # w /\ pc'[v] = pc[v] /\ cur'[v] = cur[v]
    BY <2>1
  <2> QED
    BY <2>1, <2>2
<1>8. ASSUME NEW w \in Workers, LockContext(w) PROVE OneClaim'
  <2>1. pc[w] = "lockCtx" /\ (Goto(w, "cas") \/ UNCHANGED pc) /\ UNCHANGED <<cur, inProgress>>
    BY <1>8, Zenon DEF LockContext
  <2>2. \A v \in Workers : pc'[v] \in Claiming => pc[v] \in Claiming
    BY <2>1 DEF Goto
  <2> QED
    BY <2>1, <2>2
<1>9. ASSUME NEW w \in Workers, Claim(w) PROVE OneClaim'
  BY <1>9 DEF Claim, Goto
<1>10. ASSUME NEW w \in Workers, TakeTask(w) PROVE OneClaim'
  <2>1. pc[w] = "take" /\ (Goto(w, "clear") \/ Goto(w, "run")) /\ UNCHANGED <<cur, inProgress>>
    BY <1>10, Zenon DEF TakeTask
  <2>2. \A v \in Workers : pc'[v] \in Claiming => pc[v] \in Claiming
    BY <2>1 DEF Goto
  <2> QED
    BY <2>1, <2>2
<1>11. ASSUME NEW w \in Workers, FinishTask(w) PROVE OneClaim'
  BY <1>11 DEF FinishTask, Goto
<1>12. ASSUME NEW w \in Workers, Unclaim(w) PROVE OneClaim'
  BY <1>12 DEF Unclaim, Goto
<1>13. ASSUME NEW w \in Workers, Relock(w) PROVE OneClaim'
  BY <1>13 DEF Relock, Goto, ClearDestroyed
<1>14. ASSUME NEW w \in Workers, Exit(w) PROVE OneClaim'
  BY <1>14 DEF Exit, Goto
<1>15. ASSUME NEW t \in Callers, TestPool(t) PROVE OneClaim'
  BY <1>15 DEF TestPool, Proceed, Return, ClearDestroyed, PoolReferenced
<1>16. ASSUME NEW t \in Callers, LockPool(t) PROVE OneClaim'
  BY <1>16 DEF LockPool, Proceed, PoolReferenced
<1>17. ASSUME NEW t \in Callers, Enqueue(t) PROVE OneClaim'
  BY <1>17 DEF Enqueue, Proceed
<1>18. ASSUME NEW t \in Callers, Notify(t) PROVE OneClaim'
  BY <1>18 DEF Notify, Proceed, WakeOne
<1>19. ASSUME NEW t \in Callers, ReleasePool(t) PROVE OneClaim'
  BY <1>19 DEF ReleasePool, Proceed, Return, ClearDestroyed
<1>20. ASSUME NEW t \in Callers, RaiseStop(t) PROVE OneClaim'
  BY <1>20 DEF RaiseStop, Proceed
<1>21. ASSUME NEW t \in Callers, NotifyAll(t) PROVE OneClaim'
  BY <1>21 DEF NotifyAll, Proceed
<1>22. ASSUME NEW t \in Callers, StopReturns(t) PROVE OneClaim'
  BY <1>22 DEF StopReturns, Return, ClearDestroyed, PoolReferenced
<1>23. ASSUME NEW t \in Callers, NEW c \in Contexts, Schedule(t, c) PROVE OneClaim'
  BY <1>23 DEF Schedule, MayCall
<1>24. ASSUME NEW c \in Contexts, ClearAllTasks(c) PROVE OneClaim'
  BY <1>24 DEF ClearAllTasks
<1>25. ASSUME NEW c \in Contexts, MakeNewContext(c) PROVE OneClaim'
  BY <1>25 DEF MakeNewContext, Proceed, OwnerReady
<1>26. ASSUME NEW c \in Contexts, RemoveContext(c) PROVE OneClaim'
  BY <1>26 DEF RemoveContext, Proceed, OwnerReady, ClearDestroyed
<1>27. ASSUME WakeUp PROVE OneClaim'
  BY <1>27 DEF WakeUp, Proceed, WakeOne
<1>28. ASSUME OwnerStops PROVE OneClaim'
  BY <1>28 DEF OwnerStops, Proceed, OwnerReady
<1>29. ASSUME OwnerDrops PROVE OneClaim'
  BY <1>29 DEF OwnerDrops, Proceed, OwnerReady
<1>30. CASE UNCHANGED vars
  BY <1>30 DEF vars
<1> QED
  BY <1>1, <1>2, <1>3, <1>4, <1>5, <1>6, <1>7, <1>8, <1>9, <1>10, <1>11, <1>12, <1>13, <1>14,
     <1>15, <1>16, <1>17, <1>18, <1>19, <1>20, <1>21, <1>22, <1>23, <1>24, <1>25, <1>26, <1>27,
     <1>28, <1>29, <1>30
  DEF Next, WorkerStep, CallStep, OwnerStep

\* Tasks are appended in the order of their numbers and taken from the front.
LEMMA OldestFirstStep == TypeOK /\ KnowsContext /\ OneClaim /\ OldestFirst /\ [Next]_vars => OldestFirst'
<1> SUFFICES ASSUME TypeOK, KnowsContext, OneClaim, OldestFirst, [Next]_vars PROVE OldestFirst'
  OBVIOUS
<1> USE DEF KnowsContext, OneClaim, Claiming, OldestFirst, TypeOK, Callers, Idle, Held, Using,
        TempRef, Stopping, poolVars, lifeVars, workerVars, taskVars
<1>1. ASSUME NEW w \in Workers, TestStop(w) PROVE OldestFirst'
  BY <1>1 DEF TestStop, Goto, QueuesSorted, OnlyScheduled, RunningIsOldest
<1>2. ASSUME NEW w \in Workers, LockAndTest(w) PROVE OldestFirst'
  BY <1>2 DEF LockAndTest, Goto, QueuesSorted, OnlyScheduled, RunningIsOldest
<1>3. ASSUME NEW w \in Workers, Block(w) PROVE OldestFirst'
  BY <1>3 DEF Block, Goto, QueuesSorted, OnlyScheduled, RunningIsOldest
<1>4. ASSUME NEW w \in Workers, SpuriousWakeup(w) PROVE OldestFirst'
  BY <1>4 DEF SpuriousWakeup, QueuesSorted, OnlyScheduled, RunningIsOldest
<1>5. ASSUME NEW w \in Workers, PopContext(w) PROVE OldestFirst'
  BY <1>5 DEF PopContext, Goto, QueuesSorted, OnlyScheduled, RunningIsOldest
<1>6. ASSUME NEW w \in Workers, LeaveInner(w) PROVE OldestFirst'
  BY <1>6 DEF LeaveInner, Goto, QueuesSorted, OnlyScheduled, RunningIsOldest
<1>7. ASSUME NEW w \in Workers, TestExpired(w) PROVE OldestFirst'
  BY <1>7 DEF TestExpired, Goto, QueuesSorted, OnlyScheduled, RunningIsOldest
<1>8. ASSUME NEW w \in Workers, LockContext(w) PROVE OldestFirst'
  BY <1>8 DEF LockContext, Goto, QueuesSorted, OnlyScheduled, RunningIsOldest
<1>9. ASSUME NEW w \in Workers, Claim(w) PROVE OldestFirst'
  BY <1>9 DEF Claim, Goto, QueuesSorted, OnlyScheduled, RunningIsOldest
<1>10. ASSUME NEW w \in Workers, TakeTask(w) PROVE OldestFirst'
  <2>1. cur[w] \in Contexts /\ pc[w] = "take" /\ taskQ[cur[w]] \in Seq(1..MaxTasks)
    BY <1>10 DEF TakeTask
  <2>2. CASE taskQ[cur[w]] = <<>>
    <3>1. UNCHANGED <<job, taskQ, cur, scheduled>> /\ pc' = [pc EXCEPT ![w] = "clear"]
      BY <1>10, <2>2 DEF TakeTask, Goto
    <3> QED
      BY <3>1 DEF QueuesSorted, OnlyScheduled, RunningIsOldest
  <2>3. CASE taskQ[cur[w]] # <<>>
    <3> DEFINE q == taskQ[cur[w]]
    <3>1. /\ job' = [job EXCEPT ![w] = Head(q)]
          /\ taskQ' = [taskQ EXCEPT ![cur[w]] = Tail(q)]
          /\ pc' = [pc EXCEPT ![w] = "run"]
          /\ UNCHANGED <<cur, scheduled>>
      BY <1>10, <2>3 DEF TakeTask, Goto
    <3>2. Sorted(q) /\ Below(q, scheduled + 1) /\ scheduled + 1 \in Nat
      BY <2>1 DEF QueuesSorted, OnlyScheduled
    <3>3. /\ Head(q) \in 1..MaxTasks /\ Sorted(Tail(q)) /\ Above(Tail(q), Head(q))
          /\ Head(q) < scheduled + 1 /\ Below(Tail(q), scheduled + 1)
      BY <2>1, <2>3, <3>2, TailOrder
    <3>4. QueuesSorted'
      BY <3>1, <3>3 DEF QueuesSorted
    <3>5. OnlyScheduled'
      BY <3>1, <3>3 DEF OnlyScheduled
    <3>6. ASSUME NEW v \in Workers, pc'[v] = "run"
          PROVE  job'[v] > 0 /\ Above(taskQ'[cur'[v]], job'[v])
      <4>1. CASE v = w
        BY <3>1, <3>3, <2>1, <4>1
      <4>2. CASE v # w
        <5>1. pc[v] = "run" /\ cur[v] \in Contexts /\ cur'[v] = cur[v] /\ job'[v] = job[v]
          BY <3>1, <3>6, <4>2
        <5>2. cur[v] # cur[w]
          BY <5>1, <4>2, <2>1
        <5>3. taskQ'[cur[v]] = taskQ[cur[v]]
          BY <3>1, <5>1, <5>2
        <5> QED
          BY <5>1, <5>3 DEF RunningIsOldest
      <4> QED
        BY <4>1, <4>2
    <3> QED
      BY <3>4, <3>5, <3>6 DEF RunningIsOldest
  <2> QED
    BY <2>2, <2>3
<1>11. ASSUME NEW w \in Workers, FinishTask(w) PROVE OldestFirst'
  BY <1>11 DEF FinishTask, Goto, QueuesSorted, OnlyScheduled, RunningIsOldest
<1>12. ASSUME NEW w \in Workers, Unclaim(w) PROVE OldestFirst'
  BY <1>12 DEF Unclaim, Goto, QueuesSorted, OnlyScheduled, RunningIsOldest
<1>13. ASSUME NEW w \in Workers, Relock(w) PROVE OldestFirst'
  BY <1>13, EmptyOrder DEF Relock, Goto, ClearDestroyed, QueuesSorted, OnlyScheduled, RunningIsOldest
<1>14. ASSUME NEW w \in Workers, Exit(w) PROVE OldestFirst'
  BY <1>14 DEF Exit, Goto, QueuesSorted, OnlyScheduled, RunningIsOldest
<1>15. ASSUME NEW t \in Callers, TestPool(t) PROVE OldestFirst'
  <2>1. UNCHANGED workerVars /\ (Return(t) \/ UNCHANGED taskVars)
    BY <1>15, Zenon DEF TestPool
  <2>2. CASE Return(t)
    BY <2>1, <2>2, EmptyOrder DEF Return, ClearDestroyed, QueuesSorted, OnlyScheduled, RunningIsOldest
  <2>3. CASE UNCHANGED taskVars
    BY <2>1, <2>3 DEF QueuesSorted, OnlyScheduled, RunningIsOldest
  <2> QED
    BY <2>1, <2>2, <2>3
<1>16. ASSUME NEW t \in Callers, LockPool(t) PROVE OldestFirst'
  BY <1>16 DEF LockPool, Proceed, PoolReferenced, QueuesSorted, OnlyScheduled, RunningIsOldest
<1>17. ASSUME NEW t \in Callers, Enqueue(t) PROVE OldestFirst'
  BY <1>17 DEF Enqueue, Proceed, QueuesSorted, OnlyScheduled, RunningIsOldest
<1>18. ASSUME NEW t \in Callers, Notify(t) PROVE OldestFirst'
  BY <1>18 DEF Notify, Proceed, WakeOne, QueuesSorted, OnlyScheduled, RunningIsOldest
<1>19. ASSUME NEW t \in Callers, ReleasePool(t) PROVE OldestFirst'
  <2>1. UNCHANGED workerVars /\ (Return(t) \/ UNCHANGED taskVars)
    BY <1>19, Zenon DEF ReleasePool
  <2>2. CASE Return(t)
    BY <2>1, <2>2, EmptyOrder DEF Return, ClearDestroyed, QueuesSorted, OnlyScheduled, RunningIsOldest
  <2>3. CASE UNCHANGED taskVars
    BY <2>1, <2>3 DEF QueuesSorted, OnlyScheduled, RunningIsOldest
  <2> QED
    BY <2>1, <2>2, <2>3
<1>20. ASSUME NEW t \in Callers, RaiseStop(t) PROVE OldestFirst'
  BY <1>20 DEF RaiseStop, Proceed, QueuesSorted, OnlyScheduled, RunningIsOldest
<1>21. ASSUME NEW t \in Callers, NotifyAll(t) PROVE OldestFirst'
  BY <1>21 DEF NotifyAll, Proceed, QueuesSorted, OnlyScheduled, RunningIsOldest
<1>22. ASSUME NEW t \in Callers, StopReturns(t) PROVE OldestFirst'
  BY <1>22, EmptyOrder DEF StopReturns, Return, ClearDestroyed, PoolReferenced, QueuesSorted, OnlyScheduled, RunningIsOldest
<1>23. ASSUME NEW t \in Callers, NEW c \in Contexts, Schedule(t, c) PROVE OldestFirst'
  <2> DEFINE n == scheduled + 1
             q == taskQ[c]
  <2>1. /\ scheduled' = n /\ n \in 1..MaxTasks
        /\ taskQ' = [taskQ EXCEPT ![c] = Append(q, n)]
        /\ UNCHANGED <<pc, cur, job>>
    BY <1>23, PoolAssumption DEF Schedule, PoolAssumption
  <2>2. q \in Seq(1..MaxTasks) /\ Sorted(q) /\ Below(q, n)
    BY DEF QueuesSorted, OnlyScheduled
  <2>3. /\ Sorted(Append(q, n)) /\ Below(Append(q, n), n + 1)
        /\ \A m \in Nat : m < n /\ Above(q, m) => Above(Append(q, n), m)
    <3> HIDE DEF n, q
    <3> QED
      BY <2>1, <2>2, AppendOrder
  <2>4. taskQ'[c] = Append(q, n) /\ \A d \in Contexts : d # c => taskQ'[d] = taskQ[d]
    BY <2>1
  <2>5. QueuesSorted'
    BY <2>3, <2>4 DEF QueuesSorted
  <2>6. OnlyScheduled'
    <3>1. ASSUME NEW d \in Contexts, d # c PROVE Below(taskQ[d], n + 1)
      <4>1. taskQ[d] \in Seq(1..MaxTasks) /\ Below(taskQ[d], n)
        BY DEF OnlyScheduled
      <4>2. \A i \in 1..Len(taskQ[d]) : taskQ[d][i] \in 1..MaxTasks
        BY <4>1, ElementOfSeq
      <4> QED
        BY <4>1, <4>2, <2>1 DEF Below
    <3>2. \A w \in Workers : job[w] < n + 1
      BY <2>1 DEF OnlyScheduled
    <3> QED
      BY <2>1, <2>3, <2>4, <3>1, <3>2 DEF OnlyScheduled
  <2>7. RunningIsOldest'
    <3> SUFFICES ASSUME NEW w \in Workers, pc[w] = "run"
                 PROVE  job[w] > 0 /\ Above(taskQ'[cur[w]], job[w])
      BY <2>1 DEF RunningIsOldest
    <3>1. cur[w] \in Contexts /\ job[w] \in Nat /\ job[w] < n
      BY DEF OnlyScheduled
    <3>2. job[w] > 0 /\ Above(taskQ[cur[w]], job[w])
      BY DEF RunningIsOldest
    <3>3. CASE cur[w] = c
      BY <3>1, <3>2, <3>3, <2>3, <2>4
    <3>4. CASE cur[w] # c
      BY <3>1, <3>2, <3>4, <2>4
    <3> QED
      BY <3>3, <3>4
  <2> QED
    BY <2>5, <2>6, <2>7
<1>24. ASSUME NEW c \in Contexts, ClearAllTasks(c) PROVE OldestFirst'
  BY <1>24, EmptyOrder DEF ClearAllTasks, QueuesSorted, OnlyScheduled, RunningIsOldest
<1>25. ASSUME NEW c \in Contexts, MakeNewContext(c) PROVE OldestFirst'
  BY <1>25 DEF MakeNewContext, Proceed, OwnerReady, QueuesSorted, OnlyScheduled, RunningIsOldest
<1>26. ASSUME NEW c \in Contexts, RemoveContext(c) PROVE OldestFirst'
  BY <1>26, EmptyOrder DEF RemoveContext, Proceed, OwnerReady, ClearDestroyed, QueuesSorted, OnlyScheduled, RunningIsOldest
<1>27. ASSUME WakeUp PROVE OldestFirst'
  BY <1>27 DEF WakeUp, Proceed, WakeOne, QueuesSorted, OnlyScheduled, RunningIsOldest
<1>28. ASSUME OwnerStops PROVE OldestFirst'
  BY <1>28 DEF OwnerStops, Proceed, OwnerReady, QueuesSorted, OnlyScheduled, RunningIsOldest
<1>29. ASSUME OwnerDrops PROVE OldestFirst'
  BY <1>29 DEF OwnerDrops, Proceed, OwnerReady, QueuesSorted, OnlyScheduled, RunningIsOldest
<1>30. CASE UNCHANGED vars
  BY <1>30 DEF vars, QueuesSorted, OnlyScheduled, RunningIsOldest
<1> QED
  BY <1>1, <1>2, <1>3, <1>4, <1>5, <1>6, <1>7, <1>8, <1>9, <1>10, <1>11, <1>12, <1>13, <1>14,
     <1>15, <1>16, <1>17, <1>18, <1>19, <1>20, <1>21, <1>22, <1>23, <1>24, <1>25, <1>26, <1>27,
     <1>28, <1>29, <1>30
  DEF Next, WorkerStep, CallStep, OwnerStep

\* The thread that raised _needStop stays inside stopAll() until every worker has left.
LEMMA NobodyAfterStopStep == TypeOK /\ Counted /\ NobodyAfterStop /\ [Next]_vars => NobodyAfterStop'
<1> SUFFICES ASSUME TypeOK, Counted, NobodyAfterStop, [Next]_vars PROVE NobodyAfterStop'
  OBVIOUS
<1> USE PoolAssumption DEF NobodyAfterStop, TypeOK, Callers, Idle, Held, Using, TempRef,
        Stopping, poolVars, lifeVars, workerVars, taskVars
<1>1. ASSUME NEW w \in Workers, TestStop(w) PROVE NobodyAfterStop'
  BY <1>1 DEF TestStop, Goto
<1>2. ASSUME NEW w \in Workers, LockAndTest(w) PROVE NobodyAfterStop'
  BY <1>2 DEF LockAndTest, Goto
<1>3. ASSUME NEW w \in Workers, Block(w) PROVE NobodyAfterStop'
  BY <1>3 DEF Block, Goto
<1>4. ASSUME NEW w \in Workers, SpuriousWakeup(w) PROVE NobodyAfterStop'
  BY <1>4 DEF SpuriousWakeup
<1>5. ASSUME NEW w \in Workers, PopContext(w) PROVE NobodyAfterStop'
  BY <1>5 DEF PopContext, Goto
<1>6. ASSUME NEW w \in Workers, LeaveInner(w) PROVE NobodyAfterStop'
  BY <1>6 DEF LeaveInner, Goto
<1>7. ASSUME NEW w \in Workers, TestExpired(w) PROVE NobodyAfterStop'
  BY <1>7 DEF TestExpired, Goto
<1>8. ASSUME NEW w \in Workers, LockContext(w) PROVE NobodyAfterStop'
  BY <1>8 DEF LockContext, Goto
<1>9. ASSUME NEW w \in Workers, Claim(w) PROVE NobodyAfterStop'
  BY <1>9 DEF Claim, Goto
<1>10. ASSUME NEW w \in Workers, TakeTask(w) PROVE NobodyAfterStop'
  BY <1>10 DEF TakeTask, Goto
<1>11. ASSUME NEW w \in Workers, FinishTask(w) PROVE NobodyAfterStop'
  BY <1>11 DEF FinishTask, Goto
<1>12. ASSUME NEW w \in Workers, Unclaim(w) PROVE NobodyAfterStop'
  BY <1>12 DEF Unclaim, Goto
<1>13. ASSUME NEW w \in Workers, Relock(w) PROVE NobodyAfterStop'
  BY <1>13 DEF Relock, Goto, ClearDestroyed
<1>14. ASSUME NEW w \in Workers, Exit(w) PROVE NobodyAfterStop'
  BY <1>14 DEF Exit, Goto
<1>15. ASSUME NEW t \in Callers, TestPool(t) PROVE NobodyAfterStop'
  BY <1>15 DEF TestPool, Proceed, Return, ClearDestroyed, PoolReferenced
<1>16. ASSUME NEW t \in Callers, LockPool(t) PROVE NobodyAfterStop'
  BY <1>16 DEF LockPool, Proceed, PoolReferenced
<1>17. ASSUME NEW t \in Callers, Enqueue(t) PROVE NobodyAfterStop'
  BY <1>17 DEF Enqueue, Proceed
<1>18. ASSUME NEW t \in Callers, Notify(t) PROVE NobodyAfterStop'
  BY <1>18 DEF Notify, Proceed, WakeOne
<1>19. ASSUME NEW t \in Callers, ReleasePool(t) PROVE NobodyAfterStop'
  BY <1>19 DEF ReleasePool, Proceed, Return, ClearDestroyed
<1>20. ASSUME NEW t \in Callers, RaiseStop(t) PROVE NobodyAfterStop'
  BY <1>20 DEF RaiseStop, Proceed
<1>21. ASSUME NEW t \in Callers, NotifyAll(t) PROVE NobodyAfterStop'
  BY <1>21 DEF NotifyAll, Proceed
<1>22. ASSUME NEW t \in Callers, StopReturns(t) PROVE NobodyAfterStop'
  <2>1. UNCHANGED <<pc, completed, needStop>> /\ call' = [call EXCEPT ![t] = Idle]
    BY <1>22 DEF StopReturns, Return
  <2>2. CASE call[t].at = "stop" /\ needStop
    BY <2>1, <2>2
  <2>3. CASE call[t].at = "await" /\ completed = Cardinality(Workers)
    <3>1. Gone = Workers
      BY <2>3, GoneBound, FS_Subset DEF Counted, PoolAssumption
    <3> QED
      BY <3>1, <2>1 DEF Gone
  <2> QED
    BY <1>22, <2>2, <2>3 DEF StopReturns
<1>23. ASSUME NEW t \in Callers, NEW c \in Contexts, Schedule(t, c) PROVE NobodyAfterStop'
  BY <1>23 DEF Schedule, MayCall
<1>24. ASSUME NEW c \in Contexts, ClearAllTasks(c) PROVE NobodyAfterStop'
  BY <1>24 DEF ClearAllTasks
<1>25. ASSUME NEW c \in Contexts, MakeNewContext(c) PROVE NobodyAfterStop'
  BY <1>25 DEF MakeNewContext, Proceed, OwnerReady
<1>26. ASSUME NEW c \in Contexts, RemoveContext(c) PROVE NobodyAfterStop'
  BY <1>26 DEF RemoveContext, Proceed, OwnerReady, ClearDestroyed
<1>27. ASSUME WakeUp PROVE NobodyAfterStop'
  BY <1>27 DEF WakeUp, Proceed, WakeOne
<1>28. ASSUME OwnerStops PROVE NobodyAfterStop'
  BY <1>28 DEF OwnerStops, Proceed, OwnerReady
<1>29. ASSUME OwnerDrops PROVE NobodyAfterStop'
  BY <1>29 DEF OwnerDrops, Proceed, OwnerReady
<1>30. CASE UNCHANGED vars
  BY <1>30 DEF vars
<1> QED
  BY <1>1, <1>2, <1>3, <1>4, <1>5, <1>6, <1>7, <1>8, <1>9, <1>10, <1>11, <1>12, <1>13, <1>14,
     <1>15, <1>16, <1>17, <1>18, <1>19, <1>20, <1>21, <1>22, <1>23, <1>24, <1>25, <1>26, <1>27,
     <1>28, <1>29, <1>30
  DEF Next, WorkerStep, CallStep, OwnerStep

\* _threadPool.lock() gives no pointer to a pool whose use count has reached 0.
LEMMA NoRevivalStep == TypeOK /\ NoRevival /\ [Next]_vars => NoRevival'
<1> SUFFICES ASSUME TypeOK, NoRevival, [Next]_vars PROVE NoRevival'
  OBVIOUS
<1> USE DEF NoRevival, TypeOK, Callers, Idle, Held, Using, TempRef, Stopping, poolVars, lifeVars,
        workerVars, taskVars
<1>1. ASSUME NEW w \in Workers, TestStop(w) PROVE NoRevival'
  BY <1>1 DEF TestStop, Goto, PoolReferenced
<1>2. ASSUME NEW w \in Workers, LockAndTest(w) PROVE NoRevival'
  BY <1>2 DEF LockAndTest, Goto, PoolReferenced
<1>3. ASSUME NEW w \in Workers, Block(w) PROVE NoRevival'
  BY <1>3 DEF Block, Goto, PoolReferenced
<1>4. ASSUME NEW w \in Workers, SpuriousWakeup(w) PROVE NoRevival'
  BY <1>4 DEF SpuriousWakeup, PoolReferenced
<1>5. ASSUME NEW w \in Workers, PopContext(w) PROVE NoRevival'
  BY <1>5 DEF PopContext, Goto, PoolReferenced
<1>6. ASSUME NEW w \in Workers, LeaveInner(w) PROVE NoRevival'
  BY <1>6 DEF LeaveInner, Goto, PoolReferenced
<1>7. ASSUME NEW w \in Workers, TestExpired(w) PROVE NoRevival'
  BY <1>7 DEF TestExpired, Goto, PoolReferenced
<1>8. ASSUME NEW w \in Workers, LockContext(w) PROVE NoRevival'
  BY <1>8 DEF LockContext, Goto, PoolReferenced
<1>9. ASSUME NEW w \in Workers, Claim(w) PROVE NoRevival'
  BY <1>9 DEF Claim, Goto, PoolReferenced
<1>10. ASSUME NEW w \in Workers, TakeTask(w) PROVE NoRevival'
  BY <1>10 DEF TakeTask, Goto, PoolReferenced
<1>11. ASSUME NEW w \in Workers, FinishTask(w) PROVE NoRevival'
  BY <1>11 DEF FinishTask, Goto, PoolReferenced
<1>12. ASSUME NEW w \in Workers, Unclaim(w) PROVE NoRevival'
  BY <1>12 DEF Unclaim, Goto, PoolReferenced
<1>13. ASSUME NEW w \in Workers, Relock(w) PROVE NoRevival'
  BY <1>13 DEF Relock, Goto, ClearDestroyed, PoolReferenced
<1>14. ASSUME NEW w \in Workers, Exit(w) PROVE NoRevival'
  BY <1>14 DEF Exit, Goto, PoolReferenced
<1>15. ASSUME NEW t \in Callers, TestPool(t) PROVE NoRevival'
  <2>1. UNCHANGED <<ownerRef, destroyed>> /\ (Return(t) \/ Proceed(t, "lockPool"))
    BY <1>15, Zenon DEF TestPool, lifeVars
  <2>2. CASE Return(t)
    BY <2>1, <2>2 DEF Return, PoolReferenced
  <2>3. CASE Proceed(t, "lockPool")
    BY <2>1, <2>3 DEF Proceed, PoolReferenced
  <2> QED
    BY <2>1, <2>2, <2>3
<1>16. ASSUME NEW t \in Callers, LockPool(t) PROVE NoRevival'
  BY <1>16 DEF LockPool, Proceed, PoolReferenced
<1>17. ASSUME NEW t \in Callers, Enqueue(t) PROVE NoRevival'
  BY <1>17 DEF Enqueue, Proceed, PoolReferenced
<1>18. ASSUME NEW t \in Callers, Notify(t) PROVE NoRevival'
  BY <1>18 DEF Notify, Proceed, WakeOne, PoolReferenced
<1>19. ASSUME NEW t \in Callers, ReleasePool(t) PROVE NoRevival'
  BY <1>19 DEF ReleasePool, Proceed, Return, ClearDestroyed, PoolReferenced
<1>20. ASSUME NEW t \in Callers, RaiseStop(t) PROVE NoRevival'
  BY <1>20 DEF RaiseStop, Proceed, PoolReferenced
<1>21. ASSUME NEW t \in Callers, NotifyAll(t) PROVE NoRevival'
  BY <1>21 DEF NotifyAll, Proceed, PoolReferenced
<1>22. ASSUME NEW t \in Callers, StopReturns(t) PROVE NoRevival'
  BY <1>22 DEF StopReturns, Return, ClearDestroyed, PoolReferenced
<1>23. ASSUME NEW t \in Callers, NEW c \in Contexts, Schedule(t, c) PROVE NoRevival'
  BY <1>23 DEF Schedule, MayCall, PoolReferenced
<1>24. ASSUME NEW c \in Contexts, ClearAllTasks(c) PROVE NoRevival'
  BY <1>24 DEF ClearAllTasks, PoolReferenced
<1>25. ASSUME NEW c \in Contexts, MakeNewContext(c) PROVE NoRevival'
  BY <1>25 DEF MakeNewContext, Proceed, OwnerReady, PoolReferenced
<1>26. ASSUME NEW c \in Contexts, RemoveContext(c) PROVE NoRevival'
  BY <1>26 DEF RemoveContext, Proceed, OwnerReady, ClearDestroyed, PoolReferenced
<1>27. ASSUME WakeUp PROVE NoRevival'
  BY <1>27 DEF WakeUp, Proceed, WakeOne, PoolReferenced
<1>28. ASSUME OwnerStops PROVE NoRevival'
  BY <1>28 DEF OwnerStops, Proceed, OwnerReady, PoolReferenced
<1>29. ASSUME OwnerDrops PROVE NoRevival'
  BY <1>29 DEF OwnerDrops, Proceed, OwnerReady, PoolReferenced
<1>30. CASE UNCHANGED vars
  BY <1>30 DEF vars, PoolReferenced
<1> QED
  BY <1>1, <1>2, <1>3, <1>4, <1>5, <1>6, <1>7, <1>8, <1>9, <1>10, <1>11, <1>12, <1>13, <1>14,
     <1>15, <1>16, <1>17, <1>18, <1>19, <1>20, <1>21, <1>22, <1>23, <1>24, <1>25, <1>26, <1>27,
     <1>28, <1>29, <1>30
  DEF Next, WorkerStep, CallStep, OwnerStep

-----------------------------------------------------------------------------
(* The invariant holds initially and is kept by every step. *)

\* The constructor establishes the invariant.
LEMMA InitIInv == Init => IInv
<1> SUFFICES ASSUME Init PROVE IInv
  OBVIOUS
<1> USE DEF Init
<1>1. TypeOK
  <2>1. 0 \in 0..Cardinality(Workers)
    BY PoolAssumption, FS_CardinalityType DEF PoolAssumption
  <2>2. Idle \in [at : {"idle"}, ctx : Contexts \cup {NoContext}]
    BY DEF Idle
  <2>3. /\ execQueue \in Seq(Contexts)
        /\ taskQ \in [Contexts -> Seq(1..MaxTasks)]
    OBVIOUS
  <2>4. 0 \in 0..MaxTasks
    BY PoolAssumption DEF PoolAssumption
  <2>5. call \in [Callers -> [at : {"idle"}, ctx : Contexts \cup {NoContext}]]
    BY <2>2
  <2>6. call \in [Callers -> [at : {"idle", "expired", "lockPool", "wakeUp"} \cup TempRef \cup Stopping,
                              ctx : Contexts \cup {NoContext}]]
    BY <2>5
  <2> HIDE DEF Idle
  <2> QED
    BY <2>1, <2>3, <2>4, <2>6 DEF TypeOK, Held, Using
<1>7. KnowsContext
  BY DEF KnowsContext, Idle, Using, TempRef
<1>2. Counted
  <2>1. Gone = {}
    BY DEF Gone
  <2> QED
    BY <2>1, FS_EmptySet DEF Counted
<1>3. SleepersWait /\ NoWorkUnseen /\ SomeoneAwake
  BY DEF SleepersWait, NoWorkUnseen, SomeoneAwake
<1>4. OneClaim /\ OldestFirst
  BY PoolAssumption
  DEF PoolAssumption, OneClaim, OldestFirst, QueuesSorted, OnlyScheduled, RunningIsOldest, Sorted, Below, Claiming
<1>5. NobodyAfterStop /\ NoRevival
  BY DEF NobodyAfterStop, NoRevival
<1> QED
  BY <1>1, <1>2, <1>3, <1>4, <1>5, <1>7 DEF IInv

\* Every step keeps the invariant.
LEMMA NextIInv == IInv /\ [Next]_vars => IInv'
BY TypeStep, KnowsContextStep, CountedStep, SleepersWaitStep, NoWorkUnseenStep,
   SomeoneAwakeStep, OneClaimStep, OldestFirstStep, NobodyAfterStopStep, NoRevivalStep
DEF IInv

\* The invariant always holds.
LEMMA SpecIInv == Spec => []IInv
BY InitIInv, NextIInv, PTL DEF Spec

-----------------------------------------------------------------------------
(* What follows from it. *)

\* Every variable of the pool and of its contexts keeps its type, and _threadsCompleted
\* never exceeds the number of workers that stopAll() waits for.
THEOREM TypeCorrect == Spec => []TypeOK
<1>1. IInv => TypeOK
  BY DEF IInv
<1> QED
  BY <1>1, SpecIInv, PTL

\* performOneTask() runs the tasks of a context one at a time and oldest first,
\* however many workers pop the context from the execution queue.
THEOREM SerialExecution == Spec => []SerialContexts
<1>1. IInv => SerialContexts
  BY DEF IInv, SerialContexts, OneClaim, OldestFirst, RunningIsOldest, Above, Claiming
<1> QED
  BY <1>1, SpecIInv, PTL

\* wakeUpForContext() loses no wakeup: it pushes under _mutex and notifies after, and
\* one notify_one for each pushed context is enough.
THEOREM NoLostWakeup == Spec => []SomeoneAwake
<1>1. IInv => SomeoneAwake
  BY DEF IInv
<1> QED
  BY <1>1, SpecIInv, PTL

\* When no thread is inside a stopAll() that raised _needStop, no worker is left, and
\* ~CustomSchedulerThreadPool runs under no thread that is inside the pool.
THEOREM StopLeavesNobody == Spec => []StopQuiesces
<1>1. IInv => StopQuiesces
  BY DEF IInv, StopQuiesces, NobodyAfterStop, NoRevival, PoolReferenced, TempRef
<1> QED
  BY <1>1, SpecIInv, PTL

-----------------------------------------------------------------------------
(* ContextPool implements SerialExecutors: TakeTask implements Begin, FinishTask End,  *)
(* Schedule Submit; a step that empties queues is Drop, any other a stuttering step.   *)

\* The tasks being run change only with a worker that enters or leaves task.run().
LEMMA SameRunningAt ==
  ASSUME NEW c \in Contexts,
         \A w \in Workers : (pc'[w] = "run" /\ cur'[w] = c) = (pc[w] = "run" /\ cur[w] = c),
         \A w \in Workers : pc[w] = "run" /\ cur[w] = c => job'[w] = job[w]
  PROVE  Running'[c] = Running[c]
<1> DEFINE RunBy == {v \in Workers : pc[v] = "run" /\ cur[v] = c}
<1>1. RunBy' = RunBy
  OBVIOUS
<1>2. \A v \in RunBy : job'[v] = job[v]
  OBVIOUS
<1>3. {job'[v] : v \in RunBy'} = {job[v] : v \in RunBy}
  BY <1>1, <1>2
<1> QED
  BY <1>3 DEF Running

\* The running tasks change only with a worker that enters or leaves task.run().
LEMMA SameRunning ==
  ASSUME \A w \in Workers : (pc'[w] = "run") = (pc[w] = "run"),
         \A w \in Workers : pc[w] = "run" => cur'[w] = cur[w] /\ job'[w] = job[w]
  PROVE  Running' = Running
<1>1. \A c \in Contexts : Running'[c] = Running[c]
  BY SameRunningAt
<1> QED
  BY <1>1 DEF Running

\* A step that destroys contexts drops their queues.
LEMMA DropImplemented ==
  ASSUME ClearDestroyed, Running' = Running, scheduled' = scheduled
  PROVE  Serial!Next
<1> DEFINE D == {c \in Contexts : ~Referenced(c)'}
<1>1. Serial!Drop(D)
  BY DEF Serial!Drop, ClearDestroyed
<1>2. D \in SUBSET Contexts
  OBVIOUS
<1> HIDE DEF D
<1> QED
  BY <1>1, <1>2 DEF Serial!Next

\* Every step of the pool is a step of the serial executors, or changes nothing they have.
LEMMA RefinementStep == TypeOK /\ KnowsContext /\ OneClaim /\ [Next]_vars => [Serial!Next]_(Serial!vars)
<1> SUFFICES ASSUME TypeOK, KnowsContext, OneClaim, [Next]_vars PROVE [Serial!Next]_(Serial!vars)
  OBVIOUS
<1> USE DEF TypeOK, KnowsContext, Callers, Held, Using, TempRef, Stopping, poolVars, lifeVars,
        workerVars, taskVars, Serial!vars
<1>1. ASSUME NEW w \in Workers, TestStop(w) PROVE [Serial!Next]_(Serial!vars)
  <2>1. Running' = Running
    BY <1>1, SameRunning DEF TestStop, Goto
  <2> QED
    BY <1>1, <2>1 DEF TestStop
<1>2. ASSUME NEW w \in Workers, LockAndTest(w) PROVE [Serial!Next]_(Serial!vars)
  <2>1. Running' = Running
    BY <1>2, SameRunning DEF LockAndTest, Goto
  <2> QED
    BY <1>2, <2>1 DEF LockAndTest
<1>3. ASSUME NEW w \in Workers, Block(w) PROVE [Serial!Next]_(Serial!vars)
  <2>1. Running' = Running
    BY <1>3, SameRunning DEF Block, Goto
  <2> QED
    BY <1>3, <2>1 DEF Block
<1>4. ASSUME NEW w \in Workers, SpuriousWakeup(w) PROVE [Serial!Next]_(Serial!vars)
  <2>1. Running' = Running
    BY <1>4, SameRunning DEF SpuriousWakeup
  <2> QED
    BY <1>4, <2>1 DEF SpuriousWakeup
<1>5. ASSUME NEW w \in Workers, PopContext(w) PROVE [Serial!Next]_(Serial!vars)
  <2>1. Running' = Running
    BY <1>5, SameRunning DEF PopContext, Goto
  <2> QED
    BY <1>5, <2>1 DEF PopContext
<1>6. ASSUME NEW w \in Workers, LeaveInner(w) PROVE [Serial!Next]_(Serial!vars)
  <2>1. Running' = Running
    BY <1>6, SameRunning DEF LeaveInner, Goto
  <2> QED
    BY <1>6, <2>1 DEF LeaveInner
<1>7. ASSUME NEW w \in Workers, TestExpired(w) PROVE [Serial!Next]_(Serial!vars)
  <2>1. /\ (\A v \in Workers : v # w => pc'[v] = pc[v] /\ cur'[v] = cur[v])
        /\ pc[w] = "expired" /\ pc'[w] \in {"lockCtx", "inner"} /\ UNCHANGED <<job, taskVars>>
    <3>1. CASE Referenced(cur[w])
      BY <1>7, <3>1, Zenon DEF TestExpired, Goto
    <3>2. CASE ~Referenced(cur[w])
      BY <1>7, <3>2 DEF TestExpired, Goto
    <3> QED
      BY <3>1, <3>2
  <2>2. Running' = Running
    BY <2>1, SameRunning
  <2> QED
    BY <2>1, <2>2
<1>8. ASSUME NEW w \in Workers, LockContext(w) PROVE [Serial!Next]_(Serial!vars)
  <2>1. pc[w] = "lockCtx" /\ (Goto(w, "cas") \/ UNCHANGED pc) /\ UNCHANGED <<cur, job, taskVars>>
    BY <1>8, Zenon DEF LockContext
  <2>2. \A v \in Workers : (pc'[v] = "run") = (pc[v] = "run")
    BY <2>1 DEF Goto
  <2>3. Running' = Running
    BY <2>1, <2>2, SameRunning
  <2> QED
    BY <2>1, <2>3
<1>9. ASSUME NEW w \in Workers, Claim(w) PROVE [Serial!Next]_(Serial!vars)
  <2>1. Running' = Running
    BY <1>9, SameRunning DEF Claim, Goto
  <2> QED
    BY <1>9, <2>1 DEF Claim
<1>10. ASSUME NEW w \in Workers, TakeTask(w) PROVE [Serial!Next]_(Serial!vars)
  <2> DEFINE c == cur[w]
  <2>1. c \in Contexts /\ pc[w] = "take"
    BY <1>10 DEF TakeTask
  <2>2. CASE taskQ[c] = <<>>
    <3>1. pc' = [pc EXCEPT ![w] = "clear"] /\ UNCHANGED <<cur, job, taskVars>>
      BY <1>10, <2>2 DEF TakeTask, Goto
    <3>2. Running' = Running
      BY <2>1, <3>1, SameRunning
    <3> QED
      BY <3>1, <3>2
  <2>3. CASE taskQ[c] # <<>>
    <3>1. /\ pc' = [pc EXCEPT ![w] = "run"] /\ UNCHANGED <<cur, scheduled>>
          /\ job' = [job EXCEPT ![w] = Head(taskQ[c])]
          /\ taskQ' = [taskQ EXCEPT ![c] = Tail(taskQ[c])]
      BY <1>10, <2>3 DEF TakeTask, Goto
    <3>2. Running[c] = {}
      BY <2>1 DEF Running, OneClaim, Claiming
    <3>3. Running'[c] = {Head(taskQ[c])}
      <4>1. {v \in Workers : pc'[v] = "run" /\ cur'[v] = c} = {w}
        BY <2>1, <3>1 DEF OneClaim, Claiming
      <4>2. job'[w] = Head(taskQ[c])
        BY <3>1
      <4> QED
        BY <4>1, <4>2, <2>1 DEF Running
    <3>4. ASSUME NEW d \in Contexts, d # c PROVE Running'[d] = Running[d]
      <4>1. \A v \in Workers : (pc'[v] = "run" /\ cur'[v] = d) = (pc[v] = "run" /\ cur[v] = d)
        BY <3>1, <3>4, <2>1
      <4>2. \A v \in Workers : pc[v] = "run" /\ cur[v] = d => job'[v] = job[v]
        BY <3>1, <3>4
      <4> QED
        BY <4>1, <4>2, SameRunningAt
    <3>5. Running' = [Running EXCEPT ![c] = {Head(taskQ[c])}]
      BY <2>1, <3>3, <3>4 DEF Running
    <3>6. Serial!Begin(c)
      BY <2>3, <3>1, <3>2, <3>5 DEF Serial!Begin
    <3> QED
      BY <2>1, <3>6 DEF Serial!Next
  <2> QED
    BY <2>2, <2>3
<1>11. ASSUME NEW w \in Workers, FinishTask(w) PROVE [Serial!Next]_(Serial!vars)
  <2> DEFINE c == cur[w]
  <2>1. c \in Contexts /\ pc[w] = "run"
    BY <1>11 DEF FinishTask
  <2>2. pc' = [pc EXCEPT ![w] = "clear"] /\ UNCHANGED <<cur, job, taskVars>>
    BY <1>11 DEF FinishTask, Goto
  <2>3. Running[c] # {}
    <3>1. job[w] \in {job[v] : v \in {u \in Workers : pc[u] = "run" /\ cur[u] = c}}
      BY <2>1
    <3> QED
      BY <3>1, <2>1 DEF Running
  <2>4. Running'[c] = {}
    BY <2>1, <2>2 DEF Running, OneClaim, Claiming
  <2>5. ASSUME NEW d \in Contexts, d # c PROVE Running'[d] = Running[d]
    <3>1. {v \in Workers : pc'[v] = "run" /\ cur'[v] = d} = {v \in Workers : pc[v] = "run" /\ cur[v] = d}
      BY <2>2, <2>5
    <3> QED
      BY <3>1, <2>2 DEF Running
  <2>6. Running' = [Running EXCEPT ![c] = {}]
    BY <2>1, <2>4, <2>5 DEF Running
  <2>7. Serial!End(c)
    BY <2>2, <2>3, <2>6 DEF Serial!End
  <2> QED
    BY <2>1, <2>7 DEF Serial!Next
<1>12. ASSUME NEW w \in Workers, Unclaim(w) PROVE [Serial!Next]_(Serial!vars)
  <2>1. Running' = Running
    BY <1>12, SameRunning DEF Unclaim, Goto
  <2> QED
    BY <1>12, <2>1 DEF Unclaim
<1>13. ASSUME NEW w \in Workers, Relock(w) PROVE [Serial!Next]_(Serial!vars)
  <2>1. Running' = Running /\ scheduled' = scheduled
    BY <1>13, SameRunning DEF Relock, Goto
  <2>2. ClearDestroyed
    BY <1>13 DEF Relock
  <2> QED
    BY <2>1, <2>2, DropImplemented
<1>14. ASSUME NEW w \in Workers, Exit(w) PROVE [Serial!Next]_(Serial!vars)
  <2>1. Running' = Running
    BY <1>14, SameRunning DEF Exit, Goto
  <2> QED
    BY <1>14, <2>1 DEF Exit
<1>15. ASSUME NEW t \in Callers, TestPool(t) PROVE [Serial!Next]_(Serial!vars)
  <2>1. Running' = Running
    BY <1>15, SameRunning DEF TestPool
  <2>2. Return(t) \/ UNCHANGED taskVars
    BY <1>15, Zenon DEF TestPool
  <2>3. CASE Return(t)
    BY <2>1, <2>3, DropImplemented DEF Return
  <2>4. CASE UNCHANGED taskVars
    BY <2>1, <2>4
  <2> QED
    BY <2>2, <2>3, <2>4
<1>16. ASSUME NEW t \in Callers, LockPool(t) PROVE [Serial!Next]_(Serial!vars)
  <2>1. Running' = Running
    BY <1>16, SameRunning DEF LockPool
  <2> QED
    BY <1>16, <2>1 DEF LockPool
<1>17. ASSUME NEW t \in Callers, Enqueue(t) PROVE [Serial!Next]_(Serial!vars)
  <2>1. Running' = Running
    BY <1>17, SameRunning DEF Enqueue
  <2> QED
    BY <1>17, <2>1 DEF Enqueue
<1>18. ASSUME NEW t \in Callers, Notify(t) PROVE [Serial!Next]_(Serial!vars)
  <2>1. Running' = Running
    BY <1>18, SameRunning DEF Notify
  <2> QED
    BY <1>18, <2>1 DEF Notify
<1>19. ASSUME NEW t \in Callers, ReleasePool(t) PROVE [Serial!Next]_(Serial!vars)
  <2>1. Running' = Running
    BY <1>19, SameRunning DEF ReleasePool
  <2>2. Return(t) \/ UNCHANGED taskVars
    BY <1>19, Zenon DEF ReleasePool
  <2>3. CASE Return(t)
    BY <2>1, <2>3, DropImplemented DEF Return
  <2>4. CASE UNCHANGED taskVars
    BY <2>1, <2>4
  <2> QED
    BY <2>2, <2>3, <2>4
<1>20. ASSUME NEW t \in Callers, RaiseStop(t) PROVE [Serial!Next]_(Serial!vars)
  <2>1. Running' = Running
    BY <1>20, SameRunning DEF RaiseStop
  <2> QED
    BY <1>20, <2>1 DEF RaiseStop
<1>21. ASSUME NEW t \in Callers, NotifyAll(t) PROVE [Serial!Next]_(Serial!vars)
  <2>1. Running' = Running
    BY <1>21, SameRunning DEF NotifyAll
  <2> QED
    BY <1>21, <2>1 DEF NotifyAll
<1>22. ASSUME NEW t \in Callers, StopReturns(t) PROVE [Serial!Next]_(Serial!vars)
  <2>1. Running' = Running
    BY <1>22, SameRunning DEF StopReturns
  <2>2. ClearDestroyed /\ scheduled' = scheduled
    BY <1>22, Zenon DEF StopReturns, Return
  <2> QED
    BY <2>1, <2>2, DropImplemented
<1>23. ASSUME NEW t \in Callers, NEW c \in Contexts, Schedule(t, c) PROVE [Serial!Next]_(Serial!vars)
  <2>1. Running' = Running
    BY <1>23, SameRunning DEF Schedule
  <2>2. Serial!Submit(c)
    BY <1>23, <2>1 DEF Schedule, Serial!Submit
  <2> QED
    BY <2>2 DEF Serial!Next
<1>24. ASSUME NEW c \in Contexts, ClearAllTasks(c) PROVE [Serial!Next]_(Serial!vars)
  <2>1. Running' = Running
    BY <1>24, SameRunning DEF ClearAllTasks
  <2>2. Serial!Drop({c})
    BY <1>24, <2>1 DEF ClearAllTasks, Serial!Drop
  <2> QED
    BY <2>2 DEF Serial!Next
<1>25. ASSUME NEW c \in Contexts, MakeNewContext(c) PROVE [Serial!Next]_(Serial!vars)
  <2>1. Running' = Running
    BY <1>25, SameRunning DEF MakeNewContext
  <2> QED
    BY <1>25, <2>1 DEF MakeNewContext
<1>26. ASSUME NEW c \in Contexts, RemoveContext(c) PROVE [Serial!Next]_(Serial!vars)
  <2>1. Running' = Running
    BY <1>26, SameRunning DEF RemoveContext
  <2>2. ClearDestroyed /\ scheduled' = scheduled
    BY <1>26, Zenon DEF RemoveContext, Return
  <2> QED
    BY <2>1, <2>2, DropImplemented
<1>27. ASSUME WakeUp PROVE [Serial!Next]_(Serial!vars)
  <2>1. Running' = Running
    BY <1>27, SameRunning DEF WakeUp
  <2> QED
    BY <1>27, <2>1 DEF WakeUp
<1>28. ASSUME OwnerStops PROVE [Serial!Next]_(Serial!vars)
  <2>1. Running' = Running
    BY <1>28, SameRunning DEF OwnerStops
  <2> QED
    BY <1>28, <2>1 DEF OwnerStops
<1>29. ASSUME OwnerDrops PROVE [Serial!Next]_(Serial!vars)
  <2>1. Running' = Running
    BY <1>29, SameRunning DEF OwnerDrops
  <2> QED
    BY <1>29, <2>1 DEF OwnerDrops
<1>30. CASE UNCHANGED vars
  BY <1>30 DEF vars, Running
<1> QED
  BY <1>1, <1>2, <1>3, <1>4, <1>5, <1>6, <1>7, <1>8, <1>9, <1>10, <1>11, <1>12, <1>13, <1>14,
     <1>15, <1>16, <1>17, <1>18, <1>19, <1>20, <1>21, <1>22, <1>23, <1>24, <1>25, <1>26, <1>27,
     <1>28, <1>29, <1>30
  DEF Next, WorkerStep, CallStep, OwnerStep

\* A new pool has no tasks.
LEMMA RefinementInit == Init => Serial!Init
BY DEF Init, Serial!Init, Running

\* Whatever the workers, the callers and the owner do, each context is a serial executor
\* (schedule, performOneTask and clearAllTasks, CustomSchedulerContextInPool.cpp:156-203).
THEOREM SerialExecutorsImplemented == Spec => ImplementsSerialExecutors
<1>1. IInv /\ [Next]_vars => [Serial!Next]_(Serial!vars)
  BY RefinementStep DEF IInv
<1> QED
  BY <1>1, RefinementInit, SpecIInv, PTL DEF Spec, Serial!Spec, ImplementsSerialExecutors

-----------------------------------------------------------------------------
(* Queued tasks of a context are left unattended by one step only.                     *)

\* A claim that is set is held by a worker that will give it up.
ClaimIsHeld ==
  \A c \in Contexts : inProgress[c] => \E v \in Workers : pc[v] \in Claiming /\ cur[v] = c

\* The tasks of a destroyed context are gone with it.
UnheardEmpty == \A c \in Contexts : ~Referenced(c) => taskQ[c] = <<>>

\* _executionInProgress is set by the compare_exchange of a worker, which keeps the claim
\* until its store.
LEMMA ClaimIsHeldStep == TypeOK /\ KnowsContext /\ OneClaim /\ ClaimIsHeld /\ [Next]_vars => ClaimIsHeld'
<1> SUFFICES ASSUME TypeOK, KnowsContext, OneClaim, ClaimIsHeld, [Next]_vars PROVE ClaimIsHeld'
  OBVIOUS
<1> USE DEF KnowsContext, ClaimIsHeld, Claiming, TypeOK, Callers, Idle, Held, Using, TempRef,
        Stopping, poolVars, lifeVars, workerVars, taskVars
<1>1. ASSUME NEW w \in Workers, TestStop(w) PROVE ClaimIsHeld'
  BY <1>1 DEF TestStop, Goto
<1>2. ASSUME NEW w \in Workers, LockAndTest(w) PROVE ClaimIsHeld'
  BY <1>2 DEF LockAndTest, Goto
<1>3. ASSUME NEW w \in Workers, Block(w) PROVE ClaimIsHeld'
  BY <1>3 DEF Block, Goto
<1>4. ASSUME NEW w \in Workers, SpuriousWakeup(w) PROVE ClaimIsHeld'
  BY <1>4 DEF SpuriousWakeup
<1>5. ASSUME NEW w \in Workers, PopContext(w) PROVE ClaimIsHeld'
  BY <1>5 DEF PopContext, Goto
<1>6. ASSUME NEW w \in Workers, LeaveInner(w) PROVE ClaimIsHeld'
  BY <1>6 DEF LeaveInner, Goto
<1>7. ASSUME NEW w \in Workers, TestExpired(w) PROVE ClaimIsHeld'
  <2>1. pc[w] = "expired" /\ UNCHANGED inProgress
    BY <1>7 DEF TestExpired
  <2>2. \A v \in Workers : pc[v] \in Claiming => pc'[v] \in Claiming /\ cur'[v] = cur[v]
    <3>1. CASE Referenced(cur[w])
      <4>1. Goto(w, "lockCtx") /\ UNCHANGED cur
        BY <1>7, <3>1, Zenon DEF TestExpired
      <4> QED
        BY <2>1, <4>1 DEF Goto
    <3>2. CASE ~Referenced(cur[w])
      <4>1. Goto(w, "inner") /\ cur' = [cur EXCEPT ![w] = NoContext]
        BY <1>7, <3>2, Zenon DEF TestExpired
      <4> QED
        BY <2>1, <4>1 DEF Goto
    <3> QED
      BY <3>1, <3>2
  <2>3. ASSUME NEW c \in Contexts, inProgress'[c]
        PROVE  \E v \in Workers : pc'[v] \in Claiming /\ cur'[v] = c
    <3>1. PICK v \in Workers : pc[v] \in Claiming /\ cur[v] = c
      BY <2>1, <2>3
    <3> QED
      BY <2>2, <3>1
  <2> QED
    BY <2>3
<1>8. ASSUME NEW w \in Workers, LockContext(w) PROVE ClaimIsHeld'
  <2>1. pc[w] = "lockCtx" /\ (Goto(w, "cas") \/ UNCHANGED pc) /\ UNCHANGED <<cur, inProgress>>
    BY <1>8, Zenon DEF LockContext
  <2> QED
    BY <2>1 DEF Goto
<1>9. ASSUME NEW w \in Workers, Claim(w) PROVE ClaimIsHeld'
  <2>1. pc[w] = "cas" /\ cur[w] \in Contexts /\ UNCHANGED cur
    BY <1>9 DEF Claim
  <2>2. \A v \in Workers : pc[v] \in Claiming => pc'[v] \in Claiming
    BY <1>9 DEF Claim, Goto
  <2>3. \A c \in Contexts : c # cur[w] => inProgress'[c] = inProgress[c]
    BY <1>9, <2>1 DEF Claim
  <2>4. ~inProgress[cur[w]] => pc'[w] = "take"
    BY <1>9 DEF Claim, Goto
  <2> QED
    BY <2>1, <2>2, <2>3, <2>4
<1>10. ASSUME NEW w \in Workers, TakeTask(w) PROVE ClaimIsHeld'
  <2>1. pc[w] = "take" /\ (Goto(w, "clear") \/ Goto(w, "run")) /\ UNCHANGED <<cur, inProgress>>
    BY <1>10, Zenon DEF TakeTask
  <2>2. \A v \in Workers : pc[v] \in Claiming => pc'[v] \in Claiming
    BY <2>1 DEF Goto
  <2> QED
    BY <2>1, <2>2
<1>11. ASSUME NEW w \in Workers, FinishTask(w) PROVE ClaimIsHeld'
  BY <1>11 DEF FinishTask, Goto
<1>12. ASSUME NEW w \in Workers, Unclaim(w) PROVE ClaimIsHeld'
  <2>1. pc[w] = "clear" /\ cur[w] \in Contexts /\ UNCHANGED cur
    BY <1>12 DEF Unclaim
  <2>2. /\ inProgress' = [inProgress EXCEPT ![cur[w]] = FALSE]
        /\ \A v \in Workers : v # w => pc'[v] = pc[v]
    BY <1>12 DEF Unclaim, Goto
  <2> QED
    BY <2>1, <2>2
<1>13. ASSUME NEW w \in Workers, Relock(w) PROVE ClaimIsHeld'
  BY <1>13 DEF Relock, Goto, ClearDestroyed
<1>14. ASSUME NEW w \in Workers, Exit(w) PROVE ClaimIsHeld'
  BY <1>14 DEF Exit, Goto
<1>15. ASSUME NEW t \in Callers, TestPool(t) PROVE ClaimIsHeld'
  BY <1>15 DEF TestPool, Proceed, Return, ClearDestroyed
<1>16. ASSUME NEW t \in Callers, LockPool(t) PROVE ClaimIsHeld'
  BY <1>16 DEF LockPool, Proceed
<1>17. ASSUME NEW t \in Callers, Enqueue(t) PROVE ClaimIsHeld'
  BY <1>17 DEF Enqueue, Proceed
<1>18. ASSUME NEW t \in Callers, Notify(t) PROVE ClaimIsHeld'
  BY <1>18 DEF Notify, Proceed, WakeOne
<1>19. ASSUME NEW t \in Callers, ReleasePool(t) PROVE ClaimIsHeld'
  BY <1>19 DEF ReleasePool, Proceed, Return, ClearDestroyed
<1>20. ASSUME NEW t \in Callers, RaiseStop(t) PROVE ClaimIsHeld'
  BY <1>20 DEF RaiseStop, Proceed
<1>21. ASSUME NEW t \in Callers, NotifyAll(t) PROVE ClaimIsHeld'
  BY <1>21 DEF NotifyAll, Proceed
<1>22. ASSUME NEW t \in Callers, StopReturns(t) PROVE ClaimIsHeld'
  BY <1>22 DEF StopReturns, Return, ClearDestroyed
<1>23. ASSUME NEW t \in Callers, NEW d \in Contexts, Schedule(t, d) PROVE ClaimIsHeld'
  BY <1>23 DEF Schedule, MayCall
<1>24. ASSUME NEW d \in Contexts, ClearAllTasks(d) PROVE ClaimIsHeld'
  BY <1>24 DEF ClearAllTasks
<1>25. ASSUME NEW d \in Contexts, MakeNewContext(d) PROVE ClaimIsHeld'
  BY <1>25 DEF MakeNewContext, Proceed, OwnerReady
<1>26. ASSUME NEW d \in Contexts, RemoveContext(d) PROVE ClaimIsHeld'
  BY <1>26 DEF RemoveContext, Proceed, OwnerReady, ClearDestroyed
<1>27. ASSUME WakeUp PROVE ClaimIsHeld'
  BY <1>27 DEF WakeUp, Proceed, WakeOne
<1>28. ASSUME OwnerStops PROVE ClaimIsHeld'
  BY <1>28 DEF OwnerStops, Proceed, OwnerReady
<1>29. ASSUME OwnerDrops PROVE ClaimIsHeld'
  BY <1>29 DEF OwnerDrops, Proceed, OwnerReady
<1>30. CASE UNCHANGED vars
  BY <1>30 DEF vars
<1> QED
  BY <1>1, <1>2, <1>3, <1>4, <1>5, <1>6, <1>7, <1>8, <1>9, <1>10, <1>11, <1>12, <1>13, <1>14,
     <1>15, <1>16, <1>17, <1>18, <1>19, <1>20, <1>21, <1>22, <1>23, <1>24, <1>25, <1>26, <1>27,
     <1>28, <1>29, <1>30
  DEF Next, WorkerStep, CallStep, OwnerStep

\* A context that is destroyed clears its queue, and nobody schedules on it after that.
LEMMA UnheardEmptyStep == TypeOK /\ KnowsContext /\ UnheardEmpty /\ [Next]_vars => UnheardEmpty'
<1> SUFFICES ASSUME TypeOK, KnowsContext, UnheardEmpty, [Next]_vars PROVE UnheardEmpty'
  OBVIOUS
<1> USE DEF KnowsContext, UnheardEmpty, TypeOK, Callers, Idle, Held, Using, TempRef,
        Stopping, poolVars, lifeVars, workerVars, taskVars
<1>1. ASSUME NEW w \in Workers, TestStop(w) PROVE UnheardEmpty'
  BY <1>1 DEF TestStop, Goto, Referenced
<1>2. ASSUME NEW w \in Workers, LockAndTest(w) PROVE UnheardEmpty'
  BY <1>2 DEF LockAndTest, Goto, Referenced
<1>3. ASSUME NEW w \in Workers, Block(w) PROVE UnheardEmpty'
  BY <1>3 DEF Block, Goto, Referenced
<1>4. ASSUME NEW w \in Workers, SpuriousWakeup(w) PROVE UnheardEmpty'
  BY <1>4 DEF SpuriousWakeup, Referenced
<1>5. ASSUME NEW w \in Workers, PopContext(w) PROVE UnheardEmpty'
  BY <1>5 DEF PopContext, Goto, Referenced
<1>6. ASSUME NEW w \in Workers, LeaveInner(w) PROVE UnheardEmpty'
  BY <1>6 DEF LeaveInner, Goto, Referenced
<1>7. ASSUME NEW w \in Workers, TestExpired(w) PROVE UnheardEmpty'
  <2>1. pc[w] = "expired" /\ UNCHANGED <<reg, call, taskQ>>
    BY <1>7 DEF TestExpired
  <2>2. \A v \in Workers : pc[v] \in Using => pc'[v] = pc[v] /\ cur'[v] = cur[v]
    <3>1. CASE Referenced(cur[w])
      <4>1. Goto(w, "lockCtx") /\ UNCHANGED cur
        BY <1>7, <3>1, Zenon DEF TestExpired
      <4> QED
        BY <2>1, <4>1 DEF Goto
    <3>2. CASE ~Referenced(cur[w])
      <4>1. Goto(w, "inner") /\ cur' = [cur EXCEPT ![w] = NoContext]
        BY <1>7, <3>2, Zenon DEF TestExpired
      <4> QED
        BY <2>1, <4>1 DEF Goto
    <3> QED
      BY <3>1, <3>2
  <2>3. \A c \in Contexts : Referenced(c) => Referenced(c)'
    BY <2>1, <2>2 DEF Referenced
  <2> QED
    BY <2>1, <2>3, Zenon
<1>8. ASSUME NEW w \in Workers, LockContext(w) PROVE UnheardEmpty'
  <2>1. /\ pc[w] = "lockCtx" /\ (Goto(w, "cas") \/ UNCHANGED pc)
        /\ UNCHANGED <<reg, cur, call, taskVars>>
    BY <1>8, Zenon DEF LockContext
  <2> QED
    BY <2>1 DEF Goto, Referenced
<1>9. ASSUME NEW w \in Workers, Claim(w) PROVE UnheardEmpty'
  BY <1>9 DEF Claim, Goto, Referenced
<1>10. ASSUME NEW w \in Workers, TakeTask(w) PROVE UnheardEmpty'
  <2>1. /\ pc[w] = "take" /\ (Goto(w, "clear") \/ Goto(w, "run"))
        /\ UNCHANGED <<reg, cur, call>>
    BY <1>10, Zenon DEF TakeTask
  <2>2. \A c \in Contexts : c # cur[w] => taskQ'[c] = taskQ[c]
    BY <1>10 DEF TakeTask
  <2>3. \A c \in Contexts : c = cur[w] => Referenced(c)'
    BY <2>1 DEF Goto, Referenced
  <2>4. \A c \in Contexts : Referenced(c) => Referenced(c)'
    BY <2>1 DEF Goto, Referenced
  <2>5. ASSUME NEW c \in Contexts, ~Referenced(c)' PROVE taskQ'[c] = <<>>
    <3>1. c # cur[w]
      BY <2>3, <2>5, Zenon
    <3>2. taskQ'[c] = taskQ[c] /\ ~Referenced(c)
      BY <2>2, <2>4, <2>5, <3>1, Zenon
    <3> QED
      BY <3>2
  <2> QED
    BY <2>5
<1>11. ASSUME NEW w \in Workers, FinishTask(w) PROVE UnheardEmpty'
  BY <1>11 DEF FinishTask, Goto, Referenced
<1>12. ASSUME NEW w \in Workers, Unclaim(w) PROVE UnheardEmpty'
  BY <1>12 DEF Unclaim, Goto, Referenced
<1>13. ASSUME NEW w \in Workers, Relock(w) PROVE UnheardEmpty'
  <2>1. \A c \in Contexts : ~Referenced(c)' => taskQ'[c] = <<>>
    BY <1>13 DEF Relock, ClearDestroyed
  <2> QED
    BY <2>1
<1>14. ASSUME NEW w \in Workers, Exit(w) PROVE UnheardEmpty'
  BY <1>14 DEF Exit, Goto, Referenced
<1>15. ASSUME NEW t \in Callers, TestPool(t) PROVE UnheardEmpty'
  <2>1. UNCHANGED <<lifeVars, workerVars>> /\ (Return(t) \/ (Proceed(t, "lockPool") /\ UNCHANGED taskVars))
    BY <1>15, Zenon DEF TestPool
  <2>2. CASE Return(t)
    BY <2>2 DEF Return, ClearDestroyed
  <2>3. CASE Proceed(t, "lockPool") /\ UNCHANGED taskVars
    BY <2>1, <2>3 DEF Proceed, Referenced
  <2> QED
    BY <2>1, <2>2, <2>3
<1>16. ASSUME NEW t \in Callers, LockPool(t) PROVE UnheardEmpty'
  <2>1. UNCHANGED <<reg, workerVars, taskVars>> /\ (Proceed(t, "enqueue") \/ UNCHANGED call)
    BY <1>16, Zenon DEF LockPool
  <2>2. call' \in {call, [call EXCEPT ![t] = [at |-> "enqueue", ctx |-> call[t].ctx]]}
    BY <2>1 DEF Proceed
  <2>3. \A u \in Callers : call'[u].ctx = call[u].ctx
    BY <2>2
  <2> QED
    BY <2>1, <2>3 DEF Referenced
<1>17. ASSUME NEW t \in Callers, Enqueue(t) PROVE UnheardEmpty'
  BY <1>17 DEF Enqueue, Proceed, Referenced
<1>18. ASSUME NEW t \in Callers, Notify(t) PROVE UnheardEmpty'
  BY <1>18 DEF Notify, Proceed, WakeOne, Referenced
<1>19. ASSUME NEW t \in Callers, ReleasePool(t) PROVE UnheardEmpty'
  <2>1. UNCHANGED <<lifeVars, workerVars>> /\ (Return(t) \/ (Proceed(t, "stop") /\ UNCHANGED taskVars))
    BY <1>19, Zenon DEF ReleasePool
  <2>2. CASE Return(t)
    BY <2>2 DEF Return, ClearDestroyed
  <2>3. CASE Proceed(t, "stop") /\ UNCHANGED taskVars
    BY <2>1, <2>3 DEF Proceed, Referenced
  <2> QED
    BY <2>1, <2>2, <2>3
<1>20. ASSUME NEW t \in Callers, RaiseStop(t) PROVE UnheardEmpty'
  BY <1>20 DEF RaiseStop, Proceed, Referenced
<1>21. ASSUME NEW t \in Callers, NotifyAll(t) PROVE UnheardEmpty'
  BY <1>21 DEF NotifyAll, Proceed, Referenced
<1>22. ASSUME NEW t \in Callers, StopReturns(t) PROVE UnheardEmpty'
  <2>1. \A c \in Contexts : ~Referenced(c)' => taskQ'[c] = <<>>
    BY <1>22 DEF StopReturns, Return, ClearDestroyed
  <2> QED
    BY <2>1
<1>23. ASSUME NEW t \in Callers, NEW d \in Contexts, Schedule(t, d) PROVE UnheardEmpty'
  <2>1. /\ \A c \in Contexts : c # d => taskQ'[c] = taskQ[c]
        /\ call[t] = Idle /\ call' = [call EXCEPT ![t] = [at |-> "expired", ctx |-> d]]
        /\ UNCHANGED <<reg, pc, cur>>
    BY <1>23 DEF Schedule, MayCall
  <2>2. Referenced(d)'
    BY <2>1 DEF Referenced
  <2>3. \A c \in Contexts : Referenced(c) => Referenced(c)'
    BY <2>1, PoolAssumption DEF PoolAssumption, Referenced
  <2> QED
    BY <2>1, <2>2, <2>3, Zenon
<1>24. ASSUME NEW d \in Contexts, ClearAllTasks(d) PROVE UnheardEmpty'
  BY <1>24 DEF ClearAllTasks, Referenced
<1>25. ASSUME NEW d \in Contexts, MakeNewContext(d) PROVE UnheardEmpty'
  BY <1>25 DEF MakeNewContext, Proceed, OwnerReady, Referenced
<1>26. ASSUME NEW d \in Contexts, RemoveContext(d) PROVE UnheardEmpty'
  <2>1. \A c \in Contexts : ~Referenced(c)' => taskQ'[c] = <<>>
    BY <1>26 DEF RemoveContext, ClearDestroyed
  <2> QED
    BY <2>1
<1>27. ASSUME WakeUp PROVE UnheardEmpty'
  BY <1>27 DEF WakeUp, Proceed, WakeOne, Referenced
<1>28. ASSUME OwnerStops PROVE UnheardEmpty'
  BY <1>28 DEF OwnerStops, Proceed, OwnerReady, Referenced
<1>29. ASSUME OwnerDrops PROVE UnheardEmpty'
  <2>1. UNCHANGED <<reg, workerVars, taskVars>> /\ (Proceed(Owner, "stop") \/ UNCHANGED call)
    BY <1>29, Zenon DEF OwnerDrops
  <2>2. \A u \in Callers : call'[u].ctx = call[u].ctx
    BY <2>1 DEF Proceed
  <2> QED
    BY <2>1, <2>2 DEF Referenced
<1>30. CASE UNCHANGED vars
  BY <1>30 DEF vars, Referenced
<1> QED
  BY <1>1, <1>2, <1>3, <1>4, <1>5, <1>6, <1>7, <1>8, <1>9, <1>10, <1>11, <1>12, <1>13, <1>14,
     <1>15, <1>16, <1>17, <1>18, <1>19, <1>20, <1>21, <1>22, <1>23, <1>24, <1>25, <1>26, <1>27,
     <1>28, <1>29, <1>30
  DEF Next, WorkerStep, CallStep, OwnerStep

\* The pool's invariant, with what the coverage of a context rests on.
CInv == IInv /\ ClaimIsHeld /\ UnheardEmpty

\* A worker gives up on c because another one holds it that has found its queue empty.
Collision(c) ==
  \E w, v \in Workers :
    /\ pc[w] = "cas" /\ pc'[w] = "relock" /\ cur[w] = c
    /\ pc[v] = "clear" /\ cur[v] = c /\ job[v] = 0

\* Who popped c tests it, claims it, runs a task of it and puts it back; who gives it
\* up finds it destroyed, empty or claimed.
LEMMA AttendedStep ==
  ASSUME CInv, [Next]_vars, NEW c \in Contexts, Covered(c), taskQ'[c] # <<>>, PoolReferenced
  PROVE  Covered(c)' \/ Collision(c)
<1> DEFINE Goal == Covered(c)' \/ Collision(c)
<1> USE DEF CInv, IInv, KnowsContext, TypeOK, Callers, Idle, Held, Using, TempRef,
        Stopping, poolVars, lifeVars, workerVars, taskVars
<1> SUFFICES Goal
  OBVIOUS
<1>1. ASSUME NEW w \in Workers, TestStop(w) PROVE Goal
  BY <1>1 DEF TestStop, Goto, Covered
<1>2. ASSUME NEW w \in Workers, LockAndTest(w) PROVE Goal
  BY <1>2 DEF LockAndTest, Goto, Covered
<1>3. ASSUME NEW w \in Workers, Block(w) PROVE Goal
  BY <1>3 DEF Block, Goto, Covered
<1>4. ASSUME NEW w \in Workers, SpuriousWakeup(w) PROVE Goal
  BY <1>4 DEF SpuriousWakeup, Covered
<1>5. ASSUME NEW w \in Workers, PopContext(w) PROVE Goal
  <2>1. /\ pc[w] = "inner" /\ execQueue # <<>> /\ execQueue \in Seq(Contexts)
        /\ execQueue' = Tail(execQueue) /\ UNCHANGED <<call, job>>
        /\ cur' = [cur EXCEPT ![w] = Head(execQueue)] /\ pc' = [pc EXCEPT ![w] = "expired"]
    BY <1>5 DEF PopContext, Goto
  <2>2. CASE \E i \in 1..Len(execQueue) : execQueue[i] = c
    <3>1. PICK i \in 1..Len(execQueue) : execQueue[i] = c
      BY <2>2
    <3>2. Len(execQueue) \in Nat \ {0} /\ Len(execQueue') = Len(execQueue) - 1
      BY <2>1, EmptySeq, HeadTailProperties
    <3>3. \A j \in 1..Len(execQueue') : execQueue'[j] = execQueue[j + 1]
      BY <2>1, HeadTailProperties
    <3>4. CASE i = 1
      BY <2>1, <3>1, <3>4 DEF Covered
    <3>5. CASE i # 1
      <4>1. i - 1 \in 1..Len(execQueue') /\ execQueue'[i - 1] = c
        BY <3>1, <3>2, <3>3, <3>5
      <4> QED
        BY <4>1 DEF Covered
    <3> QED
      BY <3>4, <3>5
  <2>3. CASE ~ \E i \in 1..Len(execQueue) : execQueue[i] = c
    BY <2>1, <2>3 DEF Covered
  <2> QED
    BY <2>2, <2>3
<1>6. ASSUME NEW w \in Workers, LeaveInner(w) PROVE Goal
  BY <1>6 DEF LeaveInner, Goto, Covered
<1>7. ASSUME NEW w \in Workers, TestExpired(w) PROVE Goal
  <2>1. pc[w] = "expired" /\ UNCHANGED <<execQueue, job, call, taskQ>>
    BY <1>7 DEF TestExpired
  <2>2. CASE Referenced(cur[w])
    <3>1. Goto(w, "lockCtx") /\ UNCHANGED cur
      BY <1>7, <2>2, Zenon DEF TestExpired
    <3> QED
      BY <2>1, <3>1 DEF Goto, Covered
  <2>3. CASE ~Referenced(cur[w])
    <3>1. cur[w] # c
      BY <2>1, <2>3 DEF UnheardEmpty
    <3>2. Goto(w, "inner") /\ cur' = [cur EXCEPT ![w] = NoContext]
      BY <1>7, <2>3 DEF TestExpired
    <3> QED
      BY <2>1, <3>1, <3>2 DEF Goto, Covered
  <2> QED
    BY <2>2, <2>3
<1>8. ASSUME NEW w \in Workers, LockContext(w) PROVE Goal
  <2>1. /\ pc[w] = "lockCtx" /\ (Goto(w, "cas") \/ UNCHANGED pc)
        /\ UNCHANGED <<execQueue, cur, job, call>>
    BY <1>8, Zenon DEF LockContext
  <2> QED
    BY <2>1 DEF Goto, Covered
<1>9. ASSUME NEW w \in Workers, Claim(w) PROVE Goal
  <2>1. pc[w] = "cas" /\ UNCHANGED <<execQueue, cur, job, call>>
    BY <1>9 DEF Claim
  <2>2. CASE ~inProgress[cur[w]] \/ cur[w] # c
    <3>1. (pc' = [pc EXCEPT ![w] = "take"]) \/ (cur[w] # c /\ pc' = [pc EXCEPT ![w] = "relock"])
      BY <1>9, <2>2 DEF Claim, Goto
    <3> QED
      BY <2>1, <3>1 DEF Covered
  <2>3. CASE inProgress[c] /\ cur[w] = c
    <3>1. pc' = [pc EXCEPT ![w] = "relock"]
      BY <1>9, <2>3 DEF Claim, Goto
    <3>2. PICK v \in Workers : pc[v] \in Claiming /\ cur[v] = c
      BY <2>3 DEF ClaimIsHeld
    <3>3. v # w /\ pc'[v] = pc[v]
      BY <2>1, <3>1, <3>2 DEF Claiming
    <3>4. CASE pc[v] = "clear" /\ job[v] = 0
      BY <2>1, <2>3, <3>1, <3>2, <3>4 DEF Collision
    <3>5. CASE pc[v] = "take" \/ job[v] # 0
      BY <2>1, <3>2, <3>3, <3>5 DEF Claiming, Covered
    <3>6. pc[v] = "run" => job[v] # 0
      BY DEF OldestFirst, RunningIsOldest
    <3> QED
      BY <3>2, <3>4, <3>5, <3>6 DEF Claiming
  <2> QED
    BY <2>2, <2>3
<1>10. ASSUME NEW w \in Workers, TakeTask(w) PROVE Goal
  <2>1. pc[w] = "take" /\ UNCHANGED <<execQueue, cur, call>>
    BY <1>10 DEF TakeTask
  <2>2. CASE taskQ[cur[w]] = <<>>
    <3>1. pc' = [pc EXCEPT ![w] = "clear"] /\ UNCHANGED <<job, taskQ>>
      BY <1>10, <2>2 DEF TakeTask, Goto
    <3>2. cur[w] # c
      BY <2>2, <3>1
    <3> QED
      BY <2>1, <3>1, <3>2 DEF Covered
  <2>3. CASE taskQ[cur[w]] # <<>>
    <3>1. /\ pc' = [pc EXCEPT ![w] = "run"]
          /\ job' = [job EXCEPT ![w] = Head(taskQ[cur[w]])]
      BY <1>10, <2>3 DEF TakeTask, Goto
    <3>2. cur[w] \in Contexts /\ taskQ[cur[w]] \in Seq(1..MaxTasks)
      BY <2>1
    <3>3. Head(taskQ[cur[w]]) \in 1..MaxTasks
      BY <2>3, <3>2, HeadTailProperties
    <3>4. job'[w] # 0 /\ \A v \in Workers : v # w => job'[v] = job[v] /\ pc'[v] = pc[v]
      BY <3>1, <3>3
    <3> QED
      BY <2>1, <3>1, <3>4 DEF Covered
  <2> QED
    BY <2>2, <2>3
<1>11. ASSUME NEW w \in Workers, FinishTask(w) PROVE Goal
  BY <1>11 DEF FinishTask, Goto, Covered
<1>12. ASSUME NEW w \in Workers, Unclaim(w) PROVE Goal
  BY <1>12 DEF Unclaim, Goto, Covered
<1>13. ASSUME NEW w \in Workers, Relock(w) PROVE Goal
  <2>1. /\ pc[w] = "relock" /\ cur[w] \in Contexts /\ UNCHANGED call
        /\ pc' = [pc EXCEPT ![w] = "inner"] /\ cur' = [cur EXCEPT ![w] = NoContext]
        /\ job' = [job EXCEPT ![w] = 0]
        /\ execQueue' = IF job[w] # 0 THEN Append(execQueue, cur[w]) ELSE execQueue
    BY <1>13 DEF Relock, Goto
  <2>2. Len(Append(execQueue, cur[w])) = Len(execQueue) + 1 /\ Len(execQueue) \in Nat
    BY <2>1, AppendProperties, LenProperties
  <2>3. /\ Append(execQueue, cur[w])[Len(execQueue) + 1] = cur[w]
        /\ \A i \in 1..Len(execQueue) : Append(execQueue, cur[w])[i] = execQueue[i]
    BY <2>1, AppendProperties
  <2>4. CASE \E i \in 1..Len(execQueue) : execQueue[i] = c
    <3>1. PICK i \in 1..Len(execQueue) : execQueue[i] = c
      BY <2>4
    <3>2. i \in 1..Len(execQueue') /\ execQueue'[i] = c
      BY <2>1, <2>2, <2>3, <3>1
    <3> QED
      BY <3>2 DEF Covered
  <2>5. CASE cur[w] = c /\ job[w] # 0
    <3>1. Len(execQueue) + 1 \in 1..Len(execQueue') /\ execQueue'[Len(execQueue) + 1] = c
      BY <2>1, <2>2, <2>3, <2>5
    <3> QED
      BY <3>1 DEF Covered
  <2>6. CASE \E t \in Callers : call[t].ctx = c /\ call[t].at \in {"expired", "lockPool", "enqueue"}
    BY <2>1, <2>6 DEF Covered
  <2>7. CASE \E v \in Workers \ {w} :
               /\ cur[v] = c
               /\ \/ pc[v] \in {"expired", "lockCtx", "cas", "take"}
                  \/ pc[v] \in {"run", "clear", "relock"} /\ job[v] # 0
    BY <2>1, <2>7 DEF Covered
  <2> QED
    BY <2>1, <2>4, <2>5, <2>6, <2>7 DEF Covered
<1>14. ASSUME NEW w \in Workers, Exit(w) PROVE Goal
  BY <1>14 DEF Exit, Goto, Covered
<1>15. ASSUME NEW t \in Callers, TestPool(t) PROVE Goal
  <2>1. Proceed(t, "lockPool") /\ call[t].at = "expired" /\ UNCHANGED <<execQueue, workerVars>>
    BY <1>15, Zenon DEF TestPool, poolVars
  <2> QED
    BY <2>1 DEF Proceed, Covered
<1>16. ASSUME NEW t \in Callers, LockPool(t) PROVE Goal
  <2>1. /\ Proceed(t, "enqueue") /\ call[t].at = "lockPool"
        /\ UNCHANGED <<poolVars, workerVars>>
    BY <1>16, Zenon DEF LockPool
  <2> QED
    BY <2>1 DEF Proceed, Covered
<1>17. ASSUME NEW t \in Callers, Enqueue(t) PROVE Goal
  <2>1. /\ call[t].at = "enqueue" /\ call[t].ctx \in Contexts /\ UNCHANGED workerVars
        /\ call' = [call EXCEPT ![t] = [at |-> "notify", ctx |-> call[t].ctx]]
        /\ execQueue' = Append(execQueue, call[t].ctx)
    BY <1>17 DEF Enqueue, Proceed
  <2>2. Len(execQueue') = Len(execQueue) + 1 /\ Len(execQueue) \in Nat
    BY <2>1, AppendProperties, LenProperties
  <2>3. /\ execQueue'[Len(execQueue) + 1] = call[t].ctx
        /\ \A i \in 1..Len(execQueue) : execQueue'[i] = execQueue[i]
    BY <2>1, AppendProperties
  <2>4. CASE \E i \in 1..Len(execQueue) : execQueue[i] = c
    <3>1. PICK i \in 1..Len(execQueue) : execQueue[i] = c
      BY <2>4
    <3>2. i \in 1..Len(execQueue') /\ execQueue'[i] = c
      BY <2>2, <2>3, <3>1
    <3> QED
      BY <3>2 DEF Covered
  <2>5. CASE call[t].ctx = c
    <3>1. Len(execQueue) + 1 \in 1..Len(execQueue') /\ execQueue'[Len(execQueue) + 1] = c
      BY <2>2, <2>3, <2>5
    <3> QED
      BY <3>1 DEF Covered
  <2>6. CASE call[t].ctx # c /\ ~ \E i \in 1..Len(execQueue) : execQueue[i] = c
    BY <2>1, <2>6 DEF Covered
  <2> QED
    BY <2>4, <2>5, <2>6
<1>18. ASSUME NEW t \in Callers, Notify(t) PROVE Goal
  BY <1>18 DEF Notify, Proceed, WakeOne, Covered
<1>19. ASSUME NEW t \in Callers, ReleasePool(t) PROVE Goal
  BY <1>19 DEF ReleasePool, Proceed, Return, ClearDestroyed, Covered
<1>20. ASSUME NEW t \in Callers, RaiseStop(t) PROVE Goal
  BY <1>20 DEF RaiseStop, Proceed, Covered
<1>21. ASSUME NEW t \in Callers, NotifyAll(t) PROVE Goal
  BY <1>21 DEF NotifyAll, Proceed, Covered
<1>22. ASSUME NEW t \in Callers, StopReturns(t) PROVE Goal
  BY <1>22 DEF StopReturns, Return, ClearDestroyed, Covered
<1>23. ASSUME NEW t \in Callers, NEW d \in Contexts, Schedule(t, d) PROVE Goal
  BY <1>23 DEF Schedule, MayCall, Covered
<1>24. ASSUME NEW d \in Contexts, ClearAllTasks(d) PROVE Goal
  BY <1>24 DEF ClearAllTasks, Covered
<1>25. ASSUME NEW d \in Contexts, MakeNewContext(d) PROVE Goal
  BY <1>25 DEF MakeNewContext, Proceed, OwnerReady, Covered
<1>26. ASSUME NEW d \in Contexts, RemoveContext(d) PROVE Goal
  BY <1>26 DEF RemoveContext, Proceed, OwnerReady, ClearDestroyed, Covered
<1>27. ASSUME WakeUp PROVE Goal
  BY <1>27 DEF WakeUp, Proceed, WakeOne, Covered
<1>28. ASSUME OwnerStops PROVE Goal
  BY <1>28 DEF OwnerStops, Proceed, OwnerReady, Covered
<1>29. ASSUME OwnerDrops PROVE Goal
  BY <1>29 DEF OwnerDrops, Proceed, OwnerReady, Covered
<1>30. CASE UNCHANGED vars
  BY <1>30 DEF vars, Covered
<1> QED
  BY <1>1, <1>2, <1>3, <1>4, <1>5, <1>6, <1>7, <1>8, <1>9, <1>10, <1>11, <1>12, <1>13, <1>14,
     <1>15, <1>16, <1>17, <1>18, <1>19, <1>20, <1>21, <1>22, <1>23, <1>24, <1>25, <1>26, <1>27,
     <1>28, <1>29, <1>30
  DEF Next, WorkerStep, CallStep, OwnerStep

\* No claim is set and no queue is filled in the beginning.
LEMMA InitCInv == Init => CInv
BY InitIInv DEF Init, CInv, ClaimIsHeld, UnheardEmpty

\* Every step keeps the invariant.
LEMMA NextCInv == CInv /\ [Next]_vars => CInv'
BY NextIInv, ClaimIsHeldStep, UnheardEmptyStep DEF CInv, IInv

\* A worker that runs or has run a task queues the context again, and schedule() queues it
\* after the task: queued tasks are left unattended only when a worker finds the context
\* claimed by one that has just found its queue empty (CustomSchedulerContextInPool.cpp:180-201).
THEOREM LeftByCollisionOnly == Spec => CoverageLostOnlyByCollision
<1>1. CInv /\ [Next]_vars =>
        [\A c \in Contexts :
           Covered(c) /\ taskQ'[c] # <<>> /\ ~Covered(c)' /\ PoolReferenced => Collision(c)]_vars
  BY AttendedStep
<1> QED
  BY <1>1, InitCInv, NextCInv, PTL DEF Spec, CoverageLostOnlyByCollision, Collision
===============================================================================
