------------------------------ MODULE ContextSwitch ------------------------------
(***************************************************************************)
(* The contexts of ContextSwitchTest: each holds the last task of a chain  *)
(* of continuations, which perform() extends under a spin lock, and the    *)
(* test that switches between three of them while the main thread looks    *)
(* at the last task of its own context without the lock.                   *)
(*                                                                         *)
(* A step is one access to a shared variable. Scheduled tasks are run by   *)
(* the default pool; how many threads it has is left open.                 *)
(***************************************************************************)
EXTENDS Naturals, Sequences, FiniteSets

CONSTANTS
  Tasks,
  Contexts,
  MainContext,   \* the one the main thread looks at
  Scripts        \* bound: the programs; a record says in which context a task runs, what the
                 \* main thread and the functions of the tasks perform, and which one ends it

MainThread == "main thread"
Empty      == "empty"             \* no task: the first in a chain, or a moved one
Actors     == Tasks \cup {MainThread}

\* A call of perform() is the sequence of the one or two functions it is given.
IsCall(s, new) == /\ new \in Seq(Tasks) /\ Len(new) \in 1..2
                  /\ s.context[new[1]] = s.context[new[Len(new)]]

\* A function that is performed is a task of its own.
Once(performs) ==
  \A a, b \in Actors : \A i \in DOMAIN performs[a], j \in DOMAIN performs[b] :
    \A k \in DOMAIN performs[a][i], l \in DOMAIN performs[b][j] :
      performs[a][i][k] = performs[b][j][l] => a = b /\ i = j /\ k = l

ASSUME ScriptAssumption ==
  /\ MainContext \in Contexts /\ Tasks \cap {MainThread, Empty} = {}
  /\ \A s \in Scripts :
       /\ s.context \in [Tasks -> Contexts] /\ s.ends \in Tasks
       /\ s.performs \in [Actors -> Seq(Seq(Tasks))] /\ Once(s.performs)
       /\ \A a \in Actors : \A i \in DOMAIN s.performs[a] : IsCall(s, s.performs[a][i])

VARIABLES
  script,
  mutex,     \* _state of a context's SpinMutexAdvanced
  valid,     \* whether the context has a last task, in _lastTask ...
  last,      \* ... and which; Empty is the finished task that a context begins with
  prev,      \* the task whose continuation a task is
  state,     \* "absent", "waiting", "scheduled", "running", "completed" or "canceled"
  at,        \* where an actor is
  todo,      \* the performs it still has to call
  exit,      \* mainThreadExit
  awaited,   \* the task the main thread waits for
  came       \* history: the tasks in the order in which they were chained

vars == <<script, mutex, valid, last, prev, state, at, todo, exit, awaited, came>>

Init ==
  /\ script \in Scripts /\ mutex = [c \in Contexts |-> 0]
  /\ valid = [c \in Contexts |-> TRUE] /\ last = [c \in Contexts |-> Empty]
  /\ prev = [t \in Tasks |-> Empty] /\ state = [t \in Tasks |-> "absent"]
  /\ at = [a \in Actors |-> IF a = MainThread THEN "body" ELSE "idle"]
  /\ todo = script.performs /\ exit = FALSE /\ awaited = Empty /\ came = <<>>

In(s)       == {t \in Tasks : state[t] \in s}
Finished(t) == t \in {Empty} \cup In({"completed", "canceled"})
Failed(t)   == t \in In({"canceled"})
Context(a)  == script.context[Head(Head(todo[a]))]

Go(a, p) == at' = [at EXCEPT ![a] = p]

\* The continuations of a task that are scheduled when it finishes.
Ended(t, s) ==
  [u \in Tasks |-> IF u = t THEN s
                   ELSE IF state[u] = "waiting" /\ prev[u] = t THEN "scheduled" ELSE state[u]]
--------------------------------------------------------------------------------
(* Faulty variants of steps below, each a slip the code could have had.          *)

\* The lock is taken without looking whether somebody else was faster.
Exchange(a) ==
  /\ at[a] = "body" /\ todo[a] # <<>>
  /\ mutex' = [mutex EXCEPT ![Context(a)] = 1] /\ Go(a, "then")
  /\ UNCHANGED <<script, valid, last, prev, state, todo, exit, awaited, came>>

\* A task is scheduled although the one it continues has not finished.
ScheduleAtOnce(t, p) == "scheduled"

\* The lock is not released.
KeepLock(a) ==
  /\ at[a] = "unlock"
  /\ todo' = [todo EXCEPT ![a] = Tail(@)] /\ Go(a, "body")
  /\ UNCHANGED <<script, mutex, valid, last, prev, state, exit, awaited, came>>
--------------------------------------------------------------------------------
(* perform(), called by a task or by the main thread.                          *)

\* The loads of lock()'s inner loop and the exchanges that fail, some for no reason, change
\* nothing: what is left of the loop is the exchange that succeeds.
Lock(a) ==
  /\ at[a] = "body" /\ todo[a] # <<>>
  /\ mutex[Context(a)] = 0
  /\ mutex' = [mutex EXCEPT ![Context(a)] = 1] /\ Go(a, "then")
  /\ UNCHANGED <<script, valid, last, prev, state, todo, exit, awaited, came>>

WhenChained(t, p) == IF Finished(p) THEN "scheduled" ELSE "waiting"

\* The continuation of p is made: a task that holds p, and is scheduled once p has finished.
Then(t, p) ==
  /\ prev' = [prev EXCEPT ![t] = p]
  /\ state' = [state EXCEPT ![t] = WhenChained(t, p)]
  /\ came' = Append(came, t)

\* then() moves the last task into the new one.
Chain(a) ==
  /\ at[a] = "then" /\ valid[Context(a)]
  /\ valid' = [valid EXCEPT ![Context(a)] = FALSE]
  /\ Then(Head(todo[a])[1], last[Context(a)])
  /\ Go(a, IF Len(Head(todo[a])) = 1 THEN "assign" ELSE "then complete")
  /\ UNCHANGED <<script, mutex, last, todo, exit, awaited>>

\* .then(completeFunction), and the first of the two may have finished already.
ChainComplete(a) ==
  /\ at[a] = "then complete"
  /\ LET new == Head(todo[a]) IN Then(new[2], new[1])
  /\ Go(a, "assign")
  /\ UNCHANGED <<script, mutex, valid, last, todo, exit, awaited>>

Assign(a) ==
  /\ at[a] = "assign"
  /\ LET new == Head(todo[a]) IN last' = [last EXCEPT ![Context(a)] = new[Len(new)]]
  /\ valid' = [valid EXCEPT ![Context(a)] = TRUE]
  /\ Go(a, "unlock")
  /\ UNCHANGED <<script, mutex, prev, state, todo, exit, awaited, came>>

Unlock(a) ==
  /\ at[a] = "unlock"
  /\ mutex' = [mutex EXCEPT ![Context(a)] = 0]
  /\ todo' = [todo EXCEPT ![a] = Tail(@)] /\ Go(a, "body")
  /\ UNCHANGED <<script, valid, last, prev, state, exit, awaited, came>>

\* then() throws for an empty task; the lock is released, and the function ends with that.
ThrowEmpty(a) ==
  /\ at[a] = "then" /\ ~valid[Context(a)]
  /\ mutex' = [mutex EXCEPT ![Context(a)] = 0]
  /\ IF a = MainThread THEN Go(a, "terminated") /\ UNCHANGED state
                       ELSE Go(a, "idle") /\ state' = Ended(a, "canceled")
  /\ UNCHANGED <<script, valid, last, prev, todo, exit, awaited, came>>
--------------------------------------------------------------------------------
(* The tasks.                                                                  *)

\* A continuation of a canceled task is canceled instead of running its function.
Begin(t) ==
  /\ state[t] = "scheduled"
  /\ state' = [state EXCEPT ![t] = "running"]
  /\ Go(t, IF Failed(prev[t]) THEN "cancel" ELSE "body")
  /\ UNCHANGED <<script, mutex, valid, last, prev, todo, exit, awaited, came>>

Cancel(t) ==
  /\ at[t] = "cancel"
  /\ state' = Ended(t, "canceled") /\ Go(t, "idle")
  /\ UNCHANGED <<script, mutex, valid, last, prev, todo, exit, awaited, came>>

Complete(t) ==
  /\ t \in Tasks /\ at[t] = "body" /\ todo[t] = <<>>
  /\ exit' = (exit \/ t = script.ends)
  /\ state' = Ended(t, "completed") /\ Go(t, "idle")
  /\ UNCHANGED <<script, mutex, valid, last, prev, todo, awaited, came>>
--------------------------------------------------------------------------------
(* The main thread, which calls getTask() anew for each look at the last task. *)

InMain(p)  == at[MainThread] = p
MainGoes(p) == Go(MainThread, p)
Last       == last[MainContext]

\* Each look but the first throws if the task has been moved away since.
Look(p, then) ==
  /\ InMain(p)
  /\ IF valid[MainContext] THEN then ELSE MainGoes("terminated") /\ UNCHANGED awaited

TestExit ==
  /\ InMain("body") /\ todo[MainThread] = <<>>
  /\ MainGoes(IF exit THEN "last look" ELSE "valid")
  /\ UNCHANGED <<script, mutex, valid, last, prev, state, todo, exit, awaited, came>>

TestValid ==
  /\ \/ InMain("valid") /\ MainGoes(IF valid[MainContext] THEN "ready" ELSE "body")
     \/ InMain("last look") /\ MainGoes(IF valid[MainContext] THEN "get" ELSE "over")
  /\ UNCHANGED <<script, mutex, valid, last, prev, state, todo, exit, awaited, came>>

TestReady ==
  /\ Look("ready", MainGoes(IF Finished(Last) THEN "body" ELSE "wait") /\ UNCHANGED awaited)
  /\ UNCHANGED <<script, mutex, valid, last, prev, state, todo, exit, came>>

\* wait(), and the wait in get().
Wait ==
  /\ \/ Look("wait", MainGoes("waiting") /\ awaited' = Last)
     \/ Look("get", MainGoes("getting") /\ awaited' = Last)
  /\ UNCHANGED <<script, mutex, valid, last, prev, state, todo, exit, came>>

EndWait ==
  /\ Finished(awaited)
  /\ \/ InMain("waiting") /\ MainGoes("body")
     \/ InMain("getting") /\ MainGoes("take")
  /\ awaited' = Empty
  /\ UNCHANGED <<script, mutex, valid, last, prev, state, todo, exit, came>>

\* get() then moves the last task away, whichever that is by now.
Take ==
  /\ InMain("take") /\ MainGoes("over")
  /\ valid' = [valid EXCEPT ![MainContext] = FALSE]
  /\ UNCHANGED <<script, mutex, last, prev, state, todo, exit, awaited, came>>

Perform(a) == Lock(a) \/ Chain(a) \/ ChainComplete(a) \/ Assign(a) \/ Unlock(a) \/ ThrowEmpty(a)
Run(t)     == Perform(t) \/ Begin(t) \/ Cancel(t) \/ Complete(t)
Main       == Perform(MainThread) \/ TestExit \/ TestValid \/ TestReady \/ Wait \/ EndWait \/ Take

Next == (\E t \in Tasks : Run(t)) \/ Main

Spec == Init /\ [][Next]_vars

\* The pool runs what is scheduled and threads run on. Weak fairness is enough for who spins:
\* there are finitely many performs, so that the lock is free for good in the end.
FairSpec == Spec /\ WF_vars(Main) /\ \A t \in Tasks : WF_vars(Run(t))
--------------------------------------------------------------------------------
(* Properties.                                                                 *)

Holders(c) ==
  {a \in Actors : at[a] \in {"then", "then complete", "assign", "unlock"} /\ Context(a) = c}

\* The spin lock excludes, and it is 1 exactly while somebody has it. A context has no last
\* task only while perform() replaces it under the lock, or when the main thread has taken
\* it away.
TypeOK ==
  /\ \A t \in Tasks : state[t] \in {"absent", "waiting", "scheduled", "running",
                                    "completed", "canceled"}
  /\ \A c \in Contexts :
       /\ mutex[c] = Cardinality(Holders(c))
       /\ valid[c] \/ (\E a \in Holders(c) : at[a] \in {"then complete", "assign"})
                   \/ (c = MainContext /\ InMain("over"))

\* The tasks of a context are run one after the other in the order of the performs,
\* although they may be run by different threads of the pool.
Numbers(c, s) == {i \in DOMAIN came : script.context[came[i]] = c /\ state[came[i]] \in s}

Ranked(N, k) == {i \in N : Cardinality({j \in N : j < i}) = k - 1}
Ascending(N) == [k \in 1..Cardinality(N) |-> CHOOSE i \in Ranked(N, k) : TRUE]

Serial == INSTANCE SerialExecutors WITH
  Executors <- Contexts,
  pending   <- [c \in Contexts |-> Ascending(Numbers(c, {"waiting", "scheduled"}))],
  running   <- [c \in Contexts |-> Numbers(c, {"running"})],
  submitted <- Len(came)

ImplementsSerialExecutors == Serial!Spec

\* What is performed is run, the main thread does not wait for ever; only the use of an
\* empty task, see below, ends the program early.
ContextsDrain == <>(\/ InMain("terminated")
                    \/ InMain("over") /\ \A i \in DOMAIN came : Finished(came[i]))

\* "Use of empty task object", task.h:65 and 99 assert. The code breaks this: getTask() and
\* the task it refers to are used without the lock, and get() leaves the context empty for
\* the tasks that still perform in it.
NoEmptyTaskUsed ==
  \A a \in Actors : ~(at[a] = "then" /\ ~valid[Context(a)]) /\ at[a] # "terminated"
================================================================================
