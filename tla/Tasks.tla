--------------------------------- MODULE Tasks ---------------------------------
(***************************************************************************)
(* The task objects of async++: their states, their continuations, events, *)
(* unwrapped tasks, when_all and when_any.                                 *)
(*                                                                         *)
(* A task object is followed through its life by place[t]. Which thread    *)
(* takes a step is left open: the thread that completes a task, the one    *)
(* that adds a continuation and the scheduler's threads interleave freely, *)
(* and every access to an atomic or to the mutex of a continuation vector  *)
(* is a step. What the client makes, and out of what, is fixed by one of   *)
(* Programs; when it makes it, and what the functions do, is not.          *)
(***************************************************************************)
EXTENDS Naturals, FiniteSets

CONSTANTS
  Tasks,     \* the task objects, in the order they are made in
  Shared,    \* the tasks held by a shared_task, not by a task
  Programs   \* bound: the programs, each a record of functions kind, parent, target

Functions == {"root", "value", "whole"}          \* spawn, and the two forms of then
Hidden    == {"forward", "gather", "first"}      \* unwrapped_func, when_*_func
Joined    == {"all", "any"}                      \* the event of when_all, when_any
Following == Hidden \cup {"value", "whole", "signal"}
Kinds     == Functions \cup Hidden \cup Joined \cup {"event", "made", "signal", "none"}

None == 0

\* Who continues whom, and what a hidden continuation works for.
WellFormed(ks, ps, ts) ==
  /\ ks \in [Tasks -> Kinds]
  /\ ps \in [Tasks -> Tasks \cup {None}] /\ ts \in [Tasks -> Tasks \cup {None}]
  /\ \A t \in Tasks :
       /\ ks[t] \in Following <=> ps[t] # None
       /\ ks[t] \in Hidden <=> ts[t] # None
       /\ ps[t] # None => ps[t] < t /\ ks[ps[t]] \notin Hidden \cup {"signal", "none"}
       /\ ts[t] # None => ts[t] < t /\ ks[ts[t]] \in
            CASE ks[t] = "forward" -> Functions [] ks[t] = "gather" -> {"all"} [] OTHER -> {"any"}

ASSUME TasksAssumption ==
  /\ Tasks \subseteq Nat \ {None} /\ IsFiniteSet(Tasks) /\ Shared \subseteq Tasks
  /\ \A g \in Programs : WellFormed(g.kind, g.parent, g.target)

VARIABLES
  kind,     \* what the object runs
  parent,   \* the task it continues
  target,   \* the task a hidden continuation works for
  state,    \* task_state, "absent" before the object is made
  place,    \* where the object is
  locked,   \* the tasks whose continuation vector has is_locked set
  vector,   \* the tasks whose continuation vector has is_vector set
  mutex,    \* the continuation that holds the mutex of a vector
  list,     \* when_any_state::result of an event, the inputs that are in it
  taken,    \* the list that a continuation of when_any moves out of it
  won       \* the continuation that set the event of when_any

graph   == <<kind, parent, target>>
vecVars == <<locked, vector, mutex>>
anyVars == <<list, taken, won>>
vars    == <<graph, state, place, vecVars, anyVars>>

Joining == {"adding", "trying", "waiting", "pushing"}        \* in add_continuation
Waiting == Joining \cup {"listed"}                           \* not given to its scheduler
Places  == Waiting \cup {"none", "event", "scheduled", "running", "unwrapped",
                         "set", "finished", "flushing", "over", "forgotten"}
States  == {"absent", "pending", "locked", "unwrapped", "completed", "canceled"}

Finished(s) == s \in {"completed", "canceled"}

Continuing(p)   == {c \in Tasks : parent[c] = p}
\* What is in the continuation vector of p.
Listed(p)       == {c \in Continuing(p) : place[c] = "listed"}
\* The hidden continuations that work for t, and the tasks they continue.
Members(t)      == {c \in Tasks : target[c] = t}
Inputs(t)       == {parent[c] : c \in Members(t)}
\* Those that still hold a reference to the state of when_all.
Holders(t)      == {c \in Members(t) : state[c] = "pending"}

Init ==
  /\ \E g \in Programs : /\ kind = g.kind /\ parent = g.parent
                       /\ target = g.target
  /\ state = [t \in Tasks |-> "absent"] /\ place = [t \in Tasks |-> "none"]
  /\ locked = {} /\ vector = {} /\ mutex = [t \in Tasks |-> None]
  /\ list = [t \in Tasks |-> {}] /\ taken = [t \in Tasks |-> {}]
  /\ won = [t \in Tasks |-> None]

Move(t, from, to) == place[t] = from /\ place' = [place EXCEPT ![t] = to]
Become(t, s, at)  == state' = [state EXCEPT ![t] = s] /\ place' = [place EXCEPT ![t] = at]
\* t has its outcome s by the hidden continuation c, which is done.
Deliver(c, t, s) ==
  /\ state' = [state EXCEPT ![c] = "completed", ![t] = s]
  /\ place' = [place EXCEPT ![c] = "over", ![t] = "finished"]

\* A task<> can be waited for until then, when_all, when_any or a function that
\* returns it has moved it away; a shared_task stays.
Held(p) == /\ state[p] # "absent"
           /\ p \in Shared \/ \A c \in Continuing(p) : kind[c] = "signal" \/ place[c] = "none"
--------------------------------------------------------------------------------
(* Faulty variants of steps below, each a slip the code could have had.          *)

\* An event can be set again.
ClaimTwice(t) ==
  /\ kind[t] = "event" /\ state[t] # "absent"
  /\ Become(t, "locked", "set") /\ UNCHANGED <<graph, vecVars, anyVars>>

\* A continuation is pushed without reading the flag again.
LockVectorUnread(c) ==
  /\ Move(c, "waiting", "pushing") /\ mutex[parent[c]] = None
  /\ mutex' = [mutex EXCEPT ![parent[c]] = c]
  /\ UNCHANGED <<graph, state, locked, vector, anyVars>>

\* when_all counts one task too few.
LastButOne(c) == Cardinality(Holders(target[c])) <= 2

\* The only element, which needs no vector, is not passed on.
FlushVectorOnly(t) ==
  /\ place[t] = "flushing" /\ mutex[t] = None
  /\ place' = [u \in Tasks |-> IF u = t THEN "over"
                               ELSE IF u \in Listed(t) /\ t \in vector THEN "scheduled" ELSE place[u]]
  /\ UNCHANGED <<graph, state, vecVars, anyVars>>
--------------------------------------------------------------------------------
(* The calls of a client.                                                      *)

Spawn(t) ==
  /\ kind[t] = "root" /\ place[t] = "none"
  /\ Become(t, "pending", "scheduled") /\ UNCHANGED <<graph, vecVars, anyVars>>

MakeTask(t) ==
  /\ kind[t] = "made" /\ place[t] = "none"
  /\ \E s \in {"completed", "canceled"} : Become(t, s, "over")
  /\ UNCHANGED <<graph, vecVars, anyVars>>

NewEvent(t) ==
  /\ kind[t] = "event" /\ place[t] = "none"
  /\ Become(t, "pending", "event") /\ UNCHANGED <<graph, vecVars, anyVars>>

\* then(): a continuation that takes its parent's value, or its parent itself.
Then(c) ==
  /\ kind[c] \in {"value", "whole"} /\ place[c] = "none" /\ Held(parent[c])
  /\ Become(c, "pending", "adding") /\ UNCHANGED <<graph, vecVars, anyVars>>

\* wait() and get() go on at once if the task has settled.
MustWait(p) == Held(p) /\ ~Finished(state[p])

\* on_finish makes a continuation that signals the waiting thread.
Wait(c) ==
  /\ kind[c] = "signal" /\ place[c] = "none" /\ MustWait(parent[c])
  /\ Become(c, "pending", "adding") /\ UNCHANGED <<graph, vecVars, anyVars>>

\* when_all and when_any: an event, and a hidden continuation of each input.
When(e) ==
  /\ kind[e] \in Joined /\ place[e] = "none"
  /\ \A p \in Inputs(e) : Held(p)
  /\ LET N == Members(e) IN
     /\ state' = [t \in Tasks |-> IF t \in N \cup {e} THEN "pending" ELSE state[t]]
     /\ place' = [t \in Tasks |-> IF t = e THEN "event"
                                  ELSE IF t \in N THEN "adding" ELSE place[t]]
  /\ UNCHANGED <<graph, vecVars, anyVars>>

\* set(), set_exception() or the destructor of an event_task: the first to come
\* claims the event, and stores the outcome in a step of its own.
Claim(t) ==
  /\ kind[t] = "event" /\ state[t] = "pending"
  /\ Become(t, "locked", "set") /\ UNCHANGED <<graph, vecVars, anyVars>>

Store(t) ==
  /\ place[t] = "set"
  /\ \E s \in {"completed", "canceled"} : Become(t, s, "finished")
  /\ UNCHANGED <<graph, vecVars, anyVars>>
--------------------------------------------------------------------------------
(* add_continuation: a continuation c joins its parent's vector or goes to its *)
(* scheduler at once. when_all and when_any add theirs in order; when_any puts *)
(* a copy of the task in the list before.                                      *)

Direct(c) == place' = [place EXCEPT ![c] = "scheduled"]

Turn(c) == kind[c] \in {"gather", "first"} =>
             \A d \in Members(target[c]) : d < c => place[d] \notin Joining

ListInput(c) ==
  list' = IF kind[c] = "first" THEN [list EXCEPT ![target[c]] = @ \cup {parent[c]}] ELSE list

ReadState(c) ==
  /\ place[c] = "adding" /\ Turn(c)
  /\ IF Finished(state[parent[c]]) THEN Direct(c) ELSE Move(c, "adding", "trying")
  /\ ListInput(c)
  /\ UNCHANGED <<graph, state, vecVars, taken, won>>

\* The compare_exchange loop while the vector holds no or one task.
TryInline(c) ==
  /\ place[c] = "trying" /\ parent[c] \notin vector
  /\ IF parent[c] \in locked THEN Direct(c) /\ UNCHANGED vector
     ELSE /\ Move(c, "trying", "listed")
          /\ vector' = IF Listed(parent[c]) = {} THEN vector ELSE vector \cup {parent[c]}
  /\ UNCHANGED <<graph, state, locked, mutex, anyVars>>

TryVector(c) ==
  /\ place[c] = "trying" /\ parent[c] \in vector
  /\ IF parent[c] \in locked THEN Direct(c) ELSE Move(c, "trying", "waiting")
  /\ UNCHANGED <<graph, state, vecVars, anyVars>>

\* With the mutex held the flag is read again.
LockVector(c) ==
  /\ place[c] = "waiting" /\ mutex[parent[c]] = None
  /\ IF parent[c] \in locked THEN Direct(c) /\ UNCHANGED mutex
     ELSE Move(c, "waiting", "pushing") /\ mutex' = [mutex EXCEPT ![parent[c]] = c]
  /\ UNCHANGED <<graph, state, locked, vector, anyVars>>

Push(c) ==
  /\ Move(c, "pushing", "listed")
  /\ mutex' = [mutex EXCEPT ![parent[c]] = None]
  /\ UNCHANGED <<graph, state, locked, vector, anyVars>>
--------------------------------------------------------------------------------
(* A scheduler runs a task, or gives its handle up.                            *)

Runnable(t) == place[t] = "scheduled" /\ kind[t] \in Functions

\* A continuation that asked for a value gets the exception instead.
PassesOn(t) == kind[t] = "value" /\ state[parent[t]] = "canceled"

Begin(t) ==
  /\ Runnable(t) /\ ~PassesOn(t)
  /\ Move(t, "scheduled", "running") /\ UNCHANGED <<graph, state, vecVars, anyVars>>

PassOn(t) ==
  /\ Runnable(t) /\ PassesOn(t)
  /\ Become(t, "canceled", "finished") /\ UNCHANGED <<graph, vecVars, anyVars>>

Complete(t) ==
  /\ place[t] = "running" /\ kind[t] \in Functions /\ Members(t) = {}
  /\ Become(t, "completed", "finished") /\ UNCHANGED <<graph, vecVars, anyVars>>

\* The function throws, at an interruption point among others.
Throw(t) ==
  /\ place[t] = "running" /\ kind[t] \in Functions
  /\ Become(t, "canceled", "finished") /\ UNCHANGED <<graph, vecVars, anyVars>>

\* The function returns a task: t waits for it by a hidden continuation f.
Unwrap(t, f) ==
  /\ place[t] = "running" /\ target[f] = t /\ Held(parent[f])
  /\ state' = [state EXCEPT ![t] = "unwrapped", ![f] = "pending"]
  /\ place' = [place EXCEPT ![t] = "unwrapped", ![f] = "adding"]
  /\ UNCHANGED <<graph, vecVars, anyVars>>

\* The handle is destroyed: the task is canceled with task_not_executed.
Discard(t) ==
  /\ Runnable(t)
  /\ Become(t, "canceled", "finished") /\ UNCHANGED <<graph, vecVars, anyVars>>

\* The handle is overwritten by another: the reference goes and nobody is told.
Forget(t) ==
  /\ Runnable(t)
  /\ Move(t, "scheduled", "forgotten") /\ UNCHANGED <<graph, state, vecVars, anyVars>>

(* Hidden continuations run inline, and nobody holds a task<> to them.         *)

Signal(c) ==
  /\ place[c] = "scheduled" /\ kind[c] = "signal"
  /\ Become(c, "completed", "over") /\ UNCHANGED <<graph, vecVars, anyVars>>

\* unwrapped_func: the outcome of the inner task becomes that of the outer one,
\* unless the value cannot be moved.
Forward(c) ==
  /\ place[c] = "scheduled" /\ kind[c] = "forward"
  /\ \E s \in {state[parent[c]], "canceled"} : Deliver(c, target[c], s)
  /\ UNCHANGED <<graph, vecVars, anyVars>>

\* when_all: the last reference to the shared state sets the event.
Last(c) == Holders(target[c]) = {c}

Gather(c) ==
  /\ place[c] = "scheduled" /\ kind[c] = "gather"
  /\ IF Last(c) THEN Deliver(c, target[c], "completed") ELSE Become(c, "completed", "over")
  /\ UNCHANGED <<graph, vecVars, anyVars>>

\* when_any_state::set moves the list out before event.set() says who is first.
TakeList(c) ==
  /\ kind[c] = "first" /\ Move(c, "scheduled", "running")
  /\ taken' = [taken EXCEPT ![c] = list[target[c]]]
  /\ list' = [list EXCEPT ![target[c]] = {}]
  /\ UNCHANGED <<graph, state, vecVars, won>>

SetFirst(c) ==
  /\ kind[c] = "first" /\ place[c] = "running"
  /\ IF state[target[c]] = "pending"
     THEN Deliver(c, target[c], "completed") /\ won' = [won EXCEPT ![target[c]] = c]
     ELSE Become(c, "completed", "over") /\ UNCHANGED won
  /\ UNCHANGED <<graph, vecVars, list, taken>>
--------------------------------------------------------------------------------
(* run_continuations, after a final state is stored.                           *)

LockFlag(t) ==
  /\ Move(t, "finished", "flushing")
  /\ locked' = locked \cup {t}
  /\ UNCHANGED <<graph, state, vector, mutex, anyVars>>

\* The mutex is taken only if there is a vector. Schedulers get the tasks one by
\* one; none of them can tell.
Flush(t) ==
  /\ place[t] = "flushing" /\ mutex[t] = None
  /\ place' = [u \in Tasks |-> IF u = t THEN "over"
                               ELSE IF u \in Listed(t) THEN "scheduled" ELSE place[u]]
  /\ UNCHANGED <<graph, state, vecVars, anyVars>>

Client(t) ==
  \/ Spawn(t) \/ MakeTask(t) \/ NewEvent(t) \/ Then(t) \/ Wait(t) \/ When(t)
  \/ Claim(t) \/ Discard(t) \/ Forget(t)

Step(t) ==
  \/ ReadState(t) \/ TryInline(t) \/ TryVector(t) \/ LockVector(t) \/ Push(t)
  \/ Begin(t) \/ PassOn(t) \/ Complete(t) \/ Throw(t) \/ (\E f \in Tasks : Unwrap(t, f))
  \/ Store(t) \/ Signal(t) \/ Forward(t) \/ Gather(t) \/ TakeList(t) \/ SetFirst(t)
  \/ LockFlag(t) \/ Flush(t)

Next == \E t \in Tasks : Client(t) \/ Step(t)

Spec     == Init /\ [][Next]_vars
\* Threads go on, schedulers run what they keep, and functions end.
FairSpec == Spec /\ \A t \in Tasks : WF_vars(Step(t))
--------------------------------------------------------------------------------
\* Types, and an object is in its final state exactly when it is past running.
TypeOK ==
  /\ WellFormed(kind, parent, target)
  /\ state \in [Tasks -> States] /\ place \in [Tasks -> Places]
  /\ locked \subseteq Tasks /\ vector \subseteq Tasks
  /\ mutex \in [Tasks -> Tasks \cup {None}]
  /\ list \in [Tasks -> SUBSET Tasks] /\ taken \in [Tasks -> SUBSET Tasks]
  /\ won \in [Tasks -> Tasks \cup {None}]
  /\ \A t \in Tasks : Finished(state[t]) <=> place[t] \in {"finished", "flushing", "over"}

\* A continuation that was added while its parent completed is never left in a
\* vector that has been flushed, nor is anybody still adding to one.
NoneLeftBehind ==
  \A c \in Tasks : place[c] \in {"listed", "pushing"} => place[parent[c]] # "over"

\* Whoever follows a task that settles is given to its scheduler.
ContinuationsFollow ==
  \A c \in Tasks :
    (place[c] \in Waiting /\ Finished(state[parent[c]])) ~> place[c] \notin Waiting

Visible(t) == state[t] # "absent" /\ kind[t] \notin Hidden
Placed(t)  == {f \in Members(t) : state[f] # "absent"}
Follows(t) == {parent[t]} \cup {parent[f] : f \in Placed(t)}
Asks(t)    == {p \in Tasks : kind[t] = "value" /\ p = parent[t]}
                \cup {parent[f] : f \in {x \in Placed(t) : kind[x] = "forward"}}

Phase(t)   == IF ~Visible(t) THEN "absent"
              ELSE IF state[t] = "completed" THEN "value"
              ELSE IF state[t] = "canceled" THEN "exception" ELSE "pending"
After(t)   == IF Visible(t) THEN Follows(t) \ {None} ELSE {}
Wants(t)   == IF Visible(t) THEN Asks(t) ELSE {}
OneOf(t)   == Visible(t) /\ kind[t] = "any"

Promise == INSTANCE Futures WITH
  phase <- [t \in Tasks |-> Phase(t)], after <- [t \in Tasks |-> After(t)],
  wants <- [t \in Tasks |-> Wants(t)], oneOf <- [t \in Tasks |-> OneOf(t)]

\* The tasks keep the promise of Futures.
KeepPromise == Promise!Spec
================================================================================
