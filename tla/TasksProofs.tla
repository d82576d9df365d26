------------------------------ MODULE TasksProofs ------------------------------
(***************************************************************************)
(* Theorems of Tasks, for any set of tasks and of well-formed programs.    *)
(***************************************************************************)
EXTENDS Tasks, TLAPS

\* Those that nobody can continue, and those whose vector is never locked.
Internal == Hidden \cup {"signal", "none"}
Silent   == Internal \cup {"made"}

\* What is in its place, state and vector agree.
Fits(t) ==
  /\ state[t] = "absent" <=> place[t] = "none"
  /\ kind[t] = "made" => place[t] \in {"none", "over"}
  /\ place[t] \in {"finished", "flushing"} \/ t \in locked => kind[t] \notin Silent
  /\ place[t] = "set" => kind[t] = "event"
  /\ place[t] = "running" => kind[t] \in Functions \cup {"first"}
  /\ place[t] = "flushing" => t \in locked
  /\ place[t] = "over" => t \in locked \/ kind[t] \in Silent
  /\ t \in locked => Finished(state[t])

\* A continuation waits for its parent, and is given away once that has settled.
Joins(c) ==
  /\ place[c] \in Waiting => parent[c] # None
  /\ parent[c] # None =>
       /\ place[c] # "none" => place[parent[c]] # "none"
       /\ place[c] \notin Waiting \cup {"none"} => Finished(state[parent[c]])
       /\ place[c] \in {"trying", "waiting", "pushing", "listed"} => kind[parent[c]] # "made"
       /\ place[c] = "pushing" => mutex[parent[c]] = c

\* A hidden continuation works for a task that is past its own waiting.
Works(c) ==
  target[c] # None /\ place[c] # "none" => place[target[c]] \notin Waiting \cup {"none"}

IInv == TypeOK /\ NoneLeftBehind /\ \A t \in Tasks : Fits(t) /\ Joins(t) /\ Works(t)
--------------------------------------------------------------------------------
\* No task exists at first.
LEMMA InitIInv == Init => IInv
<1> SUFFICES ASSUME Init PROVE IInv
  OBVIOUS
<1>1. PICK g \in Programs : kind = g.kind /\ parent = g.parent /\ target = g.target
  BY DEF Init
<1>2. WellFormed(kind, parent, target)
  BY <1>1, TasksAssumption DEF TasksAssumption
<1> QED
  BY <1>2 DEF Init, IInv, TypeOK, NoneLeftBehind, Fits, Joins, Works, States, Places, Waiting, Joining,
              Finished

\* Every step keeps the invariant.
LEMMA NextIInv == IInv /\ [Next]_vars => IInv'
<1> SUFFICES ASSUME IInv, [Next]_vars PROVE IInv'
  OBVIOUS
<1>a. None \notin Tasks
  BY TasksAssumption DEF TasksAssumption
<1>b. /\ \A t \in Tasks : parent[t] \in Tasks \cup {None} /\ target[t] \in Tasks \cup {None}
      /\ \A t \in Tasks : parent[t] # t /\ target[t] # t /\ kind[t] \in Kinds
  BY TasksAssumption DEF TasksAssumption, IInv, TypeOK, WellFormed
<1>c. /\ \A t \in Tasks : kind[t] \in Following <=> parent[t] # None
      /\ \A t \in Tasks : kind[t] \in Hidden <=> target[t] # None
      /\ \A t \in Tasks : parent[t] # None => kind[parent[t]] \notin Internal
      /\ \A t \in Tasks : target[t] # None => kind[target[t]] \notin Silent
  BY DEF IInv, TypeOK, WellFormed, Internal, Silent, Hidden, Functions, Joined
<1> USE <1>a, <1>b, <1>c DEF IInv, TypeOK, NoneLeftBehind, Fits, Joins, Works, States, Places, Waiting,
        Joining, Finished
<1>1. ASSUME NEW t \in Tasks, Spawn(t) PROVE IInv'
  BY <1>1 DEF Spawn, Become, graph, vecVars, anyVars, Silent, Internal, Hidden, Following
<1>2. ASSUME NEW t \in Tasks, MakeTask(t) PROVE IInv'
  BY <1>2 DEF MakeTask, Become, graph, vecVars, anyVars, Silent, Internal, Hidden, Following
<1>3. ASSUME NEW t \in Tasks, NewEvent(t) PROVE IInv'
  BY <1>3 DEF NewEvent, Become, graph, vecVars, anyVars, Silent, Internal, Hidden, Following
<1>4. ASSUME NEW c \in Tasks, Then(c) PROVE IInv'
  BY <1>4 DEF Then, Held, Become, graph, vecVars, anyVars, Silent, Internal, Hidden, Following
<1>5. ASSUME NEW c \in Tasks, Wait(c) PROVE IInv'
  BY <1>5 DEF Wait, MustWait, Held, Become, graph, vecVars, anyVars, Silent, Internal, Hidden,
              Following
<1>6. ASSUME NEW e \in Tasks, When(e) PROVE IInv'
  BY <1>6 DEF When, Members, Inputs, Held, graph, vecVars, anyVars, Silent, Internal, Hidden,
              Following, Joined
<1>7. ASSUME NEW t \in Tasks, Claim(t) PROVE IInv'
  BY <1>7 DEF Claim, Become, graph, vecVars, anyVars, Silent, Internal, Hidden, Following
<1>8. ASSUME NEW t \in Tasks, Store(t) PROVE IInv'
  BY <1>8 DEF Store, Become, graph, vecVars, anyVars, Silent, Internal, Hidden, Following
<1>9. ASSUME NEW c \in Tasks, ReadState(c) PROVE IInv'
  BY <1>9 DEF ReadState, ListInput, Direct, Move, graph, vecVars, Silent, Internal, Hidden,
              Following
<1>10. ASSUME NEW c \in Tasks, TryInline(c) PROVE IInv'
  BY <1>10 DEF TryInline, Direct, Move, graph, anyVars, Silent, Internal, Hidden
<1>11. ASSUME NEW c \in Tasks, TryVector(c) PROVE IInv'
  BY <1>11 DEF TryVector, Direct, Move, graph, vecVars, anyVars, Silent, Internal, Hidden
<1>12. ASSUME NEW c \in Tasks, LockVector(c) PROVE IInv'
  BY <1>12 DEF LockVector, Direct, Move, graph, anyVars, Silent, Internal, Hidden
<1>13. ASSUME NEW c \in Tasks, Push(c) PROVE IInv'
  BY <1>13 DEF Push, Move, graph, anyVars
<1>14. ASSUME NEW t \in Tasks, Begin(t) PROVE IInv'
  BY <1>14 DEF Begin, Runnable, Move, graph, vecVars, anyVars, Silent, Internal, Hidden, Functions
<1>15. ASSUME NEW t \in Tasks, PassOn(t) \/ Discard(t) PROVE IInv'
  BY <1>15 DEF PassOn, Discard, Runnable, Become, graph, vecVars, anyVars, Silent, Internal,
               Hidden, Functions
<1>16. ASSUME NEW t \in Tasks, Complete(t) \/ Throw(t) PROVE IInv'
  <2>1. /\ place[t] = "running" /\ kind[t] \in Functions /\ UNCHANGED <<graph, vecVars, anyVars>>
        /\ \E s \in {"completed", "canceled"} : Become(t, s, "finished")
    BY <1>16 DEF Complete, Throw
  <2>2. PICK s \in {"completed", "canceled"} : Become(t, s, "finished")
    BY <2>1
  <2>3. TypeOK'
    BY <2>1, <2>2 DEF Become, graph, vecVars, anyVars
  <2>4. NoneLeftBehind'
    BY <2>1, <2>2 DEF Become, graph
  <2>5. ASSUME NEW u \in Tasks PROVE Fits(u)'
    BY <2>1, <2>2 DEF Become, graph, vecVars, Silent, Internal, Hidden, Functions
  <2>6. ASSUME NEW u \in Tasks PROVE Joins(u)'
    BY <2>1, <2>2 DEF Become, graph, vecVars, Silent, Internal, Hidden
  <2>7. ASSUME NEW u \in Tasks PROVE Works(u)'
    BY <2>1, <2>2 DEF Become, graph
  <2> HIDE DEF TypeOK, NoneLeftBehind, Fits, Joins, Works
  <2> QED
    BY <2>3, <2>4, <2>5, <2>6, <2>7
<1>17. ASSUME NEW t \in Tasks, NEW f \in Tasks, Unwrap(t, f) PROVE IInv'
  <2>1. /\ place[t] = "running" /\ target[f] = t /\ f # t /\ state[parent[f]] # "absent"
        /\ kind[f] \in Hidden /\ kind[t] \notin Silent /\ parent[f] \in Tasks
        /\ \A u \in Tasks : parent[u] # f /\ target[u] # f
        /\ UNCHANGED <<graph, vecVars, anyVars>>
    BY <1>17 DEF Unwrap, Held, Hidden, Following, Silent, Internal
  <2>2. /\ state' = [state EXCEPT ![t] = "unwrapped", ![f] = "pending"]
        /\ place' = [place EXCEPT ![t] = "unwrapped", ![f] = "adding"]
    BY <1>17 DEF Unwrap
  <2>3. TypeOK'
    BY <2>1, <2>2 DEF graph, vecVars, anyVars
  <2>4. NoneLeftBehind'
    BY <2>1, <2>2 DEF graph
  <2>5. ASSUME NEW u \in Tasks PROVE Fits(u)'
    BY <2>1, <2>2 DEF graph, vecVars, Silent, Internal, Hidden, Functions
  <2>6. ASSUME NEW u \in Tasks PROVE Joins(u)'
    BY <2>1, <2>2 DEF graph, vecVars, Silent, Internal, Hidden
  <2>7. ASSUME NEW u \in Tasks PROVE Works(u)'
    BY <2>1, <2>2 DEF graph
  <2> HIDE DEF TypeOK, NoneLeftBehind, Fits, Joins, Works
  <2> QED
    BY <2>3, <2>4, <2>5, <2>6, <2>7
<1>18. ASSUME NEW t \in Tasks, Forget(t) PROVE IInv'
  BY <1>18 DEF Forget, Runnable, Move, graph, vecVars, anyVars, Silent, Internal, Hidden, Functions
<1>19. ASSUME NEW c \in Tasks, Signal(c) PROVE IInv'
  BY <1>19 DEF Signal, Become, graph, vecVars, anyVars, Silent, Internal, Hidden
<1>20. ASSUME NEW c \in Tasks, kind[c] \in Hidden, place[c] \in {"scheduled", "running"},
              NEW s \in {"completed", "canceled"}, Deliver(c, target[c], s),
              UNCHANGED <<graph, vecVars>>, won' \in [Tasks -> Tasks \cup {None}],
              list' = list, taken' = taken
       PROVE  IInv'
  <2>1. PICK t \in Tasks : /\ target[c] = t /\ t # c /\ kind[t] \notin Silent
                           /\ place[t] \notin Waiting \cup {"none"}
                           /\ \A u \in Tasks : parent[u] # c /\ target[u] # c
    BY <1>20 DEF Silent, Internal
  <2>2. /\ state' = [state EXCEPT ![c] = "completed", ![t] = s]
        /\ place' = [place EXCEPT ![c] = "over", ![t] = "finished"]
    BY <1>20, <2>1 DEF Deliver
  <2>3. TypeOK'
    BY <1>20, <2>1, <2>2 DEF graph, vecVars, anyVars
  <2>4. NoneLeftBehind'
    BY <1>20, <2>1, <2>2 DEF graph
  <2>5. ASSUME NEW u \in Tasks PROVE Fits(u)'
    BY <1>20, <2>1, <2>2 DEF graph, vecVars, Silent, Internal, Hidden, Functions
  <2>6. ASSUME NEW u \in Tasks PROVE Joins(u)'
    BY <1>20, <2>1, <2>2 DEF graph, vecVars, Silent, Internal, Hidden
  <2>7. ASSUME NEW u \in Tasks PROVE Works(u)'
    BY <1>20, <2>1, <2>2 DEF graph
  <2> HIDE DEF TypeOK, NoneLeftBehind, Fits, Joins, Works
  <2> QED
    BY <2>3, <2>4, <2>5, <2>6, <2>7
<1>21. ASSUME NEW c \in Tasks, kind[c] \in Hidden, place[c] \in {"scheduled", "running"},
              Become(c, "completed", "over"), UNCHANGED <<graph, vecVars, anyVars>>
       PROVE  IInv'
  BY <1>21 DEF Become, graph, vecVars, anyVars, Silent, Internal
<1>22. ASSUME NEW c \in Tasks, Forward(c) PROVE IInv'
  <2>1. PICK s \in {state[parent[c]], "canceled"} : Deliver(c, target[c], s)
    BY <1>22 DEF Forward
  <2>2. kind[c] \in Hidden /\ parent[c] # None /\ state[parent[c]] \in {"completed", "canceled"}
    BY <1>22 DEF Forward, Hidden, Following
  <2> QED
    BY <1>20, <1>22, <2>1, <2>2 DEF Forward, anyVars
<1>23. ASSUME NEW c \in Tasks, Gather(c) PROVE IInv'
  BY <1>20, <1>21, <1>23 DEF Gather, Hidden, anyVars
<1>24. ASSUME NEW c \in Tasks, TakeList(c) PROVE IInv'
  BY <1>24 DEF TakeList, Move, graph, vecVars, Silent, Internal, Hidden
<1>25. ASSUME NEW c \in Tasks, SetFirst(c) PROVE IInv'
  <2>1. CASE state[target[c]] = "pending"
    <3>1. Deliver(c, target[c], "completed") /\ won' \in [Tasks -> Tasks \cup {None}]
      BY <1>25, <2>1 DEF SetFirst, Hidden
    <3> QED
      BY <1>20, <1>25, <3>1 DEF SetFirst, Hidden
  <2>2. CASE state[target[c]] # "pending"
    BY <1>21, <1>25, <2>2 DEF SetFirst, Hidden, anyVars
  <2> QED
    BY <2>1, <2>2
<1>26. ASSUME NEW t \in Tasks, LockFlag(t) PROVE IInv'
  BY <1>26 DEF LockFlag, Move, graph, anyVars, Silent, Internal, Hidden
<1>27. ASSUME NEW t \in Tasks, Flush(t) PROVE IInv'
  BY <1>27 DEF Flush, Listed, Continuing, graph, vecVars, anyVars, Silent, Internal, Hidden
<1>28. CASE UNCHANGED vars
  BY <1>28 DEF vars, graph, vecVars, anyVars, WellFormed
<1> QED
  <2> HIDE DEF IInv, TypeOK, NoneLeftBehind, Fits, Joins, Works
  <2> QED
    BY <1>1, <1>2, <1>3, <1>4, <1>5, <1>6, <1>7, <1>8, <1>9, <1>10, <1>11, <1>12, <1>13, <1>14,
       <1>15, <1>16, <1>17, <1>18, <1>19, <1>22, <1>23, <1>24, <1>25, <1>26, <1>27, <1>28
       DEF Next, Client, Step

\* The invariant always holds.
LEMMA Invariance == Spec => []IInv
BY InitIInv, NextIInv, PTL DEF Spec

\* The types of Tasks, for any program: in particular an object is past running
\* exactly when its state is final, so task_state and run_continuations agree.
THEOREM TypeCorrect == Spec => []TypeOK
BY Invariance, PTL DEF IInv

\* continuation_vector: whoever adds a continuation while the task completes, the
\* continuation is never left in a vector that has been flushed.
THEOREM NoContinuationLost == Spec => []NoneLeftBehind
BY Invariance, PTL DEF IInv
--------------------------------------------------------------------------------
\* Until it settles an object that is on its way is pending.
Unsettled(t) ==
  place[t] \in Waiting \cup {"event", "scheduled", "running", "forgotten"} => state[t] = "pending"

\* A continuation that asked for a value runs only if there is one.
HasValue(t) ==
  kind[t] = "value" /\ place[t] \in {"running", "unwrapped"} => state[parent[t]] = "completed"

\* What a hidden continuation works for has begun to wait for it, and waits as long as it has
\* not done its work, unless others can do it first.
Serves(f) ==
  target[f] # None /\ place[f] # "none" =>
    /\ kind[f] = "forward" => place[target[f]] \notin {"scheduled", "running", "forgotten"}
    /\ kind[f] = "forward" /\ state[f] = "pending" => place[target[f]] = "unwrapped"
    /\ kind[f] = "gather" /\ state[f] = "pending" => place[target[f]] = "event"

\* A function returns one task.
OneForward ==
  \A f, g \in Tasks :
    /\ kind[f] = "forward" /\ place[f] # "none" /\ kind[g] = "forward" /\ place[g] # "none"
    /\ target[f] = target[g]
    => f = g

PInv == IInv /\ OneForward /\ \A t \in Tasks : Unsettled(t) /\ HasValue(t) /\ Serves(t)

\* Nobody follows, or works for, anybody at first.
LEMMA InitPInv == Init => PInv
<1>1. Init => IInv
  BY InitIInv
<1> QED
  BY <1>1 DEF Init, PInv, OneForward, Unsettled, HasValue, Serves, Waiting, Joining

\* Every step keeps the invariant.
LEMMA NextPInv == PInv /\ IInv' /\ [Next]_vars => PInv'
<1> SUFFICES ASSUME PInv, IInv', [Next]_vars PROVE PInv'
  OBVIOUS
<1> DEFINE Mine == OneForward /\ \A t \in Tasks : Unsettled(t) /\ HasValue(t) /\ Serves(t)
<1> SUFFICES Mine'
  BY DEF PInv
<1>a. None \notin Tasks
  BY TasksAssumption DEF TasksAssumption
<1>b. /\ \A t \in Tasks : parent[t] \in Tasks \cup {None} /\ target[t] \in Tasks \cup {None}
      /\ \A t \in Tasks : parent[t] # t /\ target[t] # t /\ kind[t] \in Kinds
  BY TasksAssumption DEF TasksAssumption, PInv, IInv, TypeOK, WellFormed
<1>c. /\ \A t \in Tasks : kind[t] \in Following <=> parent[t] # None
      /\ \A t \in Tasks : kind[t] \in Hidden <=> target[t] # None
      /\ \A t \in Tasks : parent[t] # None => kind[parent[t]] \notin Internal
      /\ \A t \in Tasks : kind[t] = "forward" => kind[target[t]] \in Functions
      /\ \A t \in Tasks : kind[t] = "gather" => kind[target[t]] = "all"
      /\ \A t \in Tasks : kind[t] = "first" => kind[target[t]] = "any"
  BY DEF PInv, IInv, TypeOK, WellFormed, Hidden, Functions, Joined, Internal
<1>d. /\ state \in [Tasks -> States] /\ place \in [Tasks -> Places]
      /\ DOMAIN state = Tasks /\ DOMAIN place = Tasks
      /\ \A t \in Tasks : Finished(state[t]) <=> place[t] \in {"finished", "flushing", "over"}
      /\ \A t \in Tasks : Fits(t) /\ Joins(t) /\ Works(t)
  BY DEF PInv, IInv, TypeOK
<1>e. \A t \in Tasks : Unsettled(t) /\ HasValue(t) /\ Serves(t)
  BY DEF PInv
<1>f. OneForward
  BY DEF PInv
<1> USE <1>a, <1>b, <1>c, <1>d, <1>e
     DEF Unsettled, HasValue, Serves, Fits, Joins, Works, Waiting, Joining, Finished
<1>1. ASSUME NEW t \in Tasks, Spawn(t) \/ MakeTask(t) \/ NewEvent(t) PROVE Mine'
  BY <1>1, <1>f DEF Spawn, MakeTask, NewEvent, Become, graph, OneForward, Hidden, Following, Functions
<1>2. ASSUME NEW c \in Tasks, Then(c) \/ Wait(c) PROVE Mine'
  BY <1>2, <1>f DEF Then, Wait, MustWait, Held, Become, graph, OneForward, Hidden, Following, Functions
<1>3. ASSUME NEW e \in Tasks, When(e) PROVE Mine'
  BY <1>3, <1>f DEF When, Members, graph, OneForward, Hidden, Following, Functions, Joined
<1>4. ASSUME NEW t \in Tasks, Claim(t) \/ Store(t) PROVE Mine'
  BY <1>4, <1>f DEF Claim, Store, Become, graph, OneForward, Hidden, Following, Functions
<1>5. ASSUME NEW c \in Tasks,
             ReadState(c) \/ TryInline(c) \/ TryVector(c) \/ LockVector(c) \/ Push(c)
      PROVE  Mine'
  BY <1>5, <1>f DEF ReadState, TryInline, TryVector, LockVector, Push, Direct, Move, graph,
                    OneForward, Hidden, Functions
<1>6. ASSUME NEW t \in Tasks, Begin(t) PROVE Mine'
  BY <1>6, <1>f DEF Begin, Runnable, PassesOn, Move, graph, OneForward, Hidden, Functions, Following
<1>7. ASSUME NEW t \in Tasks, place[t] \in {"scheduled", "running"}, kind[t] \in Functions,
             NEW s \in {"completed", "canceled"}, NEW at \in {"finished", "forgotten"},
             at = "forgotten" => place[t] = "scheduled",
             state' = IF at = "forgotten" THEN state ELSE [state EXCEPT ![t] = s],
             place' = [place EXCEPT ![t] = at], UNCHANGED graph
      PROVE  Mine'
  <2>1. /\ UNCHANGED <<kind, parent, target>>
        /\ kind[t] \notin Hidden
        /\ target[t] = None /\ state[t] = "pending"
        /\ \A u \in Tasks \ {t} : state'[u] = state[u] /\ place'[u] = place[u]
        /\ place'[t] = at /\ (at = "finished" => state'[t] = s) /\ (at = "forgotten" => state'[t] = "pending")
    BY <1>7 DEF graph, Hidden, Functions
  <2>2. OneForward'
    BY <2>1, <1>f, <1>7 DEF OneForward
  <2>3. ASSUME NEW u \in Tasks PROVE Unsettled(u)'
    BY <2>1, <1>7
  <2>4. ASSUME NEW u \in Tasks PROVE HasValue(u)'
    BY <2>1, <1>7
  <2>5. ASSUME NEW u \in Tasks PROVE Serves(u)'
    BY <2>1, <1>7 DEF Hidden
  <2> QED
    BY <2>2, <2>3, <2>4, <2>5
<1>8. ASSUME NEW t \in Tasks, PassOn(t) \/ Discard(t) \/ Forget(t) \/ Complete(t) \/ Throw(t) PROVE Mine'
  <2> HIDE DEF Mine
  <2>1. CASE PassOn(t) \/ Discard(t)
    BY <1>7, <2>1 DEF PassOn, Discard, Runnable, Become
  <2>2. CASE Forget(t)
    BY <1>7, <2>2 DEF Forget, Runnable, Move
  <2>3. CASE Complete(t) \/ Throw(t)
    BY <1>7, <2>3 DEF Complete, Throw, Become
  <2> QED
    BY <1>8, <2>1, <2>2, <2>3
<1>9. ASSUME NEW t \in Tasks, NEW f \in Tasks, Unwrap(t, f) PROVE Mine'
  BY <1>9, <1>f DEF Unwrap, Held, graph, OneForward, Hidden, Functions, Following, Joined
<1>10. ASSUME NEW c \in Tasks, Signal(c) PROVE Mine'
  BY <1>10, <1>f DEF Signal, Become, graph, OneForward, Hidden, Functions
<1>11. ASSUME NEW c \in Tasks, kind[c] \in Hidden, state[c] = "pending",
              place[c] \in {"scheduled", "running"}, NEW s \in {"completed", "canceled"},
              ~Finished(state[target[c]]), Deliver(c, target[c], s), UNCHANGED graph,
              \A d \in Tasks \ {c} : target[d] = target[c] /\ kind[d] \in {"forward", "gather"}
                                       => place[d] = "none" \/ state[d] # "pending"
       PROVE  Mine'
  <2>1. PICK t \in Tasks : t = target[c] /\ t # c
    BY <1>11
  <2>2. /\ UNCHANGED <<kind, parent, target>>
        /\ kind[t] \notin Hidden /\ target[t] = None
        /\ \A u \in Tasks \ {c, t} : state'[u] = state[u] /\ place'[u] = place[u]
        /\ place'[t] = "finished" /\ state'[t] = s /\ place'[c] = "over" /\ state'[c] = "completed"
        /\ state[t] \notin {"completed", "canceled"}
    BY <1>11, <2>1 DEF graph, Hidden, Functions, Joined, Deliver
  <2>3. OneForward'
    BY <2>1, <2>2, <1>f, <1>11 DEF OneForward
  <2>4. ASSUME NEW u \in Tasks PROVE Unsettled(u)'
    BY <2>1, <2>2
  <2>5. ASSUME NEW u \in Tasks PROVE HasValue(u)'
    <3> DEFINE p == parent[u]
    <3>1. CASE kind[u] # "value"
      BY <2>2, <3>1
    <3>2. CASE u \in {c, t}
      BY <2>2, <3>2
    <3>3. CASE kind[u] = "value" /\ u \notin {c, t} /\ place[u] \in {"running", "unwrapped"}
      <4>1. p \in Tasks /\ state[p] = "completed"
        BY <3>3 DEF Following
      <4>2. p # t /\ p # c
        BY <2>2, <4>1, <1>11
      <4> QED
        BY <2>2, <3>3, <4>1, <4>2
    <3> QED
      BY <2>2, <3>1, <3>2, <3>3
  <2>6. ASSUME NEW u \in Tasks PROVE Serves(u)'
    <3>1. CASE u = c
      BY <2>1, <2>2, <3>1, <1>11
    <3>2. CASE u # c /\ target[u] = t
      BY <2>1, <2>2, <3>2, <1>11
    <3>3. CASE u # c /\ target[u] # t
      <4>1. target[u] # c
        BY <1>11, <2>1 DEF Hidden, Functions
      <4> QED
        BY <2>1, <2>2, <3>3, <4>1
    <3> QED
      BY <3>1, <3>2, <3>3
  <2> QED
    BY <2>3, <2>4, <2>5, <2>6
<1>12. ASSUME NEW c \in Tasks, kind[c] \in Hidden, place[c] \in {"scheduled", "running"},
              Become(c, "completed", "over"), UNCHANGED graph
       PROVE  Mine'
  <2>1. /\ UNCHANGED <<kind, parent, target>> /\ state[c] = "pending"
        /\ \A u \in Tasks \ {c} : state'[u] = state[u] /\ place'[u] = place[u]
        /\ place'[c] = "over" /\ state'[c] = "completed"
    BY <1>12 DEF graph, Become
  <2>2. \A u \in Tasks : target[u] # c
    BY <1>12 DEF Hidden, Functions, Joined
  <2>3. OneForward'
    BY <2>1, <1>f, <1>12 DEF OneForward
  <2>4. ASSUME NEW u \in Tasks PROVE Unsettled(u)'
    BY <2>1
  <2>5. ASSUME NEW u \in Tasks PROVE HasValue(u)'
    <3>1. CASE u = c
      BY <2>1, <3>1
    <3>2. CASE u # c
      <4>1. parent[u] # c \/ kind[u] # "value"
        BY <1>12 DEF Internal, Following
      <4> QED
        BY <2>1, <3>2, <4>1 DEF Following
    <3> QED
      BY <3>1, <3>2
  <2>6. ASSUME NEW u \in Tasks PROVE Serves(u)'
    BY <2>1, <2>2
  <2> QED
    BY <2>3, <2>4, <2>5, <2>6
<1>13. ASSUME NEW c \in Tasks, TakeList(c) PROVE Mine'
  BY <1>13, <1>f DEF TakeList, Move, graph, OneForward, Hidden, Functions
<1>14. ASSUME NEW c \in Tasks, Forward(c) \/ Gather(c) \/ SetFirst(c) PROVE Mine'
  <2> HIDE DEF Mine
  <2>1. CASE Forward(c)
    <3>1. kind[c] = "forward" /\ place[c] = "scheduled" /\ target[c] \in Tasks /\ parent[c] \in Tasks
          /\ UNCHANGED graph
      BY <2>1 DEF Forward, Hidden, Following
    <3>2. PICK s \in {state[parent[c]], "canceled"} : Deliver(c, target[c], s)
      BY <2>1 DEF Forward
    <3>3. s \in {"completed", "canceled"} /\ state[c] = "pending" /\ place[target[c]] = "unwrapped"
      BY <3>1, <3>2
    <3>4. ASSUME NEW d \in Tasks \ {c}, target[d] = target[c], kind[d] \in {"forward", "gather"}
          PROVE  place[d] = "none"
      BY <3>1, <3>4, <1>f DEF OneForward, Functions
    <3> QED
      BY <1>11, <3>1, <3>2, <3>3, <3>4 DEF Hidden
  <2>2. CASE Gather(c)
    <3>1. kind[c] = "gather" /\ place[c] = "scheduled" /\ target[c] \in Tasks /\ UNCHANGED graph
          /\ state[c] = "pending" /\ place[target[c]] = "event" /\ kind[target[c]] = "all"
      BY <2>2 DEF Gather, Hidden
    <3>2. CASE Last(c)
      <4>1. ASSUME NEW d \in Tasks \ {c}, target[d] = target[c], kind[d] \in {"forward", "gather"}
            PROVE  state[d] # "pending"
        BY <3>2, <4>1 DEF Last, Holders, Members
      <4> QED
        BY <1>11, <2>2, <3>1, <3>2, <4>1 DEF Gather, Hidden
    <3>3. CASE ~Last(c)
      BY <1>12, <2>2, <3>1, <3>3 DEF Gather, Hidden
    <3> QED
      BY <3>2, <3>3
  <2>3. CASE SetFirst(c)
    <3>1. kind[c] = "first" /\ place[c] = "running" /\ target[c] \in Tasks /\ UNCHANGED graph
          /\ state[c] = "pending" /\ kind[target[c]] = "any"
      BY <2>3 DEF SetFirst, Hidden
    <3>2. CASE state[target[c]] = "pending"
      <4>1. ~Finished(state[target[c]])
        BY <3>2
      <4>2. ASSUME NEW d \in Tasks \ {c}, target[d] = target[c], kind[d] \in {"forward", "gather"}
            PROVE  FALSE
        BY <3>1, <4>2 DEF Functions
      <4> QED
        BY <1>11, <2>3, <3>1, <3>2, <4>1, <4>2 DEF SetFirst, Hidden
    <3>3. CASE state[target[c]] # "pending"
      BY <1>12, <2>3, <3>1, <3>3 DEF SetFirst, Hidden
    <3> QED
      BY <3>2, <3>3
  <2> QED
    BY <1>14, <2>1, <2>2, <2>3
<1>15. ASSUME NEW t \in Tasks, LockFlag(t) PROVE Mine'
  BY <1>15, <1>f DEF LockFlag, Move, graph, OneForward, Hidden, Functions
<1>16. ASSUME NEW t \in Tasks, Flush(t) PROVE Mine'
  BY <1>16, <1>f DEF Flush, Listed, Continuing, graph, OneForward, Hidden, Functions
<1>17. CASE UNCHANGED vars
  BY <1>17, <1>f DEF vars, graph, OneForward
<1> QED
  <2> HIDE DEF Mine
  <2> QED
    BY <1>1, <1>2, <1>3, <1>4, <1>5, <1>6, <1>8, <1>9, <1>10, <1>13, <1>14,
       <1>15, <1>16, <1>17 DEF Next, Client, Step
--------------------------------------------------------------------------------
\* What the holders of u see of it stays as it is.
Same(u) == /\ Phase(u)' = Phase(u) /\ After(u)' = After(u)
           /\ Wants(u)' = Wants(u) /\ OneOf(u)' = OneOf(u)

\* The steps of the promise, seen from the tasks.
Creates(t) ==
  /\ Phase(t) = "absent" /\ Phase(t)' # "absent"
  /\ \A u \in After(t)' : u \in Tasks /\ Phase(u) # "absent"
  /\ Wants(t)' \subseteq After(t)'
  /\ Phase(t)' = "pending" \/ After(t)' = {}

FollowsOneMore(t) ==
  /\ Phase(t) = "pending" /\ Phase(t)' = "pending" /\ OneOf(t)' = OneOf(t)
  /\ \A u \in After(t) : u \in Tasks /\ Phase(u) \in {"value", "exception"}
  /\ \E u \in Tasks : Phase(u) # "absent" /\ After(t)' = After(t) \cup {u} /\ Wants(t)' = Wants(t) \cup {u}

Settles(t) ==
  /\ Phase(t) = "pending" /\ Phase(t)' \in {"value", "exception"}
  /\ After(t) \subseteq Tasks /\ Wants(t) \subseteq Tasks
  /\ \/ OneOf(t) /\ \E u \in After(t) : Phase(u) \in {"value", "exception"}
     \/ ~OneOf(t) /\ \A u \in After(t) : Phase(u) \in {"value", "exception"}
  /\ Phase(t)' = "exception" \/ \A u \in Wants(t) : Phase(u) = "value"
  /\ After(t)' = After(t) /\ Wants(t)' = Wants(t) /\ OneOf(t)' = OneOf(t)

\* They are those of Futures.
LEMMA PromiseSteps ==
  /\ (\A u \in Tasks : Same(u)) => UNCHANGED Promise!vars
  /\ \A t \in Tasks :
       (Creates(t) \/ FollowsOneMore(t) \/ Settles(t)) /\ (\A u \in Tasks \ {t} : Same(u))
         => Promise!Next
<1>1. ASSUME \A u \in Tasks : Same(u) PROVE UNCHANGED Promise!vars
  BY <1>1 DEF Same, Promise!vars
<1>2. ASSUME NEW t \in Tasks, \A u \in Tasks \ {t} : Same(u) PROVE Promise!Changed(t)
  BY <1>2 DEF Same, Promise!Changed
<1>3. ASSUME NEW t \in Tasks, Creates(t), \A u \in Tasks \ {t} : Same(u) PROVE Promise!Create(t)
  BY <1>2, <1>3 DEF Creates, Promise!Create, Promise!Existing
<1>4. ASSUME NEW t \in Tasks, FollowsOneMore(t), \A u \in Tasks \ {t} : Same(u) PROVE Promise!Follow(t)
  BY <1>2, <1>4 DEF FollowsOneMore, Promise!Follow, Promise!Existing, Promise!Settled
<1>5. ASSUME NEW t \in Tasks, Settles(t), \A u \in Tasks \ {t} : Same(u) PROVE Promise!Settle(t)
  <2>1. Promise!Changed(t)
    BY <1>2, <1>5
  <2>2. /\ [u \in Tasks |-> After(u)]' = [u \in Tasks |-> After(u)]
        /\ [u \in Tasks |-> Wants(u)]' = [u \in Tasks |-> Wants(u)]
        /\ [u \in Tasks |-> OneOf(u)]' = [u \in Tasks |-> OneOf(u)]
    BY <1>5 DEF Settles, Same
  <2> QED
    BY <2>1, <2>2, <1>5 DEF Settles, Promise!Settle, Promise!Settled
<1> QED
  BY <1>1, <1>3, <1>4, <1>5 DEF Promise!Next

\* No task exists at first.
LEMMA InitPromise == Init => Promise!Init
BY DEF Init, Promise!Init, Phase, After, Wants, OneOf, Visible

\* A step that makes or settles nobody but hidden continuations is not seen.
Unseen == /\ UNCHANGED graph
          /\ \A u \in Tasks : state'[u] = "absent" <=> state[u] = "absent"
          /\ \A u \in Tasks : kind[u] \notin Hidden =>
               \/ state'[u] = state[u]
               \/ ~Finished(state[u]) /\ ~Finished(state'[u])

\* A step that settles t, and none that is not hidden besides.
SettlesOnly(t) ==
  /\ UNCHANGED graph /\ kind[t] \notin Hidden /\ state[t] \notin {"absent", "completed", "canceled"}
  /\ state'[t] \in {"completed", "canceled"}
  /\ \A u \in Tasks : state'[u] = "absent" <=> state[u] = "absent"
  /\ \A u \in Tasks \ {t} : kind[u] \notin Hidden => state'[u] = state[u]

\* A step that makes t, and none that is not hidden besides.
MakesOnly(t) ==
  /\ UNCHANGED graph /\ kind[t] \notin Hidden /\ state[t] = "absent" /\ state'[t] # "absent"
  /\ \A u \in Tasks : kind[u] \in Hidden /\ target[u] # t => state'[u] = state[u]
  /\ \A u \in Tasks \ {t} : kind[u] \notin Hidden => state'[u] = state[u]

\* What is seen depends on the states of those that are not hidden, and on who exists.
LEMMA SeenAlike ==
  ASSUME UNCHANGED graph, \A u \in Tasks : kind[u] \in Hidden <=> target[u] # None, None \notin Tasks,
         NEW t \in Tasks, (state'[t] = "absent") <=> (state[t] = "absent"),
         \A f \in Tasks : target[f] = t => (state'[f] = "absent" <=> state[f] = "absent")
  PROVE  After(t)' = After(t) /\ Wants(t)' = Wants(t) /\ OneOf(t)' = OneOf(t)
<1>1. Visible(t)' = Visible(t)
  BY DEF Visible, graph
<1>2. Placed(t)' = Placed(t)
  BY DEF Placed, Members, graph
<1>3. Follows(t)' = Follows(t) /\ Asks(t)' = Asks(t)
  BY <1>2 DEF Follows, Asks, graph
<1> QED
  BY <1>1, <1>3 DEF After, Wants, OneOf, graph

\* A step that changes no state, place or vector as others see it is a stutter of the futures, ...
LEMMA UnseenIsSame == PInv /\ Unseen => \A u \in Tasks : Same(u)
<1> SUFFICES ASSUME PInv, Unseen, NEW u \in Tasks PROVE Same(u)
  OBVIOUS
<1>1. (\A t \in Tasks : kind[t] \in Hidden <=> target[t] # None) /\ None \notin Tasks
  BY TasksAssumption DEF TasksAssumption, PInv, IInv, TypeOK, WellFormed
<1>2. After(u)' = After(u) /\ Wants(u)' = Wants(u) /\ OneOf(u)' = OneOf(u)
  BY <1>1, SeenAlike DEF Unseen
<1>3. Phase(u)' = Phase(u)
  BY DEF Unseen, Phase, Visible, graph, Finished
<1> QED
  BY <1>2, <1>3 DEF Same

\* ... one that only settles a task changes nothing for the others, ...
LEMMA SettlesIsSame ==
  ASSUME PInv, NEW t \in Tasks, SettlesOnly(t)
  PROVE  /\ \A u \in Tasks \ {t} : Same(u)
         /\ After(t)' = After(t) /\ Wants(t)' = Wants(t) /\ OneOf(t)' = OneOf(t)
         /\ Phase(t) = "pending" /\ Phase(t)' = IF state'[t] = "completed" THEN "value" ELSE "exception"
<1>1. (\A u \in Tasks : kind[u] \in Hidden <=> target[u] # None) /\ None \notin Tasks
  BY TasksAssumption DEF TasksAssumption, PInv, IInv, TypeOK, WellFormed
<1>2. \A u \in Tasks : After(u)' = After(u) /\ Wants(u)' = Wants(u) /\ OneOf(u)' = OneOf(u)
  BY <1>1, SeenAlike DEF SettlesOnly
<1>3. \A u \in Tasks \ {t} : Phase(u)' = Phase(u)
  BY DEF SettlesOnly, Phase, Visible, graph
<1>4. Phase(t) = "pending" /\ Phase(t)' = IF state'[t] = "completed" THEN "value" ELSE "exception"
  BY DEF SettlesOnly, Phase, Visible, graph
<1> QED
  BY <1>2, <1>3, <1>4 DEF Same

\* ... nor does one that only makes a task.
LEMMA MakesIsSame ==
  ASSUME PInv, NEW t \in Tasks, MakesOnly(t)
  PROVE  /\ \A u \in Tasks \ {t} : Same(u)
         /\ Phase(t) = "absent" /\ Phase(t)' # "absent"
<1>1. (\A u \in Tasks : kind[u] \in Hidden <=> target[u] # None) /\ None \notin Tasks
  BY TasksAssumption DEF TasksAssumption, PInv, IInv, TypeOK, WellFormed
<1>2. ASSUME NEW u \in Tasks \ {t} PROVE Same(u)
  <2>1. CASE kind[u] \in Hidden
    BY <2>1 DEF MakesOnly, Same, Phase, After, Wants, OneOf, Visible, graph
  <2>2. CASE kind[u] \notin Hidden
    <3>1. \A f \in Tasks : target[f] = u => (state'[f] = "absent" <=> state[f] = "absent")
      BY <1>1 DEF MakesOnly
    <3>2. After(u)' = After(u) /\ Wants(u)' = Wants(u) /\ OneOf(u)' = OneOf(u)
      BY <1>1, <2>2, <3>1, SeenAlike DEF MakesOnly
    <3>3. Phase(u)' = Phase(u)
      BY <2>2 DEF MakesOnly, Phase, Visible, graph
    <3> QED
      BY <3>2, <3>3 DEF Same
  <2> QED
    BY <2>1, <2>2
<1>3. Phase(t) = "absent" /\ Phase(t)' # "absent"
  BY DEF MakesOnly, Phase, Visible, graph
<1> QED
  BY <1>2, <1>3

\* A task whose parent is in somebody's hands, or has settled, is seen to.
LEMMA Seen ==
  ASSUME NEW p \in Tasks, kind[p] \notin Hidden
  PROVE  /\ state[p] # "absent" => Phase(p) # "absent"
         /\ Finished(state[p]) => Phase(p) \in {"value", "exception"}
         /\ state[p] = "completed" => Phase(p) = "value"
BY DEF Phase, Visible, Finished

\* One that runs a function follows its parent only, until the function has returned a task.
LEMMA RunsAlone ==
  ASSUME PInv, NEW t \in Tasks, place[t] \in {"scheduled", "running"}, kind[t] \in Functions
  PROVE  /\ After(t) = {parent[t]} \ {None} /\ ~OneOf(t)
         /\ Wants(t) = IF kind[t] = "value" THEN {parent[t]} ELSE {}
         /\ \A u \in After(t) : u \in Tasks /\ Phase(u) \in {"value", "exception"}
         /\ kind[t] = "value" /\ place[t] = "running" => Phase(parent[t]) = "value"
<1>1. \A f \in Tasks : target[f] = t => kind[f] = "forward"
  BY TasksAssumption DEF TasksAssumption, PInv, IInv, TypeOK, WellFormed, Functions, Hidden
<1>2. \A f \in Tasks : target[f] = t => state[f] = "absent"
  BY <1>1, TasksAssumption DEF TasksAssumption, PInv, IInv, Serves, Fits
<1>3. Placed(t) = {}
  BY <1>2 DEF Placed, Members
<1>4. state[t] # "absent" /\ Visible(t)
  BY DEF PInv, IInv, Fits, Visible, Hidden, Functions
<1>5. parent[t] \in Tasks \cup {None} /\ (kind[t] = "value" => parent[t] \in Tasks)
      /\ (parent[t] \in Tasks => kind[parent[t]] \notin Hidden)
  BY TasksAssumption DEF TasksAssumption, PInv, IInv, TypeOK, WellFormed, Following
<1>6. After(t) = {parent[t]} \ {None} /\ ~OneOf(t)
  BY <1>3, <1>4 DEF After, Follows, OneOf, Functions
<1>7. Wants(t) = IF kind[t] = "value" THEN {parent[t]} ELSE {}
  BY <1>3, <1>4, <1>5 DEF Wants, Asks
<1>8. parent[t] # None => parent[t] \in Tasks /\ Phase(parent[t]) \in {"value", "exception"}
  BY <1>5, Seen DEF PInv, IInv, Joins, Waiting, Joining
<1>9. kind[t] = "value" /\ place[t] = "running" => Phase(parent[t]) = "value"
  BY <1>5, Seen DEF PInv, HasValue
<1> QED
  BY <1>6, <1>7, <1>8, <1>9

\* Every step of the tasks is a step of the promise, or is not seen.
LEMMA NextPromise == PInv /\ [Next]_vars => [Promise!Next]_(Promise!vars)
<1> SUFFICES ASSUME PInv, [Next]_vars PROVE [Promise!Next]_(Promise!vars)
  OBVIOUS
<1> DEFINE Goal == [Promise!Next]_(Promise!vars)
<1> SUFFICES Goal
  OBVIOUS
<1>a. /\ None \notin Tasks /\ state \in [Tasks -> States] /\ place \in [Tasks -> Places]
      /\ \A t \in Tasks : Finished(state[t]) <=> place[t] \in {"finished", "flushing", "over"}
      /\ \A t \in Tasks : Fits(t)
      /\ \A t \in Tasks : Joins(t)
      /\ \A t \in Tasks : Works(t)
      /\ \A t \in Tasks : Unsettled(t)
      /\ \A t \in Tasks : HasValue(t)
      /\ \A t \in Tasks : Serves(t)
  BY TasksAssumption DEF TasksAssumption, PInv, IInv, TypeOK
<1>b. /\ \A t \in Tasks : parent[t] \in Tasks \cup {None} /\ target[t] \in Tasks \cup {None}
      /\ \A t \in Tasks : parent[t] # t /\ target[t] # t
      /\ \A t \in Tasks : kind[t] \in Following <=> parent[t] # None
      /\ \A t \in Tasks : kind[t] \in Hidden <=> target[t] # None
      /\ \A t \in Tasks : parent[t] # None => kind[parent[t]] \notin Internal
      /\ \A t \in Tasks : target[t] # None =>
           /\ kind[t] = "forward" => kind[target[t]] \in Functions
           /\ kind[t] = "gather" => kind[target[t]] = "all"
           /\ kind[t] = "first" => kind[target[t]] = "any"
  <2>1. WellFormed(kind, parent, target)
    BY DEF PInv, IInv, TypeOK
  <2> QED
    BY <1>a, <2>1, TasksAssumption DEF TasksAssumption, WellFormed, Functions, Hidden, Internal
<1>c. Unseen => Goal
  BY UnseenIsSame, PromiseSteps
<1>d. ASSUME NEW t \in Tasks, SettlesOnly(t), After(t) \subseteq Tasks, Wants(t) \subseteq Tasks,
             \/ OneOf(t) /\ \E u \in After(t) : Phase(u) \in {"value", "exception"}
             \/ ~OneOf(t) /\ \A u \in After(t) : Phase(u) \in {"value", "exception"},
             state'[t] = "canceled" \/ \A u \in Wants(t) : Phase(u) = "value"
      PROVE  Goal
  BY <1>d, SettlesIsSame, PromiseSteps DEF Settles
<1>e. ASSUME NEW t \in Tasks, MakesOnly(t), \A u \in After(t)' : u \in Tasks /\ Phase(u) # "absent",
             Wants(t)' \subseteq After(t)', Phase(t)' = "pending" \/ After(t)' = {}
      PROVE  Goal
  BY <1>e, MakesIsSame, PromiseSteps DEF Creates
<1>f. ASSUME NEW p \in Tasks, kind[p] \notin Hidden
      PROVE  /\ state[p] # "absent" => Phase(p) # "absent"
             /\ Finished(state[p]) => Phase(p) \in {"value", "exception"}
             /\ state[p] = "completed" => Phase(p) = "value"
  BY <1>f, Seen
\* What is made by itself.
<1>g. ASSUME NEW t \in Tasks, kind[t] \notin Hidden \cup Joined, place[t] = "none",
             NEW s \in {"pending", "completed", "canceled"}, NEW at, Become(t, s, at), UNCHANGED graph,
             parent[t] # None => state[parent[t]] # "absent" /\ s = "pending"
      PROVE  Goal
  <2>0. /\ state[t] = "absent" /\ state'[t] = s /\ \A u \in Tasks \ {t} : state'[u] = state[u]
        /\ UNCHANGED <<kind, parent, target>>
    BY <1>a, <1>g DEF Become, graph, Fits
  <2>1. MakesOnly(t)
    BY <1>b, <1>g, <2>0 DEF MakesOnly
  <2>2. \A f \in Tasks : target[f] = t => place[f] = "none" /\ f # t
    BY <1>a, <1>b, <1>g DEF Works, Waiting
  <2>3. Placed(t)' = {}
    BY <1>a, <1>g, <2>2 DEF Placed, Members, Become, graph, Fits
  <2>4. After(t)' = {parent[t]} \ {None}
    BY <1>a, <1>g, <2>3 DEF After, Follows, Visible, Become, graph
  <2>5. Wants(t)' \subseteq After(t)'
    BY <1>a, <1>b, <1>g, <2>3, <2>4 DEF Wants, Asks, Become, graph
  <2>6. \A u \in After(t)' : u \in Tasks /\ Phase(u) # "absent"
    BY <1>b, <1>f, <1>g, <2>4 DEF Internal
  <2>7. Phase(t)' = "pending" \/ After(t)' = {}
    <3>1. s = "pending" => Phase(t)' = "pending"
      BY <1>a, <1>g DEF Phase, Visible, Become, graph
    <3> QED
      BY <1>g, <2>4, <3>1
  <2> QED
    BY <1>e, <2>1, <2>5, <2>6, <2>7
\* A function ends, or is never run.
<1>h. ASSUME NEW t \in Tasks, place[t] \in {"scheduled", "running"}, kind[t] \in Functions,
             NEW s \in {"completed", "canceled"}, s = "completed" => place[t] = "running",
             Become(t, s, "finished"), UNCHANGED graph
      PROVE  Goal
  <2>1. SettlesOnly(t)
    BY <1>a, <1>h DEF SettlesOnly, Become, graph, Fits, Finished, Functions, Hidden
  <2>2. /\ After(t) = {parent[t]} \ {None} /\ ~OneOf(t)
        /\ Wants(t) = IF kind[t] = "value" THEN {parent[t]} ELSE {}
        /\ \A u \in After(t) : u \in Tasks /\ Phase(u) \in {"value", "exception"}
        /\ kind[t] = "value" /\ place[t] = "running" => Phase(parent[t]) = "value"
    BY <1>h, RunsAlone
  <2>3. Wants(t) \subseteq Tasks
    BY <1>b, <2>2 DEF Following
  <2>4. state'[t] = s
    BY <1>a, <1>h DEF Become
  <2> QED
    BY <1>d, <1>h, <2>1, <2>2, <2>3, <2>4
\* A hidden continuation has done its work.
<1>i. ASSUME NEW t \in Tasks PROVE After(t) \subseteq Tasks /\ Wants(t) \subseteq Tasks
  <2>1. \A f \in Tasks : target[f] = t => parent[f] \in Tasks
    BY <1>a, <1>b DEF Following
  <2>2. parent[t] \in Tasks \cup {None} /\ (kind[t] = "value" => parent[t] \in Tasks)
    BY <1>b DEF Following
  <2> QED
    BY <2>1, <2>2 DEF After, Follows, Wants, Asks, Placed, Members
<1>j. ASSUME NEW c \in Tasks, kind[c] \in Hidden, state[c] = "pending", NEW t \in Tasks, t = target[c],
             state[t] \notin {"absent", "completed", "canceled"}, NEW s \in {"completed", "canceled"},
             Deliver(c, t, s), UNCHANGED graph,
             \/ OneOf(t) /\ \E u \in After(t) : Phase(u) \in {"value", "exception"}
             \/ ~OneOf(t) /\ \A u \in After(t) : Phase(u) \in {"value", "exception"},
             s = "canceled" \/ \A u \in Wants(t) : Phase(u) = "value"
      PROVE  Goal
  <2>1. kind[t] \notin Hidden /\ t # c
    BY <1>a, <1>b, <1>j DEF Hidden, Functions
  <2>2. state'[t] = s /\ state'[c] = "completed" /\ \A u \in Tasks \ {c, t} : state'[u] = state[u]
    BY <1>a, <1>j, <2>1 DEF Deliver
  <2>3. SettlesOnly(t)
    BY <1>j, <2>1, <2>2 DEF SettlesOnly
  <2> QED
    BY <1>d, <1>i, <1>j, <2>2, <2>3
\* It is done, and what it worked for is not.
<1>k. ASSUME NEW c \in Tasks, kind[c] \in Hidden, state[c] = "pending", Become(c, "completed", "over"),
             UNCHANGED graph
      PROVE  Goal
  <2>1. state'[c] = "completed" /\ \A u \in Tasks \ {c} : state'[u] = state[u]
    BY <1>a, <1>k DEF Become
  <2>2. Unseen
    BY <1>k, <2>1 DEF Unseen
  <2> QED
    BY <1>c, <2>2
<1> HIDE DEF Goal
<1>1. ASSUME NEW t \in Tasks, Spawn(t) \/ MakeTask(t) \/ NewEvent(t) PROVE Goal
  <2>1. kind[t] \in {"root", "made", "event"} /\ parent[t] = None /\ UNCHANGED graph
    BY <1>1, <1>b DEF Spawn, MakeTask, NewEvent, Following, Hidden
  <2> QED
    BY <1>1, <1>g, <2>1 DEF Spawn, MakeTask, NewEvent, Hidden, Joined
<1>2. ASSUME NEW c \in Tasks, Then(c) \/ Wait(c) PROVE Goal
  <2>1. kind[c] \in {"value", "whole", "signal"} /\ state[parent[c]] # "absent" /\ UNCHANGED graph
    BY <1>2 DEF Then, Wait, MustWait, Held
  <2> QED
    BY <1>2, <1>g, <2>1 DEF Then, Wait, Hidden, Joined
<1>3. ASSUME NEW e \in Tasks, When(e) PROVE Goal
  <2>1. /\ kind[e] \in Joined /\ kind[e] \notin Hidden /\ state[e] = "absent" /\ parent[e] = None
        /\ \A p \in Inputs(e) : Held(p)
        /\ UNCHANGED graph
        /\ state' = [t \in Tasks |-> IF t \in Members(e) \cup {e} THEN "pending" ELSE state[t]]
    BY <1>a, <1>b, <1>3 DEF When, Fits, Joined, Hidden, Following
  <2>2. \A f \in Members(e) : f \in Tasks /\ kind[f] \in {"gather", "first"} /\ parent[f] \in Tasks
                              /\ target[f] = e
    BY <1>a, <1>b, <2>1 DEF Members, Hidden, Following, Joined, Functions
  <2>3. MakesOnly(e)
    BY <1>b, <2>1, <2>2 DEF MakesOnly, Members, Hidden
  <2>4. Placed(e)' = Members(e)
    BY <2>1, <2>2 DEF Placed, Members, graph
  <2>5. Visible(e)' /\ Phase(e)' = "pending"
    BY <2>1 DEF Visible, Phase, graph
  <2>6. After(e)' = {parent[f] : f \in Members(e)}
    BY <1>a, <2>1, <2>2, <2>4, <2>5 DEF After, Follows, graph
  <2>7. Wants(e)' = {}
    BY <2>1, <2>2, <2>4 DEF Wants, Asks, graph, Joined
  <2>8. ASSUME NEW u \in After(e)' PROVE u \in Tasks /\ Phase(u) # "absent"
    <3>1. PICK f \in Members(e) : u = parent[f]
      BY <2>6, <2>8
    <3>2. u \in Tasks /\ kind[u] \notin Hidden /\ state[u] # "absent"
      BY <1>a, <1>b, <2>1, <2>2, <3>1 DEF Inputs, Held, Internal
    <3> QED
      BY <1>f, <3>2
  <2> QED
    BY <1>e, <2>3, <2>5, <2>7, <2>8
<1>4. ASSUME NEW t \in Tasks, Claim(t) PROVE Goal
  <2>1. Unseen
    BY <1>a, <1>4 DEF Claim, Become, Unseen, graph, Finished
  <2> QED
    BY <1>c, <2>1
<1>5. ASSUME NEW t \in Tasks, Store(t) PROVE Goal
  <2>1. kind[t] = "event" /\ UNCHANGED graph
    BY <1>a, <1>5 DEF Store, Fits
  <2>2. PICK s \in {"completed", "canceled"} : Become(t, s, "finished")
    BY <1>5 DEF Store
  <2>3. SettlesOnly(t)
    BY <1>a, <1>5, <2>1, <2>2 DEF SettlesOnly, Become, graph, Fits, Finished, Hidden, Store
  <2>4. parent[t] = None /\ Placed(t) = {}
    BY <1>b, <2>1 DEF Placed, Members, Functions, Following, Hidden
  <2>5. After(t) = {} /\ Wants(t) = {} /\ ~OneOf(t)
    BY <2>1, <2>4 DEF After, Follows, Wants, Asks, OneOf
  <2> QED
    BY <1>d, <2>3, <2>5
<1>6. ASSUME NEW c \in Tasks,
             ReadState(c) \/ TryInline(c) \/ TryVector(c) \/ LockVector(c) \/ Push(c)
      PROVE  Goal
  <2>1. Unseen
    BY <1>6 DEF ReadState, TryInline, TryVector, LockVector, Push, Unseen
  <2> QED
    BY <1>c, <2>1
<1>7. ASSUME NEW t \in Tasks, Begin(t) \/ Forget(t) \/ TakeList(t) \/ LockFlag(t) \/ Flush(t) PROVE Goal
  <2>1. Unseen
    BY <1>7 DEF Begin, Forget, TakeList, LockFlag, Flush, Unseen
  <2> QED
    BY <1>c, <2>1
<1>8. ASSUME NEW t \in Tasks, PassOn(t) \/ Discard(t) PROVE Goal
  BY <1>8, <1>h DEF PassOn, Discard, Runnable
<1>9. ASSUME NEW t \in Tasks, Complete(t) \/ Throw(t) PROVE Goal
  BY <1>9, <1>h DEF Complete, Throw
<1>10. ASSUME NEW t \in Tasks, NEW f \in Tasks, Unwrap(t, f) PROVE Goal
  <2>1. place[t] = "running" /\ target[f] = t /\ Held(parent[f]) /\ UNCHANGED graph
    BY <1>10 DEF Unwrap
  <2>2. kind[t] \in Functions /\ kind[t] \notin Hidden /\ kind[f] = "forward" /\ f # t
    BY <1>a, <1>b, <2>1 DEF Fits, Hidden, Functions
  <2>3. /\ After(t) = {parent[t]} \ {None} /\ ~OneOf(t)
        /\ Wants(t) = IF kind[t] = "value" THEN {parent[t]} ELSE {}
        /\ \A u \in After(t) : u \in Tasks /\ Phase(u) \in {"value", "exception"}
    BY <2>1, <2>2, RunsAlone
  <2>4. \A g \in Tasks : target[g] = t => kind[g] = "forward" /\ state[g] = "absent"
    <3>1. ASSUME NEW g \in Tasks, target[g] = t PROVE kind[g] = "forward"
      BY <1>a, <1>b, <2>2, <3>1 DEF Hidden, Functions
    <3> QED
      BY <1>a, <2>1, <3>1 DEF Serves, Fits
  <2>5. /\ state'[t] = "unwrapped" /\ state'[f] = "pending" /\ state[t] = "pending" /\ state[f] = "absent"
        /\ \A u \in Tasks \ {t, f} : state'[u] = state[u]
    BY <1>a, <1>10, <2>1, <2>2, <2>4 DEF Unwrap, Unsettled
  <2>6. Placed(t)' = {f}
    BY <2>1, <2>2, <2>4, <2>5 DEF Placed, Members, graph
  <2>7. parent[f] \in Tasks /\ Phase(parent[f]) # "absent"
    <3>1. parent[f] \in Tasks /\ kind[parent[f]] \notin Hidden /\ state[parent[f]] # "absent"
      BY <1>a, <1>b, <2>1, <2>2 DEF Held, Internal, Following, Hidden
    <3> QED
      BY <1>f, <3>1
  <2>8. Visible(t)' /\ Phase(t) = "pending" /\ Phase(t)' = "pending" /\ OneOf(t)' = OneOf(t)
    BY <2>1, <2>2, <2>5 DEF Visible, Phase, OneOf, graph
  <2>9. After(t)' = After(t) \cup {parent[f]}
    BY <1>a, <2>1, <2>3, <2>6, <2>7, <2>8 DEF After, Follows, graph
  <2>10. Wants(t)' = Wants(t) \cup {parent[f]}
    BY <1>b, <2>1, <2>2, <2>3, <2>6, <2>8 DEF Wants, Asks, graph, Following
  <2>11. FollowsOneMore(t)
    BY <2>3, <2>7, <2>8, <2>9, <2>10 DEF FollowsOneMore
  <2>12. ASSUME NEW u \in Tasks \ {t} PROVE Same(u)
    <3>1. CASE kind[u] \in Hidden
      BY <2>1, <3>1 DEF Same, Phase, After, Wants, OneOf, Visible, graph
    <3>2. CASE kind[u] \notin Hidden
      <4>1. u # f /\ state'[u] = state[u]
        BY <2>2, <2>5, <3>2 DEF Hidden
      <4>2. \A g \in Tasks : target[g] = u => state'[g] = state[g]
        BY <1>a, <1>b, <2>1, <2>2, <2>5
      <4>3. After(u)' = After(u) /\ Wants(u)' = Wants(u) /\ OneOf(u)' = OneOf(u)
        BY <1>a, <1>b, <2>1, <4>1, <4>2, SeenAlike
      <4>4. Phase(u)' = Phase(u)
        BY <2>1, <4>1 DEF Phase, Visible, graph
      <4> QED
        BY <4>3, <4>4 DEF Same
    <3> QED
      BY <3>1, <3>2
  <2> QED
    BY <2>11, <2>12, PromiseSteps DEF Goal
<1>11. ASSUME NEW c \in Tasks, Signal(c) PROVE Goal
  <2>1. kind[c] = "signal" /\ UNCHANGED graph /\ parent[c] \in Tasks /\ kind[parent[c]] \notin Hidden
        /\ Finished(state[parent[c]])
    BY <1>a, <1>b, <1>11 DEF Signal, Following, Internal, Joins, Waiting, Joining
  <2>2. Placed(c) = {}
    BY <1>a, <1>b, <2>1 DEF Placed, Members, Functions, Hidden
  <2>3. After(c) \subseteq {parent[c]} /\ Wants(c) = {} /\ ~OneOf(c)
    BY <2>1, <2>2 DEF After, Follows, Wants, Asks, OneOf
  <2>4. state[c] = "pending"
    BY <1>a, <1>11 DEF Signal, Unsettled
  <2>5. SettlesOnly(c)
    BY <1>a, <1>11, <2>1, <2>4 DEF SettlesOnly, Signal, Become, Hidden
  <2> QED
    BY <1>d, <1>f, <1>i, <2>1, <2>3, <2>5
<1>12. ASSUME NEW c \in Tasks, Forward(c) PROVE Goal
  <2>1. PICK s \in {state[parent[c]], "canceled"} : Deliver(c, target[c], s)
    BY <1>12 DEF Forward
  <2>2. /\ kind[c] = "forward" /\ kind[c] \in Hidden /\ UNCHANGED graph /\ state[c] = "pending"
        /\ parent[c] \in Tasks /\ kind[parent[c]] \notin Hidden /\ Finished(state[parent[c]])
        /\ target[c] \in Tasks
    BY <1>a, <1>b, <1>12 DEF Forward, Following, Hidden, Internal, Unsettled, Joins, Waiting, Joining
  <2>3. PICK t \in Tasks : t = target[c]
    BY <2>2
  <2>4. place[t] = "unwrapped" /\ kind[t] \in Functions /\ kind[t] \notin Hidden
        /\ state[t] \notin {"absent", "completed", "canceled"}
    BY <1>a, <1>b, <1>12, <2>2, <2>3 DEF Forward, Serves, Fits, Finished, Functions, Hidden
  <2>5. Placed(t) \subseteq {c}
    <3>1. ASSUME NEW g \in Placed(t) PROVE g = c
      <4>1. g \in Tasks /\ target[g] = t /\ state[g] # "absent"
        BY <3>1 DEF Placed, Members
      <4>2. kind[g] = "forward" /\ place[g] # "none" /\ place[c] # "none"
        BY <1>a, <1>b, <1>12, <2>4, <4>1 DEF Hidden, Functions, Fits, Forward
      <4> QED
        BY <2>2, <2>3, <4>1, <4>2 DEF PInv, OneForward
    <3> QED
      BY <3>1
  <2>6. parent[t] # None => /\ parent[t] \in Tasks /\ kind[parent[t]] \notin Hidden
                            /\ Finished(state[parent[t]])
    BY <1>b, <2>4, <1>a DEF Joins, Waiting, Joining, Internal
  <2>7. ~OneOf(t) /\ \A u \in After(t) : Phase(u) \in {"value", "exception"}
    <3>1. After(t) \subseteq {parent[t], parent[c]} \ {None}
      BY <1>a, <2>5 DEF After, Follows
    <3> QED
      BY <1>f, <2>2, <2>4, <2>6, <3>1 DEF OneOf, Functions
  <2>8. s = "canceled" \/ \A u \in Wants(t) : Phase(u) = "value"
    <3>1. \A u \in Wants(t) : (kind[t] = "value" /\ u = parent[t]) \/ u = parent[c]
      BY <2>5 DEF Wants, Asks
    <3>2. s = "canceled" \/ state[parent[c]] = "completed"
      BY <2>1, <2>2 DEF Finished
    <3>3. kind[t] = "value" => parent[t] # None /\ state[parent[t]] = "completed"
      BY <1>a, <1>b, <2>4 DEF HasValue, Following
    <3> QED
      BY <1>f, <2>2, <2>6, <3>1, <3>2, <3>3
  <2>9. s \in {"completed", "canceled"}
    BY <2>1, <2>2 DEF Finished
  <2> QED
    BY <1>j, <2>1, <2>2, <2>3, <2>4, <2>7, <2>8, <2>9
<1>13. ASSUME NEW c \in Tasks, Gather(c) PROVE Goal
  <2>1. /\ kind[c] = "gather" /\ kind[c] \in Hidden /\ UNCHANGED graph /\ state[c] = "pending"
        /\ target[c] \in Tasks
    BY <1>a, <1>b, <1>13 DEF Gather, Hidden, Unsettled
  <2>2. PICK t \in Tasks : t = target[c]
    BY <2>1
  <2>3. /\ kind[t] = "all" /\ parent[t] = None
        /\ state[t] \notin {"absent", "completed", "canceled"}
    BY <1>a, <1>b, <1>13, <2>1, <2>2 DEF Gather, Serves, Fits, Finished, Following, Hidden
  <2>4. ~OneOf(t) /\ Wants(t) = {}
    BY <1>b, <2>3 DEF OneOf, Wants, Asks, Placed, Members, Functions
  <2>5. CASE Last(c)
    <3>1. ASSUME NEW u \in After(t) PROVE Phase(u) \in {"value", "exception"}
      <4>1. PICK g \in Placed(t) : u = parent[g]
        BY <2>3, <3>1 DEF After, Follows
      <4>2. g \in Tasks /\ target[g] = t /\ state[g] # "absent"
        BY <4>1 DEF Placed, Members
      <4>3. parent[g] \in Tasks /\ kind[parent[g]] \notin Hidden
        BY <1>a, <1>b, <4>2 DEF Following, Internal
      <4>4. place[g] \notin Waiting \cup {"none"}
        <5>1. CASE g = c
          BY <1>13, <5>1 DEF Gather, Waiting, Joining
        <5>2. CASE g # c
          <6>1. state[g] # "pending"
            BY <2>2, <2>5, <4>2, <5>2 DEF Last, Holders, Members
          <6> QED
            BY <1>a, <4>2, <6>1 DEF Unsettled, Fits
        <5> QED
          BY <5>1, <5>2
      <4>5. Finished(state[parent[g]])
        BY <1>a, <4>2, <4>3, <4>4 DEF Joins
      <4> QED
        BY <1>f, <4>1, <4>3, <4>5
    <3>2. Deliver(c, t, "completed")
      BY <1>13, <2>2, <2>5 DEF Gather
    <3> QED
      BY <1>j, <2>1, <2>2, <2>3, <2>4, <3>1, <3>2
  <2>6. CASE ~Last(c)
    BY <1>13, <1>k, <2>1, <2>6 DEF Gather
  <2> QED
    BY <2>5, <2>6
<1>14. ASSUME NEW c \in Tasks, SetFirst(c) PROVE Goal
  <2>1. /\ kind[c] = "first" /\ kind[c] \in Hidden /\ UNCHANGED graph /\ state[c] = "pending"
        /\ target[c] \in Tasks /\ parent[c] \in Tasks /\ kind[parent[c]] \notin Hidden
        /\ Finished(state[parent[c]])
    BY <1>a, <1>b, <1>14 DEF SetFirst, Hidden, Following, Internal, Unsettled, Joins, Waiting, Joining
  <2>2. PICK t \in Tasks : t = target[c]
    BY <2>1
  <2>3. CASE state[t] = "pending"
    <3>1. kind[t] = "any" /\ kind[t] \notin Hidden
      BY <1>a, <1>b, <2>1, <2>2 DEF Hidden
    <3>2. OneOf(t) /\ Wants(t) = {}
      BY <1>b, <2>3, <3>1 DEF OneOf, Wants, Asks, Visible, Placed, Members, Functions
    <3>3. parent[c] \in After(t) /\ Phase(parent[c]) \in {"value", "exception"}
      BY <1>a, <1>f, <2>1, <2>2, <2>3, <3>1 DEF After, Follows, Visible, Placed, Members
    <3>4. Deliver(c, t, "completed")
      BY <1>14, <2>2, <2>3 DEF SetFirst
    <3> QED
      BY <1>j, <2>1, <2>2, <2>3, <3>2, <3>3, <3>4
  <2>4. CASE state[t] # "pending"
    BY <1>14, <1>k, <2>1, <2>2, <2>4 DEF SetFirst
  <2> QED
    BY <2>3, <2>4
<1>15. CASE UNCHANGED vars
  <2>1. Unseen
    BY <1>15 DEF vars, Unseen
  <2> QED
    BY <1>c, <2>1
<1> QED
  BY <1>1, <1>2, <1>3, <1>4, <1>5, <1>6, <1>7, <1>8, <1>9, <1>10, <1>11, <1>12, <1>13, <1>14, <1>15
     DEF Next, Client, Step

\* The invariant that the refinement rests on.
LEMMA PromiseInvariance == Spec => []PInv
<1>1. PInv /\ [Next]_vars => PInv'
  BY NextIInv, NextPInv DEF PInv
<1> QED
  BY <1>1, InitPInv, PTL DEF Spec

\* async++ keeps the promise of a future: a task settles once, not before what it follows has
\* (one of it for when_any, all of it otherwise), and never with a value if one that it asked for
\* a value has thrown (task_base.h, continuation_vector.h, when_all_any.h).
THEOREM PromiseKept == Spec => KeepPromise
<1>1. Init => Promise!Init
  BY InitPromise
<1>2. PInv /\ [Next]_vars => [Promise!Next]_(Promise!vars)
  BY NextPromise
<1> QED
  BY <1>1, <1>2, PromiseInvariance, PTL DEF Spec, KeepPromise, Promise!Spec
================================================================================
