-------------------------- MODULE ContextSwitchProofs --------------------------
(***************************************************************************)
(* Theorems of ContextSwitch, for any contexts and programs.               *)
(***************************************************************************)
EXTENDS ContextSwitch, FiniteSetTheorems, SequenceTheorems, TLAPS

States == {"absent", "waiting", "scheduled", "running", "completed", "canceled"}

Performing == {"then", "then complete", "assign", "unlock"}
Places     == Performing \cup {"idle", "body", "cancel", "valid", "ready", "wait", "waiting",
                               "get", "getting", "take", "last look", "over", "terminated"}

Types ==
  /\ script \in Scripts
  /\ mutex \in [Contexts -> {0, 1}] /\ valid \in [Contexts -> BOOLEAN]
  /\ last \in [Contexts -> Tasks \cup {Empty}] /\ prev \in [Tasks -> Tasks \cup {Empty}]
  /\ state \in [Tasks -> States] /\ at \in [Actors -> Places]
  /\ todo \in [Actors -> Seq(Seq(Tasks))] /\ came \in Seq(Tasks)

\* What is left to perform are calls of functions that are no other call's.
CallsLeft ==
  /\ \A a \in Actors : \A i \in 1..Len(todo[a]) : IsCall(script, todo[a][i])
  /\ Once(todo)

\* Function k of a's call i is a task already: it is in the call that a is in.
Made(a, i, k) ==
  i = 1 /\ (at[a] \in {"assign", "unlock"} \/ (at[a] = "then complete" /\ k = 1))

FreshUntilMade ==
  \A a \in Actors : \A i \in 1..Len(todo[a]) : \A k \in 1..Len(todo[a][i]) :
    ~Made(a, i, k) => state[todo[a][i][k]] = "absent"

\* A task's function is somewhere exactly while the task is running.
RunningIsSomewhere == \A t \in Tasks : at[t] # "idle" <=> state[t] = "running"

\* The spin lock: who is in perform() has a call and the lock, and nobody else has it.
LockExcludes ==
  /\ \A a \in Actors : at[a] \in Performing => todo[a] # <<>> /\ mutex[Context(a)] = 1
  /\ \A a, b \in Actors :
       at[a] \in Performing /\ at[b] \in Performing /\ Context(a) = Context(b) => a = b
  /\ \A c \in Contexts : mutex[c] = 1 => \E a \in Actors : at[a] \in Performing /\ Context(a) = c
  /\ \A a \in Actors : at[a] = "then complete" => Len(Head(todo[a])) = 2

\* A context without a last task is being given one, or the main thread took it.
ValidOrReplaced ==
  \A c \in Contexts :
    \/ valid[c] \/ (c = MainContext /\ InMain("over"))
    \/ \E a \in Actors : at[a] \in {"then complete", "assign"} /\ Context(a) = c

Lived == Types /\ CallsLeft /\ FreshUntilMade /\ RunningIsSomewhere /\ LockExcludes
-------------------------------------------------------------------------------
\* What a is about to perform or is performing.
New(a) == Head(todo[a])

\* A call that is left has one or two functions, all of them tasks of one context.
LEMMA CallType ==
  ASSUME Types, CallsLeft, NEW a \in Actors, todo[a] # <<>>
  PROVE  /\ 1 \in 1..Len(todo[a]) /\ New(a) = todo[a][1] /\ New(a) \in Seq(Tasks)
         /\ Len(New(a)) \in 1..2 /\ New(a)[1] \in Tasks /\ New(a)[Len(New(a))] \in Tasks
         /\ Context(a) = script.context[New(a)[1]] /\ Context(a) \in Contexts
         /\ Context(a) = script.context[New(a)[Len(New(a))]]
<1>1. /\ todo[a] \in Seq(Seq(Tasks)) /\ Len(todo[a]) \in Nat \ {0} /\ New(a) = todo[a][1]
      /\ New(a) \in Seq(Tasks)
  BY DEF Types, New
<1>2. IsCall(script, New(a))
  BY <1>1 DEF CallsLeft
<1>3. New(a) \in Seq(Tasks) /\ Len(New(a)) \in 1..2
      /\ script.context[New(a)[1]] = script.context[New(a)[Len(New(a))]]
  BY <1>2 DEF IsCall
<1>4. New(a)[1] \in Tasks /\ New(a)[Len(New(a))] \in Tasks /\ Head(New(a)) = New(a)[1]
  BY <1>3
<1>5. script.context \in [Tasks -> Contexts]
  BY ScriptAssumption DEF Types, ScriptAssumption
<1> QED
  BY <1>1, <1>3, <1>4, <1>5 DEF Context, New

\* After a call the next ones move up.
LEMMA TailOfCalls ==
  ASSUME Types, NEW a \in Actors, todo[a] # <<>>, todo' = [todo EXCEPT ![a] = Tail(@)]
  PROVE  /\ todo' \in [Actors -> Seq(Seq(Tasks))]
         /\ \A b \in Actors : b # a => todo'[b] = todo[b]
         /\ \A i \in 1..Len(todo'[a]) : i + 1 \in 1..Len(todo[a]) /\ todo'[a][i] = todo[a][i + 1]
<1>1. todo[a] \in Seq(Seq(Tasks)) /\ todo'[a] = Tail(todo[a])
  BY DEF Types
<1>2. /\ Tail(todo[a]) \in Seq(Seq(Tasks)) /\ Len(Tail(todo[a])) = Len(todo[a]) - 1
      /\ \A i \in 1..Len(Tail(todo[a])) : Tail(todo[a])[i] = todo[a][i + 1]
  BY <1>1, HeadTailProperties
<1>3. Len(todo[a]) \in Nat
  BY <1>1
<1> QED
  BY <1>1, <1>2, <1>3 DEF Types

\* The calls left keep being calls of functions that are no other call's.
LEMMA CallsLeftAfterOne ==
  ASSUME Types, CallsLeft, UNCHANGED script, NEW a \in Actors, todo[a] # <<>>,
         todo' = [todo EXCEPT ![a] = Tail(@)]
  PROVE  CallsLeft'
<1> DEFINE Moved(b, i) == IF b = a THEN i + 1 ELSE i
<1>1. /\ todo' \in [Actors -> Seq(Seq(Tasks))]
      /\ \A b \in Actors : \A i \in 1..Len(todo'[b]) :
           Moved(b, i) \in 1..Len(todo[b]) /\ todo'[b][i] = todo[b][Moved(b, i)]
  BY TailOfCalls
<1>2. \A b \in Actors : DOMAIN todo[b] = 1..Len(todo[b]) /\ DOMAIN todo'[b] = 1..Len(todo'[b])
  BY <1>1 DEF Types
<1>3. \A b \in Actors : \A i \in 1..Len(todo'[b]) : IsCall(script', todo'[b][i])
  BY <1>1 DEF CallsLeft
<1>4. ASSUME NEW b \in Actors, NEW c \in Actors, NEW i \in DOMAIN todo'[b], NEW j \in DOMAIN todo'[c],
             NEW k \in DOMAIN todo'[b][i], NEW l \in DOMAIN todo'[c][j],
             todo'[b][i][k] = todo'[c][j][l]
      PROVE  b = c /\ i = j /\ k = l
  <2>1. /\ Moved(b, i) \in DOMAIN todo[b] /\ todo'[b][i] = todo[b][Moved(b, i)]
        /\ Moved(c, j) \in DOMAIN todo[c] /\ todo'[c][j] = todo[c][Moved(c, j)]
    <3>1. i \in 1..Len(todo'[b]) /\ j \in 1..Len(todo'[c])
      BY <1>2
    <3> HIDE DEF Moved
    <3>2. Moved(b, i) \in DOMAIN todo[b] /\ todo'[b][i] = todo[b][Moved(b, i)]
      BY <1>1, <1>2, <3>1
    <3>3. Moved(c, j) \in DOMAIN todo[c] /\ todo'[c][j] = todo[c][Moved(c, j)]
      BY <1>1, <1>2, <3>1
    <3> QED
      BY <3>2, <3>3
  <2>2. b = c /\ Moved(b, i) = Moved(c, j) /\ k = l
    <3> HIDE DEF Moved
    <3> QED
      BY <1>4, <2>1 DEF CallsLeft, Once
  <2>3. i \in Nat /\ j \in Nat
    BY <1>1, <1>2, <1>4
  <2> QED
    BY <2>2, <2>3
<1>5. Once(todo')
  BY <1>4 DEF Once
<1> QED
  BY <1>3, <1>5 DEF CallsLeft

\* Nothing has been made, performed or taken at first.
LEMMA InitLived == Init => Lived /\ ValidOrReplaced
<1> SUFFICES ASSUME Init PROVE Lived /\ ValidOrReplaced
  OBVIOUS
<1>1. /\ script \in Scripts /\ todo = script.performs
      /\ script.performs \in [Actors -> Seq(Seq(Tasks))] /\ Once(script.performs)
      /\ \A a \in Actors : \A i \in DOMAIN script.performs[a] : IsCall(script, script.performs[a][i])
  BY ScriptAssumption DEF Init, ScriptAssumption
<1>2. CallsLeft
  <2>1. \A a \in Actors : DOMAIN script.performs[a] = 1..Len(script.performs[a])
    BY <1>1
  <2> QED
    BY <1>1, <2>1 DEF CallsLeft
<1>3. Types
  BY <1>1, EmptySeq DEF Init, Types, States, Places, Performing
<1>4. FreshUntilMade
  <2>1. \A a \in Actors : \A i \in 1..Len(todo[a]) : \A k \in 1..Len(todo[a][i]) : todo[a][i][k] \in Tasks
    BY <1>3 DEF Types
  <2> QED
    BY <2>1 DEF Init, FreshUntilMade
<1>5. RunningIsSomewhere
  BY ScriptAssumption DEF Init, RunningIsSomewhere, Actors, ScriptAssumption
<1>6. LockExcludes
  <2>1. /\ \A a \in Actors : at[a] \notin Performing
        /\ \A c \in Contexts : mutex[c] = 0
    BY DEF Init, Performing
  <2>2. \A a \in Actors : at[a] # "then complete"
    BY <2>1 DEF Performing
  <2>3. \A c \in Contexts : mutex[c] # 1
    BY <2>1
  <2> QED
    BY <2>1, <2>2, <2>3, Zenon DEF LockExcludes
<1>7. ValidOrReplaced
  BY DEF Init, ValidOrReplaced
<1> QED
  BY <1>2, <1>3, <1>4, <1>5, <1>6, <1>7 DEF Lived

\* A step of an actor that makes no task, in perform() before and after or neither: what it
\* has made of its call stays the same.
LEMMA SameFresh ==
  ASSUME Types, FreshUntilMade, UNCHANGED todo, NEW a \in Actors, NEW p, Go(a, p),
         \A t \in Tasks : state[t] = "absent" => state'[t] = "absent",
         at[a] \notin {"then complete", "assign", "unlock"} \/ {at[a], p} \subseteq {"assign", "unlock"}
  PROVE  FreshUntilMade'
<1> SUFFICES ASSUME NEW b \in Actors, NEW i \in 1..Len(todo[b]), NEW k \in 1..Len(todo[b][i]),
                    ~Made(b, i, k)'
             PROVE  state'[todo[b][i][k]] = "absent"
  BY DEF FreshUntilMade
<1>1. todo[b][i][k] \in Tasks
  <2>1. todo[b] \in Seq(Seq(Tasks))
    BY DEF Types
  <2>2. todo[b][i] \in Seq(Tasks)
    BY <2>1, ElementOfSeq
  <2> QED
    BY <2>2, ElementOfSeq
<1>2. CASE b # a
  BY <1>1, <1>2 DEF FreshUntilMade, Made, Go, Types
<1>3. CASE b = a
  BY <1>1, <1>3 DEF FreshUntilMade, Made, Go, Types
<1> QED
  BY <1>2, <1>3

\* A step of one actor outside perform() keeps what holds of the lock.
LEMMA SameLock ==
  ASSUME Types, LockExcludes, UNCHANGED <<script, mutex, todo>>, NEW a \in Actors, NEW p, Go(a, p),
         at[a] \notin Performing, p \notin Performing
  PROVE  LockExcludes'
<1>1. \A b \in Actors : (at'[b] \in Performing <=> at[b] \in Performing) /\ Context(b)' = Context(b)
  BY DEF Types, Go, Context
<1>2. \A b \in Actors : at'[b] = "then complete" => at[b] = "then complete"
  BY DEF Types, Go, Performing
<1>3. ASSUME NEW b \in Actors, at'[b] \in Performing
      PROVE  todo'[b] # <<>> /\ mutex'[Context(b)'] = 1
  <2>1. at[b] \in Performing /\ Context(b)' = Context(b)
    BY <1>1, <1>3
  <2> QED
    BY <2>1 DEF LockExcludes
<1>4. ASSUME NEW b \in Actors, NEW c \in Actors,
             at'[b] \in Performing, at'[c] \in Performing, Context(b)' = Context(c)'
      PROVE  b = c
  <2>1. at[b] \in Performing /\ at[c] \in Performing /\ Context(b) = Context(c)
    BY <1>1, <1>4
  <2> QED
    BY <2>1 DEF LockExcludes
<1>5. ASSUME NEW c \in Contexts, mutex'[c] = 1
      PROVE  \E b \in Actors : at'[b] \in Performing /\ Context(b)' = c
  <2>1. PICK b \in Actors : at[b] \in Performing /\ Context(b) = c
    BY <1>5 DEF LockExcludes
  <2> QED
    BY <1>1, <2>1
<1>6. \A b \in Actors : at'[b] = "then complete" => Len(Head(todo'[b])) = 2
  BY <1>2 DEF LockExcludes
<1> QED
  BY <1>3, <1>4, <1>5, <1>6 DEF LockExcludes

\* A step in perform() that neither takes nor releases the lock.
LEMMA LockKept ==
  ASSUME Types, LockExcludes, UNCHANGED <<script, mutex, todo>>, NEW a \in Actors, NEW p, Go(a, p),
         at[a] \in Performing, p \in Performing, p = "then complete" => Len(Head(todo[a])) = 2
  PROVE  LockExcludes'
<1>1. \A b \in Actors : (at'[b] \in Performing <=> at[b] \in Performing) /\ Context(b)' = Context(b)
  BY DEF Types, Go, Context
<1>2. \A b \in Actors : at'[b] = "then complete" => Len(Head(todo[b])) = 2
  BY DEF Types, Go, LockExcludes
<1>3. ASSUME NEW b \in Actors, at'[b] \in Performing
      PROVE  todo'[b] # <<>> /\ mutex'[Context(b)'] = 1
  <2>1. at[b] \in Performing /\ Context(b)' = Context(b)
    BY <1>1, <1>3
  <2> QED
    BY <2>1 DEF LockExcludes
<1>4. ASSUME NEW b \in Actors, NEW c \in Actors,
             at'[b] \in Performing, at'[c] \in Performing, Context(b)' = Context(c)'
      PROVE  b = c
  <2>1. at[b] \in Performing /\ at[c] \in Performing /\ Context(b) = Context(c)
    BY <1>1, <1>4
  <2> QED
    BY <2>1 DEF LockExcludes
<1>5. ASSUME NEW c \in Contexts, mutex'[c] = 1
      PROVE  \E b \in Actors : at'[b] \in Performing /\ Context(b)' = c
  <2>1. PICK b \in Actors : at[b] \in Performing /\ Context(b) = c
    BY <1>5 DEF LockExcludes
  <2> QED
    BY <1>1, <2>1
<1>6. \A b \in Actors : at'[b] = "then complete" => Len(Head(todo'[b])) = 2
  BY <1>2 DEF LockExcludes
<1> QED
  BY <1>3, <1>4, <1>5, <1>6 DEF LockExcludes

\* A step by which a leaves perform() and releases the lock.
LEMMA LockReleased ==
  ASSUME Types, CallsLeft, LockExcludes, UNCHANGED script, NEW a \in Actors, NEW p, Go(a, p),
         at[a] \in Performing, p \notin Performing,
         \A b \in Actors : b # a => todo'[b] = todo[b],
         mutex' = [mutex EXCEPT ![Context(a)] = 0]
  PROVE  LockExcludes'
<1>1. \A b \in Actors : b # a => Context(b)' = Context(b) /\ at'[b] = at[b]
  BY DEF Types, Go, Context
<1>2. at'[a] = p
  BY DEF Types, Go
<1>3. \A b \in Actors : at'[b] \in Performing => b # a /\ at[b] \in Performing
  BY <1>1, <1>2
<1>4. todo[a] # <<>> /\ Context(a) \in Contexts
  BY CallType DEF LockExcludes
<1>5. \A b \in Actors : at'[b] \in Performing => Context(b) # Context(a)
  BY <1>3 DEF LockExcludes
<1>6. \A b \in Actors : at'[b] \in Performing => todo[b] # <<>> /\ mutex[Context(b)] = 1 /\ Context(b) \in Contexts
  BY <1>3, CallType DEF LockExcludes
<1>7. \A b \in Actors : at'[b] \in Performing => todo'[b] # <<>> /\ mutex'[Context(b)'] = 1
  BY <1>1, <1>3, <1>5, <1>6 DEF Types
<1>8. ASSUME NEW c \in Contexts, mutex'[c] = 1
      PROVE  \E b \in Actors : at'[b] \in Performing /\ Context(b)' = c
  <2>1. c # Context(a) /\ mutex[c] = 1
    BY <1>4, <1>8 DEF Types
  <2>2. PICK b \in Actors : at[b] \in Performing /\ Context(b) = c
    BY <2>1 DEF LockExcludes
  <2> QED
    BY <1>1, <2>1, <2>2
<1>9. ASSUME NEW b \in Actors, NEW c \in Actors,
             at'[b] \in Performing, at'[c] \in Performing, Context(b)' = Context(c)'
      PROVE  b = c
  <2>1. at[b] \in Performing /\ at[c] \in Performing /\ Context(b) = Context(c)
    BY <1>1, <1>3, <1>9
  <2> QED
    BY <2>1 DEF LockExcludes
<1>10. \A b \in Actors : at'[b] = "then complete" => Len(Head(todo'[b])) = 2
  <2>1. \A b \in Actors : at'[b] = "then complete" => at'[b] \in Performing
    BY DEF Performing
  <2> QED
    BY <1>1, <1>3, <2>1 DEF LockExcludes
<1> QED
  BY <1>7, <1>8, <1>9, <1>10 DEF LockExcludes

\* A task's end changes no task but those that wait for it.
LEMMA EndedTasks ==
  ASSUME Types, NEW t \in Tasks, NEW s \in {"completed", "canceled"}, state' = Ended(t, s)
  PROVE  /\ state' \in [Tasks -> States] /\ state'[t] = s
         /\ \A u \in Tasks : u # t => \/ state'[u] = state[u]
                                      \/ state[u] = "waiting" /\ state'[u] = "scheduled" /\ prev[u] = t
         /\ \A u \in Tasks : u # t => (state[u] = "waiting" /\ prev[u] = t => state'[u] = "scheduled")
BY DEF Types, Ended, States

\* What the main thread does besides performing: it goes from one place outside perform() to
\* another, and may take the last task of its context away in the end.
LEMMA MainLooks ==
  ASSUME Types, TestExit \/ TestValid \/ TestReady \/ Wait \/ EndWait \/ Take
  PROVE  /\ UNCHANGED <<script, mutex, last, prev, state, todo, came>>
         /\ at[MainThread] \notin Performing \cup {"over"}
         /\ \E p \in Places \ (Performing \cup {"idle"}) :
              /\ Go(MainThread, p)
              /\ UNCHANGED valid \/ (p = "over" /\ valid' = [valid EXCEPT ![MainContext] = FALSE])
<1> USE DEF InMain, MainGoes, Go, Places, Performing
<1>1. CASE TestExit
  BY <1>1 DEF TestExit
<1>2. CASE TestValid
  BY <1>2 DEF TestValid
<1>3. CASE TestReady
  BY <1>3 DEF TestReady, Look
<1>4. CASE Wait
  BY <1>4 DEF Wait, Look
<1>5. CASE EndWait
  BY <1>5 DEF EndWait
<1>6. CASE Take
  BY <1>6 DEF Take
<1> QED
  BY <1>1, <1>2, <1>3, <1>4, <1>5, <1>6

\* The end of a task's function, whatever it ends with, and whether it leaves perform() so.
LEMMA EndKeeps ==
  ASSUME Types, CallsLeft, FreshUntilMade, RunningIsSomewhere, ValidOrReplaced,
         NEW t \in Tasks, NEW s \in {"completed", "canceled"}, state' = Ended(t, s), Go(t, "idle"),
         at[t] \in {"body", "cancel", "then"}, mutex' \in [Contexts -> {0, 1}],
         UNCHANGED <<script, valid, last, prev, todo, came>>
  PROVE  Types' /\ CallsLeft' /\ FreshUntilMade' /\ RunningIsSomewhere' /\ ValidOrReplaced'
<1>1. t \in Actors /\ t # MainThread
  BY ScriptAssumption DEF Actors, ScriptAssumption
<1>2. state[t] = "running"
  BY DEF RunningIsSomewhere
<1>3. /\ state' \in [Tasks -> States] /\ state'[t] = s
      /\ \A u \in Tasks : u # t => \/ state'[u] = state[u]
                                   \/ state[u] = "waiting" /\ state'[u] = "scheduled"
  BY EndedTasks
<1>4. at' = [at EXCEPT ![t] = "idle"] /\ at' \in [Actors -> Places]
  BY DEF Go, Types, Places
<1>5. Types'
  BY <1>3, <1>4 DEF Types
<1>6. CallsLeft'
  BY DEF CallsLeft, IsCall
<1>7. FreshUntilMade'
  <2>1. \A u \in Tasks : state[u] = "absent" => state'[u] = "absent"
    BY <1>2, <1>3
  <2> QED
    BY <1>1, <2>1, SameFresh
<1>8. RunningIsSomewhere'
  BY <1>3, <1>4 DEF RunningIsSomewhere, Types, Actors
<1>9. ValidOrReplaced'
  <2>1. \A a \in Actors : at[a] \in {"then complete", "assign"} => at'[a] = at[a] /\ Context(a)' = Context(a)
    BY <1>4 DEF Types, Context
  <2>2. InMain("over") => InMain("over")'
    BY <1>1, <1>4 DEF Types, InMain, Actors
  <2> QED
    BY <2>1, <2>2 DEF ValidOrReplaced
<1> QED
  BY <1>5, <1>6, <1>7, <1>8, <1>9

\* then() makes a task that was not there before, in the call of the actor that calls it.
LEMMA ThenKeeps ==
  ASSUME Types, CallsLeft, FreshUntilMade, RunningIsSomewhere, NEW a \in Actors, todo[a] # <<>>,
         NEW k \in 1..Len(New(a)), NEW p \in Tasks \cup {Empty}, Then(New(a)[k], p),
         NEW q \in {"then complete", "assign"}, Go(a, q), ~Made(a, 1, k),
         at[a] \in {"then", "then complete"}, q = "then complete" => k = 1,
         at[a] = "then complete" => k = 2,
         valid' \in [Contexts -> BOOLEAN], UNCHANGED <<script, mutex, last, todo>>
  PROVE  /\ Types' /\ CallsLeft' /\ FreshUntilMade' /\ RunningIsSomewhere'
         /\ state[New(a)[k]] = "absent"
<1> DEFINE t == New(a)[k]
<1>1. t \in Tasks /\ state[t] = "absent" /\ New(a) = todo[a][1] /\ 1 \in 1..Len(todo[a])
      /\ New(a) \in Seq(Tasks)
  <2>1. New(a) \in Seq(Tasks) /\ New(a) = todo[a][1] /\ 1 \in 1..Len(todo[a])
    BY CallType
  <2>2. t \in Tasks
    BY <2>1, ElementOfSeq
  <2> QED
    BY <2>1, <2>2 DEF FreshUntilMade
<1> HIDE DEF t
<1>2. /\ prev' = [prev EXCEPT ![t] = p] /\ came' = Append(came, t)
      /\ state' = [state EXCEPT ![t] = WhenChained(t, p)]
      /\ WhenChained(t, p) \in {"scheduled", "waiting"}
  BY DEF Then, WhenChained, t
<1>3. at' = [at EXCEPT ![a] = q] /\ at' \in [Actors -> Places]
  BY DEF Go, Types, Places, Performing
<1>4. Types'
  <2>1. came' \in Seq(Tasks)
    BY <1>1, <1>2, AppendProperties DEF Types
  <2> QED
    BY <1>1, <1>2, <1>3, <2>1 DEF Types, States
<1>5. CallsLeft'
  BY DEF CallsLeft, IsCall
<1>6. FreshUntilMade'
  <2> SUFFICES ASSUME NEW b \in Actors, NEW i \in 1..Len(todo[b]), NEW l \in 1..Len(todo[b][i]),
                      ~Made(b, i, l)'
               PROVE  state'[todo[b][i][l]] = "absent"
    BY DEF FreshUntilMade
  <2>1. todo[b] \in Seq(Seq(Tasks)) /\ todo[b][i] \in Seq(Tasks) /\ todo[b][i][l] \in Tasks
    <3>1. todo[b] \in Seq(Seq(Tasks))
      BY DEF Types
    <3>2. todo[b][i] \in Seq(Tasks)
      BY <3>1, ElementOfSeq
    <3> QED
      BY <3>1, <3>2, ElementOfSeq
  <2>2. ~Made(b, i, l)
    BY <1>3 DEF Made, Types
  <2>3. state[todo[b][i][l]] = "absent"
    BY <2>2 DEF FreshUntilMade
  <2>4. ~(b = a /\ i = 1 /\ l = k)
    <3>1. CASE q = "assign"
      BY <1>3, <3>1 DEF Made, Types
    <3>2. CASE q = "then complete"
      BY <1>3, <3>2 DEF Made, Types
    <3> QED
      BY <3>1, <3>2
  <2>5. todo[b][i][l] # t
    <3>1. i \in DOMAIN todo[b] /\ l \in DOMAIN todo[b][i]
      BY <2>1, LenProperties
    <3>2. 1 \in DOMAIN todo[a] /\ k \in DOMAIN todo[a][1] /\ t = todo[a][1][k]
      <4>1. todo[a] \in Seq(Seq(Tasks)) /\ todo[a][1] \in Seq(Tasks)
        BY <1>1 DEF Types
      <4> QED
        BY <1>1, <4>1, LenProperties DEF t
    <3>3. todo[b][i][l] = todo[a][1][k] => b = a /\ i = 1 /\ l = k
      <4>1. Once(todo)
        BY DEF CallsLeft
      <4>2. \A c \in Actors : \A j \in DOMAIN todo[b], m \in DOMAIN todo[c] :
              \A x \in DOMAIN todo[b][j], y \in DOMAIN todo[c][m] :
                todo[b][j][x] = todo[c][m][y] => b = c /\ j = m /\ x = y
        BY <4>1, Zenon DEF Once
      <4>3. \A m \in DOMAIN todo[a] : \A y \in DOMAIN todo[a][m] :
              todo[b][i][l] = todo[a][m][y] => b = a /\ i = m /\ l = y
        BY <3>1, <4>2, Zenon
      <4> QED
        BY <3>2, <4>3, Zenon
    <3> QED
      BY <3>2, <3>3, <2>4
  <2> QED
    BY <2>1, <2>3, <2>5, <1>1, <1>2 DEF Types
<1>7. RunningIsSomewhere'
  <2>1. \A u \in Tasks : at'[u] = "idle" <=> at[u] = "idle"
    BY <1>3 DEF Types, Actors
  <2>2. \A u \in Tasks : state'[u] = "running" <=> state[u] = "running"
    BY <1>1, <1>2 DEF Types
  <2> QED
    BY <2>1, <2>2 DEF RunningIsSomewhere
<1> QED
  BY <1>1, <1>4, <1>5, <1>6, <1>7 DEF t

\* Every step keeps who is where and the lock.
LEMMA NextLived == Lived /\ ValidOrReplaced /\ [Next]_vars => Lived' /\ ValidOrReplaced'
<1> SUFFICES ASSUME Types, CallsLeft, FreshUntilMade, RunningIsSomewhere, LockExcludes,
                    ValidOrReplaced, [Next]_vars
             PROVE  Lived' /\ ValidOrReplaced'
  BY DEF Lived
<1>a. MainThread \in Actors /\ Tasks \subseteq Actors /\ MainThread \notin Tasks /\ MainContext \in Contexts
  BY ScriptAssumption DEF Actors, ScriptAssumption
<1>1. ASSUME NEW a \in Actors, Lock(a) PROVE Lived' /\ ValidOrReplaced'
  <2>1. /\ at[a] = "body" /\ todo[a] # <<>> /\ mutex[Context(a)] = 0 /\ Go(a, "then")
        /\ mutex' = [mutex EXCEPT ![Context(a)] = 1]
        /\ UNCHANGED <<script, valid, last, prev, state, todo, came>>
    BY <1>1 DEF Lock
  <2>2. at' = [at EXCEPT ![a] = "then"] /\ at' \in [Actors -> Places] /\ Context(a) \in Contexts
    BY <2>1, CallType DEF Go, Types, Places, Performing
  <2>3. Types'
    BY <2>1, <2>2 DEF Types
  <2>4. CallsLeft'
    BY <2>1 DEF CallsLeft, IsCall
  <2>5. FreshUntilMade'
    BY <2>1, SameFresh
  <2>6. RunningIsSomewhere'
    BY <2>1, <2>2 DEF RunningIsSomewhere, Types, Actors
  <2>7. LockExcludes'
    <3>1. \A b \in Actors : Context(b)' = Context(b)
      BY <2>1 DEF Context
    <3>2. \A b \in Actors : b # a => at'[b] = at[b]
      BY <2>2 DEF Types
    <3>3. ASSUME NEW b \in Actors, at[b] \in Performing
          PROVE  /\ todo[b] # <<>> /\ mutex[Context(b)] = 1
                 /\ Context(b) # Context(a) /\ Context(b) \in Contexts
      <4>1. todo[b] # <<>> /\ mutex[Context(b)] = 1
        BY <3>3 DEF LockExcludes
      <4> QED
        BY <2>1, <4>1, CallType
    <3>4. ASSUME NEW b \in Actors, at'[b] \in Performing
          PROVE  todo'[b] # <<>> /\ mutex'[Context(b)'] = 1
      <4>1. CASE b = a
        BY <2>1, <2>2, <3>1, <4>1 DEF Types
      <4>2. CASE b # a
        BY <2>1, <3>1, <3>2, <3>3, <3>4, <4>2 DEF Types
      <4> QED
        BY <4>1, <4>2
    <3>5. ASSUME NEW b \in Actors, NEW c \in Actors,
                 at'[b] \in Performing, at'[c] \in Performing, Context(b)' = Context(c)'
          PROVE  b = c
      <4>1. Context(b) = Context(c)
        BY <3>1, <3>5
      <4>2. (b # a => at[b] \in Performing) /\ (c # a => at[c] \in Performing)
        BY <3>2, <3>5
      <4> QED
        BY <3>3, <4>1, <4>2 DEF LockExcludes
    <3>6. ASSUME NEW c \in Contexts, mutex'[c] = 1
          PROVE  \E b \in Actors : at'[b] \in Performing /\ Context(b)' = c
      <4>1. CASE c = Context(a)
        BY <2>2, <3>1, <4>1 DEF Performing, Types
      <4>2. CASE c # Context(a)
        <5>1. mutex[c] = 1
          BY <2>1, <3>6, <4>2 DEF Types
        <5>2. PICK b \in Actors : at[b] \in Performing /\ Context(b) = c
          BY <5>1 DEF LockExcludes
        <5> QED
          BY <3>1, <3>2, <4>2, <5>2
      <4> QED
        BY <4>1, <4>2
    <3>7. \A b \in Actors : at'[b] = "then complete" => Len(Head(todo'[b])) = 2
      BY <2>1, <2>2, <3>2 DEF LockExcludes, Types
    <3> QED
      BY <3>4, <3>5, <3>6, <3>7 DEF LockExcludes
  <2>8. ValidOrReplaced'
    <3>1. \A b \in Actors : at[b] \in {"then complete", "assign"} => at'[b] = at[b] /\ Context(b)' = Context(b)
      BY <2>1, <2>2 DEF Types, Context
    <3>2. InMain("over") => InMain("over")'
      BY <2>1, <2>2 DEF Types, InMain
    <3> QED
      BY <2>1, <3>1, <3>2 DEF ValidOrReplaced
  <2> QED
    BY <2>3, <2>4, <2>5, <2>6, <2>7, <2>8 DEF Lived
<1>2. ASSUME NEW a \in Actors, Chain(a) PROVE Lived' /\ ValidOrReplaced'
  <2> DEFINE q == IF Len(Head(todo[a])) = 1 THEN "assign" ELSE "then complete"
  <2>1. /\ at[a] = "then" /\ valid' = [valid EXCEPT ![Context(a)] = FALSE]
        /\ Then(Head(todo[a])[1], last[Context(a)]) /\ Go(a, q)
        /\ UNCHANGED <<script, mutex, last, todo>>
    BY <1>2 DEF Chain
  <2>2. todo[a] # <<>> /\ Context(a) \in Contexts /\ 1 \in 1..Len(New(a)) /\ Len(New(a)) \in 1..2
    <3>1. todo[a] # <<>>
      BY <2>1 DEF LockExcludes, Performing
    <3> QED
      BY <3>1, CallType
  <2>3. /\ q \in {"then complete", "assign"} /\ (q = "then complete" => Len(Head(todo[a])) = 2)
        /\ q \in Performing
    BY <2>2 DEF New, Performing
  <2> HIDE DEF q
  <2>4. Types' /\ CallsLeft' /\ FreshUntilMade' /\ RunningIsSomewhere'
    <3>1. ~Made(a, 1, 1)
      BY <2>1 DEF Made
    <3>2. last[Context(a)] \in Tasks \cup {Empty} /\ valid' \in [Contexts -> BOOLEAN]
      BY <2>1, <2>2 DEF Types
    <3>3. Then(New(a)[1], last[Context(a)])
      BY <2>1 DEF New
    <3> QED
      BY <2>1, <2>2, <2>3, <3>1, <3>2, <3>3, ThenKeeps
  <2>5. LockExcludes'
    BY <2>1, <2>3, LockKept DEF Performing
  <2>6. ValidOrReplaced'
    <3>1. \A b \in Actors : Context(b)' = Context(b)
      BY <2>1 DEF Context
    <3>2. at'[a] \in {"then complete", "assign"} /\ \A b \in Actors : b # a => at'[b] = at[b]
      BY <2>1, <2>3 DEF Types, Go
    <3>3. \A c \in Contexts : c # Context(a) => valid'[c] = valid[c]
      BY <2>1 DEF Types
    <3>4. InMain("over") => InMain("over")'
      BY <1>a, <2>1, <3>2 DEF InMain
    <3>5. ASSUME NEW c \in Contexts
          PROVE  \/ valid'[c] \/ (c = MainContext /\ InMain("over")')
                 \/ \E b \in Actors : at'[b] \in {"then complete", "assign"} /\ Context(b)' = c
      <4>1. CASE c = Context(a)
        BY <3>1, <3>2, <4>1
      <4>2. CASE c # Context(a) /\ (valid[c] \/ (c = MainContext /\ InMain("over")))
        BY <3>3, <3>4, <4>2
      <4>3. CASE \E b \in Actors : at[b] \in {"then complete", "assign"} /\ Context(b) = c
        BY <2>1, <3>1, <3>2, <4>3
      <4> QED
        BY <4>1, <4>2, <4>3 DEF ValidOrReplaced
    <3> QED
      BY <3>5 DEF ValidOrReplaced
  <2> QED
    BY <2>4, <2>5, <2>6 DEF Lived
<1>3. ASSUME NEW a \in Actors, ChainComplete(a) PROVE Lived' /\ ValidOrReplaced'
  <2>1. /\ at[a] = "then complete" /\ Then(Head(todo[a])[2], Head(todo[a])[1]) /\ Go(a, "assign")
        /\ UNCHANGED <<script, mutex, valid, last, todo>>
    BY <1>3 DEF ChainComplete
  <2>2. todo[a] # <<>> /\ Len(New(a)) = 2 /\ New(a)[1] \in Tasks
    <3>1. todo[a] # <<>> /\ Len(New(a)) = 2
      BY <2>1 DEF LockExcludes, Performing, New
    <3> QED
      BY <3>1, CallType
  <2>3. Types' /\ CallsLeft' /\ FreshUntilMade' /\ RunningIsSomewhere'
    <3>1. ~Made(a, 1, 2)
      <4>1. at[a] \notin {"assign", "unlock"}
        BY <2>1
      <4>2. ~(2 = 1)
        OBVIOUS
      <4> QED
        BY <4>1, <4>2, Zenon DEF Made
    <3>2. Then(New(a)[2], New(a)[1])
      BY <2>1, Zenon DEF New
    <3>3. 2 \in 1..Len(New(a))
      <4>1. Len(New(a)) = 2
        BY <2>2
      <4>2. 2 \in 1..2
        OBVIOUS
      <4> QED
        BY <4>1, <4>2, Zenon
    <3>4. valid' \in [Contexts -> BOOLEAN]
      BY <2>1 DEF Types
    <3> QED
      BY <2>1, <2>2, <3>1, <3>2, <3>3, <3>4, ThenKeeps
  <2>4. LockExcludes'
    BY <2>1, LockKept DEF Performing
  <2>5. ValidOrReplaced'
    <3>1. \A b \in Actors : Context(b)' = Context(b)
      BY <2>1 DEF Context
    <3>2. \A b \in Actors : at[b] \in {"then complete", "assign"} => at'[b] \in {"then complete", "assign"}
      BY <2>1 DEF Types, Go
    <3>3. InMain("over") => InMain("over")'
      BY <1>a, <2>1 DEF InMain, Types, Go
    <3> QED
      BY <2>1, <3>1, <3>2, <3>3 DEF ValidOrReplaced
  <2> QED
    BY <2>3, <2>4, <2>5 DEF Lived
<1>4. ASSUME NEW a \in Actors, Assign(a) PROVE Lived' /\ ValidOrReplaced'
  <2>1. /\ at[a] = "assign" /\ Go(a, "unlock")
        /\ last' = [last EXCEPT ![Context(a)] = New(a)[Len(New(a))]]
        /\ valid' = [valid EXCEPT ![Context(a)] = TRUE]
        /\ UNCHANGED <<script, mutex, prev, state, todo, came>>
    BY <1>4 DEF Assign, New
  <2>2. todo[a] # <<>> /\ Context(a) \in Contexts /\ New(a)[Len(New(a))] \in Tasks
    <3>1. todo[a] # <<>>
      BY <2>1 DEF LockExcludes, Performing
    <3> QED
      BY <3>1, CallType
  <2>3. at' = [at EXCEPT ![a] = "unlock"] /\ at' \in [Actors -> Places]
    BY <2>1 DEF Go, Types, Places, Performing
  <2>4. Types'
    BY <2>1, <2>2, <2>3 DEF Types
  <2>5. CallsLeft'
    BY <2>1 DEF CallsLeft, IsCall
  <2>6. FreshUntilMade'
    BY <2>1, SameFresh
  <2>7. RunningIsSomewhere'
    BY <2>1, <2>3 DEF RunningIsSomewhere, Types, Actors
  <2>8. LockExcludes'
    BY <2>1, LockKept DEF Performing
  <2>9. ValidOrReplaced'
    <3>1. \A b \in Actors : Context(b)' = Context(b)
      BY <2>1 DEF Context
    <3>2. /\ \A b \in Actors : b # a => at'[b] = at[b]
          /\ valid'[Context(a)] /\ \A c \in Contexts : c # Context(a) => valid'[c] = valid[c]
      BY <2>1, <2>2, <2>3 DEF Types
    <3>3. InMain("over") => InMain("over")'
      BY <1>a, <2>1, <2>3 DEF InMain, Types
    <3>4. ASSUME NEW c \in Contexts
          PROVE  \/ valid'[c] \/ (c = MainContext /\ InMain("over")')
                 \/ \E b \in Actors : at'[b] \in {"then complete", "assign"} /\ Context(b)' = c
      <4>1. CASE c = Context(a)
        BY <3>2, <4>1
      <4>2. CASE c # Context(a) /\ (valid[c] \/ (c = MainContext /\ InMain("over")))
        BY <3>2, <3>3, <4>2
      <4>3. CASE c # Context(a) /\ \E b \in Actors : at[b] \in {"then complete", "assign"} /\ Context(b) = c
        BY <3>1, <3>2, <4>3
      <4> QED
        BY <4>1, <4>2, <4>3 DEF ValidOrReplaced
    <3> QED
      BY <3>4 DEF ValidOrReplaced
  <2> QED
    BY <2>4, <2>5, <2>6, <2>7, <2>8, <2>9 DEF Lived
<1>5. ASSUME NEW a \in Actors, Unlock(a) PROVE Lived' /\ ValidOrReplaced'
  <2>1. /\ at[a] = "unlock" /\ Go(a, "body") /\ todo' = [todo EXCEPT ![a] = Tail(@)]
        /\ mutex' = [mutex EXCEPT ![Context(a)] = 0]
        /\ UNCHANGED <<script, valid, last, prev, state, came>>
    BY <1>5 DEF Unlock
  <2>2. todo[a] # <<>> /\ Context(a) \in Contexts
    <3>1. todo[a] # <<>>
      BY <2>1 DEF LockExcludes, Performing
    <3> QED
      BY <3>1, CallType
  <2>3. at' = [at EXCEPT ![a] = "body"] /\ at' \in [Actors -> Places]
    BY <2>1 DEF Go, Types, Places
  <2>4. /\ todo' \in [Actors -> Seq(Seq(Tasks))]
        /\ \A b \in Actors : b # a => todo'[b] = todo[b]
        /\ \A i \in 1..Len(todo'[a]) : i + 1 \in 1..Len(todo[a]) /\ todo'[a][i] = todo[a][i + 1]
    BY <2>1, <2>2, TailOfCalls
  <2>5. Types'
    BY <2>1, <2>2, <2>3, <2>4 DEF Types
  <2>6. CallsLeft'
    BY <2>1, <2>2, CallsLeftAfterOne
  <2>7. FreshUntilMade'
    <3> SUFFICES ASSUME NEW b \in Actors, NEW i \in 1..Len(todo'[b]), NEW k \in 1..Len(todo'[b][i]),
                        ~Made(b, i, k)'
                 PROVE  state'[todo'[b][i][k]] = "absent"
      BY DEF FreshUntilMade
    <3>1. CASE b = a
      <4>1. i + 1 \in 1..Len(todo[a]) /\ todo'[a][i] = todo[a][i + 1] /\ i \in Nat \ {0}
        BY <2>4, <3>1
      <4>2. ~Made(a, i + 1, k)
        <5>1. i + 1 # 1
          BY <4>1
        <5> QED
          BY <5>1, Zenon DEF Made
      <4>3. k \in 1..Len(todo[a][i + 1])
        BY <3>1, <4>1
      <4>4. state[todo[a][i + 1][k]] = "absent"
        BY <4>1, <4>2, <4>3, Zenon DEF FreshUntilMade
      <4> QED
        BY <2>1, <3>1, <4>1, <4>4
    <3>2. CASE b # a
      <4>1. todo'[b] = todo[b] /\ ~Made(b, i, k)
        BY <2>3, <2>4, <3>2 DEF Made, Types
      <4>2. i \in 1..Len(todo[b]) /\ k \in 1..Len(todo[b][i])
        BY <4>1
      <4>3. state[todo[b][i][k]] = "absent"
        BY <4>1, <4>2, Zenon DEF FreshUntilMade
      <4> QED
        BY <2>1, <4>1, <4>3
    <3> QED
      BY <3>1, <3>2
  <2>8. RunningIsSomewhere'
    BY <2>1, <2>3 DEF RunningIsSomewhere, Types, Actors
  <2>9. LockExcludes'
    BY <2>1, <2>4, LockReleased DEF Performing
  <2>10. ValidOrReplaced'
    <3>1. \A b \in Actors : at[b] \in {"then complete", "assign"} => at'[b] = at[b] /\ Context(b)' = Context(b)
      BY <2>1, <2>3, <2>4 DEF Types, Context
    <3>2. InMain("over") => InMain("over")'
      BY <2>1, <2>3 DEF Types, InMain
    <3> QED
      BY <2>1, <3>1, <3>2 DEF ValidOrReplaced
  <2> QED
    BY <2>5, <2>6, <2>7, <2>8, <2>9, <2>10 DEF Lived
<1>6. ASSUME NEW a \in Actors, ThrowEmpty(a) PROVE Lived' /\ ValidOrReplaced'
  <2>1. /\ at[a] = "then" /\ mutex' = [mutex EXCEPT ![Context(a)] = 0]
        /\ UNCHANGED <<script, valid, last, prev, todo, came>>
    BY <1>6 DEF ThrowEmpty
  <2>2. mutex' \in [Contexts -> {0, 1}]
    BY <2>1 DEF Types
  <2>3. CASE a = MainThread
    <3>1. Go(a, "terminated") /\ UNCHANGED state
      BY <1>6, <2>3 DEF ThrowEmpty
    <3>2. at' = [at EXCEPT ![a] = "terminated"] /\ at' \in [Actors -> Places]
      BY <3>1 DEF Go, Types, Places
    <3>3. Types'
      BY <2>1, <2>2, <3>1, <3>2 DEF Types
    <3>4. CallsLeft'
      BY <2>1 DEF CallsLeft, IsCall
    <3>5. FreshUntilMade'
      BY <2>1, <3>1, SameFresh
    <3>6. RunningIsSomewhere'
      BY <1>a, <2>3, <3>1, <3>2 DEF RunningIsSomewhere, Types
    <3>7. LockExcludes'
      BY <2>1, <3>1, LockReleased DEF Performing
    <3>8. ValidOrReplaced'
      <4>1. \A b \in Actors : at[b] \in {"then complete", "assign"} => at'[b] = at[b] /\ Context(b)' = Context(b)
        BY <2>1, <3>2 DEF Types, Context
      <4>2. InMain("over") => InMain("over")'
        BY <2>1, <2>3, <3>2 DEF Types, InMain
      <4> QED
        BY <2>1, <4>1, <4>2 DEF ValidOrReplaced
    <3> QED
      BY <3>3, <3>4, <3>5, <3>6, <3>7, <3>8 DEF Lived
  <2>4. CASE a # MainThread
    <3>1. Go(a, "idle") /\ state' = Ended(a, "canceled") /\ a \in Tasks
      BY <1>6, <2>4 DEF ThrowEmpty, Actors
    <3>2. Types' /\ CallsLeft' /\ FreshUntilMade' /\ RunningIsSomewhere' /\ ValidOrReplaced'
      BY <2>1, <2>2, <3>1, EndKeeps
    <3>3. LockExcludes'
      BY <2>1, <3>1, LockReleased DEF Performing
    <3> QED
      BY <3>2, <3>3 DEF Lived
  <2> QED
    BY <2>3, <2>4
<1>7. ASSUME NEW t \in Tasks, Begin(t) PROVE Lived' /\ ValidOrReplaced'
  <2>1. /\ state[t] = "scheduled" /\ state' = [state EXCEPT ![t] = "running"]
        /\ UNCHANGED <<script, mutex, valid, last, prev, todo, came>>
    BY <1>7 DEF Begin
  <2>2. PICK p \in {"cancel", "body"} : Go(t, p)
    BY <1>7, Zenon DEF Begin
  <2>3. at[t] = "idle" /\ t \in Actors
    BY <1>a, <2>1 DEF RunningIsSomewhere
  <2>4. at' = [at EXCEPT ![t] = p] /\ at' \in [Actors -> Places]
    BY <2>2 DEF Go, Types, Places
  <2>5. Types'
    BY <2>1, <2>4 DEF Types, States
  <2>6. CallsLeft'
    BY <2>1 DEF CallsLeft, IsCall
  <2>7. FreshUntilMade'
    <3>1. \A u \in Tasks : state[u] = "absent" => state'[u] = "absent"
      BY <2>1 DEF Types
    <3> QED
      BY <2>1, <2>2, <2>3, <3>1, SameFresh
  <2>8. RunningIsSomewhere'
    BY <1>a, <2>1, <2>4 DEF RunningIsSomewhere, Types
  <2>9. LockExcludes'
    BY <2>1, <2>2, <2>3, SameLock DEF Performing
  <2>10. ValidOrReplaced'
    <3>1. \A b \in Actors : at[b] \in {"then complete", "assign"} => at'[b] = at[b] /\ Context(b)' = Context(b)
      BY <2>1, <2>3, <2>4 DEF Types, Context
    <3>2. InMain("over") => InMain("over")'
      BY <1>a, <2>4 DEF Types, InMain
    <3> QED
      BY <2>1, <3>1, <3>2 DEF ValidOrReplaced
  <2> QED
    BY <2>5, <2>6, <2>7, <2>8, <2>9, <2>10 DEF Lived
<1>8. ASSUME NEW t \in Tasks, Cancel(t) \/ Complete(t) PROVE Lived' /\ ValidOrReplaced'
  <2>1. /\ at[t] \in {"cancel", "body"} /\ Go(t, "idle")
        /\ UNCHANGED <<script, mutex, valid, last, prev, todo, came>>
    BY <1>8 DEF Cancel, Complete
  <2>2. PICK s \in {"completed", "canceled"} : state' = Ended(t, s)
    BY <1>8 DEF Cancel, Complete
  <2>3. Types' /\ CallsLeft' /\ FreshUntilMade' /\ RunningIsSomewhere' /\ ValidOrReplaced'
    <3>1. mutex' \in [Contexts -> {0, 1}]
      BY <2>1 DEF Types
    <3> QED
      BY <2>1, <2>2, <3>1, EndKeeps
  <2>4. LockExcludes'
    BY <1>a, <2>1, SameLock DEF Performing
  <2> QED
    BY <2>3, <2>4 DEF Lived
<1>9. ASSUME TestExit \/ TestValid \/ TestReady \/ Wait \/ EndWait \/ Take
      PROVE  Lived' /\ ValidOrReplaced'
  <2>1. /\ UNCHANGED <<script, mutex, last, prev, state, todo, came>>
        /\ at[MainThread] \notin Performing \cup {"over"}
    BY <1>9, MainLooks
  <2>2. PICK p \in Places \ (Performing \cup {"idle"}) :
          /\ Go(MainThread, p)
          /\ UNCHANGED valid \/ (p = "over" /\ valid' = [valid EXCEPT ![MainContext] = FALSE])
    BY <1>9, MainLooks
  <2>3. at' = [at EXCEPT ![MainThread] = p] /\ at' \in [Actors -> Places]
    BY <2>2 DEF Go, Types
  <2>4. valid' \in [Contexts -> BOOLEAN] /\ \A c \in Contexts : valid'[c] = valid[c] \/ (c = MainContext /\ p = "over")
    BY <2>2 DEF Types
  <2>5. Types'
    BY <2>1, <2>3, <2>4 DEF Types
  <2>6. CallsLeft'
    BY <2>1 DEF CallsLeft, IsCall
  <2>7. FreshUntilMade'
    BY <1>a, <2>1, <2>2, SameFresh DEF Performing
  <2>8. RunningIsSomewhere'
    BY <1>a, <2>1, <2>3 DEF RunningIsSomewhere, Types, Actors
  <2>9. LockExcludes'
    BY <1>a, <2>1, <2>2, SameLock
  <2>10. ValidOrReplaced'
    <3>1. \A b \in Actors : at[b] \in {"then complete", "assign"} => at'[b] = at[b] /\ Context(b)' = Context(b)
      BY <2>1, <2>3 DEF Types, Context, Performing
    <3>2. ~InMain("over") /\ (p = "over" => InMain("over")')
      BY <1>a, <2>1, <2>3 DEF Types, InMain
    <3> QED
      BY <2>4, <3>1, <3>2 DEF ValidOrReplaced
  <2> QED
    BY <2>5, <2>6, <2>7, <2>8, <2>9, <2>10 DEF Lived
<1>10. CASE UNCHANGED vars
  <2>1. UNCHANGED <<script, mutex, valid, last, prev, state, at, todo, came>>
    BY <1>10 DEF vars
  <2>2. \A b \in Actors : Context(b)' = Context(b)
    BY <2>1 DEF Context
  <2>3. Types' /\ CallsLeft' /\ RunningIsSomewhere'
    BY <2>1 DEF Types, CallsLeft, IsCall, RunningIsSomewhere
  <2>4. FreshUntilMade'
    BY <2>1 DEF FreshUntilMade, Made
  <2>5. LockExcludes'
    BY <2>1 DEF LockExcludes, Context
  <2>6. ValidOrReplaced'
    BY <2>1, <2>2 DEF ValidOrReplaced, InMain
  <2> QED
    BY <2>3, <2>4, <2>5, <2>6 DEF Lived
<1> QED
  BY <1>a, <1>1, <1>2, <1>3, <1>4, <1>5, <1>6, <1>7, <1>8, <1>9, <1>10
  DEF Next, Run, Main, Perform

\* The lock is 1 exactly while one actor has it.
LEMMA LivedGivesTypeOK == Lived /\ ValidOrReplaced => TypeOK
<1> SUFFICES ASSUME Lived, ValidOrReplaced PROVE TypeOK
  OBVIOUS
<1> USE DEF Lived
<1>1. ASSUME NEW c \in Contexts PROVE mutex[c] = Cardinality(Holders(c))
  <2>1. \A a \in Actors : a \in Holders(c) <=> at[a] \in Performing /\ Context(a) = c
    BY DEF Holders, Performing
  <2>2. CASE mutex[c] = 1
    <3>1. PICK a \in Actors : at[a] \in Performing /\ Context(a) = c
      BY <2>2 DEF LockExcludes
    <3>2. \A b \in Actors : at[b] \in Performing /\ Context(b) = c => b = a
      BY <3>1 DEF LockExcludes
    <3>3. Holders(c) = {a}
      <4>1. Holders(c) \subseteq Actors
        BY DEF Holders
      <4> QED
        BY <2>1, <3>1, <3>2, <4>1
    <3> QED
      BY <2>2, <3>3, FS_Singleton
  <2>3. CASE mutex[c] = 0
    <3>1. ASSUME NEW a \in Actors, at[a] \in Performing, Context(a) = c PROVE FALSE
      <4>1. mutex[Context(a)] = 1
        BY <3>1 DEF LockExcludes
      <4> QED
        BY <2>3, <3>1, <4>1
    <3>2. Holders(c) = {}
      <4>1. Holders(c) \subseteq Actors
        BY DEF Holders
      <4> QED
        BY <2>1, <3>1, <4>1
    <3> QED
      BY <2>3, <3>2, FS_EmptySet
  <2> QED
    BY <2>2, <2>3 DEF Types
<1>2. ASSUME NEW c \in Contexts
      PROVE  \/ valid[c] \/ (\E a \in Holders(c) : at[a] \in {"then complete", "assign"})
             \/ (c = MainContext /\ InMain("over"))
  BY <1>2 DEF ValidOrReplaced, Holders
<1>3. \A t \in Tasks : state[t] \in {"absent", "waiting", "scheduled", "running", "completed", "canceled"}
  BY DEF Types, States
<1> QED
  BY <1>1, <1>2, <1>3 DEF TypeOK

\* Who is where, and the lock, at every moment.
LEMMA LivedAlways == Spec => [](Lived /\ ValidOrReplaced)
BY InitLived, NextLived, PTL DEF Spec

\* SpinMutexAdvanced excludes, whatever the threads and the tasks perform; a context is
\* without a last task only while perform() holds the lock, or after the main thread's get().
THEOREM LockExcludesAlways == Spec => []TypeOK
BY LivedAlways, LivedGivesTypeOK, PTL
-------------------------------------------------------------------------------
\* The tasks that were chained are those that exist, each once.
CameOnce ==
  /\ \A t \in Tasks : state[t] # "absent" <=> \E i \in 1..Len(came) : came[i] = t
  /\ \A i, j \in 1..Len(came) : came[i] = came[j] => i = j

Of(c) == {i \in 1..Len(came) : script.context[came[i]] = c}

\* No task of context c came after t.
Newest(t, c) ==
  \A j \in Of(c) : \E p \in Of(c) : j <= p /\ came[p] = t

LastIsNewest ==
  /\ \A a \in Actors : at[a] = "then complete" => Newest(Head(todo[a])[1], Context(a))
  /\ \A a \in Actors :
       at[a] = "assign" => Newest(Head(todo[a])[Len(Head(todo[a]))], Context(a))
  /\ \A c \in Contexts :
       \/ \E a \in Actors : at[a] \in {"then complete", "assign"} /\ Context(a) = c
       \/ Newest(last[c], c)

\* A task follows the one of its context that came before it.
FollowsPrevious ==
  \A c \in Contexts : \A i, j \in Of(c) :
    j < i => \E p \in Of(c) : j <= p /\ p < i /\ came[p] = prev[came[i]]

\* A task waits while one of its context that came before it has not finished.
OneAfterTheOther ==
  \A c \in Contexts : \A i, j \in Of(c) :
    j < i /\ state[came[i]] # "waiting" => state[came[j]] \in {"completed", "canceled"}

Ordered == CameOnce /\ LastIsNewest /\ FollowsPrevious /\ OneAfterTheOther

\* Nothing has come at first.
LEMMA InitOrdered == Init => Ordered
<1> SUFFICES ASSUME Init PROVE Ordered
  OBVIOUS
<1>1. came = <<>> /\ Len(came) = 0 /\ \A t \in Tasks : state[t] = "absent"
  BY DEF Init
<1>2. 1..Len(came) = {}
  BY <1>1
<1>3. CameOnce
  BY <1>1, <1>2 DEF CameOnce
<1>4. \A c : Of(c) = {}
  BY <1>2 DEF Of
<1>5. LastIsNewest /\ FollowsPrevious /\ OneAfterTheOther
  BY <1>4 DEF LastIsNewest, Newest, FollowsPrevious, OneAfterTheOther
<1> QED
  BY <1>3, <1>5 DEF Ordered

\* A task that is chained to the newest one of its context is the newest itself, it follows
\* that one, and it does not wait only if all of its context have finished.
LEMMA ThenOrders ==
  ASSUME Types, CameOnce, FollowsPrevious, OneAfterTheOther, NEW t \in Tasks,
         NEW p \in Tasks \cup {Empty}, NEW c, c = script.context[t], state[t] = "absent",
         Newest(p, c), Then(t, p), UNCHANGED script
  PROVE  /\ CameOnce' /\ FollowsPrevious' /\ OneAfterTheOther' /\ Newest(t, c)'
         /\ \A d : d # c => Of(d)' = Of(d) /\ \A x : Newest(x, d) => Newest(x, d)'
<1> DEFINE n == Len(came) + 1
<1>1. /\ came' \in Seq(Tasks) /\ Len(came') = n /\ came'[n] = t /\ Len(came) \in Nat
      /\ \A i \in 1..Len(came) : came'[i] = came[i] /\ came[i] \in Tasks
  BY DEF Then, Types
<1>2. \A i \in 1..Len(came') : i \in 1..Len(came) \/ i = n
  BY <1>1
<1>3. \A i \in 1..Len(came) : came[i] # t /\ i < n /\ i \in 1..Len(came')
  BY <1>1 DEF CameOnce
<1>n. n \in 1..Len(came') /\ n \in Nat
  BY <1>1
<1>4. /\ prev'[t] = p /\ state'[t] = WhenChained(t, p)
      /\ \A u \in Tasks : u # t => prev'[u] = prev[u] /\ state'[u] = state[u]
  BY DEF Then, Types
<1>5. state'[t] \in {"scheduled", "waiting"}
  BY <1>4 DEF WhenChained
<1> HIDE DEF n
<1>6. CameOnce'
  <2>1. ASSUME NEW u \in Tasks PROVE state'[u] # "absent" <=> \E i \in 1..Len(came') : came'[i] = u
    <3>1. CASE u = t
      BY <1>1, <1>n, <1>5, <3>1
    <3>2. CASE u # t
      BY <1>1, <1>2, <1>3, <1>4, <3>2 DEF CameOnce
    <3> QED
      BY <3>1, <3>2
  <2>2. \A i, j \in 1..Len(came') : came'[i] = came'[j] => i = j
    BY <1>1, <1>2, <1>3 DEF CameOnce
  <2> QED
    BY <2>1, <2>2 DEF CameOnce
<1>7. Of(c)' = Of(c) \cup {n}
  BY <1>1, <1>2, <1>3, <1>n DEF Of
<1>8. \A d : d # c => Of(d)' = Of(d)
  BY <1>1, <1>2, <1>3, <1>n DEF Of
<1>9. \A d : Of(d) \subseteq 1..Len(came)
  BY DEF Of
<1>10. ASSUME NEW j \in Of(c) PROVE \E q \in Of(c) : j <= q /\ came[q] = p /\ q < n
  BY <1>3, <1>9 DEF Newest
<1>11. Newest(t, c)'
  <2>1. ASSUME NEW j \in Of(c)' PROVE j <= n
    BY <1>1, <1>3, <1>7, <1>9, <1>n
  <2> QED
    BY <1>1, <1>7, <2>1 DEF Newest
<1>12. ASSUME NEW d, d # c, NEW x, Newest(x, d) PROVE Newest(x, d)'
  <2>1. Of(d)' = Of(d)
    BY <1>8, <1>12
  <2> QED
    BY <1>1, <1>9, <1>12, <2>1 DEF Newest
<1>13. ASSUME NEW d \in Contexts, NEW i \in Of(d)', NEW j \in Of(d)', j < i
       PROVE  /\ \E q \in Of(d)' : j <= q /\ q < i /\ came'[q] = prev'[came'[i]]
              /\ state'[came'[i]] # "waiting" => state'[came'[j]] \in {"completed", "canceled"}
  <2>1. CASE i \in Of(d)
    <3>1. j \in Of(d)
      <4>1. i < n /\ i \in Nat
        BY <1>1, <1>3, <1>9, <2>1
      <4>2. j # n
        BY <1>13, <1>n, <4>1
      <4> QED
        BY <1>7, <1>8, <4>2
    <3>2. /\ came'[i] = came[i] /\ came'[j] = came[j] /\ came[i] # t /\ came[j] # t
          /\ came[i] \in Tasks /\ came[j] \in Tasks
      BY <1>1, <1>3, <1>9, <2>1, <3>1
    <3>3. PICK q \in Of(d) : j <= q /\ q < i /\ came[q] = prev[came[i]]
      BY <1>13, <2>1, <3>1 DEF FollowsPrevious
    <3>4. q \in Of(d)' /\ came'[q] = came[q]
      BY <1>1, <1>7, <1>8, <1>9
    <3>5. state[came[i]] # "waiting" => state[came[j]] \in {"completed", "canceled"}
      BY <1>13, <2>1, <3>1 DEF OneAfterTheOther
    <3> QED
      BY <1>4, <3>2, <3>3, <3>4, <3>5
  <2>2. CASE i \notin Of(d)
    <3>1. i = n /\ d = c /\ j \in Of(c)
      BY <1>7, <1>8, <1>13, <2>2, <1>n
    <3>2. PICK q \in Of(c) : j <= q /\ came[q] = p /\ q < n
      BY <1>10, <3>1
    <3>3. /\ came'[i] = t /\ came'[j] = came[j] /\ came[j] # t /\ came[j] \in Tasks
          /\ came'[q] = p /\ q \in Of(d)' /\ p \in Tasks
      BY <1>1, <1>3, <1>7, <1>9, <3>1, <3>2
    <3>4. ASSUME state'[came'[i]] # "waiting" PROVE state'[came'[j]] \in {"completed", "canceled"}
      <4>1. Finished(p)
        BY <1>4, <3>3, <3>4 DEF WhenChained
      <4>2. state[p] \in {"completed", "canceled"}
        BY <3>3, <4>1, ScriptAssumption DEF Finished, In, ScriptAssumption
      <4>3. CASE j = q
        BY <1>4, <3>2, <3>3, <4>2, <4>3
      <4>4. CASE j < q
        <5>1. state[came[j]] \in {"completed", "canceled"}
          BY <3>1, <3>2, <4>2, <4>4, <1>13 DEF OneAfterTheOther
        <5> QED
          BY <1>4, <3>3, <5>1
      <4>5. j \in Nat /\ q \in Nat
        BY <1>1, <1>9, <3>1, <3>2
      <4> QED
        BY <3>2, <4>3, <4>4, <4>5
    <3> QED
      BY <1>4, <3>1, <3>2, <3>3, <3>4
  <2> QED
    BY <2>1, <2>2
<1>14. FollowsPrevious' /\ OneAfterTheOther'
  BY <1>13 DEF FollowsPrevious, OneAfterTheOther
<1> QED
  BY <1>6, <1>8, <1>11, <1>12, <1>14

\* A step that chains nothing and ends nothing keeps the order, if it leaves the places alone
\* at which perform() is replacing a last task.
LEMMA SameOrder ==
  ASSUME Types, CameOnce, FollowsPrevious, OneAfterTheOther, UNCHANGED <<script, prev, came>>,
         \A t \in Tasks : \/ state'[t] = state[t]
                          \/ state[t] = "scheduled" /\ state'[t] = "running"
  PROVE  /\ CameOnce' /\ FollowsPrevious' /\ OneAfterTheOther'
         /\ \A x, c : Newest(x, c)' <=> Newest(x, c)
<1>1. \A c : Of(c)' = Of(c)
  BY DEF Of
<1>2. \A c : \A i \in Of(c) : came[i] \in Tasks
  BY DEF Of, Types
<1>3. CameOnce'
  BY DEF CameOnce
<1>4. FollowsPrevious'
  BY <1>1 DEF FollowsPrevious
<1>5. OneAfterTheOther'
  <2> SUFFICES ASSUME NEW c \in Contexts, NEW i \in Of(c), NEW j \in Of(c), j < i,
                      state'[came[i]] # "waiting"
               PROVE  state'[came[j]] \in {"completed", "canceled"}
    BY <1>1 DEF OneAfterTheOther
  <2>1. state[came[i]] # "waiting"
    BY <1>2
  <2>2. state[came[j]] \in {"completed", "canceled"}
    BY <2>1 DEF OneAfterTheOther
  <2> QED
    BY <1>2, <2>2
<1>6. \A x, c : Newest(x, c)' <=> Newest(x, c)
  BY <1>1 DEF Newest
<1> QED
  BY <1>3, <1>4, <1>5, <1>6

\* A running task that ends lets the one that follows it begin: all of that one's context
\* that came before it have finished then.
LEMMA EndOrders ==
  ASSUME Types, CameOnce, FollowsPrevious, OneAfterTheOther, UNCHANGED <<script, prev, came>>,
         NEW t \in Tasks, state[t] = "running", NEW s \in {"completed", "canceled"},
         state' = Ended(t, s)
  PROVE  /\ CameOnce' /\ FollowsPrevious' /\ OneAfterTheOther'
         /\ \A x, c : Newest(x, c)' <=> Newest(x, c)
<1>1. \A c : Of(c)' = Of(c)
  BY DEF Of
<1>2. \A c : \A i \in Of(c) : came[i] \in Tasks /\ i \in Nat
  BY DEF Of, Types
<1>3. /\ state'[t] = s
      /\ \A u \in Tasks : u # t => \/ state'[u] = state[u]
                                   \/ state[u] = "waiting" /\ state'[u] = "scheduled" /\ prev[u] = t
  BY EndedTasks
<1>4. CameOnce'
  <2>1. \A u \in Tasks : state'[u] = "absent" <=> state[u] = "absent"
    BY <1>3
  <2> QED
    BY <2>1 DEF CameOnce
<1>5. FollowsPrevious'
  BY <1>1 DEF FollowsPrevious
<1>6. OneAfterTheOther'
  <2> SUFFICES ASSUME NEW c \in Contexts, NEW i \in Of(c), NEW j \in Of(c), j < i,
                      state'[came[i]] # "waiting"
               PROVE  state'[came[j]] \in {"completed", "canceled"}
    BY <1>1 DEF OneAfterTheOther
  <2>1. \A u \in Tasks : state[u] \in {"completed", "canceled"} => state'[u] \in {"completed", "canceled"}
    BY <1>3
  <2>2. CASE state[came[i]] # "waiting"
    <3>1. state[came[j]] \in {"completed", "canceled"}
      BY <2>2 DEF OneAfterTheOther
    <3> QED
      BY <1>2, <2>1, <3>1
  <2>3. CASE state[came[i]] = "waiting"
    <3>1. prev[came[i]] = t
      BY <1>2, <1>3, <2>3
    <3>2. PICK q \in Of(c) : j <= q /\ q < i /\ came[q] = t
      BY <3>1 DEF FollowsPrevious
    <3>3. CASE j = q
      BY <1>3, <3>2, <3>3
    <3>4. CASE j < q
      <4>1. state[came[j]] \in {"completed", "canceled"}
        BY <3>2, <3>4 DEF OneAfterTheOther
      <4> QED
        BY <1>2, <2>1, <4>1
    <3> QED
      BY <1>2, <3>2, <3>3, <3>4
  <2> QED
    BY <2>2, <2>3
<1>7. \A x, c : Newest(x, c)' <=> Newest(x, c)
  BY <1>1 DEF Newest
<1> QED
  BY <1>4, <1>5, <1>6, <1>7

\* An actor that neither is about to give its context a last task nor comes to be.
LEMMA SameNewest ==
  ASSUME Types, LastIsNewest, UNCHANGED <<script, last, came>>, NEW a \in Actors, NEW p, Go(a, p),
         at[a] \notin {"then complete", "assign"}, p \notin {"then complete", "assign"},
         \A b \in Actors : b # a => todo'[b] = todo[b]
  PROVE  LastIsNewest'
<1>1. at'[a] = p /\ \A b \in Actors : b # a => at'[b] = at[b] /\ Context(b)' = Context(b)
  BY DEF Types, Go, Context
<1>2. \A c : Of(c)' = Of(c)
  BY DEF Of
<1>3. \A b \in Actors : at'[b] \in {"then complete", "assign"} =>
        /\ at[b] = at'[b] /\ Context(b)' = Context(b) /\ todo'[b] = todo[b]
  BY <1>1
<1>4. ASSUME NEW b \in Actors, at'[b] = "then complete" PROVE Newest(Head(todo[b])[1], Context(b))'
  <2>1. at[b] = "then complete" /\ Context(b)' = Context(b) /\ todo'[b] = todo[b]
    BY <1>3, <1>4
  <2>2. Newest(Head(todo[b])[1], Context(b))
    BY <2>1 DEF LastIsNewest
  <2> QED
    BY <1>2, <2>1, <2>2 DEF Newest
<1>5. ASSUME NEW b \in Actors, at'[b] = "assign"
      PROVE  Newest(Head(todo[b])[Len(Head(todo[b]))], Context(b))'
  <2>1. at[b] = "assign" /\ Context(b)' = Context(b) /\ todo'[b] = todo[b]
    BY <1>3, <1>5
  <2>2. Newest(Head(todo[b])[Len(Head(todo[b]))], Context(b))
    BY <2>1 DEF LastIsNewest
  <2> QED
    BY <1>2, <2>1, <2>2 DEF Newest
<1>6. ASSUME NEW c \in Contexts
      PROVE  \/ \E b \in Actors : at'[b] \in {"then complete", "assign"} /\ Context(b)' = c
             \/ Newest(last[c], c)'
  <2>1. CASE \E b \in Actors : at[b] \in {"then complete", "assign"} /\ Context(b) = c
    BY <1>1, <2>1
  <2>2. CASE Newest(last[c], c)
    BY <1>2, <2>2 DEF Newest
  <2> QED
    BY <2>1, <2>2 DEF LastIsNewest
<1> QED
  BY <1>4, <1>5, <1>6 DEF LastIsNewest

\* The order is kept: perform() appends to its context's newest task, under the lock.
LEMMA NextOrdered == Lived /\ ValidOrReplaced /\ Ordered /\ [Next]_vars => Ordered'
<1> SUFFICES ASSUME Types, CallsLeft, FreshUntilMade, RunningIsSomewhere, LockExcludes,
                    CameOnce, LastIsNewest, FollowsPrevious, OneAfterTheOther, [Next]_vars
             PROVE  Ordered'
  BY DEF Lived, Ordered
<1>a. MainThread \in Actors /\ Tasks \subseteq Actors /\ MainThread \notin Tasks
  BY ScriptAssumption DEF Actors, ScriptAssumption
<1>1. ASSUME NEW a \in Actors, Lock(a) PROVE Ordered'
  <2>1. /\ at[a] = "body" /\ Go(a, "then") /\ UNCHANGED <<script, last, prev, state, todo, came>>
    BY <1>1 DEF Lock
  <2>2. LastIsNewest'
    BY <2>1, SameNewest
  <2> QED
    BY <2>1, <2>2, SameOrder DEF Ordered
<1>2. ASSUME NEW a \in Actors, NEW t \in Tasks, NEW p \in Tasks \cup {Empty}, NEW k \in 1..Len(New(a)),
             NEW c \in Contexts, c = Context(a),
             NEW q \in {"then complete", "assign"}, at[a] \in {"then", "then complete"}, todo[a] # <<>>,
             t = New(a)[k], state[t] = "absent", Newest(p, c), Then(t, p), Go(a, q),
             k = IF q = "then complete" THEN 1 ELSE Len(New(a)),
             UNCHANGED <<script, last, todo>>
      PROVE  Ordered'
  <2>1. c = script.context[t]
    <3>1. k = 1 \/ k = Len(New(a))
      BY <1>2
    <3> QED
      BY <1>2, <3>1, CallType
  <2>2. \A b \in Actors : Context(b)' = Context(b)
    BY <1>2 DEF Context
  <2>3. at'[a] = q /\ \A b \in Actors : b # a => at'[b] = at[b]
    BY <1>2 DEF Types, Go
  <2>4. ASSUME NEW b \in Actors, b # a, at[b] \in Performing PROVE Context(b) # c
    BY <1>2, <2>4 DEF LockExcludes, Performing
  <2>5. /\ CameOnce' /\ FollowsPrevious' /\ OneAfterTheOther' /\ Newest(t, c)'
        /\ \A d : d # c => Of(d)' = Of(d) /\ \A x : Newest(x, d) => Newest(x, d)'
    BY <1>2, <2>1, ThenOrders
  <2>6. ASSUME NEW b \in Actors, NEW x, NEW d, d = Context(b), b # a, at[b] \in Performing, Newest(x, d)
        PROVE  Newest(x, d)'
    BY <2>4, <2>5, <2>6
  <2>7. ASSUME NEW b \in Actors, at'[b] = "then complete" PROVE Newest(Head(todo[b])[1], Context(b))'
    <3>1. PICK x, d : x = Head(todo[b])[1] /\ d = Context(b)
      OBVIOUS
    <3>2. x = (Head(todo[b])[1])' /\ d = Context(b)'
      BY <1>2, <2>2, <3>1
    <3>3. Newest(x, d)'
      <4>1. CASE b = a
        BY <1>2, <2>3, <2>5, <2>7, <3>1, <4>1 DEF New
      <4>2. CASE b # a
        BY <2>3, <2>6, <2>7, <3>1, <4>2 DEF LastIsNewest, Performing
      <4> QED
        BY <4>1, <4>2
    <3> QED
      BY <3>2, <3>3 DEF Newest
  <2>8. ASSUME NEW b \in Actors, at'[b] = "assign"
        PROVE  Newest(Head(todo[b])[Len(Head(todo[b]))], Context(b))'
    <3>1. PICK x, d : x = Head(todo[b])[Len(Head(todo[b]))] /\ d = Context(b)
      OBVIOUS
    <3>2. x = (Head(todo[b])[Len(Head(todo[b]))])' /\ d = Context(b)'
      BY <1>2, <2>2, <3>1
    <3>3. Newest(x, d)'
      <4>1. CASE b = a
        BY <1>2, <2>3, <2>5, <2>8, <3>1, <4>1 DEF New
      <4>2. CASE b # a
        BY <2>3, <2>6, <2>8, <3>1, <4>2 DEF LastIsNewest, Performing
      <4> QED
        BY <4>1, <4>2
    <3> QED
      BY <3>2, <3>3 DEF Newest
  <2>9. ASSUME NEW d \in Contexts
        PROVE  \/ \E b \in Actors : at'[b] \in {"then complete", "assign"} /\ Context(b)' = d
               \/ Newest(last[d], d)'
    <3>1. CASE d = c
      BY <1>2, <2>2, <2>3, <3>1
    <3>2. CASE d # c /\ \E b \in Actors : at[b] \in {"then complete", "assign"} /\ Context(b) = d
      BY <1>2, <2>2, <2>3, <3>2
    <3>3. CASE d # c /\ Newest(last[d], d)
      <4>1. PICK x : x = last[d]
        OBVIOUS
      <4>2. x = last'[d] /\ Newest(x, d)'
        BY <1>2, <2>5, <3>3, <4>1
      <4> QED
        BY <4>2 DEF Newest
    <3> QED
      BY <3>1, <3>2, <3>3 DEF LastIsNewest
  <2>10. LastIsNewest'
    BY <2>7, <2>8, <2>9 DEF LastIsNewest
  <2> QED
    BY <2>5, <2>10 DEF Ordered
<1>3. ASSUME NEW a \in Actors, Chain(a) PROVE Ordered'
  <2>1. /\ at[a] = "then" /\ Then(New(a)[1], last[Context(a)])
        /\ Go(a, IF Len(New(a)) = 1 THEN "assign" ELSE "then complete")
        /\ UNCHANGED <<script, last, todo>>
    BY <1>3 DEF Chain, New
  <2>2. todo[a] # <<>>
    BY <2>1 DEF LockExcludes, Performing
  <2>3. /\ New(a) = todo[a][1] /\ Len(New(a)) \in 1..2 /\ New(a)[1] \in Tasks
        /\ Context(a) \in Contexts /\ 1 \in 1..Len(New(a)) /\ 1 \in 1..Len(todo[a])
    BY <2>2, CallType
  <2>4. state[New(a)[1]] = "absent"
    <3>1. ~Made(a, 1, 1)
      BY <2>1 DEF Made
    <3> QED
      BY <2>3, <3>1 DEF FreshUntilMade
  <2>5. PICK c \in Contexts : c = Context(a)
    BY <2>3
  <2>6. Newest(last[c], c)
    <3>1. ASSUME NEW b \in Actors, at[b] \in {"then complete", "assign"}, Context(b) = c PROVE FALSE
      <4>1. at[a] \in Performing /\ at[b] \in Performing /\ Context(a) = Context(b)
        BY <2>1, <2>5, <3>1 DEF Performing
      <4>2. a = b
        BY <4>1 DEF LockExcludes
      <4> QED
        BY <2>1, <3>1, <4>2
    <3> QED
      BY <3>1 DEF LastIsNewest
  <2>7. PICK p \in Tasks \cup {Empty} : p = last[c]
    BY DEF Types
  <2>8. PICK t \in Tasks : t = New(a)[1]
    BY <2>3
  <2>9. PICK q \in {"then complete", "assign"} :
          q = IF Len(New(a)) = 1 THEN "assign" ELSE "then complete"
    OBVIOUS
  <2>10. 1 = IF q = "then complete" THEN 1 ELSE Len(New(a))
    BY <2>9
  <2>11. Newest(p, c) /\ Then(t, p) /\ Go(a, q)
    BY <2>1, <2>5, <2>6, <2>7, <2>8, <2>9
  <2>12. /\ at[a] \in {"then", "then complete"} /\ state[t] = "absent" /\ 1 \in 1..Len(New(a))
         /\ UNCHANGED <<script, last, todo>>
    BY <2>1, <2>3, <2>4, <2>8
  <2> QED
    BY <1>2, <2>2, <2>5, <2>8, <2>10, <2>11, <2>12
<1>4. ASSUME NEW a \in Actors, ChainComplete(a) PROVE Ordered'
  <2>1. /\ at[a] = "then complete" /\ Then(New(a)[2], New(a)[1]) /\ Go(a, "assign")
        /\ UNCHANGED <<script, last, todo>>
    BY <1>4, Zenon DEF ChainComplete, New
  <2>2. todo[a] # <<>> /\ Len(New(a)) = 2
    BY <2>1 DEF LockExcludes, Performing, New
  <2>3. /\ New(a) = todo[a][1] /\ New(a)[1] \in Tasks /\ New(a)[2] \in Tasks
        /\ Context(a) \in Contexts /\ 1 \in 1..Len(todo[a])
    BY <2>2, CallType
  <2>4. 2 \in 1..Len(New(a)) /\ 2 = IF "assign" = "then complete" THEN 1 ELSE Len(New(a))
    BY <2>2
  <2>5. PICK c \in Contexts : c = Context(a)
    BY <2>3
  <2>6. Newest(New(a)[1], c)
    BY <2>1, <2>5 DEF LastIsNewest, New
  <2>7. PICK p \in Tasks \cup {Empty} : p = New(a)[1]
    BY <2>3
  <2>8. PICK t \in Tasks : t = New(a)[2]
    BY <2>3
  <2>9. state[t] = "absent"
    <3>1. ~Made(a, 1, 2)
      <4>1. at[a] \notin {"assign", "unlock"}
        BY <2>1
      <4>2. ~(2 = 1)
        OBVIOUS
      <4> QED
        BY <4>1, <4>2, Zenon DEF Made
    <3> QED
      BY <2>3, <2>4, <2>8, <3>1 DEF FreshUntilMade
  <2>10. Newest(p, c) /\ Then(t, p)
    BY <2>1, <2>6, <2>7, <2>8
  <2> QED
    BY <1>2, <2>1, <2>2, <2>4, <2>5, <2>8, <2>9, <2>10
<1>5. ASSUME NEW a \in Actors, Assign(a) PROVE Ordered'
  <2>1. /\ at[a] = "assign" /\ Go(a, "unlock")
        /\ last' = [last EXCEPT ![Context(a)] = New(a)[Len(New(a))]]
        /\ UNCHANGED <<script, prev, state, todo, came>>
    BY <1>5 DEF Assign, New
  <2>2. todo[a] # <<>> /\ Context(a) \in Contexts
    <3>1. todo[a] # <<>>
      BY <2>1 DEF LockExcludes, Performing
    <3> QED
      BY <3>1, CallType
  <2>3. /\ at'[a] = "unlock" /\ \A b \in Actors : b # a => at'[b] = at[b]
        /\ last'[Context(a)] = New(a)[Len(New(a))]
        /\ \A c \in Contexts : c # Context(a) => last'[c] = last[c]
    BY <2>1, <2>2 DEF Types, Go
  <2>4. \A c : Of(c)' = Of(c)
    BY <2>1 DEF Of
  <2>5. \A b \in Actors : Context(b)' = Context(b)
    BY <2>1 DEF Context
  <2>6. ASSUME NEW b \in Actors, at'[b] = "then complete" PROVE Newest(Head(todo[b])[1], Context(b))'
    <3>1. Newest(Head(todo[b])[1], Context(b))
      BY <2>3, <2>6 DEF LastIsNewest
    <3> QED
      BY <2>1, <2>4, <2>5, <3>1 DEF Newest
  <2>7. ASSUME NEW b \in Actors, at'[b] = "assign"
        PROVE  Newest(Head(todo[b])[Len(Head(todo[b]))], Context(b))'
    <3>1. Newest(Head(todo[b])[Len(Head(todo[b]))], Context(b))
      BY <2>3, <2>7 DEF LastIsNewest
    <3> QED
      BY <2>1, <2>4, <2>5, <3>1 DEF Newest
  <2>8. ASSUME NEW c \in Contexts
        PROVE  \/ \E b \in Actors : at'[b] \in {"then complete", "assign"} /\ Context(b)' = c
               \/ Newest(last[c], c)'
    <3>1. CASE c = Context(a)
      <4>1. Newest(New(a)[Len(New(a))], Context(a))
        BY <2>1 DEF LastIsNewest, New
      <4>2. PICK x : x = New(a)[Len(New(a))]
        OBVIOUS
      <4>3. x = last'[c] /\ Newest(x, c)
        BY <2>3, <3>1, <4>1, <4>2
      <4>4. came' = came /\ Of(c)' = Of(c)
        BY <2>1, <2>4
      <4> QED
        BY <4>3, <4>4 DEF Newest
    <3>2. CASE c # Context(a) /\ \E b \in Actors : at[b] \in {"then complete", "assign"} /\ Context(b) = c
      BY <2>3, <2>5, <3>2
    <3>3. CASE c # Context(a) /\ Newest(last[c], c)
      <4>1. last'[c] = last[c] /\ came' = came /\ Of(c)' = Of(c)
        BY <2>1, <2>3, <2>4, <3>3
      <4> QED
        BY <3>3, <4>1 DEF Newest
    <3> QED
      BY <3>1, <3>2, <3>3 DEF LastIsNewest
  <2>9. LastIsNewest'
    BY <2>6, <2>7, <2>8 DEF LastIsNewest
  <2> QED
    BY <2>1, <2>9, SameOrder DEF Ordered
<1>6. ASSUME NEW a \in Actors, Unlock(a) PROVE Ordered'
  <2>1. /\ at[a] = "unlock" /\ Go(a, "body") /\ todo' = [todo EXCEPT ![a] = Tail(@)]
        /\ UNCHANGED <<script, last, prev, state, came>>
    BY <1>6 DEF Unlock
  <2>2. \A b \in Actors : b # a => todo'[b] = todo[b]
    BY <2>1 DEF Types
  <2>3. LastIsNewest'
    BY <2>1, <2>2, SameNewest
  <2> QED
    BY <2>1, <2>3, SameOrder DEF Ordered
<1>7. ASSUME NEW t \in Tasks, NEW s \in {"completed", "canceled"}, at[t] \in {"body", "cancel", "then"},
             state' = Ended(t, s), Go(t, "idle"), UNCHANGED <<script, last, prev, todo, came>>
      PROVE  Ordered'
  <2>1. state[t] = "running"
    BY <1>7 DEF RunningIsSomewhere
  <2>2. LastIsNewest'
    BY <1>a, <1>7, SameNewest
  <2>3. UNCHANGED <<script, prev, came>>
    BY <1>7
  <2> QED
    BY <1>7, <2>1, <2>2, <2>3, EndOrders DEF Ordered
<1>8. ASSUME NEW a \in Actors, ThrowEmpty(a) PROVE Ordered'
  <2>1. CASE a = MainThread
    <3>1. /\ at[a] = "then" /\ Go(a, "terminated") /\ UNCHANGED <<script, last, prev, state, todo, came>>
      BY <1>8, <2>1 DEF ThrowEmpty
    <3>2. LastIsNewest'
      BY <3>1, SameNewest
    <3> QED
      BY <3>1, <3>2, SameOrder DEF Ordered
  <2>2. CASE a # MainThread
    <3>1. /\ at[a] = "then" /\ Go(a, "idle") /\ state' = Ended(a, "canceled")
          /\ UNCHANGED <<script, last, prev, todo, came>> /\ a \in Tasks
      BY <1>8, <2>2 DEF ThrowEmpty, Actors
    <3> QED
      BY <1>7, <3>1
  <2> QED
    BY <2>1, <2>2
<1>9. ASSUME NEW t \in Tasks, Begin(t) \/ Cancel(t) \/ Complete(t) PROVE Ordered'
  <2>1. CASE Begin(t)
    <3>1. PICK p \in {"cancel", "body"} : Go(t, p)
      BY <2>1 DEF Begin
    <3>2. /\ state[t] = "scheduled" /\ state' = [state EXCEPT ![t] = "running"]
          /\ UNCHANGED <<script, last, prev, todo, came>>
      BY <2>1 DEF Begin
    <3>3. at[t] = "idle"
      BY <1>a, <3>2 DEF RunningIsSomewhere
    <3>4. LastIsNewest'
      BY <1>a, <3>1, <3>2, <3>3, SameNewest
    <3>5. \A u \in Tasks : \/ state'[u] = state[u]
                           \/ state[u] = "scheduled" /\ state'[u] = "running"
      BY <3>2 DEF Types
    <3> QED
      BY <3>2, <3>4, <3>5, SameOrder DEF Ordered
  <2>2. CASE Cancel(t)
    <3>1. /\ at[t] = "cancel" /\ state' = Ended(t, "canceled") /\ Go(t, "idle")
          /\ UNCHANGED <<script, last, prev, todo, came>>
      BY <2>2 DEF Cancel
    <3> QED
      BY <1>7, <3>1
  <2>3. CASE Complete(t)
    <3>1. /\ at[t] = "body" /\ state' = Ended(t, "completed") /\ Go(t, "idle")
          /\ UNCHANGED <<script, last, prev, todo, came>>
      BY <2>3 DEF Complete
    <3> QED
      BY <1>7, <3>1
  <2> QED
    BY <1>9, <2>1, <2>2, <2>3
<1>10. ASSUME TestExit \/ TestValid \/ TestReady \/ Wait \/ EndWait \/ Take PROVE Ordered'
  <2>1. /\ UNCHANGED <<script, mutex, last, prev, state, todo, came>>
        /\ at[MainThread] \notin Performing \cup {"over"}
        /\ \E p \in Places \ (Performing \cup {"idle"}) : Go(MainThread, p)
    BY <1>10, MainLooks
  <2>2. PICK p \in Places \ (Performing \cup {"idle"}) : Go(MainThread, p)
    BY <2>1
  <2>3. LastIsNewest'
    BY <1>a, <2>1, <2>2, SameNewest DEF Performing
  <2> QED
    BY <2>1, <2>3, SameOrder DEF Ordered
<1>11. CASE UNCHANGED vars
  <2>1. UNCHANGED <<script, last, prev, state, at, todo, came>>
    BY <1>11 DEF vars
  <2>2. LastIsNewest'
    <3>1. \A b \in Actors : Context(b)' = Context(b)
      BY <2>1 DEF Context
    <3>2. \A c : Of(c)' = Of(c)
      BY <2>1 DEF Of
    <3>3. ASSUME NEW b \in Actors
          PROVE  /\ at'[b] = "then complete" => Newest(Head(todo[b])[1], Context(b))'
                 /\ at'[b] = "assign" => Newest(Head(todo[b])[Len(Head(todo[b]))], Context(b))'
      <4>1. CASE at[b] = "then complete"
        <5>1. Newest(Head(todo[b])[1], Context(b))
          BY <4>1 DEF LastIsNewest
        <5> QED
          BY <2>1, <3>1, <3>2, <4>1, <5>1 DEF Newest
      <4>2. CASE at[b] = "assign"
        <5>1. Newest(Head(todo[b])[Len(Head(todo[b]))], Context(b))
          BY <4>2 DEF LastIsNewest
        <5> QED
          BY <2>1, <3>1, <3>2, <4>2, <5>1 DEF Newest
      <4> QED
        BY <2>1, <4>1, <4>2
    <3>4. ASSUME NEW c \in Contexts
          PROVE  \/ \E b \in Actors : at'[b] \in {"then complete", "assign"} /\ Context(b)' = c
                 \/ Newest(last[c], c)'
      BY <2>1, <3>1, <3>2 DEF LastIsNewest, Newest
    <3> QED
      BY <3>3, <3>4 DEF LastIsNewest
  <2> QED
    BY <2>1, <2>2, SameOrder DEF Ordered
<1> QED
  BY <1>a, <1>1, <1>3, <1>4, <1>5, <1>6, <1>8, <1>9, <1>10, <1>11 DEF Next, Run, Main, Perform

\* The tasks of a context are chained, and finish, one after the other.
LEMMA OrderedAlways == Spec => [](Lived /\ ValidOrReplaced /\ Ordered)
BY LivedAlways, InitOrdered, NextOrdered, PTL DEF Spec
-------------------------------------------------------------------------------
\* Numbers in ascending order: as many as there are.
LEMMA AscendingIsSeq ==
  ASSUME NEW N, IsFiniteSet(N)
  PROVE  /\ Cardinality(N) \in Nat /\ Len(Ascending(N)) = Cardinality(N)
         /\ \E S : N \subseteq S /\ Ascending(N) \in Seq(S)
         /\ \A k \in 1..Cardinality(N) : Ascending(N)[k] = CHOOSE i \in Ranked(N, k) : TRUE
<1> DEFINE S == N \cup {CHOOSE i \in Ranked(N, k) : TRUE : k \in 1..Cardinality(N)}
<1>1. Cardinality(N) \in Nat
  BY FS_CardinalityType
<1>2. Ascending(N) \in [1..Cardinality(N) -> S]
  BY DEF Ascending
<1> HIDE DEF S
<1>3. Ascending(N) \in Seq(S) /\ Len(Ascending(N)) = Cardinality(N)
  BY <1>1, <1>2
<1>4. N \subseteq S
  BY DEF S
<1>5. \A k \in 1..Cardinality(N) : Ascending(N)[k] = CHOOSE i \in Ranked(N, k) : TRUE
  BY DEF Ascending
<1> QED
  BY <1>1, <1>3, <1>4, <1>5

\* A number that is higher than the others comes last.
LEMMA AscendingAppend ==
  ASSUME NEW N, IsFiniteSet(N), N \subseteq Nat, NEW n \in Nat, \A i \in N : i < n
  PROVE  Ascending(N \cup {n}) = Append(Ascending(N), n)
<1> DEFINE M == N \cup {n}
           card == Cardinality(N)
           Below(K, i) == {j \in K : j < i}
<1>1. n \notin N /\ IsFiniteSet(M) /\ Cardinality(M) = card + 1 /\ card \in Nat
  <2>1. n \notin N
    OBVIOUS
  <2> QED
    BY <2>1, FS_AddElement, FS_CardinalityType
<1>2. Below(M, n) = N /\ \A i \in N : Below(M, i) = Below(N, i)
  <2>1. Below(M, n) = N
    <3>1. \A j \in M : j \in N <=> j < n
      OBVIOUS
    <3>2. N \subseteq M
      OBVIOUS
    <3> HIDE DEF M
    <3> QED
      BY <3>1, <3>2
  <2>2. ASSUME NEW i \in N PROVE Below(M, i) = Below(N, i)
    <3>1. i < n /\ i \in Nat /\ ~(n < i)
      OBVIOUS
    <3> QED
      BY <3>1
  <2> QED
    BY <2>1, <2>2
<1>3. ASSUME NEW i \in N PROVE Cardinality(Below(N, i)) < card /\ Cardinality(Below(N, i)) \in Nat
  <2>1. Below(N, i) \in SUBSET N /\ Below(N, i) # N
    OBVIOUS
  <2> QED
    <3> HIDE DEF Below
    <3>1. /\ Cardinality(Below(N, i)) <= card /\ IsFiniteSet(Below(N, i))
          /\ card = Cardinality(Below(N, i)) => N = Below(N, i)
      BY <2>1, FS_Subset
    <3>2. Cardinality(Below(N, i)) \in Nat
      BY <3>1, FS_CardinalityType
    <3> QED
      BY <1>1, <2>1, <3>1, <3>2
<1>4. \A K, k : Ranked(K, k) = {i \in K : Cardinality(Below(K, i)) = k - 1}
  BY DEF Ranked
<1> HIDE DEF Below
<1>5. Ranked(M, card + 1) = {n}
  <2>1. (card + 1) - 1 = card
    BY <1>1
  <2>2. ASSUME NEW i \in M PROVE i = n <=> Cardinality(Below(M, i)) = card
    BY <1>1, <1>2, <1>3
  <2> QED
    BY <1>4, <2>1, <2>2
<1>6. ASSUME NEW k \in 1..card PROVE Ranked(M, k) = Ranked(N, k)
  <2>1. k - 1 # card
    BY <1>1
  <2>2. \A i \in M : Cardinality(Below(M, i)) = k - 1 <=> i \in N /\ Cardinality(Below(N, i)) = k - 1
    BY <1>1, <1>2, <2>1
  <2> QED
    BY <1>4, <2>2
<1>7. PICK S : N \subseteq S /\ Ascending(N) \in Seq(S)
  BY AscendingIsSeq
<1>8. PICK T : M \subseteq T /\ Ascending(M) \in Seq(T)
  BY <1>1, AscendingIsSeq
<1> DEFINE U == S \cup T \cup {n}
<1>9. Ascending(N) \in Seq(U) /\ Ascending(M) \in Seq(U)
  BY <1>7, <1>8
<1>10. /\ Len(Ascending(N)) = card /\ Len(Ascending(M)) = card + 1
       /\ \A k \in 1..card : Ascending(N)[k] = CHOOSE i \in Ranked(N, k) : TRUE
       /\ \A k \in 1..(card + 1) : Ascending(M)[k] = CHOOSE i \in Ranked(M, k) : TRUE
  BY <1>1, AscendingIsSeq
<1>a. n \in U
  OBVIOUS
<1> HIDE DEF U, M
<1>b. /\ Append(Ascending(N), n)[card + 1] = n
      /\ \A k \in 1..card : Append(Ascending(N), n)[k] = Ascending(N)[k]
  BY <1>9, <1>10, <1>a, AppendProperties
<1>11. ASSUME NEW k \in 1..(card + 1) PROVE Ascending(M)[k] = Append(Ascending(N), n)[k]
  <2>1. CASE k = card + 1
    <3>1. Ascending(M)[k] = CHOOSE i \in {n} : TRUE
      BY <1>5, <1>10, <2>1
    <3> QED
      BY <1>b, <2>1, <3>1
  <2>2. CASE k # card + 1
    <3>1. k \in 1..card
      BY <1>1, <2>2
    <3>2. Ranked(M, k) = Ranked(N, k)
      BY <1>6, <3>1
    <3>3. Ascending(M)[k] = CHOOSE i \in Ranked(N, k) : TRUE
      BY <1>10, <3>2
    <3> QED
      BY <1>10, <1>b, <3>1, <3>3
  <2> QED
    BY <2>1, <2>2
<1>12. Append(Ascending(N), n) \in Seq(U) /\ Len(Append(Ascending(N), n)) = card + 1
  BY <1>9, <1>10, <1>a, AppendProperties
<1>13. Ascending(M) = Append(Ascending(N), n)
  BY <1>9, <1>10, <1>11, <1>12, SeqEqual
<1> QED
  BY <1>13 DEF M

\* The lowest number comes first.
LEMMA AscendingTail ==
  ASSUME NEW N, IsFiniteSet(N), N \subseteq Nat, NEW m \in N, \A i \in N : m <= i
  PROVE  /\ Ascending(N) # <<>> /\ Head(Ascending(N)) = m
         /\ Tail(Ascending(N)) = Ascending(N \ {m})
<1> DEFINE M == N \ {m}
           card == Cardinality(N)
           Below(K, i) == {j \in K : j < i}
<1>1. IsFiniteSet(M) /\ Cardinality(M) = card - 1 /\ card \in Nat \ {0}
  <2>1. card # 0
    BY FS_EmptySet
  <2> QED
    BY <2>1, FS_RemoveElement, FS_CardinalityType
<1>2. /\ Below(N, m) = {} /\ \A i \in M : m \notin Below(M, i)
      /\ \A i \in M : Below(N, i) = Below(M, i) \cup {m}
  <2>1. Below(N, m) = {} /\ \A i \in M : m \notin Below(M, i)
    <3>1. \A j \in N : ~(j < m)
      OBVIOUS
    <3>2. m \notin M
      OBVIOUS
    <3> HIDE DEF M
    <3> QED
      BY <3>1, <3>2
  <2>2. ASSUME NEW i \in M PROVE Below(N, i) = Below(M, i) \cup {m}
    <3>1. m < i
      OBVIOUS
    <3> QED
      BY <3>1
  <2> QED
    BY <2>1, <2>2
<1>3. ASSUME NEW i \in M
      PROVE  Cardinality(Below(N, i)) = Cardinality(Below(M, i)) + 1 /\ Cardinality(Below(M, i)) \in Nat
  <2>1. Below(M, i) \in SUBSET M
    OBVIOUS
  <2> HIDE DEF Below
  <2>2. IsFiniteSet(Below(M, i))
    BY <1>1, <2>1, FS_Subset
  <2>3. m \notin Below(M, i) /\ Below(N, i) = Below(M, i) \cup {m}
    BY <1>2
  <2>4. Cardinality(Below(M, i) \cup {m}) = Cardinality(Below(M, i)) + 1
    BY <2>2, <2>3, FS_AddElement
  <2> QED
    BY <2>2, <2>3, <2>4, FS_CardinalityType
<1>4. \A K, k : Ranked(K, k) = {i \in K : Cardinality(Below(K, i)) = k - 1}
  BY DEF Ranked
<1> HIDE DEF Below
<1>5. Ranked(N, 1) = {m}
  <2>1. \A i \in N : i = m <=> Cardinality(Below(N, i)) = 1 - 1
    BY <1>2, <1>3, FS_EmptySet
  <2> QED
    BY <1>4, <2>1
<1>6. ASSUME NEW k \in 1..(card - 1) PROVE Ranked(N, k + 1) = Ranked(M, k)
  <2>1. k \in Nat /\ k # 0
    BY <1>1
  <2>2. ASSUME NEW i \in N
        PROVE  Cardinality(Below(N, i)) = (k + 1) - 1 <=> i \in M /\ Cardinality(Below(M, i)) = k - 1
    <3>1. CASE i = m
      <4>1. Cardinality(Below(N, i)) = 0 /\ i \notin M
        BY <1>2, <3>1, FS_EmptySet
      <4> QED
        BY <2>1, <4>1
    <3>2. CASE i # m
      <4>1. i \in M
        BY <3>2
      <4>2. Cardinality(Below(N, i)) = Cardinality(Below(M, i)) + 1 /\ Cardinality(Below(M, i)) \in Nat
        BY <1>3, <4>1
      <4> QED
        BY <2>1, <4>1, <4>2
    <3> QED
      BY <3>1, <3>2
  <2> QED
    BY <1>4, <2>2
<1>7. PICK S : N \subseteq S /\ Ascending(N) \in Seq(S)
  BY AscendingIsSeq
<1>8. PICK T : M \subseteq T /\ Ascending(M) \in Seq(T)
  BY <1>1, AscendingIsSeq
<1> DEFINE U == S \cup T
<1>9. Ascending(N) \in Seq(U) /\ Ascending(M) \in Seq(U)
  BY <1>7, <1>8
<1>10. /\ Len(Ascending(N)) = card /\ Len(Ascending(M)) = card - 1
       /\ \A k \in 1..card : Ascending(N)[k] = CHOOSE i \in Ranked(N, k) : TRUE
       /\ \A k \in 1..(card - 1) : Ascending(M)[k] = CHOOSE i \in Ranked(M, k) : TRUE
  BY <1>1, AscendingIsSeq
<1>11. Ascending(N) # <<>>
  BY <1>1, <1>10, EmptySeq
<1>12. Head(Ascending(N)) = m
  <2>1. 1 \in 1..card
    BY <1>1
  <2>2. Head(Ascending(N)) = Ascending(N)[1]
    BY <1>9, <1>11
  <2> QED
    BY <1>5, <1>10, <2>1, <2>2
<1>13. /\ Tail(Ascending(N)) \in Seq(U) /\ Len(Tail(Ascending(N))) = card - 1
       /\ \A k \in 1..(card - 1) : Tail(Ascending(N))[k] = Ascending(N)[k + 1]
  BY <1>9, <1>10, <1>11, HeadTailProperties
<1>14. ASSUME NEW k \in 1..(card - 1) PROVE Tail(Ascending(N))[k] = Ascending(M)[k]
  <2>1. k + 1 \in 1..card
    BY <1>1
  <2> QED
    BY <1>6, <1>10, <1>13, <2>1
<1>15. Tail(Ascending(N)) = Ascending(M)
  BY <1>9, <1>10, <1>13, <1>14, SeqEqual
<1> QED
  BY <1>11, <1>12, <1>15
-------------------------------------------------------------------------------
\* The tasks of a context that have not begun.
Pending(c) == Numbers(c, {"waiting", "scheduled"})

\* They are finitely many numbers of what has come.
LEMMA NumbersOfTasks ==
  ASSUME Types, NEW c, NEW s
  PROVE  /\ IsFiniteSet(Numbers(c, s)) /\ Numbers(c, s) \subseteq Nat /\ Len(came) \in Nat
         /\ Numbers(c, s) = {i \in Of(c) : state[came[i]] \in s}
         /\ \A i \in Of(c) : i \in 1..Len(came) /\ came[i] \in Tasks
<1>1. DOMAIN came = 1..Len(came) /\ Len(came) \in Nat
  BY DEF Types
<1>2. IsFiniteSet(1..Len(came))
  BY <1>1, FS_Interval
<1>3. Numbers(c, s) \in SUBSET (1..Len(came))
  BY <1>1 DEF Numbers
<1>4. IsFiniteSet(Numbers(c, s))
  BY <1>2, <1>3, FS_Subset
<1>5. Numbers(c, s) = {i \in Of(c) : state[came[i]] \in s}
  BY <1>1 DEF Numbers, Of
<1>6. \A i \in Of(c) : i \in 1..Len(came) /\ came[i] \in Tasks
  BY DEF Types, Of
<1> QED
  BY <1>1, <1>3, <1>4, <1>5, <1>6

\* At first the executors have nothing to run.
LEMMA InitSerial == Init => Serial!Init
<1> SUFFICES ASSUME Init PROVE Serial!Init
  OBVIOUS
<1>1. came = <<>> /\ DOMAIN came = {} /\ Len(came) = 0
  BY DEF Init
<1>2. \A c, s : Numbers(c, s) = {}
  BY <1>1 DEF Numbers
<1>3. Ascending({}) = <<>>
  <2>1. IsFiniteSet({}) /\ Cardinality({}) = 0
    BY FS_EmptySet
  <2>2. PICK S : Ascending({}) \in Seq(S)
    BY <2>1, AscendingIsSeq
  <2>3. Len(Ascending({})) = 0
    BY <2>1, AscendingIsSeq
  <2> QED
    BY <2>2, <2>3, EmptySeq
<1>4. [c \in Contexts |-> Ascending(Numbers(c, {"waiting", "scheduled"}))] = [c \in Contexts |-> <<>>]
  BY <1>2, <1>3
<1>5. [c \in Contexts |-> Numbers(c, {"running"})] = [c \in Contexts |-> {}]
  BY <1>2
<1> QED
  BY <1>1, <1>4, <1>5 DEF Serial!Init

\* To chain a task is to submit it to its context.
LEMMA ThenSubmits ==
  ASSUME Types, CameOnce, NEW t \in Tasks, NEW p, NEW c \in Contexts, c = script.context[t],
         state[t] = "absent", Then(t, p), UNCHANGED script
  PROVE  Serial!Submit(c)
<1> DEFINE n == Len(came) + 1
<1>1. /\ came' \in Seq(Tasks) /\ Len(came') = n /\ came'[n] = t /\ Len(came) \in Nat
      /\ DOMAIN came = 1..Len(came) /\ DOMAIN came' = 1..n
      /\ \A i \in 1..Len(came) : came'[i] = came[i] /\ came[i] \in Tasks
  BY DEF Then, Types
<1>2. \A i \in 1..Len(came) : came[i] # t
  BY <1>1 DEF CameOnce
<1>3. state'[t] \in {"waiting", "scheduled"} /\ \A u \in Tasks : u # t => state'[u] = state[u]
  BY DEF Then, WhenChained, Types
<1>4. n \in Nat /\ n \notin 1..Len(came) /\ 1..n = (1..Len(came)) \cup {n}
  BY <1>1
<1> HIDE DEF n
<1>5. ASSUME NEW d, NEW s
      PROVE  Numbers(d, s)' = Numbers(d, s) \cup (IF d = c /\ state'[t] \in s THEN {n} ELSE {})
  BY <1>1, <1>2, <1>3, <1>4 DEF Numbers
<1>6. ASSUME NEW d \in Contexts PROVE Numbers(d, {"running"})' = Numbers(d, {"running"})
  BY <1>3, <1>5
<1>7. ASSUME NEW d \in Contexts, d # c PROVE Pending(d)' = Pending(d)
  BY <1>5, <1>7 DEF Pending
<1>8. Pending(c)' = Pending(c) \cup {n}
  BY <1>3, <1>5 DEF Pending
<1>9. Ascending(Pending(c)') = Append(Ascending(Pending(c)), n)
  <2>1. IsFiniteSet(Pending(c)) /\ Pending(c) \subseteq Nat
    BY NumbersOfTasks DEF Pending
  <2>2. \A i \in Pending(c) : i < n
    BY <1>1, NumbersOfTasks DEF Pending, n
  <2> QED
    BY <1>4, <1>8, <2>1, <2>2, AscendingAppend
<1>10. [d \in Contexts |-> Ascending(Pending(d))]'
         = [[d \in Contexts |-> Ascending(Pending(d))] EXCEPT ![c] = Append(@, n)]
  BY <1>7, <1>9
<1>11. UNCHANGED [d \in Contexts |-> Numbers(d, {"running"})]
  BY <1>6
<1>12. Len(came)' = Len(came) + 1 /\ Len(came)' = n
  BY <1>1 DEF n
<1> QED
  BY <1>10, <1>11, <1>12 DEF Serial!Submit, Pending

\* Only the lowest of the numbers of a context's unfinished tasks can be one that does not wait.
LEMMA OneIsActive ==
  ASSUME Types, OneAfterTheOther, NEW c \in Contexts, NEW i \in Of(c),
         state[came[i]] \in {"scheduled", "running"}
  PROVE  /\ \A j \in Pending(c) : i <= j
         /\ \A j \in Numbers(c, {"running"}) : j = i
<1>1. i \in Nat /\ \A j \in Of(c) : j \in Nat
  BY NumbersOfTasks
<1>2. \A j \in Of(c) : j < i => state[came[j]] \in {"completed", "canceled"}
  BY DEF OneAfterTheOther
<1>3. \A j \in Of(c) : i < j => state[came[j]] = "waiting"
  BY DEF OneAfterTheOther
<1>4. /\ \A j \in Pending(c) : j \in Of(c) /\ state[came[j]] \in {"waiting", "scheduled"}
      /\ \A j \in Numbers(c, {"running"}) : j \in Of(c) /\ state[came[j]] = "running"
  BY NumbersOfTasks DEF Pending
<1>5. ASSUME NEW j \in Pending(c) PROVE i <= j
  <2>1. j \in Of(c) /\ ~(j < i)
    BY <1>2, <1>4
  <2>2. i \in Nat /\ j \in Nat
    BY <1>1, <2>1
  <2> QED
    BY <2>1, <2>2
<1>6. ASSUME NEW j \in Numbers(c, {"running"}) PROVE j = i
  <2>1. j \in Of(c) /\ ~(j < i) /\ ~(i < j)
    BY <1>2, <1>3, <1>4
  <2>2. i \in Nat /\ j \in Nat
    BY <1>1, <2>1
  <2> QED
    BY <2>1, <2>2
<1> QED
  BY <1>5, <1>6

\* To begin a task is to take the first of its context's tasks, while no other is running.
LEMMA BeginBegins ==
  ASSUME Types, CameOnce, OneAfterTheOther, NEW t \in Tasks, state[t] = "scheduled",
         state' = [state EXCEPT ![t] = "running"], UNCHANGED <<script, came>>
  PROVE  \E c \in Contexts : Serial!Begin(c)
<1>1. PICK i \in 1..Len(came) : came[i] = t
  BY DEF CameOnce
<1>2. PICK c \in Contexts : c = script.context[t] /\ i \in Of(c)
  <2>1. script.context \in [Tasks -> Contexts]
    BY ScriptAssumption DEF Types, ScriptAssumption
  <2> QED
    BY <1>1, <2>1 DEF Of
<1>3. /\ \A j \in Pending(c) : i <= j
      /\ \A j \in Numbers(c, {"running"}) : j = i
  BY <1>1, <1>2, OneIsActive
<1>4. ASSUME NEW d, NEW s
      PROVE  /\ Numbers(d, s) = {j \in Of(d) : state[came[j]] \in s}
             /\ Numbers(d, s)' = {j \in Of(d) : state'[came[j]] \in s}
  <2>1. Numbers(d, s) = {j \in Of(d) : state[came[j]] \in s}
    BY NumbersOfTasks
  <2>2. DOMAIN came = 1..Len(came)
    BY DEF Types
  <2> QED
    BY <2>1, <2>2 DEF Numbers, Of
<1>5. /\ state'[t] = "running" /\ \A u \in Tasks : u # t => state'[u] = state[u]
      /\ \A d : \A j \in Of(d) : came[j] \in Tasks /\ (came[j] = t => j = i)
      /\ \A d \in Contexts : d # c => i \notin Of(d)
  <2>1. state'[t] = "running" /\ \A u \in Tasks : u # t => state'[u] = state[u]
    BY DEF Types
  <2>2. \A d : \A j \in Of(d) : came[j] \in Tasks /\ (came[j] = t => j = i)
    BY <1>1 DEF CameOnce, Of, Types
  <2>3. \A d \in Contexts : d # c => i \notin Of(d)
    BY <1>2 DEF Of
  <2> QED
    BY <2>1, <2>2, <2>3
<1>6. ASSUME NEW d \in Contexts, d # c, NEW s PROVE Numbers(d, s)' = Numbers(d, s)
  <2>1. ASSUME NEW j \in Of(d) PROVE state'[came[j]] = state[came[j]]
    <3>1. came[j] \in Tasks /\ came[j] # t
      BY <1>5, <1>6
    <3> QED
      BY <1>5, <3>1
  <2>2. \A j : j \in Numbers(d, s)' <=> j \in Numbers(d, s)
    BY <1>4, <2>1
  <2> QED
    BY <2>2
<1>7. /\ i \in Pending(c) /\ Pending(c)' = Pending(c) \ {i}
      /\ Numbers(c, {"running"}) = {} /\ Numbers(c, {"running"})' = {i}
  <2>1. i \in Pending(c)
    BY <1>1, <1>2, <1>4 DEF Pending
  <2>2. Numbers(c, {"running"}) = {}
    BY <1>1, <1>3, <1>4
  <2>3. Numbers(c, {"running"})' = {i}
    <3>1. ASSUME NEW j \in Of(c), state'[came[j]] = "running" PROVE j = i
      <4>1. CASE came[j] = t
        BY <1>5, <4>1
      <4>2. CASE came[j] # t
        <5>1. state[came[j]] = "running"
          BY <1>5, <3>1, <4>2
        <5> QED
          BY <1>3, <1>4, <5>1
      <4> QED
        BY <4>1, <4>2
    <3>2. i \in Of(c) /\ state'[came[i]] = "running"
      BY <1>1, <1>2, <1>5
    <3>3. Numbers(c, {"running"})' = {j \in Of(c) : state'[came[j]] \in {"running"}}
      BY <1>4
    <3> QED
      BY <3>1, <3>2, <3>3
  <2>4. Pending(c)' = Pending(c) \ {i}
    BY <1>1, <1>4, <1>5 DEF Pending
  <2> QED
    BY <2>1, <2>2, <2>3, <2>4
<1>8. /\ Ascending(Pending(c)) # <<>> /\ Head(Ascending(Pending(c))) = i
      /\ Tail(Ascending(Pending(c))) = Ascending(Pending(c)')
  <2>1. IsFiniteSet(Pending(c)) /\ Pending(c) \subseteq Nat
    BY NumbersOfTasks DEF Pending
  <2>2. /\ Ascending(Pending(c)) # <<>> /\ Head(Ascending(Pending(c))) = i
        /\ Tail(Ascending(Pending(c))) = Ascending(Pending(c) \ {i})
    BY <1>3, <1>7, <2>1, AscendingTail
  <2> QED
    BY <1>7, <2>2
<1>9. [d \in Contexts |-> Ascending(Pending(d))]'
        = [[d \in Contexts |-> Ascending(Pending(d))] EXCEPT ![c] = Tail(@)]
  <2>1. \A d \in Contexts : d # c => Pending(d)' = Pending(d)
    BY <1>6 DEF Pending
  <2> QED
    BY <1>8, <2>1
<1>10. [d \in Contexts |-> Numbers(d, {"running"})]'
         = [[d \in Contexts |-> Numbers(d, {"running"})] EXCEPT ![c] = {Head(Ascending(Pending(c)))}]
  BY <1>6, <1>7, <1>8
<1>11. Serial!Begin(c)
  BY <1>7, <1>8, <1>9, <1>10 DEF Serial!Begin, Pending
<1> QED
  BY <1>11

\* When a task ends, its context runs nothing, and what has not begun stays the same.
LEMMA EndEnds ==
  ASSUME Types, CameOnce, OneAfterTheOther, NEW t \in Tasks, state[t] = "running",
         NEW s \in {"completed", "canceled"}, state' = Ended(t, s), UNCHANGED <<script, came>>
  PROVE  \E c \in Contexts : Serial!End(c)
<1>1. PICK i \in 1..Len(came) : came[i] = t
  BY DEF CameOnce
<1>2. PICK c \in Contexts : c = script.context[t] /\ i \in Of(c)
  <2>1. script.context \in [Tasks -> Contexts]
    BY ScriptAssumption DEF Types, ScriptAssumption
  <2> QED
    BY <1>1, <2>1 DEF Of
<1>3. \A j \in Numbers(c, {"running"}) : j = i
  BY <1>1, <1>2, OneIsActive
<1>4. ASSUME NEW d, NEW r
      PROVE  /\ Numbers(d, r) = {j \in Of(d) : state[came[j]] \in r}
             /\ Numbers(d, r)' = {j \in Of(d) : state'[came[j]] \in r}
  <2>1. Numbers(d, r) = {j \in Of(d) : state[came[j]] \in r}
    BY NumbersOfTasks
  <2>2. DOMAIN came = 1..Len(came)
    BY DEF Types
  <2> QED
    BY <2>1, <2>2 DEF Numbers, Of
<1>5. /\ state'[t] = s
      /\ \A u \in Tasks : u # t => \/ state'[u] = state[u]
                                   \/ state[u] = "waiting" /\ state'[u] = "scheduled"
  BY EndedTasks
<1>6. \A d : \A j \in Of(d) : came[j] \in Tasks /\ (came[j] = t => j = i)
  BY <1>1 DEF CameOnce, Of, Types
<1>7. \A d \in Contexts : d # c => i \notin Of(d)
  BY <1>2 DEF Of
<1>8. \A d : Pending(d)' = Pending(d)
  <2>1. \A u \in Tasks : state'[u] \in {"waiting", "scheduled"} <=> state[u] \in {"waiting", "scheduled"}
    BY <1>5
  <2>2. ASSUME NEW d PROVE Pending(d)' = Pending(d)
    <3>1. \A j \in Of(d) : state'[came[j]] \in {"waiting", "scheduled"} <=> state[came[j]] \in {"waiting", "scheduled"}
      BY <1>6, <2>1
    <3>2. \A j : j \in Pending(d)' <=> j \in Pending(d)
      BY <1>4, <3>1 DEF Pending
    <3> QED
      BY <3>2
  <2> QED
    BY <2>2
<1>9. \A u \in Tasks : u # t => (state'[u] \in {"running"} <=> state[u] \in {"running"})
  BY <1>5
<1>10. ASSUME NEW d \in Contexts, d # c PROVE Numbers(d, {"running"})' = Numbers(d, {"running"})
  <2>1. \A j \in Of(d) : came[j] # t /\ came[j] \in Tasks
    BY <1>6, <1>7, <1>10
  <2>2. \A j : j \in Numbers(d, {"running"})' <=> j \in Numbers(d, {"running"})
    BY <1>4, <1>9, <2>1
  <2> QED
    BY <2>2
<1>11. i \in Numbers(c, {"running"}) /\ Numbers(c, {"running"})' = {}
  <2>1. i \in Numbers(c, {"running"})
    BY <1>1, <1>2, <1>4
  <2>2. ASSUME NEW j \in Numbers(c, {"running"})' PROVE FALSE
    <3>1. j \in Of(c) /\ state'[came[j]] \in {"running"} /\ came[j] \in Tasks
      BY <1>4, <1>6, <2>2
    <3>2. came[j] # t
      BY <1>5, <3>1
    <3>3. j \in Numbers(c, {"running"})
      BY <1>4, <1>9, <3>1, <3>2
    <3> QED
      BY <1>1, <1>3, <3>2, <3>3
  <2> QED
    BY <2>1, <2>2
<1>12. UNCHANGED [d \in Contexts |-> Ascending(Pending(d))]
  BY <1>8
<1>13. [d \in Contexts |-> Numbers(d, {"running"})]'
         = [[d \in Contexts |-> Numbers(d, {"running"})] EXCEPT ![c] = {}]
  BY <1>10, <1>11
<1>14. Serial!End(c)
  BY <1>11, <1>12, <1>13 DEF Serial!End, Pending
<1> QED
  BY <1>14

\* Every step of the contexts is a step of the executors or leaves them as they are.
LEMMA SerialStep == Lived /\ Ordered /\ [Next]_vars => [Serial!Next]_(Serial!vars)
<1> SUFFICES ASSUME Types, CallsLeft, FreshUntilMade, RunningIsSomewhere, LockExcludes,
                    CameOnce, OneAfterTheOther, [Next]_vars
             PROVE  [Serial!Next]_(Serial!vars)
  BY DEF Lived, Ordered
<1>a. MainThread \in Actors /\ Tasks \subseteq Actors /\ MainThread \notin Tasks
  BY ScriptAssumption DEF Actors, ScriptAssumption
<1>1. ASSUME UNCHANGED <<script, state, came>> PROVE UNCHANGED Serial!vars
  <2>1. \A c, s : Numbers(c, s)' = Numbers(c, s)
    BY <1>1 DEF Numbers
  <2> QED
    BY <1>1, <2>1 DEF Serial!vars
<1>2. ASSUME NEW a \in Actors, Lock(a) \/ Assign(a) \/ Unlock(a) PROVE UNCHANGED Serial!vars
  BY <1>1, <1>2 DEF Lock, Assign, Unlock
<1>3. ASSUME NEW a \in Actors, Chain(a) \/ ChainComplete(a) PROVE Serial!Next
  <2>1. PICK k, p : /\ k \in {1, 2} /\ Then(New(a)[k], p) /\ ~Made(a, 1, k) /\ UNCHANGED script
                    /\ at[a] \in {"then", "then complete"}
                    /\ k = 2 => Len(New(a)) = 2
    <3>1. CASE Chain(a)
      <4>1. Then(New(a)[1], last[Context(a)]) /\ at[a] = "then" /\ UNCHANGED script
        BY <3>1 DEF Chain, New
      <4>2. ~Made(a, 1, 1)
        BY <4>1 DEF Made
      <4> QED
        BY <4>1, <4>2
    <3>2. CASE ChainComplete(a)
      <4>1. Then(New(a)[2], New(a)[1]) /\ at[a] = "then complete" /\ UNCHANGED script
        BY <3>2, Zenon DEF ChainComplete, New
      <4>2. ~Made(a, 1, 2)
        <5>1. at[a] \notin {"assign", "unlock"}
          BY <4>1
        <5>2. ~(2 = 1)
          OBVIOUS
        <5> QED
          BY <5>1, <5>2, Zenon DEF Made
      <4>3. Len(New(a)) = 2
        BY <4>1 DEF LockExcludes, New
      <4> QED
        BY <4>1, <4>2, <4>3
    <3> QED
      BY <1>3, <3>1, <3>2
  <2>2. todo[a] # <<>>
    BY <2>1 DEF LockExcludes, Performing
  <2>3. /\ New(a) = todo[a][1] /\ 1 \in 1..Len(todo[a]) /\ Len(New(a)) \in 1..2
        /\ New(a)[1] \in Tasks /\ New(a)[Len(New(a))] \in Tasks /\ Context(a) \in Contexts
        /\ Context(a) = script.context[New(a)[1]]
        /\ Context(a) = script.context[New(a)[Len(New(a))]]
    BY <2>2, CallType
  <2>4. k \in 1..Len(New(a)) /\ New(a)[k] \in Tasks /\ Context(a) = script.context[New(a)[k]]
    <3>1. CASE k = 1
      <4>1. 1 \in 1..Len(New(a))
        BY <2>3
      <4> QED
        BY <2>3, <3>1, <4>1
    <3>2. CASE k = 2
      <4>1. Len(New(a)) = 2
        BY <2>1, <3>2
      <4> QED
        BY <2>3, <3>2, <4>1
    <3> QED
      BY <2>1, <3>1, <3>2
  <2>5. state[New(a)[k]] = "absent"
    BY <2>1, <2>3, <2>4 DEF FreshUntilMade
  <2>6. PICK t \in Tasks, c \in Contexts : t = New(a)[k] /\ c = Context(a)
    BY <2>3, <2>4
  <2>7. c = script.context[t] /\ state[t] = "absent" /\ Then(t, p)
    BY <2>1, <2>4, <2>5, <2>6
  <2>8. Serial!Submit(c)
    BY <2>1, <2>7, ThenSubmits
  <2> QED
    BY <2>8 DEF Serial!Next
<1>4. ASSUME NEW t \in Tasks, NEW s \in {"completed", "canceled"}, at[t] \in {"body", "cancel", "then"},
             state' = Ended(t, s), UNCHANGED <<script, came>>
      PROVE  Serial!Next
  <2>1. state[t] = "running"
    BY <1>4 DEF RunningIsSomewhere
  <2>2. PICK c \in Contexts : Serial!End(c)
    BY <1>4, <2>1, EndEnds
  <2> QED
    BY <2>2 DEF Serial!Next
<1>5. ASSUME NEW a \in Actors, ThrowEmpty(a) PROVE [Serial!Next]_(Serial!vars)
  <2>1. CASE a = MainThread
    BY <1>1, <1>5, <2>1 DEF ThrowEmpty
  <2>2. CASE a # MainThread
    <3>1. /\ at[a] = "then" /\ state' = Ended(a, "canceled") /\ UNCHANGED <<script, came>> /\ a \in Tasks
      BY <1>5, <2>2 DEF ThrowEmpty, Actors
    <3> QED
      BY <1>4, <3>1
  <2> QED
    BY <2>1, <2>2
<1>6. ASSUME NEW t \in Tasks, Begin(t) PROVE Serial!Next
  <2>1. state[t] = "scheduled" /\ state' = [state EXCEPT ![t] = "running"] /\ UNCHANGED <<script, came>>
    BY <1>6 DEF Begin
  <2>2. PICK c \in Contexts : Serial!Begin(c)
    BY <2>1, BeginBegins
  <2> QED
    BY <2>2 DEF Serial!Next
<1>7. ASSUME NEW t \in Tasks, Cancel(t) \/ Complete(t) PROVE Serial!Next
  <2>1. CASE Cancel(t)
    BY <1>4, <2>1 DEF Cancel
  <2>2. CASE Complete(t)
    BY <1>4, <2>2 DEF Complete
  <2> QED
    BY <1>7, <2>1, <2>2
<1>8. ASSUME TestExit \/ TestValid \/ TestReady \/ Wait \/ EndWait \/ Take PROVE UNCHANGED Serial!vars
  <2>1. UNCHANGED <<script, mutex, last, prev, state, todo, came>>
    BY <1>8, MainLooks
  <2> QED
    BY <1>1, <2>1
<1>9. CASE UNCHANGED vars
  <2>1. UNCHANGED <<script, state, came>>
    BY <1>9 DEF vars
  <2> QED
    BY <1>1, <2>1
<1> QED
  BY <1>a, <1>2, <1>3, <1>5, <1>6, <1>7, <1>8, <1>9 DEF Next, Run, Main, Perform

\* Whatever is performed by whom: the tasks of a context are run one at a time, in the order
\* in which perform() chained them, although any thread of the pool runs them.
THEOREM SwitchImplementsSerialExecutors == Spec => ImplementsSerialExecutors
BY OrderedAlways, InitSerial, SerialStep, PTL DEF Spec, ImplementsSerialExecutors, Serial!Spec
================================================================================
