-------------------------------- MODULE MCTasks --------------------------------
EXTENDS Tasks, TLC

MCTasks  == 1..7
MCShared == {1}

\* A program from the kinds of its objects, and the parents and targets that are not None.
Program(ks, ps, ts) ==
  [kind   |-> [t \in MCTasks |-> IF t \in DOMAIN ks THEN ks[t] ELSE "none"],
   parent |-> [t \in MCTasks |-> IF t \in DOMAIN ps THEN ps[t] ELSE None],
   target |-> [t \in MCTasks |-> IF t \in DOMAIN ts THEN ts[t] ELSE None]]

MCPrograms == {
  \* three continuations of a shared task, one of them a waiting thread
  Program(<<"root", "value", "whole", "signal">>, 2 :> 1 @@ 3 :> 1 @@ 4 :> 1, <<>>),
  \* threads that wait for a shared task, next to a continuation
  Program(<<"root", "signal", "signal", "value", "signal">>, [t \in 2..5 |-> 1], <<>>),
  \* when_all of a task and an event, continued and waited for
  Program(<<"root", "event", "all", "gather", "gather", "value">>,
          4 :> 1 @@ 5 :> 2 @@ 6 :> 3, 4 :> 3 @@ 5 :> 3),
  \* when_all of a task, an exception and what follows both
  Program(<<"root", "made", "value", "whole", "all", "gather", "gather">>,
          3 :> 1 @@ 4 :> 2 @@ 6 :> 3 @@ 7 :> 4, 6 :> 5 @@ 7 :> 5),
  \* when_any of a task that is there and one that may come, waited for
  Program(<<"made", "root", "any", "first", "first", "signal">>,
          4 :> 1 @@ 5 :> 2 @@ 6 :> 3, 4 :> 3 @@ 5 :> 3),
  \* a function that returns a task, and what follows the function
  Program(<<"root", "root", "forward", "value", "whole">>,
          3 :> 2 @@ 4 :> 1 @@ 5 :> 4, 3 :> 1),
  \* a continuation that returns an event, and a continuation of that
  Program(<<"made", "event", "whole", "forward", "value", "signal">>,
          3 :> 1 @@ 4 :> 2 @@ 5 :> 3 @@ 6 :> 3, 4 :> 3),
  \* a continuation of a shared task that returns this task again, and what follows it
  Program(<<"root", "whole", "forward", "value">>, 2 :> 1 @@ 3 :> 1 @@ 4 :> 2, 3 :> 2)}
================================================================================
