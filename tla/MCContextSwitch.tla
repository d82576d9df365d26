---------------------------- MODULE MCContextSwitch ----------------------------
EXTENDS ContextSwitch, TLC

Nothing == [a \in Actors |-> <<>>]

\* testContextsSwitch, the tasks named after the context, file, network or main.
TheTest ==
  [context  |-> [t \in Tasks |-> CASE t \in {"f1", "f2", "f3"} -> "file"
                                   [] t \in {"n1", "n2"} -> "network"
                                   [] OTHER -> "main"],
   performs |-> (MainThread :> <<<<"f1">>, <<"f2">>, <<"f3">>>>) @@ ("f1" :> <<<<"n1">>>>) @@ ("n1" :> <<<<"m1">>>>)
                @@ ("f2" :> <<<<"m2">>>>) @@ ("m2" :> <<<<"n2">>>>) @@ ("n2" :> <<<<"m3">>>>)
                @@ ("f3" :> <<<<"m4">>>>) @@ Nothing,
   ends     |-> "m1"]

\* The main thread performs in the context it looks at while tasks of another do, with a
\* function for the end: then(function).then(completeFunction).
Contended ==
  [context  |-> [t \in Tasks |-> IF t \in {"f1", "n1"} THEN "file" ELSE "main"],
   performs |-> (MainThread :> <<<<"f1">>, <<"n1">>, <<"m1", "m2">>>>)
                @@ ("f1" :> <<<<"m3">>>>) @@ ("n1" :> <<<<"m4">>>>) @@ Nothing,
   ends     |-> "m1"]

MCScripts == {TheTest, Contended}
================================================================================
