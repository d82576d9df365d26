------------------------------- MODULE MCChannel -------------------------------
EXTENDS Channel, TLC

Program(n, a, b, c, d) ==
  [room |-> n, calls |-> "a" :> a @@ "b" :> b @@ "c" :> c @@ "d" :> d]

\* A channel is used by selects that send or by selects that receive, not by both: the code
\* says that it does not support that.
MCPrograms ==
  LET S == "send"
      R == "recv" IN
  {Program(n, <<S, S>>, <<S>>, <<R, R>>, <<R>>) : n \in 0..2} \cup
  {Program(n, <<S, R>>, <<R, S>>, <<S, R>>, <<R, S>>) : n \in 0..1} \cup
  {Program(1, <<S, "select send">>, <<S>>, <<R, R>>, <<R>>),
   Program(0, <<S, "select send">>, <<S>>, <<R, R, R>>, <<>>),
   Program(0, <<"offer", S>>, <<S>>, <<R, R>>, <<R>>),
   Program(0, <<"select send">>, <<S>>, <<R>>, <<R>>),
   Program(0, <<"select send", R>>, <<"select send">>, <<S, R>>, <<R>>)} \cup
  {Program(n, <<S, S>>, <<S>>, <<"select recv", R>>, <<R>>) : n \in 0..1} \cup
  {Program(1, <<S, S>>, <<S>>, <<"poll", R>>, <<R>>)}
================================================================================
