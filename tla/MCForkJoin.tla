------------------------------- MODULE MCForkJoin -------------------------------
EXTENDS ForkJoin

MCTasks    == {r \in (0..Elements) \X (0..Elements) : r[1] < r[2]}
MCNoTask   == <<>>
MCPlans    == {<<"static", {}>>, <<"auto", {}>>, <<"auto", {2}>>, <<"invoke", {2}>>}
=================================================================================
