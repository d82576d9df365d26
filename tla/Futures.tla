-------------------------------- MODULE Futures --------------------------------
(***************************************************************************)
(* What a task of async++ promises to those who hold it: it settles once,  *)
(* with a value or an exception, after the tasks it was made to follow     *)
(* have settled (all of them, or one of them for when_any), and it passes  *)
(* on the exception of a task whose value it asked for.                    *)
(***************************************************************************)
CONSTANT Tasks

VARIABLES
  phase,    \* "absent", "pending", "value" or "exception"
  after,    \* the tasks a task follows
  wants,    \* those of them whose value it asked for
  oneOf     \* whether it follows the first of them only

vars == <<phase, after, wants, oneOf>>

Settled(t) == phase[t] \in {"value", "exception"}
Existing   == {t \in Tasks : phase[t] # "absent"}
Changed(t) == /\ \A u \in Tasks \ {t} : phase'[u] = phase[u] /\ after'[u] = after[u]
              /\ \A u \in Tasks \ {t} : wants'[u] = wants[u] /\ oneOf'[u] = oneOf[u]

Init ==
  /\ phase = [t \in Tasks |-> "absent"]
  /\ after = [t \in Tasks |-> {}]
  /\ wants = [t \in Tasks |-> {}]
  /\ oneOf = [t \in Tasks |-> FALSE]

\* A task is made, to follow tasks that exist; it may have settled at once.
Create(t) ==
  /\ phase[t] = "absent" /\ phase'[t] # "absent"
  /\ after'[t] \subseteq Existing /\ wants'[t] \subseteq after'[t]
  /\ phase'[t] \in {"value", "exception"} => after'[t] = {}
  /\ Changed(t)

\* The function of a task returned another task: the outer one follows it.
Follow(t) ==
  /\ phase[t] = "pending" /\ phase'[t] = "pending"
  /\ \A u \in after[t] : Settled(u)
  /\ \E u \in Existing : after'[t] = after[t] \cup {u} /\ wants'[t] = wants[t] \cup {u}
  /\ Changed(t) /\ oneOf'[t] = oneOf[t]

Settle(t) ==
  /\ phase[t] = "pending" /\ phase'[t] \in {"value", "exception"}
  /\ IF oneOf[t] THEN \E u \in after[t] : Settled(u) ELSE \A u \in after[t] : Settled(u)
  /\ phase'[t] = "value" => \A u \in wants[t] : phase[u] = "value"
  /\ Changed(t) /\ UNCHANGED <<after, wants, oneOf>>

Next == \E t \in Tasks : Create(t) \/ Follow(t) \/ Settle(t)

Spec == Init /\ [][Next]_vars
================================================================================
