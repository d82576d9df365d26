--------------------------------- MODULE Totals ---------------------------------
(***************************************************************************)
(* The sum of the values of a function, which are natural numbers, over a  *)
(* finite domain: how many tickets there are if each argument gets as many *)
(* as its value says.                                                      *)
(***************************************************************************)
EXTENDS Naturals, FiniteSets

Tickets(f) == UNION {{x} \X (1..f[x]) : x \in DOMAIN f}
Total(f)   == Cardinality(Tickets(f))
=================================================================================
