------------------------------ MODULE MCWaitQueue ------------------------------
(* Small instances of WaitQueue for TLC. *)
EXTENDS WaitQueue
===============================================================================
