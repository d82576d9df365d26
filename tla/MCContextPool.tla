----------------------------- MODULE MCContextPool -----------------------------
(* Small instances of ContextPool for TLC.                                     *)
EXTENDS ContextPool, TLC
===============================================================================
