--------------------------- MODULE MCSimpleScheduler ---------------------------
(* SimpleScheduler with a few tasks that may be due at once or later.         *)
EXTENDS SimpleScheduler, TLC
=============================================================================
