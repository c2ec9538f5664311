----------------------------- MODULE MCThreadPool -----------------------------
(* ThreadPool on small pools: every task and every worker, all interleavings. *)
EXTENDS ThreadPool, TLC
=============================================================================
