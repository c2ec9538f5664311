------------------------------- MODULE MCLogger -------------------------------
(* Logger with few callers and messages, for every kind of logger.            *)
EXTENDS Logger, TLC
=============================================================================
