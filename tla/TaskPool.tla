------------------------------- MODULE TaskPool -------------------------------
(* What a pool of threads promises: tasks start in the order in which they    *)
(* were pushed, at most Capacity at a time and each at most once, and a pool  *)
(* that can run anything at all goes down only after it has completed what it *)
(* had accepted when its owner closed it.                                     *)
EXTENDS Naturals, Sequences, FiniteSets

CONSTANTS Tasks, Capacity

VARIABLES backlog, running, completed, owed, life

poolVars == <<backlog, running, completed, owed, life>>

Known == {backlog[n] : n \in 1..Len(backlog)} \union running \union completed

Init ==
  /\ backlog = <<>> /\ running = {} /\ completed = {} /\ owed = {}
  /\ life = "up"

(* A client pushes; once the pool is closing only a running task may.         *)
Accept(t) ==
  /\ life = "up" \/ (life = "closing" /\ running # {})
  /\ t \notin Known
  /\ backlog' = Append(backlog, t)
  /\ UNCHANGED <<running, completed, owed, life>>

Begin ==
  /\ life \in {"up", "closing"}
  /\ backlog # <<>> /\ Cardinality(running) < Capacity
  /\ running' = running \union {Head(backlog)}
  /\ backlog' = Tail(backlog)
  /\ UNCHANGED <<completed, owed, life>>

Complete(t) ==
  /\ life \in {"up", "closing"}
  /\ t \in running
  /\ running' = running \ {t}
  /\ completed' = completed \union {t}
  /\ UNCHANGED <<backlog, owed, life>>

Close ==
  /\ life = "up"
  /\ life' = "closing" /\ owed' = Known
  /\ UNCHANGED <<backlog, running, completed>>

(* Tasks that running tasks pushed after Close are dropped.                   *)
GoDown ==
  /\ life = "closing" /\ running = {}
  /\ Capacity > 0 => owed \subseteq completed
  /\ life' = "down" /\ backlog' = <<>>
  /\ UNCHANGED <<running, completed, owed>>

(* The pool could not be built.                                               *)
NeverUp ==
  /\ life = "up" /\ Known = {}
  /\ life' = "down"
  /\ UNCHANGED <<backlog, running, completed, owed>>

Crash ==
  /\ life \in {"up", "closing"}
  /\ life' = "crashed"
  /\ UNCHANGED <<backlog, running, completed, owed>>

Next ==
  \/ \E t \in Tasks : Accept(t) \/ Complete(t)
  \/ Begin \/ Close \/ GoDown \/ NeverUp \/ Crash

Spec == Init /\ [][Next]_poolVars
=============================================================================
