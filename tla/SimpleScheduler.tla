---------------------------- MODULE SimpleScheduler ----------------------------
(* src/scheduler/SimpleScheduler.cpp: one thread in start() scans a vector of *)
(* tasks once a second, runs those that are due and erases them.  A task may  *)
(* add tasks and may stop the scheduler; other threads may stop it too, and   *)
(* add tasks before start() is called.                                        *)
EXTENDS Naturals, Sequences

CONSTANTS
  Tasks,      \* tasks a behaviour may add, each once
  Times,      \* their points in time
  MaxTime     \* bound on the clock

ASSUME SchedulerAssumption == Times \subseteq Nat /\ MaxTime \in Nat

VARIABLES
  tasks,      \* the vector: records of a task and its time
  capacity,   \* the capacity of the vector
  running,    \* the flag that stop clears
  at,         \* start(): "new", "top", "scan", "call", "sleep" or "ended"
  it, now,    \* its iterator, as an index, and its reading of the clock
  clock,
  dangling,   \* the vector has moved while "it" was in use: undefined from here
  added,      \* history: what was added, in order
  ran,        \* history: the tasks whose function was called, in order
  threw       \* history: tasks that have thrown, each of them once

schedulerVars == <<tasks, capacity, running, at, it, now, clock, dangling, added, ran, threw>>

Entry(t, time) == [task |-> t, time |-> time]
Without(s, n) == SubSeq(s, 1, n - 1) \o SubSeq(s, n + 1, Len(s))

SchedulerInit ==
  /\ tasks = <<>> /\ capacity = 0 /\ running = TRUE
  /\ at = "new" /\ it = 1 /\ now = 0 /\ clock = 0 /\ dangling = FALSE
  /\ added = <<>> /\ ran = <<>> /\ threw = {}

Tick ==
  /\ clock < MaxTime /\ clock' = clock + 1
  /\ UNCHANGED <<tasks, capacity, running, at, it, now, dangling, added, ran, threw>>

-----------------------------------------------------------------------------
(* push_back: a full vector moves to memory of twice the size.                *)
PushBack(t, time) ==
  /\ \A n \in DOMAIN added : added[n].task # t
  /\ added' = Append(added, Entry(t, time))
  /\ tasks' = Append(tasks, Entry(t, time))
  /\ capacity' = IF Len(tasks) < capacity THEN capacity
                 ELSE IF capacity = 0 THEN 1 ELSE 2 * capacity

(* addTask before start.                                                      *)
AddTask(t, time) ==
  /\ at = "new"
  /\ PushBack(t, time)
  /\ UNCHANGED <<running, at, it, now, clock, dangling, ran, threw>>

(* addTask from the function that start() is calling.                         *)
AddTaskFromTask(t, time) ==
  /\ at = "call" /\ ~dangling
  /\ PushBack(t, time)
  /\ dangling' = (capacity' # capacity)
  /\ UNCHANGED <<running, at, it, now, clock, ran, threw>>

(* stop, from a task or from another thread.                                  *)
StopScheduler ==
  /\ running /\ at # "ended"
  /\ running' = FALSE
  /\ UNCHANGED <<tasks, capacity, at, it, now, clock, dangling, added, ran, threw>>

-----------------------------------------------------------------------------
Start ==
  /\ at = "new" /\ at' = "top"
  /\ UNCHANGED <<tasks, capacity, running, it, now, clock, dangling, added, ran, threw>>

(* while (running), and the clock is read once for the whole pass.            *)
Top ==
  /\ at = "top"
  /\ IF running THEN at' = "scan" /\ it' = 1 /\ now' = clock
     ELSE at' = "ended" /\ UNCHANGED <<it, now>>
  /\ UNCHANGED <<tasks, capacity, running, clock, dangling, added, ran, threw>>

(* One turn of the for loop up to the call of the function.                   *)
Scan ==
  /\ at = "scan"
  /\ IF it > Len(tasks) THEN at' = "sleep" /\ UNCHANGED <<it, ran>>
     ELSE IF tasks[it].time <= now
          THEN at' = "call" /\ ran' = Append(ran, tasks[it].task) /\ UNCHANGED it
          ELSE it' = it + 1 /\ UNCHANGED <<at, ran>>
  /\ UNCHANGED <<tasks, capacity, running, now, clock, dangling, added, threw>>

(* The function returns and its task is erased.  With a dangling iterator     *)
(* nothing can be said of this step, so there is none.                        *)
EraseMutantSkips ==
  /\ at = "call" /\ ~dangling
  /\ tasks' = Without(tasks, it) /\ it' = it + 1 /\ at' = "scan"
  /\ UNCHANGED <<capacity, running, now, clock, dangling, added, ran, threw>>

EraseMutantLast ==
  /\ at = "call" /\ ~dangling
  /\ tasks' = Without(tasks, Len(tasks)) /\ at' = "scan"
  /\ UNCHANGED <<capacity, running, it, now, clock, dangling, added, ran, threw>>

Erase ==
  /\ at = "call" /\ ~dangling
  /\ tasks' = Without(tasks, it) /\ at' = "scan"
  /\ UNCHANGED <<capacity, running, it, now, clock, dangling, added, ran, threw>>

(* An exception of the function leaves start() with the task still there. The *)
(* caller may call start() again.                                             *)
TaskThrows ==
  /\ at = "call" /\ ~dangling /\ tasks[it].task \notin threw
  /\ at' = "new" /\ threw' = threw \union {tasks[it].task}
  /\ UNCHANGED <<tasks, capacity, running, it, now, clock, dangling, added, ran>>

Sleep ==
  /\ at = "sleep" /\ at' = "top"
  /\ UNCHANGED <<tasks, capacity, running, it, now, clock, dangling, added, ran, threw>>
-----------------------------------------------------------------------------
Loop == Top \/ Scan \/ Erase \/ Sleep

SchedulerNext ==
  \/ Tick \/ StopScheduler \/ Start \/ Loop \/ TaskThrows
  \/ \E t \in Tasks, time \in Times : AddTask(t, time) \/ AddTaskFromTask(t, time)

SchedulerSpec == SchedulerInit /\ [][SchedulerNext]_schedulerVars

(* The thread in start() runs, its functions return, and time passes.         *)
FairSchedulerSpec == SchedulerSpec /\ WF_schedulerVars(Loop) /\ WF_schedulerVars(Tick)
-----------------------------------------------------------------------------
Elements(s) == {s[n] : n \in DOMAIN s}
Scheduled == {e.task : e \in Elements(tasks)}
Called == IF at = "call" THEN {tasks[it].task} ELSE {}

(* Erasing at the iterator while tasks append behind it neither repeats a     *)
(* task nor loses one: what was added is in the vector or has run, once, and  *)
(* not before its time.  A task that has thrown may run again.                *)
RunOnce ==
  /\ {e.task : e \in Elements(added)} = Scheduled \union Elements(ran)
  /\ Scheduled \intersect Elements(ran) \subseteq Called \union threw
  /\ \A m, n \in DOMAIN ran : ran[m] = ran[n] => m = n \/ ran[m] \in threw
  /\ \A e \in Elements(added) : e.task \in Elements(ran) => e.time <= clock

(* A pass leaves nothing behind that was due when it began, nor anything due  *)
(* by then that its own functions have added.                                 *)
PassLeavesNothingDue ==
  at = "sleep" => \A e \in Elements(tasks) : e.time > now

(* Every task runs, or the scheduler is stopped, or a function has thrown out *)
(* of start(), or the vector has moved under the loop.                        *)
EveryTaskRuns ==
  \A t \in Tasks :
    (at # "new" /\ t \in Scheduled)
      ~> (t \in Elements(ran) \/ ~running \/ at = "new" \/ dangling)
=============================================================================
