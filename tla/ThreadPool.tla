------------------------------ MODULE ThreadPool ------------------------------
(* The fixed-size pool of src/thread_pool/thread_pool.cpp over the blocking   *)
(* queue of src/thread_safe_queue/thread_safe_queue.h.  A critical section of *)
(* the queue's mutex is one action.  Three parties move: the owner, who       *)
(* constructs and destroys the pool, the workers, and the clients (threads or *)
(* running tasks) that push.                                                  *)
EXTENDS Naturals, Sequences, FiniteSets

CONSTANTS
  Tasks,     \* the calls of push a behaviour makes, each an Execute task
  NThreads,  \* n_threads
  Stop,      \* the stop_task of the destructor
  None       \* a worker with no task in hand

ASSUME PoolAssumption ==
  /\ NThreads \in Nat
  /\ Stop \notin Tasks /\ None \notin Tasks

VARIABLES
  queue,     \* _queue of the ThreadSafeQueue
  pc,        \* where each worker is in make_thread_handler and pop
  elem,      \* the task a worker runs
  phase,     \* where the owner is in the constructor or the destructor
  i,         \* the loop index of the constructor, then of the destructor
  pushed,    \* history: tasks for which push returned true
  finished,  \* history: tasks that returned
  accepted   \* history: the value of pushed when the destructor was entered

vars == <<queue, pc, elem, phase, i, pushed, finished, accepted>>

Workers == 1..NThreads

(* "unborn": the std::thread does not exist.  "pop": about to lock the queue  *)
(* in pop.  "wait": blocked on _queue_cv.  "run": inside elem.task.           *)
(* "done": the thread function returned.                                      *)
WorkerStates == {"unborn", "pop", "wait", "run", "done"}

(* "ctor", "open" (usable), "push" and "join" (the two halves of an iteration *)
(* of the destructor), "gone".  "failed": the constructor threw before any    *)
(* thread existed.  "aborted": std::terminate.                                *)
Phases == {"ctor", "open", "push", "join", "gone", "failed", "aborted"}

Alive == phase \notin {"gone", "failed", "aborted"}

Waiters == {w \in Workers : pc[w] = "wait"}
Poppers == {w \in Workers : pc[w] = "pop"}
Finishers == {w \in Workers : pc[w] = "done"}
Running(w) == pc[w] = "run"

Init ==
  /\ queue = <<>>
  /\ pc = [w \in Workers |-> "unborn"]
  /\ elem = [w \in Workers |-> None]
  /\ phase = "ctor" /\ i = 0
  /\ pushed = {} /\ finished = {} /\ accepted = {}

-----------------------------------------------------------------------------
(* ThreadSafeQueue::push appends and notifies one waiter, if there is one,    *)
(* while it holds the mutex.                                                  *)
PushMutantNoNotify(item) == queue' = Append(queue, item) /\ UNCHANGED pc
PushMutantFront(item) ==
  /\ queue' = <<item>> \o queue
  /\ IF Waiters = {} THEN UNCHANGED pc
     ELSE \E w \in Waiters : pc' = [pc EXCEPT ![w] = "pop"]

QueuePush(item) ==
  /\ queue' = Append(queue, item)
  /\ IF Waiters = {} THEN UNCHANGED pc
     ELSE \E w \in Waiters : pc' = [pc EXCEPT ![w] = "pop"]

(* The constructor's loop: one more thread, running make_thread_handler.      *)
CreateThreadMutantOneMore ==
  /\ phase = "ctor" /\ i <= NThreads
  /\ pc' = [pc EXCEPT ![i + 1] = "pop"]
  /\ i' = i + 1
  /\ UNCHANGED <<queue, elem, phase, pushed, finished, accepted>>

CreateThread ==
  /\ phase = "ctor" /\ i < NThreads
  /\ pc' = [pc EXCEPT ![i + 1] = "pop"]
  /\ i' = i + 1
  /\ UNCHANGED <<queue, elem, phase, pushed, finished, accepted>>

(* std::thread throws: _threads is destroyed, and a joinable thread in it     *)
(* means std::terminate.                                                      *)
CreateFails ==
  /\ phase = "ctor" /\ i < NThreads
  /\ phase' = IF i = 0 THEN "failed" ELSE "aborted"
  /\ UNCHANGED <<queue, pc, elem, i, pushed, finished, accepted>>

CtorReturns ==
  /\ phase = "ctor" /\ i = NThreads
  /\ phase' = "open"
  /\ UNCHANGED <<queue, pc, elem, i, pushed, finished, accepted>>

(* ThreadPool::push from a thread that may still use the pool.                *)
Submit(t) ==
  /\ phase = "open" /\ t \notin pushed
  /\ QueuePush(t)
  /\ pushed' = pushed \union {t}
  /\ UNCHANGED <<elem, phase, i, finished, accepted>>

(* ThreadPool::push from inside a task, in the destructor too.                *)
SubmitFromTask(w, t) ==
  /\ Alive /\ Running(w) /\ t \notin pushed
  /\ QueuePush(t)
  /\ pushed' = pushed \union {t}
  /\ UNCHANGED <<elem, phase, i, finished, accepted>>

-----------------------------------------------------------------------------
(* pop with an empty queue: wait releases the mutex and blocks in one step.   *)
Block(w) ==
  /\ Alive /\ pc[w] = "pop" /\ queue = <<>>
  /\ pc' = [pc EXCEPT ![w] = "wait"]
  /\ UNCHANGED <<queue, elem, phase, i, pushed, finished, accepted>>

(* pop with an element: front and pop, then the switch of the handler.        *)
TakeMutantKeep(w) ==
  /\ Alive /\ pc[w] = "pop" /\ queue # <<>>
  /\ queue' = IF Head(queue) = Stop THEN Tail(queue) ELSE queue
  /\ IF Head(queue) = Stop
     THEN pc' = [pc EXCEPT ![w] = "done"] /\ UNCHANGED elem
     ELSE /\ pc' = [pc EXCEPT ![w] = "run"]
          /\ elem' = [elem EXCEPT ![w] = Head(queue)]
  /\ UNCHANGED <<phase, i, pushed, finished, accepted>>

Take(w) ==
  /\ Alive /\ pc[w] = "pop" /\ queue # <<>>
  /\ queue' = Tail(queue)
  /\ IF Head(queue) = Stop
     THEN pc' = [pc EXCEPT ![w] = "done"] /\ UNCHANGED elem
     ELSE /\ pc' = [pc EXCEPT ![w] = "run"]
          /\ elem' = [elem EXCEPT ![w] = Head(queue)]
  /\ UNCHANGED <<phase, i, pushed, finished, accepted>>

(* wait returns without a notification; its predicate loop starts again.      *)
SpuriousWakeup(w) ==
  /\ Alive /\ pc[w] = "wait"
  /\ pc' = [pc EXCEPT ![w] = "pop"]
  /\ UNCHANGED <<queue, elem, phase, i, pushed, finished, accepted>>

(* elem.task(elem.arguments) returns.                                         *)
Finish(w) ==
  /\ Alive /\ Running(w)
  /\ finished' = finished \union {elem[w]}
  /\ pc' = [pc EXCEPT ![w] = "pop"]
  /\ elem' = [elem EXCEPT ![w] = None]
  /\ UNCHANGED <<queue, phase, i, pushed, accepted>>

(* elem.task(elem.arguments) throws out of the thread function.               *)
Throw(w) ==
  /\ Alive /\ Running(w)
  /\ phase' = "aborted"
  /\ UNCHANGED <<queue, pc, elem, i, pushed, finished, accepted>>

-----------------------------------------------------------------------------
Destroy ==
  /\ phase = "open"
  /\ phase' = "push" /\ i' = 0
  /\ accepted' = pushed
  /\ UNCHANGED <<queue, pc, elem, pushed, finished>>

(* push(stop_task) of iteration i.                                            *)
PushStopMutantFront ==
  /\ phase = "push" /\ i < NThreads
  /\ PushMutantFront(Stop)
  /\ phase' = "join"
  /\ UNCHANGED <<elem, i, pushed, finished, accepted>>

PushStop ==
  /\ phase = "push" /\ i < NThreads
  /\ QueuePush(Stop)
  /\ phase' = "join"
  /\ UNCHANGED <<elem, i, pushed, finished, accepted>>

(* _threads[i].join(): thread i of the code is worker i + 1 here.             *)
JoinMutantDetach ==
  /\ phase = "join"
  /\ phase' = "push" /\ i' = i + 1
  /\ UNCHANGED <<queue, pc, elem, pushed, finished, accepted>>

Join ==
  /\ phase = "join" /\ pc[i + 1] = "done"
  /\ phase' = "push" /\ i' = i + 1
  /\ UNCHANGED <<queue, pc, elem, pushed, finished, accepted>>

(* The loop ends; _threads and then _queue are destroyed.                     *)
DtorReturns ==
  /\ phase = "push" /\ i = NThreads
  /\ phase' = "gone" /\ queue' = <<>>
  /\ UNCHANGED <<pc, elem, i, pushed, finished, accepted>>

-----------------------------------------------------------------------------
Owner == CreateThread \/ CtorReturns \/ PushStop \/ Join \/ DtorReturns

Worker(w) == Block(w) \/ Take(w) \/ Finish(w)

Next ==
  \/ Owner
  \/ CreateFails
  \/ Destroy
  \/ \E t \in Tasks : Submit(t)
  \/ \E w \in Workers, t \in Tasks : SubmitFromTask(w, t)
  \/ \E w \in Workers : Worker(w) \/ SpuriousWakeup(w) \/ Throw(w)

Spec == Init /\ [][Next]_vars

(* Threads that can run do run, and every task returns or throws.             *)
Fairness == WF_vars(Owner) /\ \A w \in Workers : WF_vars(Worker(w))

FairSpec == Spec /\ Fairness
-----------------------------------------------------------------------------
(* Type invariant of the pool's state.                                        *)
TypeOK ==
  /\ queue \in Seq(Tasks \union {Stop})
  /\ pc \in [Workers -> WorkerStates]
  /\ elem \in [Workers -> Tasks \union {None}]
  /\ \A w \in Workers : Running(w) => elem[w] \in Tasks
  /\ phase \in Phases
  /\ (phase = "ctor") => \A w \in (i + 1)..NThreads : pc[w] = "unborn"
  /\ i \in 0..NThreads
  /\ (phase = "join") => i < NThreads
  /\ pushed \subseteq Tasks /\ finished \subseteq Tasks /\ accepted \subseteq Tasks

(* While a worker sleeps on _queue_cv, every element of the queue has a       *)
(* worker that is awake and on its way to the front of the queue: notify_one  *)
(* for one push at a time loses no wakeup.                                    *)
NoLostWakeup ==
  (Alive /\ Waiters # {}) => Len(queue) <= Cardinality(Poppers)

(* A push is run at most once and is never dropped while the pool lives: a    *)
(* pushed task is in the queue once, or in one worker's hand, or finished.    *)
InQueue == {t \in Tasks : \E n \in 1..Len(queue) : queue[n] = t}
InHand == {elem[w] : w \in {v \in Workers : Running(v)}}

ExactlyOnce ==
  /\ Alive => pushed = InQueue \union InHand \union finished
  /\ InHand \intersect finished = {}
  /\ InQueue \intersect (InHand \union finished) = {}
  /\ \A m, n \in 1..Len(queue) :
       (m # n /\ queue[m] = queue[n]) => queue[m] = Stop
  /\ \A v, w \in Workers :
       (Running(v) /\ Running(w) /\ elem[v] = elem[w]) => v = w

(* Where the stop pills of the destructor are.  Between iterations exactly    *)
(* the joined workers have returned and no pill is queued.  In an iteration   *)
(* the pill is the only one queued, or one worker that is not joined yet has  *)
(* taken it.                                                                  *)
Pills == {n \in 1..Len(queue) : queue[n] = Stop}

PillTaken == phase = "join" /\ Pills = {}

StopAccounting ==
  /\ phase \in {"ctor", "open"} => Pills = {} /\ Finishers = {}
  /\ phase \in {"push", "gone"} => Pills = {} /\ Finishers = 1..i
  /\ phase = "join" =>
       \/ (\E n \in 1..Len(queue) : Pills = {n}) /\ Finishers = 1..i
       \/ /\ Pills = {}
          /\ \E w \in (i + 1)..NThreads : Finishers = (1..i) \union {w}

(* The destructor pushes one pill and joins one particular worker.  When      *)
(* another worker has taken the pill no pill is left for the one being joined *)
(* and the owner waits in join for ever: the step that ends it would be a     *)
(* crash of the whole process.                                                *)
Stolen == PillTaken /\ pc[i + 1] # "done"

StolenForever == [][Stolen => (Stolen' \/ phase' = "aborted")]_vars

(* A pool that has workers and whose destructor returned ran every task that  *)
(* had been pushed when the destructor was entered.                           *)
DrainedWhenGone == (phase = "gone" /\ NThreads > 0) => accepted \subseteq finished

(* What the destructor relies on for it: no accepted task is behind a pill,   *)
(* and none is queued any more once a worker has returned.                    *)
AcceptedBeforePills ==
  /\ \A m, n \in 1..Len(queue) :
       (queue[m] = Stop /\ queue[n] \in accepted) => n < m
  /\ (Alive /\ Finishers # {}) => accepted \intersect InQueue = {}

(* The destructor ends, or the process dies, or the pill went to another      *)
(* worker: there is no other way for it to hang.                              *)
DestructorEnds == (phase = "push") ~> (phase \in {"gone", "aborted"} \/ Stolen)

(* A task pushed while the pool is open runs to its end, destructor or not,   *)
(* hanging or not, unless the process dies.                                   *)
AcceptedTaskRuns ==
  \A t \in Tasks :
    (phase = "open" /\ t \in pushed) ~> (t \in finished \/ phase = "aborted")
-----------------------------------------------------------------------------
(* The pool as a client sees it: the tasks that wait are the queue without    *)
(* the pill, of which there is one at most.                                   *)
Waiting ==
  [n \in 1..(IF Pills = {} THEN Len(queue) ELSE Len(queue) - 1) |->
     IF \E m \in Pills : m <= n THEN queue[n + 1] ELSE queue[n]]

Life ==
  CASE phase \in {"ctor", "open"} -> "up"
    [] phase \in {"push", "join"} -> "closing"
    [] phase \in {"gone", "failed"} -> "down"
    [] phase = "aborted" -> "crashed"

Promise == INSTANCE TaskPool WITH
  backlog <- Waiting, running <- InHand, completed <- finished,
  owed <- accepted, life <- Life, Capacity <- NThreads

(* The pool keeps what TaskPool promises: order, one run of each task, no     *)
(* more at once than it has threads, and an end that comes after the work.    *)
PromiseSpec == Promise!Spec
=============================================================================
