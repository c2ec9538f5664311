--------------------------- MODULE ThreadPoolProofs ---------------------------
(* Theorems about ThreadPool for every number of workers and any set of       *)
(* tasks.  The order follows the argument: types, wakeups, where the pills    *)
(* are, where each task is, and from these what the destructor guarantees.    *)
EXTENDS ThreadPool, SequenceTheorems, FiniteSetTheorems, TLAPS

(* Reading the sequence that Append returns, element by element.             *)
LEMMA AppendElements ==
  ASSUME NEW S, NEW s \in Seq(S), NEW x \in S
  PROVE  /\ Append(s, x) \in Seq(S)
         /\ Len(Append(s, x)) = Len(s) + 1
         /\ \A n \in 1..Len(s) : Append(s, x)[n] = s[n]
         /\ Append(s, x)[Len(s) + 1] = x
BY AppendProperties

(* The same for Tail.                                                         *)
LEMMA TailElements ==
  ASSUME NEW S, NEW s \in Seq(S), s # <<>>
  PROVE  /\ Head(s) \in S /\ Head(s) = s[1]
         /\ Tail(s) \in Seq(S)
         /\ Len(s) \in Nat \ {0}
         /\ Len(Tail(s)) = Len(s) - 1
         /\ \A n \in 1..Len(Tail(s)) : Tail(s)[n] = s[n + 1]
BY HeadTailProperties, LenProperties, EmptySeq

(* One push of an item changes nothing of pc but wakes at most one waiter.    *)
LEMMA PushWakes ==
  ASSUME TypeOK, NEW item, QueuePush(item)
  PROVE  /\ pc' \in [Workers -> WorkerStates]
         /\ \A w \in Workers :
              pc'[w] = pc[w] \/ (pc[w] = "wait" /\ pc'[w] = "pop")
BY DEF TypeOK, QueuePush, Waiters, WorkerStates

-----------------------------------------------------------------------------
(* Every reachable state has the types of TypeOK.                             *)
THEOREM Typing == Spec => []TypeOK
<1>1. Init => TypeOK
  BY PoolAssumption DEF Init, TypeOK, WorkerStates, Phases, Running, Workers
<1>2. TypeOK /\ [Next]_vars => TypeOK'
  <2> SUFFICES ASSUME TypeOK, [Next]_vars PROVE TypeOK'
    OBVIOUS
  <2> USE PoolAssumption DEF TypeOK, Running
  <2>1. CASE CreateThread
    BY <2>1 DEF CreateThread, Workers, WorkerStates, Phases
  <2>2. CASE CreateFails
    BY <2>2 DEF CreateFails, Phases
  <2>3. CASE CtorReturns
    BY <2>3 DEF CtorReturns, Phases
  <2>4. CASE Destroy
    BY <2>4 DEF Destroy, Phases
  <2>5. CASE PushStop
    <3>1. queue' \in Seq(Tasks \union {Stop})
      BY <2>5, AppendElements DEF PushStop, QueuePush
    <3>2. /\ pc' \in [Workers -> WorkerStates]
          /\ \A w \in Workers : Running(w)' => Running(w)
      BY <2>5, PushWakes DEF PushStop
    <3> QED BY <2>5, <3>1, <3>2 DEF PushStop, Phases
  <2>6. CASE Join
    BY <2>6 DEF Join, Phases
  <2>7. CASE DtorReturns
    BY <2>7 DEF DtorReturns, Phases
  <2>8. ASSUME NEW t \in Tasks, Submit(t) \/ \E w \in Workers : SubmitFromTask(w, t)
        PROVE  TypeOK'
    <3>0. QueuePush(t) /\ UNCHANGED <<elem, phase, i, finished, accepted>>
          /\ pushed' = pushed \union {t}
      BY <2>8 DEF Submit, SubmitFromTask
    <3>1. queue' \in Seq(Tasks \union {Stop})
      BY <3>0, AppendElements DEF QueuePush
    <3>2. /\ pc' \in [Workers -> WorkerStates]
          /\ \A w \in Workers : Running(w)' => Running(w)
      BY <3>0, PushWakes
    <3>3. (phase' = "ctor") => \A v \in (i' + 1)..NThreads : pc'[v] = "unborn"
      BY <3>0, PushWakes DEF Workers
    <3> QED BY <3>0, <3>1, <3>2, <3>3
  <2>9. ASSUME NEW w \in Workers, Worker(w) \/ SpuriousWakeup(w) \/ Throw(w)
        PROVE  TypeOK'
    <3>1. (phase' = "ctor") => \A v \in (i' + 1)..NThreads : pc'[v] = "unborn"
      BY <2>9 DEF Worker, Block, Take, Finish, SpuriousWakeup, Throw, Workers
    <3>2. CASE Block(w) \/ SpuriousWakeup(w)
      BY <3>1, <3>2 DEF Block, SpuriousWakeup, WorkerStates
    <3>3. CASE Take(w)
      <4>1. Head(queue) \in Tasks \union {Stop} /\ Tail(queue) \in Seq(Tasks \union {Stop})
        BY <3>3, TailElements DEF Take
      <4>2. pc' \in [Workers -> WorkerStates] /\ elem' \in [Workers -> Tasks \union {None}]
        BY <3>3, <4>1 DEF Take, WorkerStates
      <4>3. \A v \in Workers : Running(v)' => elem'[v] \in Tasks
        BY <3>3, <4>1 DEF Take
      <4> QED BY <3>1, <3>3, <4>1, <4>2, <4>3 DEF Take
    <3>4. CASE Finish(w)
      BY <3>1, <3>4 DEF Finish, WorkerStates
    <3>5. CASE Throw(w)
      BY <3>5 DEF Throw, Phases
    <3> QED BY <2>9, <3>2, <3>3, <3>4, <3>5 DEF Worker
  <2>10. CASE UNCHANGED vars
    BY <2>10 DEF vars
  <2> QED BY <2>1, <2>2, <2>3, <2>4, <2>5, <2>6, <2>7, <2>8, <2>9, <2>10
          DEF Next, Owner
<1> QED BY <1>1, <1>2, PTL DEF Spec
-----------------------------------------------------------------------------
(* How many workers are on their way to the queue, when one of them leaves or *)
(* one comes.                                                                 *)
LEMMA PoppersFinite ==
  /\ IsFiniteSet(Poppers)
  /\ Cardinality(Poppers) \in Nat
<1>1. IsFiniteSet(Workers)
  BY FS_Interval, PoolAssumption DEF Workers
<1>2. Poppers \subseteq Workers
  BY DEF Poppers
<1> QED BY <1>1, <1>2, FS_Subset, FS_CardinalityType

(* One more worker in pop, one more in the count.                             *)
LEMMA PopperComes ==
  ASSUME NEW w \in Workers, pc[w] # "pop", Poppers' = Poppers \union {w}
  PROVE  Cardinality(Poppers') = Cardinality(Poppers) + 1
<1>1. w \notin Poppers
  BY DEF Poppers
<1> QED BY <1>1, PoppersFinite, FS_AddElement

(* One worker fewer in pop, one fewer in the count.                           *)
LEMMA PopperLeaves ==
  ASSUME NEW w \in Workers, pc[w] = "pop", Poppers' = Poppers \ {w}
  PROVE  Cardinality(Poppers') = Cardinality(Poppers) - 1
<1>1. w \in Poppers
  BY DEF Poppers
<1> QED BY <1>1, PoppersFinite, FS_RemoveElement

(* Both sides of NoLostWakeup are numbers.                                    *)
LEMMA PopperCount == TypeOK => Cardinality(Poppers) \in Nat /\ Len(queue) \in Nat
BY PoppersFinite, LenProperties DEF TypeOK

(* A push keeps NoLostWakeup: what it adds to the queue it pays with a wakeup.*)
LEMMA PushKeepsWakeups ==
  ASSUME TypeOK, NoLostWakeup, Alive, NEW item \in Tasks \union {Stop}, QueuePush(item)
  PROVE  NoLostWakeup'
<1>1. Len(queue') = Len(queue) + 1
  BY AppendElements DEF QueuePush, TypeOK
<1>2. CASE Waiters = {}
  BY <1>2 DEF NoLostWakeup, QueuePush, Waiters
<1>3. CASE Waiters # {}
  <2>1. PICK w \in Waiters : pc' = [pc EXCEPT ![w] = "pop"]
    BY <1>3 DEF QueuePush
  <2>2. w \in Workers /\ pc[w] = "wait"
    BY DEF Waiters
  <2>3. Poppers' = Poppers \union {w}
    BY <2>1, <2>2 DEF Poppers, TypeOK
  <2>4. Cardinality(Poppers') = Cardinality(Poppers) + 1
    BY <2>2, <2>3, PopperComes
  <2> QED BY <1>1, <1>3, <2>4, PopperCount DEF NoLostWakeup
<1> QED BY <1>2, <1>3

(* A worker asleep never goes unnoticed: NoLostWakeup holds throughout.       *)
THEOREM WakeupsNotLost == Spec => []NoLostWakeup
<1>1. Init => NoLostWakeup
  BY DEF Init, NoLostWakeup, Waiters
<1>2. TypeOK /\ NoLostWakeup /\ [Next]_vars => NoLostWakeup'
  <2> SUFFICES ASSUME TypeOK, NoLostWakeup, [Next]_vars PROVE NoLostWakeup'
    OBVIOUS
  <2>1. CASE CreateThread
    <3>0. i + 1 \in Workers /\ UNCHANGED queue /\ (Alive' <=> Alive)
      BY <2>1, PoolAssumption DEF CreateThread, Workers, TypeOK, Alive
    <3>1. CASE pc[i + 1] = "pop"
      BY <3>0, <3>1, <2>1 DEF CreateThread, NoLostWakeup, Waiters, Poppers, TypeOK
    <3>2. CASE pc[i + 1] # "pop"
      <4>1. Poppers' = Poppers \union {i + 1}
        BY <3>0, <2>1 DEF CreateThread, Poppers, TypeOK
      <4>2. Cardinality(Poppers') = Cardinality(Poppers) + 1
        BY <3>0, <3>2, <4>1, PopperComes
      <4>3. Waiters' \subseteq Waiters
        BY <3>0, <2>1 DEF CreateThread, Waiters, TypeOK
      <4> QED BY <3>0, <4>2, <4>3, PopperCount DEF NoLostWakeup
    <3> QED BY <3>1, <3>2
  <2>2. CASE PushStop
    BY <2>2, PushKeepsWakeups DEF PushStop, Alive
  <2>3. ASSUME NEW t \in Tasks, Submit(t) \/ \E w \in Workers : SubmitFromTask(w, t)
        PROVE  NoLostWakeup'
    BY <2>3, PushKeepsWakeups DEF Submit, SubmitFromTask, Alive
  <2>4. ASSUME NEW w \in Workers, Block(w) PROVE NoLostWakeup'
    <3>1. Len(queue') = 0
      BY <2>4 DEF Block
    <3>2. Cardinality(Poppers)' \in Nat
      <4>1. Poppers' = Poppers \ {w}
        BY <2>4 DEF Block, Poppers, TypeOK
      <4>2. IsFiniteSet(Poppers')
        BY <4>1, PoppersFinite, FS_RemoveElement
      <4> QED BY <4>2, FS_CardinalityType
    <3> QED BY <3>1, <3>2 DEF NoLostWakeup
  <2>5. ASSUME NEW w \in Workers, Take(w) PROVE NoLostWakeup'
    <3>1. Len(queue') = Len(queue) - 1
      BY <2>5, TailElements DEF Take, TypeOK
    <3>2. Poppers' = Poppers \ {w} /\ Waiters' = Waiters
      BY <2>5 DEF Take, Poppers, Waiters, TypeOK
    <3>3. Cardinality(Poppers') = Cardinality(Poppers) - 1
      BY <2>5, <3>2, PopperLeaves DEF Take
    <3> QED BY <2>5, <3>1, <3>2, <3>3, PopperCount DEF NoLostWakeup, Take, Alive
  <2>6. ASSUME NEW w \in Workers, SpuriousWakeup(w) \/ Finish(w) PROVE NoLostWakeup'
    <3>1. /\ Poppers' = Poppers \union {w} /\ Waiters' \subseteq Waiters
          /\ pc[w] # "pop" /\ UNCHANGED queue /\ Alive
      BY <2>6 DEF SpuriousWakeup, Finish, Running, Poppers, Waiters, TypeOK
    <3>2. Cardinality(Poppers') = Cardinality(Poppers) + 1
      BY <3>1, PopperComes
    <3> QED BY <3>1, <3>2, PopperCount DEF NoLostWakeup
  <2>7. CASE CreateFails \/ DtorReturns \/ \E w \in Workers : Throw(w)
    BY <2>7 DEF CreateFails, DtorReturns, Throw, NoLostWakeup, Alive
  <2>8. CASE CtorReturns \/ Destroy \/ Join \/ UNCHANGED vars
    BY <2>8 DEF CtorReturns, Destroy, Join, vars, NoLostWakeup, Alive, Waiters, Poppers
  <2> QED BY <2>1, <2>2, <2>3, <2>4, <2>5, <2>6, <2>7, <2>8 DEF Next, Owner, Worker
<1> QED BY <1>1, <1>2, Typing, PTL DEF Spec

-----------------------------------------------------------------------------
(* The pills of the queue after an Append and after a Tail.                   *)
LEMMA PillsAfterPush ==
  ASSUME TypeOK, NEW item \in Tasks \union {Stop}, QueuePush(item)
  PROVE  /\ Pills' = IF item = Stop THEN Pills \union {Len(queue) + 1} ELSE Pills
         /\ Finishers' = Finishers
<1>1. /\ Len(queue') = Len(queue) + 1 /\ Len(queue) \in Nat
      /\ \A n \in 1..Len(queue) : queue'[n] = queue[n]
      /\ queue'[Len(queue) + 1] = item
  BY AppendElements, LenProperties DEF QueuePush, TypeOK
<1>2. Pills' = IF item = Stop THEN Pills \union {Len(queue) + 1} ELSE Pills
  <2>1. 1..Len(queue') = 1..Len(queue) \union {Len(queue) + 1}
    BY <1>1
  <2> QED BY <1>1, <2>1 DEF Pills
<1>3. Finishers' = Finishers
  BY PushWakes DEF Finishers
<1> QED BY <1>2, <1>3

(* A take shifts the queue by one, the pills in it too, and a taken pill ends *)
(* its worker.                                                                *)
LEMMA PillsAfterTake ==
  ASSUME TypeOK, NEW w \in Workers, Take(w)
  PROVE  /\ Head(queue) = queue[1] /\ Head(queue) \in Tasks \union {Stop}
         /\ Len(queue) \in Nat \ {0} /\ Len(queue') = Len(queue) - 1
         /\ \A n \in 1..Len(queue') : queue'[n] = queue[n + 1]
         /\ Pills' = {n \in 1..Len(queue') : (n + 1) \in Pills}
         /\ Finishers' = IF Head(queue) = Stop THEN Finishers \union {w} ELSE Finishers
<1>1. /\ Head(queue) = queue[1] /\ Head(queue) \in Tasks \union {Stop}
      /\ Len(queue) \in Nat \ {0} /\ Len(queue') = Len(queue) - 1
      /\ \A n \in 1..Len(queue') : queue'[n] = queue[n + 1]
  BY TailElements DEF Take, TypeOK
<1>2. Pills' = {n \in 1..Len(queue') : (n + 1) \in Pills}
  BY <1>1 DEF Pills
<1>3. Finishers' = IF Head(queue) = Stop THEN Finishers \union {w} ELSE Finishers
  BY DEF Take, Finishers, TypeOK
<1> QED BY <1>1, <1>2, <1>3

(* A step of the pool keeps StopAccounting.                                   *)
LEMMA StopAccountingStep ==
  TypeOK /\ StopAccounting /\ [Next]_vars => StopAccounting'
<1> SUFFICES ASSUME TypeOK, StopAccounting, [Next]_vars PROVE StopAccounting'
  OBVIOUS
<1>1. CASE CreateThread
  <2>1. Finishers' \subseteq Finishers /\ UNCHANGED <<queue, phase>> /\ phase = "ctor"
    BY <1>1 DEF CreateThread, Finishers, TypeOK, Workers
  <2> QED BY <2>1 DEF StopAccounting, Pills
<1>2. CASE CreateFails
  BY <1>2 DEF CreateFails, StopAccounting
<1>3. CASE CtorReturns
  BY <1>3 DEF CtorReturns, StopAccounting, Pills, Finishers
<1>4. CASE Destroy
  <2>1. UNCHANGED <<queue, pc>> /\ i' = 0 /\ phase = "open" /\ phase' = "push"
    BY <1>4 DEF Destroy
  <2> QED BY <2>1 DEF StopAccounting, Pills, Finishers
<1>5. CASE PushStop
  <2>1. Pills' = {Len(queue) + 1} /\ Finishers' = 1..i /\ i' = i /\ phase' = "join"
    BY <1>5, PillsAfterPush DEF PushStop, StopAccounting
  <2>2. Len(queue) + 1 \in 1..Len(queue')
    BY <1>5, AppendElements, LenProperties DEF PushStop, QueuePush, TypeOK
  <2> QED BY <2>1, <2>2 DEF StopAccounting
<1>6. CASE Join
  <2>1. /\ UNCHANGED <<queue, pc>> /\ phase = "join" /\ phase' = "push" /\ i' = i + 1
        /\ i \in Nat /\ i < NThreads /\ NThreads \in Nat /\ i + 1 \in Finishers
    BY <1>6, PoolAssumption DEF Join, TypeOK, Finishers, Workers
  <2>2. PICK w \in (i + 1)..NThreads : Pills = {} /\ Finishers = (1..i) \union {w}
    BY <2>1 DEF StopAccounting
  <2>3. w = i + 1
    BY <2>1, <2>2
  <2>4. Finishers = 1..(i + 1)
    BY <2>1, <2>2, <2>3
  <2> QED BY <2>1, <2>2, <2>4 DEF StopAccounting, Pills, Finishers
<1>7. CASE DtorReturns
  <2>1. Pills' = {}
    BY <1>7 DEF DtorReturns, Pills
  <2> QED BY <1>7, <2>1 DEF DtorReturns, StopAccounting, Finishers
<1>8. ASSUME NEW t \in Tasks, Submit(t) \/ \E w \in Workers : SubmitFromTask(w, t)
      PROVE  StopAccounting'
  <2>1. UNCHANGED <<phase, i>> /\ QueuePush(t)
    BY <1>8 DEF Submit, SubmitFromTask
  <2>2. Pills' = Pills /\ Finishers' = Finishers
    BY <2>1, PillsAfterPush, PoolAssumption
  <2>3. \A n \in 1..Len(queue) : n \in 1..Len(queue')
    BY <2>1, AppendElements, LenProperties DEF QueuePush, TypeOK
  <2> QED BY <2>1, <2>2, <2>3 DEF StopAccounting
<1>9. ASSUME NEW w \in Workers, Take(w) PROVE StopAccounting'
  <2>1. UNCHANGED <<phase, i>> /\ Alive /\ pc[w] = "pop"
    BY <1>9 DEF Take
  <2>2. CASE Head(queue) # Stop
    <3>1. Finishers' = Finishers
      BY <1>9, <2>2, PillsAfterTake
    <3>2. ASSUME NEW n \in 1..Len(queue), Pills = {n}
          PROVE  n - 1 \in 1..Len(queue') /\ Pills' = {n - 1}
      BY <1>9, <2>2, <3>2, PillsAfterTake DEF Pills
    <3>3. Pills = {} => Pills' = {}
      BY <1>9, PillsAfterTake
    <3> QED BY <2>1, <3>1, <3>2, <3>3 DEF StopAccounting
  <2>3. CASE Head(queue) = Stop
    <3>1. 1 \in Pills
      BY <1>9, <2>3, PillsAfterTake DEF Pills
    <3>2. phase = "join" /\ Pills = {1} /\ Finishers = 1..i
      BY <2>1, <3>1 DEF StopAccounting, Alive, TypeOK, Phases
    <3>3. Pills' = {}
      BY <1>9, <3>2, PillsAfterTake
    <3>4. Finishers' = (1..i) \union {w}
      BY <1>9, <2>3, <3>2, PillsAfterTake
    <3>5. w \in (i + 1)..NThreads
      BY <2>1, <3>2, PoolAssumption DEF Finishers, Workers, TypeOK
    <3> QED BY <2>1, <3>2, <3>3, <3>4, <3>5 DEF StopAccounting
  <2> QED BY <2>2, <2>3
<1>10. ASSUME NEW w \in Workers, Block(w) \/ Finish(w) \/ SpuriousWakeup(w)
       PROVE  StopAccounting'
  <2>1. UNCHANGED <<queue, phase, i>> /\ Finishers' = Finishers
    BY <1>10 DEF Block, Finish, SpuriousWakeup, Running, Finishers, TypeOK
  <2> QED BY <2>1 DEF StopAccounting, Pills
<1>11. ASSUME NEW w \in Workers, Throw(w) PROVE StopAccounting'
  BY <1>11 DEF Throw, StopAccounting
<1>12. CASE UNCHANGED vars
  BY <1>12 DEF vars, StopAccounting, Pills, Finishers
<1> QED BY <1>1, <1>2, <1>3, <1>4, <1>5, <1>6, <1>7, <1>8, <1>9, <1>10, <1>11, <1>12
        DEF Next, Owner, Worker

(* In every reachable state the pills and the workers that returned are where *)
(* StopAccounting says.                                                       *)
THEOREM PillsAccounted == Spec => []StopAccounting
<1>1. Init => StopAccounting
  BY DEF Init, StopAccounting, Pills, Finishers
<1> QED BY <1>1, StopAccountingStep, Typing, PTL DEF Spec

(* A pill that a worker other than the one being joined has taken is never    *)
(* made good: the owner waits until the process dies.                         *)
THEOREM StolenPillIsFinal == Spec => StolenForever
<1>1. TypeOK /\ [Next]_vars => [Stolen => (Stolen' \/ phase' = "aborted")]_vars
  <2> SUFFICES ASSUME TypeOK, [Next]_vars, Stolen
               PROVE  Stolen' \/ phase' = "aborted" \/ UNCHANGED vars
    OBVIOUS
  <2> USE DEF Stolen, PillTaken
  <2>1. ~Owner /\ ~CreateFails /\ ~Destroy /\ \A t \in Tasks : ~Submit(t)
    BY DEF Owner, CreateThread, CtorReturns, PushStop, Join, DtorReturns,
           CreateFails, Destroy, Submit
  <2>2. i + 1 \in Workers
    BY PoolAssumption DEF TypeOK, Workers
  <2>3. ASSUME NEW w \in Workers, NEW t \in Tasks, SubmitFromTask(w, t) PROVE Stolen'
    <3>1. Pills' = {} /\ Finishers' = Finishers /\ UNCHANGED <<phase, i>>
      BY <2>3, PillsAfterPush, PoolAssumption DEF SubmitFromTask
    <3> QED BY <2>2, <3>1 DEF Finishers
  <2>4. ASSUME NEW w \in Workers, Take(w) PROVE Stolen'
    <3>1. Pills' = {} /\ UNCHANGED <<phase, i>>
      BY <2>4, PillsAfterTake DEF Take
    <3>2. Head(queue) # Stop
      BY <2>4, PillsAfterTake DEF Pills
    <3> QED BY <2>2, <2>4, <3>1, <3>2, PillsAfterTake DEF Finishers
  <2>5. ASSUME NEW w \in Workers, Block(w) \/ Finish(w) \/ SpuriousWakeup(w)
        PROVE  Stolen'
    BY <2>2, <2>5 DEF Block, Finish, SpuriousWakeup, Pills, TypeOK
  <2>6. ASSUME NEW w \in Workers, Throw(w) PROVE phase' = "aborted"
    BY <2>6 DEF Throw
  <2> QED BY <2>1, <2>3, <2>4, <2>5, <2>6 DEF Next, Worker
<1> QED BY <1>1, Typing, PTL DEF Spec, StolenForever

-----------------------------------------------------------------------------
(* The queue as a set of tasks after a push and after a take.                 *)
LEMMA InQueueAfterPush ==
  ASSUME TypeOK, NEW item \in Tasks \union {Stop}, QueuePush(item)
  PROVE  /\ InQueue' = InQueue \union ({item} \ {Stop})
         /\ (UNCHANGED elem => InHand' = InHand)
         /\ \A w \in Workers : Running(w)' <=> Running(w)
<1>1. /\ Len(queue') = Len(queue) + 1 /\ Len(queue) \in Nat
      /\ \A n \in 1..Len(queue) : queue'[n] = queue[n]
      /\ queue'[Len(queue) + 1] = item
  BY AppendElements, LenProperties DEF QueuePush, TypeOK
<1>2. InQueue' = InQueue \union ({item} \ {Stop})
  <2>1. 1..Len(queue') = 1..Len(queue) \union {Len(queue) + 1}
    BY <1>1
  <2> QED BY <1>1, <2>1, PoolAssumption DEF InQueue
<1>3. \A w \in Workers : Running(w)' <=> Running(w)
  BY PushWakes DEF Running
<1> QED BY <1>2, <1>3 DEF InHand

(* A take removes from the set of queued tasks the one at the front, and puts *)
(* it in the hand of a worker unless it is a pill.                            *)
LEMMA InQueueAfterTake ==
  ASSUME TypeOK, ExactlyOnce, NEW w \in Workers, Take(w)
  PROVE  /\ InQueue' = InQueue \ {Head(queue)}
         /\ InHand' = InHand \union ({Head(queue)} \ {Stop})
<1>1. /\ Head(queue) = queue[1] /\ Head(queue) \in Tasks \union {Stop}
      /\ Len(queue) \in Nat \ {0} /\ Len(queue') = Len(queue) - 1
      /\ \A n \in 1..Len(queue') : queue'[n] = queue[n + 1]
  BY PillsAfterTake
<1>2. InQueue' = InQueue \ {Head(queue)}
  <2>1. ASSUME NEW t \in InQueue' PROVE t \in InQueue /\ t # Head(queue)
    <3>1. PICK n \in 1..Len(queue') : queue'[n] = t /\ t \in Tasks
      BY <2>1 DEF InQueue
    <3>2. n + 1 \in 1..Len(queue) /\ queue[n + 1] = t /\ n + 1 # 1 /\ 1 \in 1..Len(queue)
      BY <1>1, <3>1
    <3>3. t # Stop
      BY <3>1, PoolAssumption
    <3> QED BY <1>1, <3>1, <3>2, <3>3 DEF InQueue, ExactlyOnce
  <2>2. ASSUME NEW t \in InQueue, t # Head(queue) PROVE t \in InQueue'
    <3>1. PICK n \in 1..Len(queue) : queue[n] = t /\ t \in Tasks
      BY <2>2 DEF InQueue
    <3>2. n # 1 /\ n - 1 \in 1..Len(queue') /\ queue'[n - 1] = queue[(n - 1) + 1]
      BY <1>1, <2>2, <3>1
    <3>3. queue'[n - 1] = t
      BY <3>1, <3>2
    <3> QED BY <3>1, <3>2, <3>3 DEF InQueue
  <2> QED BY <2>1, <2>2
<1>3. InHand' = InHand \union ({Head(queue)} \ {Stop})
  <2>1. \A v \in Workers : v # w => (Running(v)' <=> Running(v)) /\ elem'[v] = elem[v]
    BY DEF Take, Running, TypeOK
  <2>2. ~Running(w) /\ (Running(w)' <=> Head(queue) # Stop)
    BY DEF Take, Running, TypeOK
  <2>3. Head(queue) # Stop => elem'[w] = Head(queue)
    BY DEF Take, TypeOK
  <2> QED BY <2>1, <2>2, <2>3 DEF InHand
<1> QED BY <1>2, <1>3

(* A step of the pool keeps ExactlyOnce.                                      *)
LEMMA ExactlyOnceStep == TypeOK /\ ExactlyOnce /\ [Next]_vars => ExactlyOnce'
<1> SUFFICES ASSUME TypeOK, ExactlyOnce, [Next]_vars PROVE ExactlyOnce'
  OBVIOUS
<1>1. CASE CreateThread
  <2>1. /\ i + 1 \in Workers /\ UNCHANGED <<queue, elem, phase, pushed, finished>>
        /\ \A w \in Workers : Running(w)' <=> Running(w)
    BY <1>1, PoolAssumption DEF CreateThread, Workers, TypeOK, Running
  <2> QED BY <2>1 DEF ExactlyOnce, InQueue, InHand, Alive
<1>2. CASE CreateFails \/ \E w \in Workers : Throw(w)
  BY <1>2 DEF CreateFails, Throw, ExactlyOnce, Alive, InQueue, InHand, Running
<1>3. CASE CtorReturns \/ Destroy \/ Join \/ UNCHANGED vars
  BY <1>3 DEF CtorReturns, Destroy, Join, vars, ExactlyOnce, Alive, InQueue, InHand, Running
<1>4. CASE DtorReturns
  <2>1. InQueue' = {} /\ Len(queue') = 0 /\ ~Alive'
    BY <1>4 DEF DtorReturns, InQueue, Alive
  <2>2. InHand' = InHand /\ UNCHANGED <<pc, elem, pushed, finished>>
    BY <1>4 DEF DtorReturns, InHand, Running
  <2> QED BY <2>1, <2>2 DEF ExactlyOnce, Running
<1>5. ASSUME NEW item \in Tasks \union {Stop}, QueuePush(item), item \notin pushed,
             Alive, Alive', UNCHANGED <<elem, finished>>,
             pushed' = pushed \union ({item} \ {Stop})
      PROVE  ExactlyOnce'
  <2>1. /\ InQueue' = InQueue \union ({item} \ {Stop}) /\ InHand' = InHand
        /\ \A w \in Workers : Running(w)' <=> Running(w)
    BY <1>5, InQueueAfterPush
  <2>2. /\ Len(queue') = Len(queue) + 1 /\ Len(queue) \in Nat
        /\ \A n \in 1..Len(queue) : queue'[n] = queue[n]
        /\ queue'[Len(queue) + 1] = item
    BY <1>5, AppendElements, LenProperties DEF QueuePush, TypeOK
  <2>3. ASSUME NEW m \in 1..Len(queue'), NEW n \in 1..Len(queue'),
               m # n, queue'[m] = queue'[n], queue'[m] # Stop
        PROVE  FALSE
    <3>1. CASE m \in 1..Len(queue) /\ n \in 1..Len(queue)
      BY <2>2, <2>3, <3>1 DEF ExactlyOnce
    <3>2. ASSUME NEW k \in 1..Len(queue), queue'[k] = item, item # Stop PROVE FALSE
      <4>1. item \in InQueue
        BY <2>2, <3>2 DEF InQueue
      <4> QED BY <1>5, <4>1 DEF ExactlyOnce
    <3> QED BY <2>2, <2>3, <3>1, <3>2
  <2>4. item \notin InQueue \union InHand \union finished
    BY <1>5 DEF ExactlyOnce
  <2> QED BY <1>5, <2>1, <2>3, <2>4 DEF ExactlyOnce
<1>6. CASE PushStop
  <2>1. Stop \notin pushed
    BY PoolAssumption DEF TypeOK
  <2> QED BY <1>5, <1>6, <2>1 DEF PushStop, Alive
<1>7. ASSUME NEW t \in Tasks, Submit(t) \/ \E w \in Workers : SubmitFromTask(w, t)
      PROVE  ExactlyOnce'
  <2>1. t # Stop
    BY PoolAssumption
  <2> QED BY <1>5, <1>7, <2>1 DEF Submit, SubmitFromTask, Alive
<1>8. ASSUME NEW w \in Workers, Take(w) PROVE ExactlyOnce'
  <2> DEFINE h == Head(queue)
  <2>1. /\ h = queue[1] /\ h \in Tasks \union {Stop} /\ 1 \in 1..Len(queue)
        /\ Len(queue) \in Nat \ {0} /\ Len(queue') = Len(queue) - 1
        /\ \A n \in 1..Len(queue') : queue'[n] = queue[n + 1]
    BY <1>8, PillsAfterTake
  <2>2. InQueue' = InQueue \ {h} /\ InHand' = InHand \union ({h} \ {Stop})
    BY <1>8, InQueueAfterTake
  <2>3. h # Stop => h \in InQueue
    BY <2>1 DEF InQueue
  <2>4. Stop \notin InQueue
    BY PoolAssumption DEF InQueue
  <2>5. \A m, n \in 1..Len(queue') : (m # n /\ queue'[m] = queue'[n]) => queue'[m] = Stop
    <3>1. \A n \in 1..Len(queue') : n + 1 \in 1..Len(queue)
      BY <2>1
    <3> QED BY <2>1, <3>1 DEF ExactlyOnce
  <2>6. UNCHANGED <<phase, pushed, finished>> /\ Alive /\ Alive'
    BY <1>8 DEF Take, Alive
  <2>7. ASSUME NEW u \in Workers, NEW v \in Workers, Running(u)', Running(v)',
               elem'[u] = elem'[v]
        PROVE  u = v
    <3>1. \A x \in Workers : x # w => (Running(x)' <=> Running(x)) /\ elem'[x] = elem[x]
      BY <1>8 DEF Take, Running, TypeOK
    <3>2. Running(w)' => h # Stop /\ elem'[w] = h
      BY <1>8 DEF Take, Running, TypeOK
    <3>3. \A x \in Workers : (Running(x) /\ h # Stop) => elem[x] # h
      BY <2>3 DEF ExactlyOnce, InHand
    <3> QED BY <2>7, <3>1, <3>2, <3>3 DEF ExactlyOnce
  <2> QED BY <2>2, <2>3, <2>4, <2>5, <2>6, <2>7 DEF ExactlyOnce
<1>9. ASSUME NEW w \in Workers, Block(w) \/ SpuriousWakeup(w) PROVE ExactlyOnce'
  <2>1. /\ UNCHANGED <<queue, elem, phase, pushed, finished>>
        /\ \A v \in Workers : Running(v)' <=> Running(v)
    BY <1>9 DEF Block, SpuriousWakeup, Running, TypeOK
  <2> QED BY <2>1 DEF ExactlyOnce, InQueue, InHand, Alive
<1>10. ASSUME NEW w \in Workers, Finish(w) PROVE ExactlyOnce'
  <2>1. /\ UNCHANGED <<queue, phase, pushed>> /\ Alive /\ Running(w) /\ ~Running(w)'
        /\ finished' = finished \union {elem[w]}
        /\ \A v \in Workers : v # w => (Running(v)' <=> Running(v)) /\ elem'[v] = elem[v]
    BY <1>10 DEF Finish, Running, TypeOK
  <2>2. InHand' = InHand \ {elem[w]} /\ elem[w] \in InHand
    BY <2>1 DEF InHand, ExactlyOnce
  <2> QED BY <2>1, <2>2 DEF ExactlyOnce, InQueue, Alive
<1> QED BY <1>1, <1>2, <1>3, <1>4, <1>6, <1>7, <1>8, <1>9, <1>10 DEF Next, Owner, Worker

(* No push is lost or run twice while the pool lives.                         *)
THEOREM EachTaskOnce == Spec => []ExactlyOnce
<1>1. Init => ExactlyOnce
  BY DEF Init, ExactlyOnce, InQueue, InHand, Running
<1> QED BY <1>1, ExactlyOnceStep, Typing, PTL DEF Spec

-----------------------------------------------------------------------------
(* What the destructor relies on: where accepted tasks are, and that they are *)
(* tasks that have been pushed.                                               *)
Drain ==
  /\ AcceptedBeforePills
  /\ accepted \subseteq pushed
  /\ DrainedWhenGone

(* A push, of a task not accepted or of a pill, goes behind every accepted    *)
(* task.                                                                      *)
LEMMA PushKeepsOrder ==
  ASSUME TypeOK, AcceptedBeforePills, NEW item \in Tasks \union {Stop},
         QueuePush(item), item \notin accepted, UNCHANGED accepted, Alive, Alive'
  PROVE  AcceptedBeforePills'
<1>1. /\ Len(queue') = Len(queue) + 1 /\ Len(queue) \in Nat
      /\ \A n \in 1..Len(queue) : queue'[n] = queue[n]
      /\ queue'[Len(queue) + 1] = item
  BY AppendElements, LenProperties DEF QueuePush, TypeOK
<1>2. ASSUME NEW m \in 1..Len(queue'), NEW n \in 1..Len(queue'),
             queue'[m] = Stop, queue'[n] \in accepted
      PROVE  n < m
  <2>1. n \in 1..Len(queue) /\ queue[n] \in accepted
    BY <1>1, <1>2
  <2> QED BY <1>1, <1>2, <2>1 DEF AcceptedBeforePills
<1>3. Finishers' = Finishers /\ InQueue' = InQueue \union ({item} \ {Stop})
  BY PillsAfterPush, InQueueAfterPush
<1> QED BY <1>2, <1>3 DEF AcceptedBeforePills

(* A step of the pool keeps Drain.                                            *)
LEMMA DrainStep ==
  TypeOK /\ StopAccounting /\ ExactlyOnce /\ Drain /\ [Next]_vars => Drain'
<1> SUFFICES ASSUME TypeOK, StopAccounting, ExactlyOnce, Drain, [Next]_vars
             PROVE  Drain'
  OBVIOUS
<1>1. CASE CreateThread
  <2>1. Finishers' \subseteq Finishers
        /\ UNCHANGED <<queue, phase, pushed, finished, accepted>>
    BY <1>1 DEF CreateThread, Finishers, TypeOK, Workers
  <2> QED BY <2>1 DEF Drain, AcceptedBeforePills, DrainedWhenGone, Alive, InQueue
<1>2. CASE CreateFails \/ \E w \in Workers : Throw(w)
  <2>1. UNCHANGED <<queue, pc, pushed, finished, accepted>> /\ phase' \in {"failed", "aborted"}
    BY <1>2 DEF CreateFails, Throw
  <2> QED BY <2>1 DEF Drain, AcceptedBeforePills, DrainedWhenGone, Alive, Finishers, InQueue
<1>3. CASE CtorReturns \/ Join \/ UNCHANGED vars
  <2>1. /\ UNCHANGED <<queue, pc, pushed, finished, accepted>>
        /\ (Alive' <=> Alive) /\ (phase' = "gone" <=> phase = "gone")
    BY <1>3 DEF CtorReturns, Join, vars, Alive
  <2> QED BY <2>1 DEF Drain, AcceptedBeforePills, DrainedWhenGone, Finishers, InQueue
<1>4. CASE Destroy
  <2>1. /\ UNCHANGED <<queue, pc>> /\ accepted' = pushed /\ pushed' = pushed
        /\ phase = "open" /\ phase' = "push"
    BY <1>4 DEF Destroy
  <2>2. Pills = {} /\ Finishers' = {}
    BY <2>1 DEF StopAccounting, Finishers
  <2> QED BY <2>1, <2>2 DEF Drain, AcceptedBeforePills, DrainedWhenGone, Pills
<1>5. CASE PushStop
  <2>1. Stop \notin accepted
    BY PoolAssumption DEF TypeOK
  <2> QED BY <1>5, <2>1, PushKeepsOrder DEF PushStop, Alive, Drain, DrainedWhenGone
<1>6. ASSUME NEW t \in Tasks, Submit(t) \/ \E w \in Workers : SubmitFromTask(w, t)
      PROVE  Drain'
  <2>1. t \notin accepted
    BY <1>6 DEF Submit, SubmitFromTask, Drain
  <2> QED BY <1>6, <2>1, PushKeepsOrder
          DEF Submit, SubmitFromTask, Alive, Drain, DrainedWhenGone
<1>7. CASE DtorReturns
  <2>1. /\ phase = "push" /\ phase' = "gone" /\ i = NThreads /\ Len(queue') = 0
        /\ UNCHANGED <<pc, elem, pushed, finished, accepted>>
    BY <1>7 DEF DtorReturns
  <2>2. Finishers = Workers
    BY <2>1 DEF StopAccounting, Workers
  <2>3. InHand = {}
    BY <2>2 DEF InHand, Finishers, Running
  <2>4. NThreads > 0 => accepted \intersect InQueue = {}
    <3>1. NThreads > 0 => 1 \in Workers
      BY PoolAssumption DEF Workers
    <3> QED BY <2>1, <2>2, <3>1 DEF Drain, AcceptedBeforePills, Alive
  <2>5. NThreads > 0 => accepted \subseteq finished
    BY <2>1, <2>3, <2>4 DEF Drain, ExactlyOnce, Alive
  <2> QED BY <2>1, <2>5 DEF Drain, AcceptedBeforePills, DrainedWhenGone, Alive
<1>8. ASSUME NEW w \in Workers, Take(w) PROVE Drain'
  <2>1. /\ Head(queue) = queue[1] /\ Head(queue) \in Tasks \union {Stop}
        /\ Len(queue) \in Nat \ {0} /\ Len(queue') = Len(queue) - 1
        /\ \A n \in 1..Len(queue') : queue'[n] = queue[n + 1]
        /\ Finishers' = IF Head(queue) = Stop THEN Finishers \union {w} ELSE Finishers
        /\ InQueue' = InQueue \ {Head(queue)}
    BY <1>8, PillsAfterTake, InQueueAfterTake
  <2>2. /\ UNCHANGED <<phase, pushed, finished, accepted>> /\ Alive /\ Alive'
    BY <1>8 DEF Take, Alive
  <2>3. \A m, n \in 1..Len(queue') :
          (queue'[m] = Stop /\ queue'[n] \in accepted) => n < m
    <3>1. \A n \in 1..Len(queue') : n + 1 \in 1..Len(queue)
      BY <2>1
    <3> QED BY <2>1, <3>1 DEF Drain, AcceptedBeforePills
  <2>4. CASE Head(queue) = Stop
    <3>1. \A n \in 1..Len(queue) : queue[n] \notin accepted
      <4>1. 1 \in 1..Len(queue)
        BY <2>1
      <4> QED BY <2>1, <2>4, <4>1 DEF Drain, AcceptedBeforePills
    <3>2. accepted \intersect InQueue' = {}
      BY <2>1, <3>1 DEF InQueue
    <3> QED BY <2>2, <2>3, <3>2 DEF Drain, AcceptedBeforePills, DrainedWhenGone, Alive
  <2>5. CASE Head(queue) # Stop
    BY <2>1, <2>2, <2>3, <2>5 DEF Drain, AcceptedBeforePills, DrainedWhenGone, Alive
  <2> QED BY <2>4, <2>5
<1>9. ASSUME NEW w \in Workers, Block(w) \/ Finish(w) \/ SpuriousWakeup(w)
      PROVE  Drain'
  <2>1. /\ UNCHANGED <<queue, phase, pushed, accepted>> /\ Alive
        /\ Finishers' = Finishers
    BY <1>9 DEF Block, Finish, SpuriousWakeup, Running, Finishers, TypeOK
  <2> QED BY <2>1 DEF Drain, AcceptedBeforePills, DrainedWhenGone, Alive, InQueue
<1> QED BY <1>1, <1>2, <1>3, <1>4, <1>5, <1>6, <1>7, <1>8, <1>9 DEF Next, Owner, Worker

(* Drain holds in every reachable state.                                      *)
LEMMA DrainAlways == Spec => []Drain
<1>1. Init => Drain
  BY DEF Init, Drain, AcceptedBeforePills, DrainedWhenGone, Finishers, InQueue
<1> QED BY <1>1, DrainStep, Typing, PillsAccounted, EachTaskOnce, PTL DEF Spec

(* When the destructor has returned, every task pushed before it was entered  *)
(* has run: for any number of workers from one up.                            *)
THEOREM Drained == Spec => []DrainedWhenGone
<1>1. Drain => DrainedWhenGone
  BY DEF Drain
<1> QED BY <1>1, DrainAlways, PTL

(* Until then no accepted task is behind a pill, and none is left for a       *)
(* worker that has returned.                                                  *)
THEOREM AcceptedFirst == Spec => []AcceptedBeforePills
<1>1. Drain => AcceptedBeforePills
  BY DEF Drain
<1> QED BY <1>1, DrainAlways, PTL

-----------------------------------------------------------------------------
(* The pool implements TaskPool.  First, a queue without its only pill.       *)
PillsIn(q) == {n \in 1..Len(q) : q[n] = Stop}
WithoutPills(q) ==
  [n \in 1..(IF PillsIn(q) = {} THEN Len(q) ELSE Len(q) - 1) |->
     IF \E m \in PillsIn(q) : m <= n THEN q[n + 1] ELSE q[n]]

LEMMA WithoutPill ==
  ASSUME NEW q \in Seq(Tasks \union {Stop}), \A m, n \in PillsIn(q) : m = n
  PROVE  LET P == PillsIn(q)  s == WithoutPills(q) IN
         /\ s \in Seq(Tasks)
         /\ Len(s) = IF P = {} THEN Len(q) ELSE Len(q) - 1
         /\ \A n \in 1..Len(s) : s[n] = IF \E m \in P : m <= n THEN q[n + 1] ELSE q[n]
         /\ {s[n] : n \in 1..Len(s)} = {t \in Tasks : \E n \in 1..Len(q) : q[n] = t}
<1> DEFINE P == PillsIn(q)  s == WithoutPills(q)
           N == IF P = {} THEN Len(q) ELSE Len(q) - 1
<1>1. Len(q) \in Nat /\ \A n \in 1..Len(q) : q[n] \in Tasks \union {Stop}
  BY LenProperties, ElementOfSeq
<1>2. P \subseteq 1..Len(q) /\ \A n \in 1..Len(q) : n \in P <=> q[n] = Stop
  BY DEF PillsIn
<1>3. N \in Nat
  BY <1>1, <1>2
<1>4. /\ DOMAIN s = 1..N
      /\ \A n \in 1..N : s[n] = IF \E m \in P : m <= n THEN q[n + 1] ELSE q[n]
  BY DEF WithoutPills
<1>5. s = [n \in 1..N |-> s[n]]
  BY DEF WithoutPills
<1>6. \A m, n \in P : m = n
  OBVIOUS
<1> HIDE DEF P, s
<1>7. \A n \in 1..N : \E k \in 1..Len(q) : k \notin P /\ s[n] = q[k]
  <2> SUFFICES ASSUME NEW n \in 1..N PROVE \E k \in 1..Len(q) : k \notin P /\ s[n] = q[k]
    OBVIOUS
  <2>1. CASE \E m \in P : m <= n
    <3>1. n + 1 \in 1..Len(q) /\ n + 1 \notin P
      BY <1>1, <1>2, <1>6, <2>1
    <3>. QED  BY <1>4, <2>1, <3>1
  <2>2. CASE ~\E m \in P : m <= n
    <3>1. n \in 1..Len(q) /\ n \notin P
      BY <1>1, <1>2, <1>6, <2>2
    <3>. QED  BY <1>4, <2>2, <3>1
  <2>. QED  BY <2>1, <2>2
<1>8. \A k \in 1..Len(q) : k \notin P => \E n \in 1..N : s[n] = q[k]
  <2> SUFFICES ASSUME NEW k \in 1..Len(q), k \notin P PROVE \E n \in 1..N : s[n] = q[k]
    OBVIOUS
  <2>1. CASE \E m \in P : m <= k
    <3>1. k - 1 \in 1..N /\ (\E m \in P : m <= k - 1) /\ (k - 1) + 1 = k
      BY <1>1, <1>2, <2>1
    <3>. QED  BY <1>4, <3>1
  <2>2. CASE ~\E m \in P : m <= k
    <3>1. k \in 1..N
      BY <1>1, <1>2, <2>2
    <3>. QED  BY <1>4, <2>2, <3>1
  <2>. QED  BY <2>1, <2>2
<1>9. \A n \in 1..N : s[n] \in Tasks
  BY <1>1, <1>2, <1>7
<1> HIDE DEF N
<1>10. s \in Seq(Tasks)
  <2>1. s \in [1..N -> Tasks]
    BY <1>5, <1>9
  <2>. QED  BY <1>3, <2>1, SeqDef
<1>11. Len(s) = N
  BY <1>3, <1>4, <1>10, LenProperties
<1>12. {s[n] : n \in 1..N} = {t \in Tasks : \E n \in 1..Len(q) : q[n] = t}
  <2>1. {s[n] : n \in 1..N} \subseteq {t \in Tasks : \E n \in 1..Len(q) : q[n] = t}
    BY <1>7, <1>9
  <2>2. {t \in Tasks : \E n \in 1..Len(q) : q[n] = t} \subseteq {s[n] : n \in 1..N}
    BY <1>2, <1>8, PoolAssumption
  <2>. QED  BY <2>1, <2>2
<1>. QED  BY <1>4, <1>10, <1>11, <1>12 DEF P, s, N

OnePill == \A m, n \in Pills : m = n

LEMMA WaitingAfterPush ==
  ASSUME TypeOK, OnePill, NEW item \in Tasks \union {Stop}, QueuePush(item),
         item = Stop => Pills = {}
  PROVE  IF item = Stop THEN Waiting' = Waiting ELSE Waiting' = Append(Waiting, item)
<1>1. /\ queue \in Seq(Tasks \union {Stop}) /\ queue' \in Seq(Tasks \union {Stop})
      /\ Len(queue) \in Nat /\ Len(queue') = Len(queue) + 1
      /\ \A n \in 1..Len(queue) : queue'[n] = queue[n]
      /\ queue'[Len(queue) + 1] = item
  BY AppendElements, LenProperties DEF TypeOK, QueuePush
<1>2. Pills' = IF item = Stop THEN Pills \union {Len(queue) + 1} ELSE Pills
  BY PillsAfterPush
<1>3. Pills \subseteq 1..Len(queue) /\ Pills' \subseteq 1..Len(queue')
  BY DEF Pills
<1>4. \A m, n \in Pills' : m = n
  BY <1>2 DEF OnePill
<1>5. /\ Waiting \in Seq(Tasks)
      /\ Len(Waiting) = IF Pills = {} THEN Len(queue) ELSE Len(queue) - 1
      /\ \A n \in 1..Len(Waiting) :
           Waiting[n] = IF \E m \in Pills : m <= n THEN queue[n + 1] ELSE queue[n]
  <2>1. Pills = PillsIn(queue)
    BY DEF Pills, PillsIn
  <2>2. Waiting = WithoutPills(queue)
    BY DEF Waiting, Pills, WithoutPills, PillsIn
  <2>. QED  BY <1>1, <2>1, <2>2, WithoutPill DEF OnePill
<1>6. /\ Waiting' \in Seq(Tasks)
      /\ Len(Waiting') = IF Pills' = {} THEN Len(queue') ELSE Len(queue') - 1
      /\ \A n \in 1..Len(Waiting') :
           Waiting'[n] = IF \E m \in Pills' : m <= n THEN queue'[n + 1] ELSE queue'[n]
  <2>1. Pills' = PillsIn(queue')
    BY DEF Pills, PillsIn
  <2>2. Waiting' = WithoutPills(queue')
    BY DEF Waiting, Pills, WithoutPills, PillsIn
  <2>. QED  BY <1>1, <1>4, <2>1, <2>2, WithoutPill
<1>7. CASE item = Stop
  <2>1. Pills = {} /\ Pills' = {Len(queue) + 1}
    BY <1>2, <1>7
  <2>2. Len(Waiting') = Len(Waiting) /\ Len(Waiting) = Len(queue)
    BY <1>1, <1>5, <1>6, <2>1
  <2>3. \A n \in 1..Len(Waiting) : Waiting'[n] = Waiting[n]
    BY <1>1, <1>5, <1>6, <2>1, <2>2
  <2>. QED  BY <1>5, <1>6, <1>7, <2>2, <2>3, SeqEqual
<1>8. CASE item # Stop
  <2> DEFINE a == Append(Waiting, item)
  <2>0. Pills' = Pills /\ item \in Tasks
    BY <1>2, <1>8
  <2>1. /\ a \in Seq(Tasks) /\ Len(a) = Len(Waiting) + 1
        /\ \A n \in 1..Len(Waiting) : a[n] = Waiting[n]
        /\ a[Len(Waiting) + 1] = item
    BY <1>5, <2>0, AppendElements
  <2>2. Len(Waiting') = Len(a) /\ Len(Waiting) \in Nat
    BY <1>1, <1>3, <1>5, <1>6, <2>0, <2>1
  <2>3. \A n \in 1..Len(Waiting) : Waiting'[n] = Waiting[n]
    <3> SUFFICES ASSUME NEW n \in 1..Len(Waiting) PROVE Waiting'[n] = Waiting[n]
      OBVIOUS
    <3>1. n \in 1..Len(Waiting') /\ n \in 1..Len(queue)
      BY <1>1, <1>5, <2>1, <2>2
    <3>2. (\E m \in Pills : m <= n) => n + 1 \in 1..Len(queue)
      <4>1. Pills # {} => Len(Waiting) = Len(queue) - 1
        BY <1>5
      <4>. QED  BY <1>1, <3>1, <4>1
    <3>. QED  BY <1>1, <1>5, <1>6, <2>0, <3>1, <3>2
  <2>4. Waiting'[Len(Waiting) + 1] = item
    <3>1. Len(Waiting) + 1 \in 1..Len(Waiting')
      BY <2>1, <2>2
    <3>2. CASE Pills = {}
      BY <1>1, <1>5, <1>6, <2>0, <3>1, <3>2
    <3>3. CASE Pills # {}
      <4>1. Len(Waiting) = Len(queue) - 1
        BY <1>5, <3>3
      <4>2. Len(Waiting) + 1 = Len(queue)
        BY <1>1, <4>1
      <4>3. PICK m \in Pills : TRUE
        BY <3>3
      <4>4. m \in Pills' /\ m <= Len(queue)
        BY <1>1, <1>3, <2>0, <4>3
      <4>. QED  BY <1>1, <1>6, <3>1, <4>2, <4>4
    <3>. QED  BY <3>2, <3>3
  <2>5. \A n \in 1..Len(Waiting') : Waiting'[n] = a[n]
    BY <2>1, <2>2, <2>3, <2>4
  <2>. QED  BY <1>6, <1>8, <2>1, <2>2, <2>5, SeqEqual
<1>. QED  BY <1>7, <1>8

LEMMA WaitingAfterTake ==
  ASSUME TypeOK, OnePill, NEW w \in Workers, Take(w)
  PROVE  IF Head(queue) = Stop THEN Waiting' = Waiting
         ELSE Waiting # <<>> /\ Head(Waiting) = Head(queue) /\ Waiting' = Tail(Waiting)
<1>1. /\ Head(queue) = queue[1] /\ Head(queue) \in Tasks \union {Stop}
      /\ Len(queue) \in Nat \ {0} /\ Len(queue') = Len(queue) - 1
      /\ \A n \in 1..Len(queue') : queue'[n] = queue[n + 1]
      /\ Pills' = {n \in 1..Len(queue') : (n + 1) \in Pills}
  BY PillsAfterTake
<1>2. queue \in Seq(Tasks \union {Stop}) /\ queue' \in Seq(Tasks \union {Stop})
  BY TailElements DEF TypeOK, Take
<1>3. Pills \subseteq 1..Len(queue) /\ (1 \in Pills <=> Head(queue) = Stop)
  BY <1>1 DEF Pills
<1>4. \A m, n \in Pills' : m = n
  BY <1>1 DEF OnePill
<1>5. /\ Waiting \in Seq(Tasks)
      /\ Len(Waiting) = IF Pills = {} THEN Len(queue) ELSE Len(queue) - 1
      /\ \A n \in 1..Len(Waiting) :
           Waiting[n] = IF \E m \in Pills : m <= n THEN queue[n + 1] ELSE queue[n]
  <2>1. Pills = PillsIn(queue)
    BY DEF Pills, PillsIn
  <2>2. Waiting = WithoutPills(queue)
    BY DEF Waiting, Pills, WithoutPills, PillsIn
  <2>. QED  BY <1>2, <2>1, <2>2, WithoutPill DEF OnePill
<1>6. /\ Waiting' \in Seq(Tasks)
      /\ Len(Waiting') = IF Pills' = {} THEN Len(queue') ELSE Len(queue') - 1
      /\ \A n \in 1..Len(Waiting') :
           Waiting'[n] = IF \E m \in Pills' : m <= n THEN queue'[n + 1] ELSE queue'[n]
  <2>1. Pills' = PillsIn(queue')
    BY DEF Pills, PillsIn
  <2>2. Waiting' = WithoutPills(queue')
    BY DEF Waiting, Pills, WithoutPills, PillsIn
  <2>. QED  BY <1>2, <1>4, <2>1, <2>2, WithoutPill
<1>7. CASE Head(queue) = Stop
  <2>1. Pills = {1} /\ Pills' = {}
    <3>1. Pills = {1}
      BY <1>3, <1>7 DEF OnePill
    <3>. QED  BY <1>1, <3>1
  <2>2. Len(Waiting') = Len(Waiting) /\ Len(Waiting) = Len(queue')
    BY <1>1, <1>5, <1>6, <2>1
  <2>3. \A n \in 1..Len(Waiting) : Waiting'[n] = Waiting[n]
    BY <1>1, <1>5, <1>6, <2>1, <2>2
  <2>. QED  BY <1>5, <1>6, <1>7, <2>2, <2>3, SeqEqual
<1>8. CASE Head(queue) # Stop
  <2>1. Pills' = {} <=> Pills = {}
    <3>1. \A k \in Pills : k - 1 \in 1..Len(queue') /\ (k - 1) + 1 = k
      BY <1>1, <1>3, <1>8
    <3>. QED  BY <1>1, <3>1
  <2>2. Len(Waiting) \in Nat \ {0} /\ Len(Waiting') = Len(Waiting) - 1
    <3>1. Len(queue) = 1 => Pills = {}
      BY <1>3, <1>8
    <3>. QED  BY <1>1, <1>5, <1>6, <2>1, <3>1
  <2>3. Waiting # <<>>
    BY <2>2, EmptySeq
  <2>4. /\ Head(Waiting) = Waiting[1]
        /\ Tail(Waiting) \in Seq(Tasks) /\ Len(Tail(Waiting)) = Len(Waiting) - 1
        /\ \A n \in 1..Len(Tail(Waiting)) : Tail(Waiting)[n] = Waiting[n + 1]
    BY <1>5, <2>3, TailElements
  <2>5. Waiting[1] = queue[1]
    <3>1. 1 \in 1..Len(Waiting) /\ ~\E m \in Pills : m <= 1
      BY <1>3, <1>8, <2>2
    <3>. QED  BY <1>5, <3>1
  <2>6. ASSUME NEW n \in 1..Len(Waiting') PROVE Waiting'[n] = Waiting[n + 1]
    <3>1. n \in Nat /\ n + 1 \in 1..Len(Waiting)
      BY <2>2
    <3>2. (\E m \in Pills' : m <= n) <=> (\E m \in Pills : m <= n + 1)
      <4>1. \A m \in Pills : m - 1 \in Pills' /\ m \in Nat
        BY <1>1, <1>3, <1>8
      <4>2. \A m \in Pills' : m + 1 \in Pills /\ m \in Nat
        BY <1>1
      <4>. QED  BY <3>1, <4>1, <4>2
    <3>3. /\ Waiting'[n] = IF \E m \in Pills' : m <= n THEN queue'[n + 1] ELSE queue'[n]
          /\ Waiting[n + 1] =
               IF \E m \in Pills : m <= n + 1 THEN queue[(n + 1) + 1] ELSE queue[n + 1]
      BY <1>5, <1>6, <3>1
    <3>4. n \in 1..Len(queue')
      BY <1>1, <1>6, <3>1
    <3>5. (\E m \in Pills' : m <= n) => n + 1 \in 1..Len(queue')
      <4>1. Pills' # {} => Len(Waiting') = Len(queue') - 1
        BY <1>6
      <4>2. Len(queue') \in Nat
        BY <1>1
      <4>3. Pills' # {} => n <= Len(queue') - 1
        BY <4>1, <4>2, <3>1
      <4>. QED  BY <3>1, <4>2, <4>3
    <3>. QED  BY <1>1, <3>2, <3>3, <3>4, <3>5
  <2>7. Waiting' = Tail(Waiting)
    BY <1>6, <2>2, <2>4, <2>6, SeqEqual
  <2>. QED  BY <1>8, <2>3, <2>4, <2>5, <2>7
<1>. QED  BY <1>7, <1>8

(* What a client can know of is what has been pushed.                         *)
LEMMA KnownIsPushed ==
  ASSUME TypeOK, OnePill, ExactlyOnce, Alive PROVE Promise!Known = pushed
<1>1. Pills = PillsIn(queue) /\ Waiting = WithoutPills(queue)
  BY DEF Waiting, WithoutPills, Pills, PillsIn
<1>2. {Waiting[n] : n \in 1..Len(Waiting)} = InQueue
  <2>1. queue \in Seq(Tasks \union {Stop}) /\ \A m, n \in PillsIn(queue) : m = n
    BY <1>1 DEF TypeOK, OnePill
  <2>2. {WithoutPills(queue)[n] : n \in 1..Len(WithoutPills(queue))} = InQueue
    BY <2>1, WithoutPill, Zenon DEF InQueue
  <2>. QED  BY <1>1, <2>2, Zenon
<1>. QED  BY <1>2 DEF Promise!Known, ExactlyOnce

(* A worker that takes a task makes one more that run, and had none itself.   *)
LEMMA RoomForOne ==
  ASSUME TypeOK, NEW w \in Workers, ~Running(w)
  PROVE  Cardinality(InHand) < NThreads
<1> DEFINE R == {v \in Workers : Running(v)}
<1>1. IsFiniteSet(Workers) /\ Cardinality(Workers) = NThreads /\ NThreads \in Nat
  BY FS_Interval, PoolAssumption DEF Workers
<1>2. IsFiniteSet(Workers \ {w}) /\ Cardinality(Workers \ {w}) = NThreads - 1
  BY <1>1, FS_RemoveElement
<1>3. IsFiniteSet(R) /\ Cardinality(R) <= NThreads - 1
  BY <1>2, FS_Subset
<1>4. [v \in R |-> elem[v]] \in Surjection(R, InHand)
  BY DEF Surjection, InHand
<1>5. Cardinality(InHand) <= Cardinality(R) /\ IsFiniteSet(InHand)
  BY <1>3, <1>4, FS_Surjection
<1>. QED  BY <1>1, <1>3, <1>5, FS_CardinalityType

(* Nothing is pushed while the pool is constructed.                           *)
NothingYet == phase = "ctor" => pushed = {} /\ queue = <<>> /\ InHand = {}

LEMMA NothingYetAlways == Spec => []NothingYet
<1>1. Init => NothingYet
  BY DEF Init, NothingYet, InHand, Running
<1>2. TypeOK /\ NothingYet /\ [Next]_vars => NothingYet'
  <2> SUFFICES ASSUME TypeOK, NothingYet, [Next]_vars, phase' = "ctor" PROVE NothingYet'
    BY DEF NothingYet
  <2>1. CASE CreateThread
    <3>1. \A w \in Workers : Running(w)' => Running(w) /\ elem'[w] = elem[w]
      BY <2>1 DEF CreateThread, Running, TypeOK
    <3>. QED  BY <2>1, <3>1 DEF CreateThread, NothingYet, InHand
  <2>2. ASSUME NEW w \in Workers, Block(w) \/ SpuriousWakeup(w) PROVE NothingYet'
    <3>1. \A v \in Workers : Running(v)' => Running(v) /\ elem'[v] = elem[v]
      BY <2>2 DEF Block, SpuriousWakeup, Running, TypeOK
    <3>. QED  BY <2>2, <3>1 DEF Block, SpuriousWakeup, NothingYet, InHand
  <2>3. CASE UNCHANGED vars
    BY <2>3 DEF vars, NothingYet, InHand, Running
  <2>4. ASSUME NEW w \in Workers, Running(w) PROVE phase # "ctor"
    BY <2>4 DEF NothingYet, InHand
  <2>5. ASSUME NEW w \in Workers, Take(w) \/ Finish(w) \/ Throw(w) PROVE FALSE
    BY <2>4, <2>5 DEF Take, Finish, Throw, NothingYet
  <2>6. ASSUME NEW w \in Workers, NEW t \in Tasks, SubmitFromTask(w, t) PROVE FALSE
    BY <2>4, <2>6 DEF SubmitFromTask
  <2>. QED
    BY <2>1, <2>2, <2>3, <2>5, <2>6
       DEF Next, Owner, Worker, CreateFails, CtorReturns, Destroy, Submit, PushStop, Join,
           DtorReturns
<1>. QED  BY <1>1, <1>2, Typing, PTL DEF Spec

(* Every step of the pool is one of TaskPool's, or none that a client sees.   *)
LEMMA PromiseStep ==
  TypeOK /\ StopAccounting /\ ExactlyOnce /\ Drain /\ NothingYet /\ [Next]_vars
    => [Promise!Next]_(Promise!poolVars)
<1> SUFFICES ASSUME TypeOK, StopAccounting, ExactlyOnce, Drain, NothingYet, [Next]_vars
             PROVE  Promise!Next \/ UNCHANGED Promise!poolVars
  OBVIOUS
<1> DEFINE Seen == <<Waiting, InHand, finished, accepted>>
<1>1. Alive => OnePill
  BY DEF Alive, OnePill, StopAccounting, TypeOK, Phases
<1>2. Alive => Promise!Known = pushed
  BY <1>1, KnownIsPushed
<1>3. ASSUME Life' = Life, UNCHANGED Seen PROVE UNCHANGED Promise!poolVars
  BY <1>3 DEF Promise!poolVars
<1>4. CASE CreateThread
  <2>1. \A w \in Workers : Running(w)' <=> Running(w)
    BY <1>4, PoolAssumption DEF CreateThread, Running, TypeOK, Workers
  <2>2. InHand' = InHand
    BY <1>4, <2>1 DEF CreateThread, InHand
  <2>. QED  BY <1>3, <1>4, <2>2 DEF CreateThread, Waiting, Pills, Life
<1>5. CASE CtorReturns \/ Join \/ UNCHANGED vars
  BY <1>3, <1>5 DEF CtorReturns, Join, vars, Waiting, Pills, InHand, Running, Life
<1>6. CASE CreateFails
  <2>1. UNCHANGED Seen /\ phase = "ctor"
    BY <1>6 DEF CreateFails, Waiting, Pills, InHand, Running
  <2>2. CASE i = 0
    <3>1. Promise!Known = {}
      BY <1>2, <2>1 DEF NothingYet, Alive
    <3>2. Promise!NeverUp
      BY <1>6, <2>1, <2>2, <3>1 DEF CreateFails, Promise!NeverUp, Life
    <3>. QED  BY <3>2 DEF Promise!Next
  <2>3. CASE i # 0
    <3>1. Promise!Crash
      BY <1>6, <2>1, <2>3 DEF CreateFails, Promise!Crash, Life
    <3>. QED  BY <3>1 DEF Promise!Next
  <2>. QED  BY <2>2, <2>3
<1>7. CASE Destroy
  <2>1. Waiting' = Waiting /\ InHand' = InHand
    BY <1>7 DEF Destroy, Waiting, Pills, InHand, Running
  <2>2. Promise!Close
    BY <1>2, <1>7, <2>1 DEF Destroy, Promise!Close, Life, Alive
  <2>. QED  BY <2>2 DEF Promise!Next
<1>8. CASE PushStop
  <2>1. Pills = {} /\ QueuePush(Stop)
    BY <1>8 DEF PushStop, StopAccounting
  <2>2. Waiting' = Waiting
    BY <1>1, <1>8, <2>1, WaitingAfterPush DEF PushStop, Alive
  <2>3. InHand' = InHand
    BY <1>8, <2>1, InQueueAfterPush DEF PushStop
  <2>. QED  BY <1>3, <1>8, <2>2, <2>3 DEF PushStop, Life
<1>9. ASSUME NEW t \in Tasks, Submit(t) \/ \E w \in Workers : SubmitFromTask(w, t)
      PROVE  Promise!Next
  <2>1. /\ Alive /\ QueuePush(t) /\ t \notin pushed
        /\ UNCHANGED <<elem, phase, finished, accepted>>
        /\ phase = "open" \/ InHand # {}
    BY <1>9 DEF Submit, SubmitFromTask, Alive, InHand
  <2>2. Waiting' = Append(Waiting, t)
    BY <1>1, <2>1, WaitingAfterPush, PoolAssumption
  <2>3. InHand' = InHand
    BY <2>1, InQueueAfterPush
  <2>4. Life = "up" \/ (Life = "closing" /\ InHand # {})
    BY <2>1 DEF Alive, Life, TypeOK, Phases
  <2>5. Promise!Accept(t)
    BY <1>2, <2>1, <2>2, <2>3, <2>4 DEF Promise!Accept, Life
  <2>. QED  BY <2>5 DEF Promise!Next
<1>10. ASSUME NEW w \in Workers, Take(w) PROVE Promise!Next \/ UNCHANGED Promise!poolVars
  <2>1. /\ Alive /\ ~Running(w) /\ UNCHANGED <<phase, finished, accepted>>
    BY <1>10 DEF Take, Running
  <2>2. InHand' = InHand \union ({Head(queue)} \ {Stop})
    BY <1>10, InQueueAfterTake
  <2>3. CASE Head(queue) = Stop
    <3>1. Waiting' = Waiting
      BY <1>1, <1>10, <2>1, <2>3, WaitingAfterTake
    <3>. QED  BY <1>3, <2>1, <2>2, <2>3, <3>1 DEF Life
  <2>4. CASE Head(queue) # Stop
    <3>1. Waiting # <<>> /\ Head(Waiting) = Head(queue) /\ Waiting' = Tail(Waiting)
      BY <1>1, <1>10, <2>1, <2>4, WaitingAfterTake
    <3>2. Promise!Cardinality(InHand) < NThreads
      BY <2>1, RoomForOne DEF Promise!Cardinality, Cardinality
    <3>3. Life \in {"up", "closing"} /\ Life' = Life
      BY <2>1 DEF Alive, Life, TypeOK, Phases
    <3>4. InHand' = InHand \union {Head(Waiting)}
      BY <2>2, <2>4, <3>1
    <3>5. Promise!Begin
      BY <2>1, <3>1, <3>2, <3>3, <3>4, Zenon DEF Promise!Begin
    <3>. QED  BY <3>5 DEF Promise!Next
  <2>. QED  BY <2>3, <2>4
<1>11. ASSUME NEW w \in Workers, Finish(w) PROVE Promise!Next
  <2>1. /\ UNCHANGED <<queue, phase, accepted>> /\ Alive /\ Running(w) /\ ~Running(w)'
        /\ finished' = finished \union {elem[w]} /\ elem[w] \in Tasks
        /\ \A v \in Workers : v # w => (Running(v)' <=> Running(v)) /\ elem'[v] = elem[v]
    BY <1>11 DEF Finish, Running, TypeOK
  <2>2. InHand' = InHand \ {elem[w]} /\ elem[w] \in InHand
    BY <2>1 DEF InHand, ExactlyOnce
  <2>3. Waiting' = Waiting
    BY <2>1 DEF Waiting, Pills
  <2>4. Life \in {"up", "closing"} /\ Life' = Life
    BY <2>1 DEF Alive, Life, TypeOK, Phases
  <2>5. Promise!Complete(elem[w])
    BY <2>1, <2>2, <2>3, <2>4 DEF Promise!Complete
  <2>. QED  BY <2>1, <2>5 DEF Promise!Next
<1>12. ASSUME NEW w \in Workers, Throw(w) PROVE Promise!Next
  <2>1. UNCHANGED Seen /\ Alive /\ phase' = "aborted"
    BY <1>12 DEF Throw, Waiting, Pills, InHand, Running
  <2>2. Promise!Crash
    BY <2>1 DEF Promise!Crash, Alive, Life, TypeOK, Phases
  <2>. QED  BY <2>2 DEF Promise!Next
<1>13. ASSUME NEW w \in Workers, Block(w) \/ SpuriousWakeup(w)
       PROVE  UNCHANGED Promise!poolVars
  <2>1. \A v \in Workers : Running(v)' <=> Running(v)
    BY <1>13 DEF Block, SpuriousWakeup, Running, TypeOK
  <2>2. InHand' = InHand
    BY <1>13, <2>1 DEF Block, SpuriousWakeup, InHand
  <2>. QED  BY <1>3, <1>13, <2>2 DEF Block, SpuriousWakeup, Waiting, Pills, Life
<1>14. CASE DtorReturns
  <2>1. Finishers = Workers
    BY <1>14 DEF DtorReturns, StopAccounting, Workers
  <2>2. InHand = {} /\ InHand' = {}
    BY <1>14, <2>1 DEF DtorReturns, InHand, Finishers, Running
  <2>3. Waiting' = <<>>
    <3>1. Pills' = {} /\ Len(queue') = 0
      BY <1>14 DEF DtorReturns, Pills
    <3>2. 1..0 = {}
      OBVIOUS
    <3>3. Waiting' \in Seq(Tasks) /\ Len(Waiting') = 0
      <4>1. queue' \in Seq(Tasks \union {Stop})
        BY <1>14, EmptySeq DEF DtorReturns
      <4>2. Pills' = PillsIn(queue') /\ Waiting' = WithoutPills(queue')
        BY DEF Waiting, WithoutPills, Pills, PillsIn
      <4>. QED  BY <3>1, <4>1, <4>2, WithoutPill
    <3>. QED  BY <3>3, EmptySeq
  <2>4. NThreads > 0 => accepted \subseteq finished
    <3>1. DrainedWhenGone'
      BY <1>14, DrainStep DEF Drain, Next, Owner
    <3>. QED  BY <1>14, <3>1 DEF DtorReturns, DrainedWhenGone
  <2>5. Promise!GoDown
    BY <1>14, <2>2, <2>3, <2>4 DEF DtorReturns, Promise!GoDown, Life
  <2>. QED  BY <2>5 DEF Promise!Next
<1>. QED
  BY <1>4, <1>5, <1>6, <1>7, <1>8, <1>9, <1>10, <1>11, <1>12, <1>13, <1>14
     DEF Next, Owner, Worker

(* The pool keeps the promise of TaskPool, for any number of threads: order,  *)
(* one run of each task, never more at once than threads, nothing owed at the *)
(* end.                                                                       *)
THEOREM ImplementsTaskPool == Spec => PromiseSpec
<1>1. Init => Promise!Init
  <2> SUFFICES ASSUME Init PROVE Promise!Init
    OBVIOUS
  <2>1. Pills = {} /\ InHand = {} /\ Life = "up" /\ Len(queue) = 0
    BY DEF Init, Pills, InHand, Running, Life
  <2>2. Waiting = <<>>
    <3>1. queue \in Seq(Tasks \union {Stop})
      BY EmptySeq DEF Init
    <3>2. Pills = PillsIn(queue) /\ Waiting = WithoutPills(queue)
      BY DEF Waiting, WithoutPills, Pills, PillsIn
    <3>3. Waiting \in Seq(Tasks) /\ Len(Waiting) = 0
      BY <2>1, <3>1, <3>2, WithoutPill
    <3>. QED  BY <3>3, EmptySeq
  <2>. QED  BY <2>1, <2>2 DEF Init, Promise!Init
<1>. QED
  BY <1>1, PromiseStep, Typing, PillsAccounted, EachTaskOnce, DrainAlways, NothingYetAlways,
     PTL DEF Spec, PromiseSpec, Promise!Spec
=============================================================================
