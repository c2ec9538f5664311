----------------------------- MODULE LoggerProofs -----------------------------
(* Where the messages of a Logger are, and in which order, for every number   *)
(* of callers and of messages, every type and every fault.                    *)
EXTENDS Logger, SequenceTheorems, FiniteSetTheorems, TLAPS

(* The elements of a sequence after an Append and after a Tail.               *)
LEMMA AppendElements ==
  ASSUME NEW S, NEW s \in Seq(S), NEW x \in S
  PROVE  /\ Append(s, x) \in Seq(S) /\ Len(Append(s, x)) = Len(s) + 1 /\ Len(s) \in Nat
         /\ \A n \in 1..Len(s) : Append(s, x)[n] = s[n]
         /\ Append(s, x)[Len(s) + 1] = x
         /\ Elements(Append(s, x)) = Elements(s) \union {x}
<1>1. /\ Append(s, x) \in Seq(S) /\ Len(Append(s, x)) = Len(s) + 1 /\ Len(s) \in Nat
      /\ \A n \in 1..Len(s) : Append(s, x)[n] = s[n]
      /\ Append(s, x)[Len(s) + 1] = x
  BY AppendProperties, LenProperties
<1>2. 1..Len(Append(s, x)) = 1..Len(s) \union {Len(s) + 1}
  BY <1>1
<1>. QED  BY <1>1, <1>2 DEF Elements

LEMMA TailElements ==
  ASSUME NEW S, NEW s \in Seq(S), s # <<>>
  PROVE  /\ Head(s) \in S /\ Head(s) = s[1] /\ Tail(s) \in Seq(S)
         /\ Len(s) \in Nat \ {0} /\ Len(Tail(s)) = Len(s) - 1
         /\ \A n \in 1..Len(Tail(s)) : Tail(s)[n] = s[n + 1]
         /\ Elements(s) = {Head(s)} \union Elements(Tail(s))
<1>1. /\ Head(s) \in S /\ Head(s) = s[1] /\ Tail(s) \in Seq(S)
      /\ Len(s) \in Nat \ {0} /\ Len(Tail(s)) = Len(s) - 1
      /\ \A n \in 1..Len(Tail(s)) : Tail(s)[n] = s[n + 1]
  BY HeadTailProperties, EmptySeq
<1>2. Elements(s) \subseteq {Head(s)} \union Elements(Tail(s))
  <2> SUFFICES ASSUME NEW n \in 1..Len(s), n # 1 PROVE s[n] \in Elements(Tail(s))
    BY <1>1 DEF Elements
  <2>1. n - 1 \in 1..Len(Tail(s)) /\ (n - 1) + 1 = n
    BY <1>1
  <2>. QED  BY <1>1, <2>1 DEF Elements
<1>3. {Head(s)} \union Elements(Tail(s)) \subseteq Elements(s)
  <2>1. 1 \in 1..Len(s) /\ \A n \in 1..Len(Tail(s)) : n + 1 \in 1..Len(s)
    BY <1>1
  <2>. QED  BY <1>1, <2>1 DEF Elements
<1>. QED  BY <1>1, <1>2, <1>3

(* The messages of each caller in the order of its calls.                     *)
Ordered(s) ==
  \A m, n \in 1..Len(s) : (m < n /\ s[m][1] = s[n][1]) => s[m][2] < s[n][2]

LEMMA OrderedAppend ==
  ASSUME NEW s \in Seq(Messages), NEW x \in Messages, Ordered(s),
         \A y \in Elements(s) : y[1] = x[1] => y[2] < x[2]
  PROVE  Ordered(Append(s, x))
<1>1. /\ Len(Append(s, x)) = Len(s) + 1 /\ Len(s) \in Nat
      /\ \A n \in 1..Len(s) : Append(s, x)[n] = s[n]
      /\ Append(s, x)[Len(s) + 1] = x
  BY AppendElements
<1> SUFFICES ASSUME NEW m \in 1..(Len(s) + 1), NEW n \in 1..(Len(s) + 1), m < n,
                    Append(s, x)[m][1] = Append(s, x)[n][1]
             PROVE  Append(s, x)[m][2] < Append(s, x)[n][2]
  BY <1>1 DEF Ordered
<1>2. m \in 1..Len(s) /\ Append(s, x)[m] = s[m] /\ s[m] \in Elements(s)
  BY <1>1 DEF Elements
<1>3. CASE n \in 1..Len(s)
  BY <1>1, <1>2, <1>3 DEF Ordered
<1>4. CASE n = Len(s) + 1
  BY <1>1, <1>2, <1>4
<1>. QED  BY <1>1, <1>3, <1>4

LEMMA OrderedTail ==
  ASSUME NEW s \in Seq(Messages), s # <<>>, Ordered(s)
  PROVE  /\ Ordered(Tail(s))
         /\ \A y \in Elements(Tail(s)) : y[1] = Head(s)[1] => Head(s)[2] < y[2]
         /\ Head(s) \notin Elements(Tail(s))
<1>1. /\ Head(s) = s[1] /\ Len(s) \in Nat \ {0} /\ Len(Tail(s)) = Len(s) - 1
      /\ \A n \in 1..Len(Tail(s)) : Tail(s)[n] = s[n + 1]
      /\ Head(s) \in Messages
  BY TailElements
<1>2. \A n \in 1..Len(Tail(s)) : n + 1 \in 1..Len(s) /\ 1 \in 1..Len(s) /\ 1 < n + 1
  BY <1>1
<1>3. Ordered(Tail(s))
  <2> SUFFICES ASSUME NEW m \in 1..Len(Tail(s)), NEW n \in 1..Len(Tail(s)), m < n,
                      Tail(s)[m][1] = Tail(s)[n][1]
               PROVE  Tail(s)[m][2] < Tail(s)[n][2]
    BY DEF Ordered
  <2>1. m + 1 < n + 1
    OBVIOUS
  <2>. QED  BY <1>1, <1>2, <2>1 DEF Ordered
<1>4. \A y \in Elements(Tail(s)) : y[1] = Head(s)[1] => Head(s)[2] < y[2]
  BY <1>1, <1>2 DEF Elements, Ordered
<1>5. Head(s) \notin Elements(Tail(s))
  <2>1. Head(s)[2] \in Nat
    BY <1>1, LoggerAssumption DEF Messages
  <2>2. ~(Head(s)[2] < Head(s)[2])
    BY <2>1
  <2>. QED  BY <1>4, <2>2
<1>. QED  BY <1>3, <1>4, <1>5

-----------------------------------------------------------------------------
(* Which Logger a caller may have, and what it may still send.                *)
Places ==
  /\ DOMAIN queue = Callers /\ DOMAIN worker = Callers
  /\ DOMAIN pc = Callers /\ DOMAIN lg = Callers /\ DOMAIN sent = Callers
  /\ made \subseteq Callers /\ IsFiniteSet(made) /\ instance \in made \union {NoLogger}
  /\ \A c \in Callers :
       /\ pc[c] = "publish" => c \in made
       /\ pc[c] = "return" => instance \in made
       /\ pc[c] \in {"log", "notify"} => lg[c] \in made
       /\ sent[c] \in 0..Count
       /\ pc[c] \in {"create", "publish", "return", "log"} => sent[c] < Count
  /\ \A l \in Loggers : queue[l] \in Seq(Messages) /\ (l \notin made => queue[l] = <<>>)
  /\ written \in Seq(Messages)

LEMMA PlacesStep == Places /\ [Next]_vars => Places'
<1> SUFFICES ASSUME Places, [Next]_vars PROVE Places'
  OBVIOUS
<1> USE DEF Places, Loggers
<1>1. ASSUME NEW c \in Callers, Check(c) PROVE Places'
  BY <1>1 DEF Check
<1>2. ASSUME NEW c \in Callers, Create(c) PROVE Places'
  <2>1. IsFiniteSet(made \union {c})
    BY FS_AddElement
  <2>. QED  BY <1>2, <2>1 DEF Create
<1>3. ASSUME NEW c \in Callers, Publish(c) PROVE Places'
  BY <1>3 DEF Publish
<1>4. ASSUME NEW c \in Callers, Return(c) PROVE Places'
  BY <1>4 DEF Return
<1>5. ASSUME NEW c \in Callers, Log(c) PROVE Places'
  <2> DEFINE l == lg[c]  m == <<c, sent[c] + 1>>
  <2>1. l \in made /\ l \in Callers /\ m \in Messages /\ sent[c] + 1 \in 0..Count
    BY <1>5, LoggerAssumption DEF Log, Messages
  <2>2. Append(written, m) \in Seq(Messages) /\ Append(queue[l], m) \in Seq(Messages)
        /\ <<m>> \in Seq(Messages)
    <3>1. <<m>> = Append(<<>>, m) /\ <<>> \in Seq(Messages)
      BY EmptySeq
    <3>. QED  BY <2>1, <3>1, AppendElements
  <2>3. written' \in Seq(Messages) /\ DOMAIN queue' = Callers
    BY <1>5, <2>2 DEF Log
  <2>4. \A k \in Callers : queue'[k] \in Seq(Messages) /\ (k \notin made => queue'[k] = <<>>)
    BY <1>5, <2>1, <2>2 DEF Log
  <2>. QED  BY <1>5, <2>1, <2>3, <2>4 DEF Log
<1>6. ASSUME NEW c \in Callers, Notify(c) PROVE Places'
  BY <1>6 DEF Notify
<1>7. ASSUME NEW c \in Callers, CreateThrows(c) PROVE Places'
  BY <1>7 DEF CreateThrows
<1>8. ASSUME NEW l \in Loggers, FlushOne(l) \/ FlushAborts(l) PROVE Places'
  <2>1. Tail(queue[l]) \in Seq(Messages) /\ Head(queue[l]) \in Messages
    BY <1>8, TailElements DEF FlushOne, FlushAborts
  <2>2. Append(written, Head(queue[l])) \in Seq(Messages)
    BY <2>1, AppendElements
  <2>3. written' \in Seq(Messages) /\ queue' = [queue EXCEPT ![l] = Tail(@)]
        /\ UNCHANGED <<made, instance, pc, lg, sent, worker>> /\ queue[l] # <<>>
    BY <1>8, <2>2 DEF FlushOne, FlushAborts, callerVars
  <2>. QED  BY <2>1, <2>3
<1>9. ASSUME NEW l \in Loggers, WorkerLocks(l) \/ FlushEnds(l) \/ SpuriousWakeup(l) PROVE Places'
  BY <1>9 DEF WorkerLocks, FlushEnds, SpuriousWakeup, callerVars
<1>10. CASE Midnight \/ UNCHANGED vars
  BY <1>10 DEF Midnight, vars, callerVars
<1>. QED
  BY <1>1, <1>2, <1>3, <1>4, <1>5, <1>6, <1>7, <1>8, <1>9, <1>10 DEF Next, InCall, Worker

LEMMA PlacesHold == Spec => []Places
<1>1. Init => Places
  <2>1. <<>> \in Seq(Messages)
    BY EmptySeq
  <2>2. IsFiniteSet({})
    BY FS_EmptySet
  <2>. QED  BY <2>1, <2>2, LoggerAssumption DEF Init, Places, Loggers
<1>. QED  BY <1>1, PlacesStep, PTL DEF Spec

(* No thread sleeps over a message without a caller about to wake it.         *)
THEOREM SleepersAreWoken == Spec => []SleeperHasNotifier
<1>1. Init => SleeperHasNotifier
  BY DEF Init, SleeperHasNotifier
<1>2. Places /\ SleeperHasNotifier /\ [Next]_vars => SleeperHasNotifier'
  <2> SUFFICES ASSUME Places, SleeperHasNotifier, [Next]_vars PROVE SleeperHasNotifier'
    OBVIOUS
  <2> USE DEF Places, SleeperHasNotifier, Loggers
  <2>1. ASSUME NEW c \in Callers, Check(c) \/ Publish(c) \/ Return(c) \/ CreateThrows(c)
        PROVE  SleeperHasNotifier'
    <3>1. /\ UNCHANGED <<worker, queue>>
          /\ \A k \in Callers : pc[k] = "notify" => pc'[k] = "notify" /\ lg'[k] = lg[k]
      BY <2>1 DEF Check, Publish, Return, CreateThrows
    <3> SUFFICES ASSUME NEW l \in Loggers, worker'[l] = "wait", queue'[l] # <<>>
                 PROVE  \E k \in Callers : pc'[k] = "notify" /\ lg'[k] = l
      BY DEF SleeperHasNotifier
    <3>2. PICK k \in Callers : pc[k] = "notify" /\ lg[k] = l
      BY <3>1
    <3>. QED  BY <3>1, <3>2
  <2>2. ASSUME NEW c \in Callers, Create(c) PROVE SleeperHasNotifier'
    BY <2>2 DEF Create, FirstState
  <2>3. ASSUME NEW c \in Callers, Log(c) PROVE SleeperHasNotifier'
    <3>1. \A k \in Callers \ {lg[c]} : queue'[k] = queue[k]
      BY <2>3 DEF Log
    <3>2. pc[c] = "log" /\ pc' = [pc EXCEPT ![c] = "notify"] /\ UNCHANGED <<lg, worker>>
      BY <2>3 DEF Log
    <3>3. pc'[c] = "notify" /\ \A d \in Callers : pc[d] = "notify" => pc'[d] = "notify"
      BY <3>2
    <3>. QED  BY <3>1, <3>2, <3>3
  <2>4. ASSUME NEW c \in Callers, Notify(c) PROVE SleeperHasNotifier'
    BY <2>4 DEF Notify
  <2>5. ASSUME NEW l \in Loggers, FlushOne(l) \/ FlushAborts(l) PROVE SleeperHasNotifier'
    BY <2>5 DEF FlushOne, FlushAborts, callerVars
  <2>6. ASSUME NEW l \in Loggers, WorkerLocks(l) \/ FlushEnds(l) \/ SpuriousWakeup(l)
        PROVE  SleeperHasNotifier'
    <3>1. CASE WorkerLocks(l)
      BY <3>1 DEF WorkerLocks, callerVars
    <3>2. CASE FlushEnds(l)
      BY <3>2 DEF FlushEnds, callerVars
    <3>3. CASE SpuriousWakeup(l)
      BY <3>3 DEF SpuriousWakeup, callerVars
    <3>. QED  BY <2>6, <3>1, <3>2, <3>3
  <2>7. CASE Midnight \/ UNCHANGED vars
    BY <2>7 DEF Midnight, vars, callerVars
  <2>. QED
    BY <2>1, <2>2, <2>3, <2>4, <2>5, <2>6, <2>7 DEF Next, InCall, Worker
<1>. QED  BY <1>1, <1>2, PlacesHold, PTL DEF Spec

-----------------------------------------------------------------------------
(* Where each message is, and that queues share none.                         *)
Homes ==
  /\ OneHome /\ IsFiniteSet(Elements(written))
  /\ \A l \in Loggers : Ordered(queue[l])
  /\ \A k, l \in Loggers : k # l => Elements(queue[k]) \intersect Elements(queue[l]) = {}

(* As long as one Logger has been made, what is written precedes what is      *)
(* queued.                                                                    *)
Order ==
  (\A k, l \in made : k = l) =>
    /\ Ordered(written)
    /\ \A l \in Loggers :
         \A x \in Elements(written), y \in Elements(queue[l]) : x[1] = y[1] => x[2] < y[2]

(* A change of one queue.                                                     *)
LEMMA QueueChange ==
  ASSUME Places, Homes, NEW l \in Loggers, NEW q, queue' = [queue EXCEPT ![l] = q]
  PROVE  /\ queue'[l] = q /\ \A k \in Loggers \ {l} : queue'[k] = queue[k]
         /\ Elements(queue[l]) \subseteq Queued
         /\ Queued' = (Queued \ Elements(queue[l])) \union Elements(q)
<1>1. queue'[l] = q /\ \A k \in Loggers \ {l} : queue'[k] = queue[k]
  BY DEF Places, Loggers
<1>2. Elements(queue[l]) \subseteq Queued
  BY DEF Queued
<1>3. Queued' \subseteq (Queued \ Elements(queue[l])) \union Elements(q)
  <2> SUFFICES ASSUME NEW k \in Loggers, NEW x \in Elements(queue'[k])
               PROVE  x \in (Queued \ Elements(queue[l])) \union Elements(q)
    BY DEF Queued
  <2>1. CASE k = l
    BY <1>1, <2>1
  <2>2. CASE k # l
    BY <1>1, <2>2 DEF Homes, Queued
  <2>. QED  BY <2>1, <2>2
<1>4. (Queued \ Elements(queue[l])) \union Elements(q) \subseteq Queued'
  <2>1. Elements(q) \subseteq Queued'
    BY <1>1 DEF Queued
  <2>2. ASSUME NEW k \in Loggers, NEW x \in Elements(queue[k]), x \notin Elements(queue[l])
        PROVE  x \in Queued'
    BY <1>1, <2>2 DEF Queued
  <2>. QED  BY <2>1, <2>2 DEF Queued
<1>. QED  BY <1>1, <1>2, <1>3, <1>4

(* A message that is written for the first time.                              *)
LEMMA WrittenOnce ==
  ASSUME Places, Homes, NEW x \in Messages, x \notin Elements(written),
         written' = Append(written, x)
  PROVE  /\ Elements(written') = Elements(written) \union {x}
         /\ IsFiniteSet(Elements(written'))
         /\ Len(written') = Cardinality(Elements(written'))
<1>1. /\ Len(written') = Len(written) + 1
      /\ Elements(written') = Elements(written) \union {x}
  BY AppendElements DEF Places
<1>2. /\ IsFiniteSet(Elements(written) \union {x})
      /\ Cardinality(Elements(written) \union {x}) = Cardinality(Elements(written)) + 1
  BY FS_AddElement DEF Homes
<1>3. Len(written) = Cardinality(Elements(written))
  BY DEF Homes, OneHome
<1>. QED  BY <1>1, <1>2, <1>3

(* NullLogStrategy queues nothing.                                            *)
Silent == Strategy = "NULL" => \A l \in Loggers : queue[l] = <<>>

LEMMA SilentHolds == Spec => []Silent
<1>1. Init => Silent
  BY DEF Init, Silent
<1>2. Silent /\ [Next]_vars => Silent'
  <2> SUFFICES ASSUME Silent, [Next]_vars PROVE Silent'
    OBVIOUS
  <2>1. ASSUME NEW c \in Callers, Check(c) \/ InCall(c) \/ CreateThrows(c) PROVE type' = type
    BY <2>1 DEF InCall, Check, Create, Publish, Return, Log, Notify, CreateThrows
  <2>2. ASSUME NEW l \in Loggers, Worker(l) \/ SpuriousWakeup(l) \/ FlushAborts(l)
        PROVE  type' = type
    BY <2>2 DEF Worker, WorkerLocks, FlushOne, FlushEnds, SpuriousWakeup, FlushAborts
  <2>3. CASE Midnight \/ UNCHANGED vars
    BY <2>3 DEF Midnight, vars, Silent, Strategy
  <2>4. type' = type
    BY <2>1, <2>2, <2>3 DEF Next, Midnight, vars
  <2> SUFFICES ASSUME Strategy = "NULL" PROVE UNCHANGED queue
    BY <2>4 DEF Silent, Strategy
  <2>5. ASSUME NEW l \in Loggers, FlushOne(l) \/ FlushAborts(l) PROVE FALSE
    BY <2>5 DEF FlushOne, FlushAborts, Silent
  <2>. QED
    BY <2>5 DEF Next, InCall, Worker, Midnight, Check, Create, Publish, Return, Log, Notify,
       CreateThrows, WorkerLocks, FlushEnds, SpuriousWakeup, vars
<1>. QED  BY <1>1, <1>2, PTL DEF Spec

(* What a caller logs is new, and later than all it has logged.               *)
LEMMA NewMessage ==
  ASSUME Places, NEW c \in Callers, sent[c] < Count,
         sent' = [sent EXCEPT ![c] = @ + 1]
  PROVE  /\ <<c, sent[c] + 1>> \in Messages /\ <<c, sent[c] + 1>> \notin Logged
         /\ Logged' = Logged \union {<<c, sent[c] + 1>>}
         /\ \A x \in Logged : x[1] = c => x[2] < sent[c] + 1
<1> USE DEF Places
<1>1. sent[c] \in Nat /\ sent[c] + 1 \in 1..Count
  BY LoggerAssumption
<1>2. <<c, sent[c] + 1>> \in Messages /\ <<c, sent[c] + 1>> \notin Logged
  BY <1>1 DEF Messages, Logged
<1>3. \A x \in Logged : x[1] = c => x[2] < sent[c] + 1
  BY <1>1, LoggerAssumption DEF Messages, Logged
<1>4. ASSUME NEW x \in Messages
      PROVE  x[2] <= sent'[x[1]] <=> (x[2] <= sent[x[1]] \/ x = <<c, sent[c] + 1>>)
  <2>1. PICK d \in Callers, n \in 1..Count : x = <<d, n>>
    BY DEF Messages
  <2>2. n \in Nat /\ x[1] = d /\ x[2] = n
    BY <2>1, LoggerAssumption
  <2>3. CASE d = c
    <3>1. sent'[d] = sent[c] + 1
      BY <2>3
    <3>2. n <= sent[c] + 1 <=> (n <= sent[c] \/ n = sent[c] + 1)
      BY <1>1, <2>2
    <3>. QED  BY <2>1, <2>2, <2>3, <3>1, <3>2
  <2>4. CASE d # c
    BY <2>1, <2>2, <2>4
  <2>. QED  BY <2>3, <2>4
<1>5. Logged' = Logged \union {<<c, sent[c] + 1>>}
  <2>1. Logged' \subseteq Logged \union {<<c, sent[c] + 1>>}
    BY <1>4 DEF Logged
  <2>2. Logged \union {<<c, sent[c] + 1>>} \subseteq Logged'
    BY <1>2, <1>4 DEF Logged
  <2>. QED  BY <2>1, <2>2
<1>. QED  BY <1>2, <1>3, <1>5

(* A critical section of Log.                                                 *)
LEMMA LogStep ==
  ASSUME Places, Silent, Homes, Order, NEW c \in Callers, Log(c)
  PROVE  Homes' /\ Order'
<1> DEFINE l == lg[c]  m == <<c, sent[c] + 1>>
<1> USE DEF Places
<1>1. /\ l \in Loggers /\ l \in made /\ sent[c] < Count /\ sent' = [sent EXCEPT ![c] = @ + 1]
      /\ UNCHANGED <<made, dropped>>
  BY DEF Log, Loggers
<1>2. /\ m \in Messages /\ m \notin Logged /\ Logged' = Logged \union {m}
      /\ \A x \in Logged : x[1] = c => x[2] < sent[c] + 1
  BY <1>1, NewMessage
<1>3. /\ m[1] = c /\ m[2] = sent[c] + 1
  OBVIOUS
<1>4. /\ Logged = Queued \union Elements(written) \union dropped \union orphaned
      /\ Elements(queue[l]) \subseteq Queued
  BY <1>1 DEF Homes, OneHome, Queued
<1> HIDE DEF l, m
<1>5. \A x \in Logged : x[1] = m[1] => x[2] < m[2]
  BY <1>2, <1>3
<1>6. CASE Strategy = "NULL"
  <2>1. written' = Append(written, m) /\ UNCHANGED <<queue, orphaned>>
    BY <1>6 DEF Log, m
  <2>2. /\ Elements(written') = Elements(written) \union {m}
        /\ IsFiniteSet(Elements(written')) /\ Len(written') = Cardinality(Elements(written'))
    BY <1>2, <1>4, <2>1, WrittenOnce
  <2>3. Queued' = Queued
    BY <2>1 DEF Queued
  <2>4. OneHome'
    BY <1>1, <1>2, <1>4, <2>1, <2>2, <2>3 DEF Homes, OneHome
  <2>5. Homes'
    BY <2>1, <2>2, <2>4 DEF Homes
  <2>6. ASSUME \A j, k \in made : j = k PROVE Ordered(written')
    BY <1>2, <1>4, <1>5, <2>1, <2>6, OrderedAppend DEF Order
  <2>7. \A k \in Loggers : Elements(queue[k]) = {}
    <3>1. 1..Len(<<>>) = {}
      BY EmptySeq
    <3>. QED  BY <1>6, <3>1 DEF Silent, Elements
  <2>. QED  BY <1>1, <2>1, <2>2, <2>5, <2>6, <2>7 DEF Order
<1>7. ASSUME NEW q, queue' = [queue EXCEPT ![l] = q], UNCHANGED written, Ordered(q),
             (q = Append(queue[l], m) /\ orphaned' = orphaned
                /\ Elements(q) = Elements(queue[l]) \union {m})
             \/ (Elements(q) = {m} /\ orphaned' = orphaned \union Elements(queue[l]))
      PROVE  Homes' /\ Order'
  <2>1. /\ queue'[l] = q /\ \A k \in Loggers \ {l} : queue'[k] = queue[k]
        /\ Queued' = (Queued \ Elements(queue[l])) \union Elements(q)
    BY <1>1, <1>7, QueueChange
  <2>2. m \in Elements(q) /\ Elements(q) \subseteq Elements(queue[l]) \union {m}
    BY <1>7
  <2>3. m \notin Queued \union Elements(written) \union dropped \union orphaned
    BY <1>2, <1>4
  <2>4. /\ Queued' \union orphaned' = Queued \union orphaned \union {m}
        /\ Queued' \intersect orphaned' = {}
        /\ Queued' \subseteq Queued \union {m} /\ orphaned' \subseteq orphaned \union Queued
    BY <1>4, <1>7, <2>1, <2>2, <2>3 DEF Homes, OneHome
  <2>5. OneHome'
    <3>1. /\ Len(written) = Cardinality(Elements(written))
          /\ Queued \intersect (Elements(written) \union dropped \union orphaned) = {}
          /\ Elements(written) \intersect (dropped \union orphaned) = {}
      BY DEF Homes, OneHome
    <3>2. Logged' = Queued' \union Elements(written) \union dropped \union orphaned'
      BY <1>2, <1>4, <2>4
    <3>3. /\ Queued' \intersect (Elements(written) \union dropped \union orphaned') = {}
          /\ Elements(written) \intersect (dropped \union orphaned') = {}
      BY <2>3, <2>4, <3>1
    <3>. QED  BY <1>1, <1>7, <3>1, <3>2, <3>3 DEF OneHome
  <2>6. \A k \in Loggers : Ordered(queue'[k])
    BY <1>7, <2>1 DEF Homes
  <2>7. \A j, k \in Loggers : j # k => Elements(queue'[j]) \intersect Elements(queue'[k]) = {}
    <3>1. \A k \in Loggers \ {l} : /\ Elements(queue[k]) \intersect Elements(queue[l]) = {}
                                   /\ m \notin Elements(queue[k])
      BY <1>1, <2>3 DEF Homes, Queued
    <3> SUFFICES ASSUME NEW j \in Loggers, NEW k \in Loggers, j # k
                 PROVE  Elements(queue'[j]) \intersect Elements(queue'[k]) = {}
      OBVIOUS
    <3>2. CASE j = l
      BY <2>1, <2>2, <3>1, <3>2
    <3>3. CASE k = l
      BY <2>1, <2>2, <3>1, <3>3
    <3>4. CASE j # l /\ k # l
      BY <2>1, <3>4 DEF Homes
    <3>. QED  BY <3>2, <3>3, <3>4
  <2>8. Order'
    <3> SUFFICES ASSUME \A j, k \in made : j = k, NEW k \in Loggers,
                        NEW x \in Elements(written), NEW y \in Elements(queue'[k]), x[1] = y[1]
                 PROVE  x[2] < y[2]
      BY <1>1, <1>7 DEF Order
    <3>1. CASE y = m
      BY <1>4, <1>5, <3>1
    <3>2. CASE y # m
      <4>1. y \in Elements(queue[k])
        BY <2>1, <2>2, <3>2
      <4>. QED  BY <4>1 DEF Order
    <3>. QED  BY <3>1, <3>2
  <2>. QED  BY <1>7, <2>5, <2>6, <2>7, <2>8 DEF Homes
<1>8. CASE Strategy # "NULL" /\ Rolls(l)
  <2>1. /\ queue' = [queue EXCEPT ![l] = <<m>>] /\ UNCHANGED written
        /\ orphaned' = orphaned \union Elements(queue[l])
    BY <1>8 DEF Log, l, m
  <2>2. Elements(<<m>>) = {m} /\ Ordered(<<m>>)
    <3>1. <<>> \in Seq(Messages) /\ <<m>> = Append(<<>>, m) /\ Len(<<>>) = 0
      BY EmptySeq
    <3>2. Elements(<<>>) = {} /\ Ordered(<<>>)
      BY <3>1 DEF Elements, Ordered
    <3>3. Elements(Append(<<>>, m)) = Elements(<<>>) \union {m}
      <4> DEFINE s == <<>>
      <4>1. s \in Seq(Messages)
        BY EmptySeq
      <4> HIDE DEF s
      <4>2. Elements(Append(s, m)) = Elements(s) \union {m}
        BY <1>2, <4>1, AppendElements
      <4>. QED  BY <4>2 DEF s
    <3>4. Ordered(Append(<<>>, m))
      BY <1>2, <3>1, <3>2, OrderedAppend
    <3>. QED  BY <3>1, <3>2, <3>3, <3>4
  <2>. QED  BY <1>7, <2>1, <2>2
<1>9. CASE Strategy # "NULL" /\ ~Rolls(l)
  <2>1. /\ queue' = [queue EXCEPT ![l] = Append(queue[l], m)] /\ UNCHANGED <<written, orphaned>>
    BY <1>9 DEF Log, l, m
  <2>2. queue[l] \in Seq(Messages) /\ Ordered(queue[l])
    BY <1>1 DEF Homes
  <2>3. Ordered(Append(queue[l], m))
    BY <1>2, <1>4, <1>5, <2>2, OrderedAppend
  <2>4. Elements(Append(queue[l], m)) = Elements(queue[l]) \union {m}
    BY <1>2, <2>2, AppendElements
  <2>. QED  BY <1>7, <2>1, <2>3, <2>4
<1>. QED  BY <1>6, <1>8, <1>9

(* A message that leaves its queue is written, or lost.                       *)
LEMMA FlushStep ==
  ASSUME Places, Homes, Order, NEW l \in Loggers, FlushOne(l) \/ FlushAborts(l)
  PROVE  Homes' /\ Order'
<1> DEFINE m == Head(queue[l])
<1> USE DEF Places
<1>1. /\ queue[l] # <<>> /\ queue[l] \in Seq(Messages) /\ Ordered(queue[l])
      /\ queue' = [queue EXCEPT ![l] = Tail(queue[l])]
      /\ UNCHANGED <<sent, made, orphaned>>
      /\ \/ written' = Append(written, m) /\ UNCHANGED dropped
         \/ dropped' = dropped \union {m} /\ UNCHANGED written
  BY DEF FlushOne, FlushAborts, callerVars, Homes
<1>2. m \in Messages /\ Elements(queue[l]) = {m} \union Elements(Tail(queue[l]))
  BY <1>1, TailElements
<1>3. /\ Ordered(Tail(queue[l])) /\ m \notin Elements(Tail(queue[l]))
      /\ \A y \in Elements(Tail(queue[l])) : y[1] = m[1] => m[2] < y[2]
  BY <1>1, OrderedTail
<1> HIDE DEF m
<1>4. /\ queue'[l] = Tail(queue[l]) /\ \A k \in Loggers \ {l} : queue'[k] = queue[k]
      /\ Elements(queue[l]) \subseteq Queued
      /\ Queued' = (Queued \ Elements(queue[l])) \union Elements(Tail(queue[l]))
  BY <1>1, QueueChange
<1>5. m \in Queued /\ Queued' = Queued \ {m}
  BY <1>2, <1>3, <1>4
<1>6. /\ Logged = Queued \union Elements(written) \union dropped \union orphaned
      /\ Len(written) = Cardinality(Elements(written))
      /\ Queued \intersect (Elements(written) \union dropped \union orphaned) = {}
      /\ Elements(written) \intersect (dropped \union orphaned) = {}
  BY DEF Homes, OneHome
<1>7. Logged' = Logged
  BY <1>1 DEF Logged
<1>8. OneHome' /\ IsFiniteSet(Elements(written'))
  <2>1. CASE written' = Append(written, m) /\ UNCHANGED dropped
    <3>1. /\ Elements(written') = Elements(written) \union {m}
          /\ IsFiniteSet(Elements(written')) /\ Len(written') = Cardinality(Elements(written'))
      BY <1>2, <1>5, <1>6, <2>1, WrittenOnce
    <3>. QED  BY <1>1, <1>5, <1>6, <1>7, <2>1, <3>1 DEF OneHome
  <2>2. CASE dropped' = dropped \union {m} /\ UNCHANGED written
    BY <1>1, <1>5, <1>6, <1>7, <2>2 DEF OneHome, Homes
  <2>. QED  BY <1>1, <2>1, <2>2
<1>9. \A k \in Loggers : Ordered(queue'[k])
  BY <1>3, <1>4 DEF Homes
<1>10. \A j, k \in Loggers : j # k => Elements(queue'[j]) \intersect Elements(queue'[k]) = {}
  <2>1. \A k \in Loggers : Elements(queue'[k]) \subseteq Elements(queue[k])
    BY <1>2, <1>4
  <2>. QED  BY <2>1 DEF Homes
<1>11. Order'
  <2> SUFFICES ASSUME \A j, k \in made : j = k
               PROVE  /\ Ordered(written')
                      /\ \A k \in Loggers : \A x \in Elements(written'), y \in Elements(queue'[k]) :
                           x[1] = y[1] => x[2] < y[2]
    BY <1>1 DEF Order
  <2>1. \A k \in Loggers : k # l => Elements(queue'[k]) = {}
    <3>1. l \in made
      BY <1>1
    <3>2. \A k \in Loggers : k # l => queue[k] = <<>>
      BY <3>1
    <3>3. 1..Len(<<>>) = {}
      BY EmptySeq
    <3>. QED  BY <1>4, <3>2, <3>3 DEF Elements
  <2>2. \A x \in Elements(written) : x[1] = m[1] => x[2] < m[2]
    BY <1>2 DEF Order
  <2>3. Ordered(written')
    <3>1. Ordered(written)
      BY DEF Order
    <3>2. Ordered(Append(written, m))
      BY <1>2, <2>2, <3>1, OrderedAppend
    <3>. QED  BY <1>1, <3>1, <3>2
  <2>4. Elements(written') \subseteq Elements(written) \union {m}
    <3>1. Elements(Append(written, m)) = Elements(written) \union {m}
      BY <1>2, AppendElements
    <3>. QED  BY <1>1, <3>1
  <2>5. Elements(queue'[l]) = Elements(Tail(queue[l]))
    BY <1>4
  <2>6. \A x \in Elements(written'), y \in Elements(queue'[l]) : x[1] = y[1] => x[2] < y[2]
    BY <1>2, <1>3, <2>4, <2>5 DEF Order
  <2>. QED  BY <2>1, <2>3, <2>6
<1>. QED  BY <1>8, <1>9, <1>10, <1>11 DEF Homes

LEMMA HomesHold == Spec => [](Homes /\ Order)
<1>1. Init => Homes /\ Order
  <2> SUFFICES ASSUME Init PROVE Homes /\ Order
    OBVIOUS
  <2>1. Elements(<<>>) = {} /\ Ordered(<<>>) /\ Len(<<>>) = 0
    BY EmptySeq DEF Elements, Ordered
  <2>2. Logged = {}
    BY LoggerAssumption DEF Init, Logged, Messages
  <2>3. \A l \in Loggers : queue[l] = <<>>
    BY DEF Init
  <2>4. Queued = {}
    BY <2>1, <2>3 DEF Queued
  <2>5. IsFiniteSet({}) /\ Cardinality({}) = 0
    BY FS_EmptySet
  <2>6. written = <<>> /\ dropped = {} /\ orphaned = {} /\ made = {}
    BY DEF Init
  <2>7. OneHome
    BY <2>1, <2>2, <2>4, <2>5, <2>6 DEF OneHome
  <2>. QED  BY <2>1, <2>3, <2>5, <2>6, <2>7 DEF Homes, Order
<1>2. Places /\ Silent /\ Homes /\ Order /\ [Next]_vars => (Homes /\ Order)'
  <2> SUFFICES ASSUME Places, Silent, Homes, Order, [Next]_vars PROVE (Homes /\ Order)'
    OBVIOUS
  <2>1. ASSUME UNCHANGED <<sent, queue, written, dropped, orphaned>>, made \subseteq made'
        PROVE  (Homes /\ Order)'
    <3>1. Logged' = Logged /\ Queued' = Queued
      BY <2>1 DEF Logged, Queued
    <3>2. Homes'
      BY <2>1, <3>1 DEF Homes, OneHome
    <3>3. Order'
      BY <2>1 DEF Order
    <3>. QED  BY <3>2, <3>3
  <2>2. ASSUME NEW c \in Callers, Check(c) \/ Create(c) \/ Publish(c) \/ Return(c) \/ Notify(c)
                                  \/ CreateThrows(c)
        PROVE  (Homes /\ Order)'
    BY <2>1, <2>2 DEF Check, Create, Publish, Return, Notify, CreateThrows
  <2>3. ASSUME NEW l \in Loggers, WorkerLocks(l) \/ FlushEnds(l) \/ SpuriousWakeup(l)
        PROVE  (Homes /\ Order)'
    BY <2>1, <2>3 DEF WorkerLocks, FlushEnds, SpuriousWakeup, callerVars
  <2>4. CASE Midnight \/ UNCHANGED vars
    BY <2>1, <2>4 DEF Midnight, vars, callerVars
  <2>. QED  BY <2>2, <2>3, <2>4, LogStep, FlushStep DEF Next, InCall, Worker
<1>. QED  BY <1>1, <1>2, PlacesHold, SilentHolds, PTL DEF Spec

(* Each message is in one queue, once on the medium, or in the account of     *)
(* what was lost.                                                             *)
THEOREM MessagesHaveOneHome == Spec => []OneHome
<1>1. Homes => OneHome
  BY DEF Homes
<1>. QED  BY <1>1, HomesHold, PTL

(* As long as the race of getInstance has made no second Logger, the medium   *)
(* has each caller's messages in the order of its calls.                      *)
THEOREM WrittenInOrder == Spec => []CallerOrder
<1>1. Places /\ Order => CallerOrder
  <2> SUFFICES ASSUME Places, Order, Cardinality(made) <= 1 PROVE Ordered(written)
    BY DEF CallerOrder, Ordered
  <2>1. ASSUME NEW k \in made, NEW l \in made, k # l PROVE FALSE
    <3>1. IsFiniteSet({k}) /\ Cardinality({k}) = 1
      BY FS_Singleton
    <3>2. Cardinality({k} \union {l}) = 2
      BY <2>1, <3>1, FS_AddElement
    <3>3. Cardinality({k} \union {l}) <= Cardinality(made) /\ Cardinality(made) \in Nat
      BY FS_Subset, FS_CardinalityType DEF Places
    <3>. QED  BY <3>2, <3>3
  <2>. QED  BY <2>1 DEF Order
<1>. QED  BY <1>1, PlacesHold, HomesHold, PTL
=============================================================================
