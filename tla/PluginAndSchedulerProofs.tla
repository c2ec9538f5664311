----------------------- MODULE PluginAndSchedulerProofs ------------------------
(* Two components that share nothing: the scheduler, for every set of tasks   *)
(* and every time; the registry of plugins, for every set of threads, of      *)
(* libraries and of names.                                                    *)
EXTENDS PluginRegistry, SimpleScheduler, SequenceTheorems, WellFoundedInduction, TLAPS

-----------------------------------------------------------------------------
(* What the operations of a vector do to its elements.                        *)
LEMMA ElementsOfAppend ==
  ASSUME NEW S, NEW s \in Seq(S), NEW e \in S
  PROVE  /\ Append(s, e) \in Seq(S) /\ Len(Append(s, e)) = Len(s) + 1 /\ Len(s) \in Nat
         /\ \A n \in 1..Len(s) : Append(s, e)[n] = s[n] /\ s[n] \in S
         /\ Append(s, e)[Len(s) + 1] = e
         /\ Elements(Append(s, e)) = Elements(s) \union {e}
<1> DEFINE a == Append(s, e)
<1>1. /\ a \in Seq(S) /\ Len(a) = Len(s) + 1 /\ Len(s) \in Nat
      /\ \A n \in 1..Len(s) : a[n] = s[n] /\ s[n] \in S
      /\ a[Len(s) + 1] = e
  BY AppendProperties, LenProperties, ElementOfSeq
<1>2. DOMAIN a = 1..Len(a) /\ DOMAIN s = 1..Len(s)
  BY <1>1, LenProperties
<1> HIDE DEF a
<1>3. Elements(a) = Elements(s) \union {e}
  <2>1. ASSUME NEW n \in 1..Len(a) PROVE a[n] \in Elements(s) \union {e}
    <3>1. n \in 1..Len(s) \/ n = Len(s) + 1
      BY <1>1
    <3>. QED  BY <3>1, <1>1, <1>2 DEF Elements
  <2>2. ASSUME NEW n \in 1..Len(s) PROVE s[n] \in Elements(a)
    <3>1. n \in 1..Len(a) /\ a[n] = s[n]
      BY <1>1
    <3>. QED  BY <3>1, <1>2 DEF Elements
  <2>3. e \in Elements(a)
    <3>1. Len(s) + 1 \in 1..Len(a)
      BY <1>1
    <3>. QED  BY <3>1, <1>1, <1>2 DEF Elements
  <2>. QED  BY <2>1, <2>2, <2>3, <1>2 DEF Elements
<1>. QED  BY <1>1, <1>3 DEF a

(* Erasing at n closes the gap.                                               *)
LEMMA ElementsOfErase ==
  ASSUME NEW S, NEW s \in Seq(S), NEW n \in 1..Len(s)
  PROVE  /\ Without(s, n) \in Seq(S) /\ Len(Without(s, n)) = Len(s) - 1
         /\ \A m \in 1..(Len(s) - 1) : Without(s, n)[m] = IF m < n THEN s[m] ELSE s[m + 1]
<1>1. Len(s) \in Nat /\ n \in Nat /\ \A m \in 1..Len(s) : s[m] \in S
  BY LenProperties, ElementOfSeq
<1>2. /\ SubSeq(s, 1, n - 1) \in Seq(S) /\ Len(SubSeq(s, 1, n - 1)) = n - 1
      /\ \A m \in 1..(n - 1) : SubSeq(s, 1, n - 1)[m] = s[m]
  <2>1. \A m \in 1..(n - 1) : s[m] \in S
    BY <1>1
  <2>2. 1 \in Int /\ n - 1 \in Int
    BY <1>1
  <2>3. /\ SubSeq(s, 1, n - 1) \in Seq(S)
        /\ Len(SubSeq(s, 1, n - 1)) = IF 1 <= n - 1 THEN (n - 1) - 1 + 1 ELSE 0
        /\ \A i \in 1..((n - 1) - 1 + 1) : SubSeq(s, 1, n - 1)[i] = s[1 + i - 1]
    BY <2>1, <2>2, SubSeqProperties
  <2>. QED  BY <1>1, <2>3
<1>3. /\ SubSeq(s, n + 1, Len(s)) \in Seq(S) /\ Len(SubSeq(s, n + 1, Len(s))) = Len(s) - n
      /\ \A m \in 1..(Len(s) - n) : SubSeq(s, n + 1, Len(s))[m] = s[n + m]
  <2>1. \A m \in (n + 1)..Len(s) : s[m] \in S
    BY <1>1
  <2>2. n + 1 \in Int /\ Len(s) \in Int
    BY <1>1
  <2>3. /\ SubSeq(s, n + 1, Len(s)) \in Seq(S)
        /\ Len(SubSeq(s, n + 1, Len(s))) = IF n + 1 <= Len(s) THEN Len(s) - (n + 1) + 1 ELSE 0
        /\ \A i \in 1..(Len(s) - (n + 1) + 1) : SubSeq(s, n + 1, Len(s))[i] = s[n + 1 + i - 1]
    BY <2>1, <2>2, SubSeqProperties
  <2>. QED  BY <1>1, <2>3
<1> DEFINE a == SubSeq(s, 1, n - 1)
           b == SubSeq(s, n + 1, Len(s))
<1> HIDE DEF a, b
<1>4. /\ a \o b \in Seq(S) /\ Len(a \o b) = Len(a) + Len(b)
      /\ \A i \in 1..(Len(a) + Len(b)) : (a \o b)[i] = IF i <= Len(a) THEN a[i] ELSE b[i - Len(a)]
  BY <1>2, <1>3, ConcatProperties DEF a, b
<1>5. ASSUME NEW m \in 1..(Len(s) - 1)
      PROVE  (a \o b)[m] = IF m < n THEN s[m] ELSE s[m + 1]
  <2>1. Len(a) = n - 1 /\ Len(b) = Len(s) - n
    BY <1>2, <1>3 DEF a, b
  <2>2. CASE m < n
    <3>1. m \in 1..(n - 1)
      BY <1>1, <2>2
    <3>. QED  BY <1>1, <1>2, <1>4, <2>1, <3>1 DEF a
  <2>3. CASE ~(m < n)
    <3>1. m - (n - 1) \in 1..(Len(s) - n) /\ n + (m - (n - 1)) = m + 1
      BY <1>1, <2>3
    <3>2. (a \o b)[m] = b[m - (n - 1)]
      <4>1. m \in 1..(Len(a) + Len(b)) /\ ~(m <= Len(a)) /\ m - Len(a) = m - (n - 1)
        BY <1>1, <2>1, <2>3
      <4>. QED  BY <1>4, <4>1
    <3>. QED  BY <1>3, <2>3, <3>1, <3>2 DEF b
  <2>. QED  BY <2>2, <2>3
<1>6. Len(a \o b) = Len(s) - 1
  <2>1. Len(a) = n - 1 /\ Len(b) = Len(s) - n
    BY <1>2, <1>3 DEF a, b
  <2>. QED  BY <1>1, <1>4, <2>1
<1>7. Without(s, n) = a \o b
  BY DEF Without, a, b
<1>. QED  BY <1>4, <1>5, <1>6, <1>7

-----------------------------------------------------------------------------
(* The scheduler.                                                             *)
Entries == [task : Tasks, time : Times]
Places == {"new", "top", "scan", "call", "sleep", "ended"}

SchedulerTypes ==
  /\ tasks \in Seq(Entries) /\ added \in Seq(Entries) /\ ran \in Seq(Tasks)
  /\ at \in Places /\ it \in Nat \ {0} /\ now \in Nat /\ clock \in Nat /\ now <= clock

(* The iterator: behind it in this pass nothing was due, and what it points   *)
(* to while a function is called was.                                         *)
Passed ==
  /\ at \in {"scan", "call"} => \A n \in 1..Len(tasks) : n < it => tasks[n].time > now
  /\ at = "call" =>
       /\ it <= Len(tasks) /\ tasks[it].time <= now
       /\ tasks[it].task \in Elements(ran)
  /\ PassLeavesNothingDue

Distinct(s) == \A m, n \in 1..Len(s) : s[m].task = s[n].task => m = n

(* No task is added twice, and the vector holds some of those that were.      *)
Accounted ==
  /\ Distinct(added) /\ Distinct(tasks)
  /\ Elements(tasks) \subseteq Elements(added)
  /\ RunOnce

SchedulerInvariant == SchedulerTypes /\ Passed /\ Accounted

LEMMA SchedulerInvariantInit == SchedulerInit => SchedulerInvariant
<1> SUFFICES ASSUME SchedulerInit PROVE SchedulerInvariant
  OBVIOUS
<1>1. SchedulerTypes
  BY EmptySeq DEF SchedulerInit, SchedulerTypes, Places
<1>2. Len(tasks) = 0 /\ Len(added) = 0 /\ DOMAIN tasks = {} /\ DOMAIN ran = {} /\ DOMAIN added = {}
  BY EmptySeq DEF SchedulerInit
<1>3. Passed
  BY DEF SchedulerInit, Passed, PassLeavesNothingDue
<1>4. Accounted
  BY <1>2 DEF SchedulerInit, Accounted, Distinct, RunOnce, Scheduled, Elements
<1>. QED  BY <1>1, <1>3, <1>4 DEF SchedulerInvariant

(* Time and exceptions leave the account as it is.                            *)
LEMMA AccountedKept ==
  ASSUME SchedulerTypes, Accounted, UNCHANGED <<tasks, added, ran>>,
         Called \subseteq Called' \union threw', threw \subseteq threw',
         clock' \in Nat, clock <= clock'
  PROVE  Accounted'
<1>1. \A x \in Elements(added) : x.time \in Nat
  <2>1. \A x \in Entries : x.time \in Nat
    BY SchedulerAssumption DEF Entries
  <2>2. \A n \in DOMAIN added : added[n] \in Entries
    BY ElementOfSeq, LenProperties DEF SchedulerTypes
  <2>. QED  BY <2>1, <2>2 DEF Elements
<1>2. /\ Elements(tasks)' = Elements(tasks) /\ Elements(added)' = Elements(added)
      /\ Elements(ran)' = Elements(ran) /\ Scheduled' = Scheduled
      /\ Distinct(tasks)' = Distinct(tasks) /\ Distinct(added)' = Distinct(added)
  BY DEF Elements, Scheduled, Distinct
<1>3. Scheduled \intersect Elements(ran) \subseteq Called' \union threw'
  BY DEF Accounted, RunOnce
<1>4. \A x \in Elements(added) : x.task \in Elements(ran) => x.time <= clock'
  BY <1>1 DEF Accounted, RunOnce, SchedulerTypes
<1>5. \A m, n \in DOMAIN ran : ran[m] = ran[n] => m = n \/ ran[m] \in threw'
  BY DEF Accounted, RunOnce
<1>. QED  BY <1>2, <1>3, <1>4, <1>5 DEF Accounted, RunOnce

(* A function, or somebody before start(), adds a task.                       *)
LEMMA PushBackStep ==
  ASSUME SchedulerInvariant, NEW t \in Tasks, NEW time \in Times, PushBack(t, time),
         at \in {"new", "call"}, UNCHANGED <<at, it, now, clock, ran, threw>>
  PROVE  SchedulerInvariant'
<1> USE DEF SchedulerInvariant
<1> DEFINE e == Entry(t, time)
<1>1. e \in Entries /\ e.task = t /\ e.time = time
  BY DEF Entry, Entries
<1>2. tasks' = Append(tasks, e) /\ added' = Append(added, e)
  BY DEF PushBack
<1>3. \A x \in Elements(added) : x.task # t
  BY DEF PushBack, Elements
<1> HIDE DEF e
<1>4. /\ tasks' \in Seq(Entries) /\ Len(tasks') = Len(tasks) + 1 /\ Len(tasks) \in Nat
      /\ \A n \in 1..Len(tasks) : tasks'[n] = tasks[n]
      /\ tasks'[Len(tasks) + 1] = e /\ Elements(tasks') = Elements(tasks) \union {e}
  BY <1>1, <1>2, ElementsOfAppend DEF SchedulerTypes
<1>5. /\ added' \in Seq(Entries) /\ Len(added') = Len(added) + 1 /\ Len(added) \in Nat
      /\ \A n \in 1..Len(added) : added'[n] = added[n]
      /\ added'[Len(added) + 1] = e /\ Elements(added') = Elements(added) \union {e}
  BY <1>1, <1>2, ElementsOfAppend DEF SchedulerTypes
<1>6. SchedulerTypes'
  BY <1>4, <1>5 DEF SchedulerTypes
<1>7. Passed'
  <2>1. at \notin {"scan", "sleep"} /\ (at = "call" => it \in 1..Len(tasks)) /\ it \in Nat
    BY DEF Passed, SchedulerTypes
  <2>2. at = "call" => \A n \in 1..Len(tasks') : n < it => tasks'[n].time > now
    <3> SUFFICES ASSUME at = "call", NEW n \in 1..Len(tasks'), n < it PROVE tasks'[n].time > now
      OBVIOUS
    <3>1. n \in 1..Len(tasks)
      BY <1>4, <2>1
    <3>. QED  BY <1>4, <3>1 DEF Passed
  <2>3. at = "call" => /\ it <= Len(tasks') /\ tasks'[it].time <= now
                       /\ tasks'[it].task \in Elements(ran)
    BY <1>4, <2>1 DEF Passed
  <2>4. Elements(ran)' = Elements(ran)
    BY DEF Elements
  <2>. QED  BY <2>1, <2>2, <2>3, <2>4 DEF Passed, PassLeavesNothingDue
<1>8. (\A n \in 1..Len(tasks) : tasks[n].task # t) /\ (\A n \in 1..Len(added) : added[n].task # t)
  <2>1. DOMAIN tasks = 1..Len(tasks) /\ DOMAIN added = 1..Len(added)
    BY LenProperties DEF SchedulerTypes
  <2>. QED  BY <1>3, <2>1 DEF Accounted, Elements
<1>9. Distinct(tasks') /\ Distinct(added')
  <2>1. \A n \in 1..Len(tasks') : n \in 1..Len(tasks) \/ n = Len(tasks) + 1
    BY <1>4
  <2>2. \A n \in 1..Len(added') : n \in 1..Len(added) \/ n = Len(added) + 1
    BY <1>5
  <2>3. Distinct(tasks')
    BY <1>1, <1>4, <1>8, <2>1 DEF Distinct, Accounted
  <2>4. Distinct(added')
    BY <1>1, <1>5, <1>8, <2>2 DEF Distinct, Accounted
  <2>. QED  BY <2>3, <2>4
<1>10. RunOnce'
  <2>1. Scheduled' = Scheduled \union {t} /\ Called' = Called
    <3>1. Scheduled' = {x.task : x \in Elements(tasks')}
      BY DEF Scheduled, Elements
    <3>2. at = "call" => tasks'[it] = tasks[it]
      BY <1>4 DEF Passed, SchedulerTypes
    <3>. QED  BY <1>1, <1>4, <3>1, <3>2 DEF Scheduled, Called
  <2>2. {x.task : x \in Elements(added')} = {x.task : x \in Elements(added)} \union {t}
    BY <1>1, <1>5
  <2>3. t \notin Elements(ran)
    BY <1>3 DEF Accounted, RunOnce
  <2>4. Elements(ran)' = Elements(ran)
    BY DEF Elements
  <2>. QED  BY <1>1, <1>3, <1>5, <2>1, <2>2, <2>3, <2>4 DEF Accounted, RunOnce
<1>. QED  BY <1>4, <1>5, <1>6, <1>7, <1>9, <1>10 DEF Accounted

(* The iterator meets a task that is due: it runs, for the first time unless  *)
(* it has thrown before, and its time has come.                               *)
LEMMA ScanStep == ASSUME SchedulerInvariant, Scan PROVE SchedulerInvariant'
<1> USE DEF SchedulerInvariant
<1>0. Len(tasks) \in Nat /\ \A n \in 1..Len(tasks) : tasks[n] \in Entries /\ tasks[n].time \in Nat
  <2>1. \A x \in Entries : x.time \in Nat
    BY SchedulerAssumption DEF Entries
  <2>. QED  BY <2>1, LenProperties, ElementOfSeq DEF SchedulerTypes
<1>1. CASE it > Len(tasks)
  <2>1. UNCHANGED <<tasks, added, ran, now, clock, it, threw>> /\ at = "scan" /\ at' = "sleep"
    BY <1>1 DEF Scan
  <2>2. SchedulerTypes'
    BY <2>1 DEF SchedulerTypes, Places
  <2>3. \A x \in Elements(tasks) : x.time > now
    <3>1. DOMAIN tasks = 1..Len(tasks)
      BY LenProperties DEF SchedulerTypes
    <3>. QED  BY <1>0, <1>1, <2>1, <3>1 DEF Passed, Elements, SchedulerTypes
  <2>4. Passed'
    BY <2>1, <2>3 DEF Passed, PassLeavesNothingDue, Elements
  <2>5. Called' = Called
    BY <2>1 DEF Called
  <2>. QED  BY <2>1, <2>2, <2>4, <2>5, AccountedKept DEF SchedulerTypes
<1>2. CASE it <= Len(tasks) /\ ~(tasks[it].time <= now)
  <2>1. UNCHANGED <<tasks, added, ran, now, clock, at, threw>> /\ at = "scan" /\ it' = it + 1
    BY <1>0, <1>2 DEF Scan, SchedulerTypes
  <2>2. SchedulerTypes'
    BY <2>1 DEF SchedulerTypes
  <2>3. Passed'
    BY <1>0, <1>2, <2>1 DEF Passed, PassLeavesNothingDue, SchedulerTypes
  <2>4. Called' = Called
    BY <2>1 DEF Called
  <2>. QED  BY <2>1, <2>2, <2>3, <2>4, AccountedKept DEF SchedulerTypes
<1>3. CASE it <= Len(tasks) /\ tasks[it].time <= now
  <2> DEFINE t == tasks[it].task
  <2>1. /\ UNCHANGED <<tasks, added, now, clock, it, threw>> /\ at = "scan" /\ at' = "call"
        /\ ran' = Append(ran, t)
    BY <1>0, <1>3 DEF Scan, SchedulerTypes
  <2>2. it \in 1..Len(tasks) /\ t \in Tasks /\ tasks[it] \in Elements(tasks) /\ t \in Scheduled
    <3>1. DOMAIN tasks = 1..Len(tasks) /\ it \in 1..Len(tasks)
      BY <1>0, <1>3, LenProperties DEF SchedulerTypes
    <3>. QED  BY <1>0, <3>1 DEF Entries, Scheduled, Elements
  <2> HIDE DEF t
  <2>3. /\ ran' \in Seq(Tasks) /\ Len(ran') = Len(ran) + 1 /\ Len(ran) \in Nat
        /\ \A n \in 1..Len(ran) : ran'[n] = ran[n]
        /\ ran'[Len(ran) + 1] = t /\ Elements(ran') = Elements(ran) \union {t}
        /\ DOMAIN ran = 1..Len(ran) /\ DOMAIN ran' = 1..Len(ran')
    <3>1. ran \in Seq(Tasks)
      BY DEF SchedulerTypes
    <3>2. ran' \in Seq(Tasks) /\ Len(ran) \in Nat
      BY <2>1, <2>2, <3>1, ElementsOfAppend
    <3>. QED  BY <2>1, <2>2, <3>1, <3>2, ElementsOfAppend, LenProperties
  <2>4. SchedulerTypes'
    BY <2>1, <2>3 DEF SchedulerTypes, Places
  <2>5. Passed'
    BY <1>3, <2>1, <2>3 DEF Passed, PassLeavesNothingDue, t
  <2>6. t \in Elements(ran) => t \in threw
    BY <2>1, <2>2 DEF Accounted, RunOnce, Called
  <2>7. \A m, n \in DOMAIN ran' : ran'[m] = ran'[n] => m = n \/ ran'[m] \in threw
    <3> SUFFICES ASSUME NEW m \in 1..Len(ran'), NEW n \in 1..Len(ran'), ran'[m] = ran'[n], m # n
                 PROVE  ran'[m] \in threw
      BY <2>3
    <3>1. \A k \in 1..Len(ran) : ran[k] = t => t \in threw
      BY <2>3, <2>6 DEF Elements
    <3>2. \A k \in 1..Len(ran') : k \in 1..Len(ran) \/ k = Len(ran) + 1
      BY <2>3
    <3>3. CASE m \in 1..Len(ran) /\ n \in 1..Len(ran)
      BY <2>3, <3>3 DEF Accounted, RunOnce
    <3>4. CASE m = Len(ran) + 1 \/ n = Len(ran) + 1
      BY <2>3, <3>1, <3>2, <3>4
    <3>. QED  BY <3>2, <3>3, <3>4
  <2>8. \A x \in Elements(added) : x.task = t => x.time <= clock
    <3>1. \A x, y \in Elements(added) : x.task = y.task => x = y
      <4>1. DOMAIN added = 1..Len(added)
        BY LenProperties DEF SchedulerTypes
      <4>. QED  BY <4>1 DEF Accounted, Distinct, Elements
    <3>2. tasks[it].time <= clock
      BY <1>0, <1>3, <2>2 DEF SchedulerTypes
    <3>. QED  BY <2>2, <3>1, <3>2 DEF Accounted, t
  <2>9. RunOnce'
    <3>1. Scheduled' = Scheduled /\ Called' = {t} /\ Called = {}
      BY <2>1 DEF Scheduled, Called, Elements, t
    <3>2. Elements(added)' = Elements(added) /\ clock' = clock /\ threw' = threw
      BY <2>1 DEF Elements
    <3>3. Elements(ran)' = Elements(ran) \union {t}
      BY <2>3 DEF Elements
    <3>. QED  BY <2>2, <2>7, <2>8, <3>1, <3>2, <3>3 DEF Accounted, RunOnce
  <2>10. Accounted'
    <3>1. added' = added /\ tasks' = tasks
      BY <2>1
    <3>2. Distinct(added') /\ Distinct(tasks') /\ Elements(tasks') \subseteq Elements(added')
      BY <3>1 DEF Accounted
    <3>. QED  BY <2>9, <3>2 DEF Accounted
  <2>. QED  BY <2>4, <2>5, <2>10
<1>. QED  BY <1>0, <1>1, <1>2, <1>3 DEF SchedulerTypes

(* Erasing the task that was called leaves every other one, once.             *)
LEMMA EraseStep == ASSUME SchedulerInvariant, Erase PROVE SchedulerInvariant'
<1> USE DEF SchedulerInvariant
<1> DEFINE t == tasks[it].task
<1>1. /\ UNCHANGED <<added, ran, now, clock, it, threw>> /\ at = "call" /\ at' = "scan"
      /\ tasks' = Without(tasks, it)
  BY DEF Erase
<1>2. Len(tasks) \in Nat /\ it \in 1..Len(tasks) /\ DOMAIN tasks = 1..Len(tasks)
  BY <1>1, LenProperties DEF Passed, SchedulerTypes
<1>3. /\ tasks' \in Seq(Entries) /\ Len(tasks') = Len(tasks) - 1
      /\ \A m \in 1..(Len(tasks) - 1) : tasks'[m] = IF m < it THEN tasks[m] ELSE tasks[m + 1]
      /\ DOMAIN tasks' = 1..Len(tasks')
  <2>1. tasks' \in Seq(Entries)
    BY <1>1, <1>2, ElementsOfErase DEF SchedulerTypes
  <2>. QED  BY <1>1, <1>2, <2>1, ElementsOfErase, LenProperties DEF SchedulerTypes
<1>4. SchedulerTypes'
  BY <1>1, <1>3 DEF SchedulerTypes, Places
<1>5. Passed'
  BY <1>1, <1>2, <1>3 DEF Passed, PassLeavesNothingDue, SchedulerTypes
<1>6. Distinct(tasks')
  <2> SUFFICES ASSUME NEW m \in 1..Len(tasks'), NEW n \in 1..Len(tasks'),
                      tasks'[m].task = tasks'[n].task
               PROVE  m = n
    BY DEF Distinct
  <2> DEFINE old(k) == IF k < it THEN k ELSE k + 1
  <2>1. \A k \in 1..Len(tasks') : old(k) \in 1..Len(tasks) /\ tasks'[k] = tasks[old(k)]
    BY <1>2, <1>3
  <2>2. \A k \in 1..Len(tasks'), l \in 1..Len(tasks') : old(k) = old(l) => k = l
    BY <1>2, <1>3
  <2>3. old(m) = old(n)
    <3> HIDE DEF old
    <3>. QED  BY <2>1 DEF Accounted, Distinct
  <2>. QED  BY <2>2, <2>3
<1>7. Elements(tasks') = {x \in Elements(tasks) : x.task # t}
  <2>1. ASSUME NEW n \in 1..Len(tasks')
        PROVE  tasks'[n] \in Elements(tasks) /\ tasks'[n].task # t
    <3>1. CASE n < it
      <4>1. n \in 1..Len(tasks) /\ n # it /\ tasks'[n] = tasks[n]
        BY <1>2, <1>3, <3>1
      <4>. QED  BY <1>2, <4>1 DEF Elements, Accounted, Distinct
    <3>2. CASE ~(n < it)
      <4>1. n + 1 \in 1..Len(tasks) /\ n + 1 # it /\ tasks'[n] = tasks[n + 1]
        BY <1>2, <1>3, <3>2
      <4>. QED  BY <1>2, <4>1 DEF Elements, Accounted, Distinct
    <3>. QED  BY <3>1, <3>2
  <2>2. ASSUME NEW n \in 1..Len(tasks), tasks[n].task # t
        PROVE  tasks[n] \in Elements(tasks')
    <3>1. CASE n < it
      <4>1. n \in 1..Len(tasks') /\ tasks'[n] = tasks[n]
        BY <1>2, <1>3, <3>1
      <4>. QED  BY <1>3, <4>1 DEF Elements
    <3>2. CASE n > it
      <4>1. n - 1 \in 1..Len(tasks') /\ tasks'[n - 1] = tasks[n]
        BY <1>2, <1>3, <3>2
      <4>. QED  BY <1>3, <4>1 DEF Elements
    <3>. QED  BY <1>2, <2>2, <3>1, <3>2
  <2>3. /\ Elements(tasks') = {tasks'[n] : n \in 1..Len(tasks')}
        /\ Elements(tasks) = {tasks[n] : n \in 1..Len(tasks)}
    BY <1>2, <1>3 DEF Elements
  <2>. QED  BY <2>1, <2>2, <2>3
<1>8. RunOnce'
  <2>1. Scheduled' = Scheduled \ {t} /\ Called' = {} /\ Called = {t}
    <3>1. Scheduled' = {x.task : x \in Elements(tasks')}
      BY DEF Scheduled, Elements
    <3>2. Scheduled' = Scheduled \ {t}
      BY <1>7, <3>1 DEF Scheduled
    <3>. QED  BY <1>1, <3>2 DEF Called
  <2>2. Elements(ran)' = Elements(ran) /\ Elements(added)' = Elements(added)
    BY <1>1 DEF Elements
  <2>3. t \in Elements(ran)
    BY <1>1 DEF Passed
  <2>. QED  BY <1>1, <2>1, <2>2, <2>3 DEF Accounted, RunOnce
<1>9. Elements(tasks)' \subseteq Elements(added)' /\ Distinct(tasks)' /\ Distinct(added)'
  <2>1. Elements(tasks)' = Elements(tasks') /\ Distinct(tasks)' = Distinct(tasks')
    BY DEF Elements, Distinct
  <2>2. Elements(added)' = Elements(added) /\ Distinct(added)' = Distinct(added)
    BY <1>1 DEF Elements, Distinct
  <2>. QED  BY <1>6, <1>7, <2>1, <2>2 DEF Accounted
<1>. QED  BY <1>4, <1>5, <1>8, <1>9 DEF Accounted

(* A function that throws has its task where it was, to be run again.         *)
LEMMA TaskThrowsStep == ASSUME SchedulerInvariant, TaskThrows PROVE SchedulerInvariant'
<1> USE DEF SchedulerInvariant
<1>1. /\ UNCHANGED <<tasks, added, ran, now, clock, it>> /\ at = "call" /\ at' = "new"
      /\ threw' = threw \union {tasks[it].task}
  BY DEF TaskThrows
<1>2. SchedulerTypes'
  BY <1>1 DEF SchedulerTypes, Places
<1>3. Passed'
  BY <1>1 DEF Passed, PassLeavesNothingDue
<1>4. Called \subseteq threw'
  BY <1>1 DEF Called
<1>. QED  BY <1>1, <1>2, <1>3, <1>4, AccountedKept DEF SchedulerTypes

LEMMA SchedulerStep ==
  SchedulerInvariant /\ [SchedulerNext]_schedulerVars => SchedulerInvariant'
<1> SUFFICES ASSUME SchedulerInvariant, [SchedulerNext]_schedulerVars PROVE SchedulerInvariant'
  OBVIOUS
<1> USE DEF SchedulerInvariant
<1>1. ASSUME UNCHANGED <<tasks, added, ran, threw>>, Called' = Called, SchedulerTypes', Passed',
             clock <= clock'
      PROVE  SchedulerInvariant'
  BY <1>1, AccountedKept DEF SchedulerTypes
<1>2. CASE Tick \/ StopScheduler \/ UNCHANGED schedulerVars
  <2>1. UNCHANGED <<tasks, added, ran, threw, at, it, now>> /\ clock' \in {clock, clock + 1}
    BY <1>2 DEF Tick, StopScheduler, schedulerVars
  <2>2. SchedulerTypes' /\ clock <= clock'
    BY <2>1 DEF SchedulerTypes
  <2>3. Passed' /\ Called' = Called
    BY <2>1 DEF Passed, PassLeavesNothingDue, Called, Elements
  <2>. QED  BY <1>1, <2>1, <2>2, <2>3
<1>3. CASE Start \/ Top \/ Sleep
  <2>1. /\ UNCHANGED <<tasks, added, ran, threw, clock>>
        /\ at \in {"new", "top", "sleep"} /\ at' \in {"top", "scan", "ended"}
    BY <1>3 DEF Start, Top, Sleep
  <2>2. SchedulerTypes' /\ clock <= clock'
    BY <1>3 DEF Start, Top, Sleep, SchedulerTypes, Places
  <2>3. Passed'
    BY <1>3 DEF Start, Top, Sleep, Passed, PassLeavesNothingDue
  <2>4. Called' = Called
    BY <2>1 DEF Called
  <2>. QED  BY <1>1, <2>1, <2>2, <2>3, <2>4
<1>4. ASSUME NEW t \in Tasks, NEW time \in Times, AddTask(t, time) \/ AddTaskFromTask(t, time)
      PROVE  SchedulerInvariant'
  BY <1>4, PushBackStep DEF AddTask, AddTaskFromTask
<1>. QED
  BY <1>2, <1>3, <1>4, ScanStep, EraseStep, TaskThrowsStep DEF SchedulerNext, Loop

LEMMA SchedulerInvariantHolds == SchedulerSpec => []SchedulerInvariant
BY SchedulerInvariantInit, SchedulerStep, PTL DEF SchedulerSpec

(* Erasing at the iterator while functions append behind it loses no task and *)
(* runs none twice, save one that has thrown, and none before its time.       *)
THEOREM TasksRunOnce == SchedulerSpec => []RunOnce
<1>1. SchedulerInvariant => RunOnce
  BY DEF SchedulerInvariant, Accounted
<1>. QED  BY <1>1, SchedulerInvariantHolds, PTL

(* When start() goes to sleep, whatever was due when the pass began has run,  *)
(* what its own functions have added included.                                *)
THEOREM NothingDueIsLeft == SchedulerSpec => []PassLeavesNothingDue
<1>1. SchedulerInvariant => PassLeavesNothingDue
  BY DEF SchedulerInvariant, Passed
<1>. QED  BY <1>1, SchedulerInvariantHolds, PTL

-----------------------------------------------------------------------------
(* The registry.                                                              *)

(* A set of libraries has a first one: find_if finds it.                      *)
LEMMA FirstLibrary ==
  ASSUME NEW S \in SUBSET Libs, S # {}
  PROVE  \E l \in S : \A m \in S : l <= m
<1>1. S \subseteq Nat
  BY RegistryAssumption
<1>2. IsWellFoundedOn(OpToRel(<, Nat), Nat)
  BY NatLessThanWellFounded
<1>3. PICK l \in S : \A m \in S : ~(<<m, l>> \in OpToRel(<, Nat))
  BY <1>1, <1>2, WFMin
<1>4. \A m \in S : ~(m < l)
  BY <1>1, <1>3 DEF OpToRel
<1>. QED  BY <1>1, <1>4

PluginPlaces == {"idle", "find", "check", "create", "store", "serve"}

RegistryTypes ==
  /\ folder \subseteq Libs /\ libNames \subseteq Libs
  /\ commands_map \in [Keys -> Commands \union {Absent, Null}]
  /\ created \in Seq(Keys) /\ Len(created) <= MaxCommands
  /\ pc \in [Threads -> PluginPlaces] /\ DOMAIN lib = Threads
  /\ op \in [Threads -> {"get", "register"}]
  /\ DOMAIN name = Threads /\ DOMAIN made = Threads
  /\ \A t \in Threads :
       /\ pc[t] # "idle" => name[t] \in Names
       /\ pc[t] \in {"check", "create", "store"} => lib[t] \in Libs
       /\ pc[t] \in {"create", "store"} => Class[lib[t]] # NoClass
       /\ pc[t] = "store" =>
            made[t] \in 1..Len(created) /\ created[made[t]] = Class[lib[t]]

(* A command is stored under the class it was created for.                    *)
StoredRight ==
  \A k \in Keys : Loaded(k) => commands_map[k] \in 1..Len(created) /\ created[commands_map[k]] = k

(* Why a null pointer may be there, at every place of loadPlugin.             *)
NullExplained ==
  /\ NullHasReason
  /\ \A t \in Threads :
       /\ pc[t] \in {"check", "create", "store"} =>
            name[t] = Class[lib[t]] \/ name[t] \in misled \union unnamed
       /\ (pc[t] = "serve" /\ op[t] = "get") =>
            commands_map[name[t]] # Absent \/ name[t] \in misled \union unnamed \union failed

(* A class that two threads have not been creating at once: nobody creates it *)
(* a second time, as long as it is not stored and after.                      *)
CreatedOnce ==
  \A k \in Keys \ raced :
    /\ \A t, u \in Threads :
         (/\ pc[t] \in {"create", "store"} /\ Class[lib[t]] = k
          /\ pc[u] \in {"create", "store"} /\ Class[lib[u]] = k) => t = u
    /\ \A t \in Threads, i \in 1..Len(created) :
         (pc[t] \in {"create", "store"} /\ Class[lib[t]] = k /\ created[i] = k) =>
            pc[t] = "store" /\ i = made[t]
    /\ \A i, j \in 1..Len(created) : (created[i] = k /\ created[j] = k) => i = j
    /\ \A i \in 1..Len(created) : created[i] = k => Loaded(k) \/ Creating(k)

RegistryInvariant == RegistryTypes /\ StoredRight /\ NullExplained /\ CreatedOnce

LEMMA KeysOfLibraries ==
  Names \subseteq Keys /\ \A l \in Libs : Class[l] # NoClass => Class[l] \in Keys
BY RegistryAssumption DEF Keys

LEMMA RegistryInvariantInit == Init => RegistryInvariant
<1> SUFFICES ASSUME Init PROVE RegistryInvariant
  OBVIOUS
<1>1. Len(created) = 0 /\ created \in Seq(Keys)
  BY EmptySeq DEF Init
<1>2. \A k \in Keys : commands_map[k] = Absent /\ ~Loaded(k)
  BY RegistryAssumption DEF Init, Loaded, Commands
<1>3. RegistryTypes
  BY <1>1, RegistryAssumption DEF Init, RegistryTypes, PluginPlaces
<1>4. StoredRight /\ NullExplained
  BY <1>2, RegistryAssumption DEF Init, StoredRight, NullExplained, NullHasReason
<1>5. CreatedOnce
  BY <1>1 DEF Init, CreatedOnce
<1>. QED  BY <1>3, <1>4, <1>5 DEF RegistryInvariant

(* A step that moves no command: neither the map nor what is being created.   *)
LEMMA QuietStep ==
  ASSUME StoredRight, CreatedOnce, UNCHANGED <<commands_map, created, raced, made>>,
         \A t \in Threads :
           /\ pc'[t] \in {"create", "store"} <=> pc[t] \in {"create", "store"}
           /\ pc[t] \in {"create", "store"} => lib'[t] = lib[t] /\ pc'[t] = pc[t]
  PROVE  /\ StoredRight' /\ CreatedOnce'
         /\ \A k \in Keys : Creating(k)' <=> Creating(k)
<1>1. \A k \in Keys : Creating(k)' <=> Creating(k)
  BY DEF Creating
<1>2. \A k \in Keys : Loaded(k)' <=> Loaded(k)
  BY DEF Loaded
<1>. QED  BY <1>1, <1>2 DEF StoredRight, CreatedOnce

LEMMA CallStep ==
  ASSUME RegistryInvariant, NEW t \in Threads, NEW n \in Names, Register(t, n) \/ GetType(t, n)
  PROVE  RegistryInvariant'
<1> USE DEF RegistryInvariant
<1>1. /\ pc[t] = "idle" /\ pc'[t] \in {"find", "serve"} /\ name'[t] = n
      /\ pc'[t] = "serve" => op'[t] = "get" /\ commands_map[n] # Absent
      /\ \A u \in Threads \ {t} : UNCHANGED <<pc[u], op[u], name[u]>>
      /\ pc' \in [Threads -> PluginPlaces] /\ op' \in [Threads -> {"get", "register"}]
      /\ DOMAIN name' = Threads
      /\ UNCHANGED <<folder, libNames, commands_map, history, lib, made>>
  BY DEF Register, GetType, Goto, RegistryTypes, PluginPlaces
<1>2. RegistryTypes'
  BY <1>1 DEF RegistryTypes, history
<1>3. StoredRight' /\ CreatedOnce' /\ \A k \in Keys : Creating(k)' <=> Creating(k)
  BY <1>1, QuietStep DEF history
<1>4. NullExplained'
  BY <1>1, <1>3 DEF NullExplained, NullHasReason, history
<1>. QED  BY <1>2, <1>3, <1>4

LEMMA FindLibraryStep ==
  ASSUME RegistryInvariant, NEW t \in Threads, FindLibrary(t) PROVE RegistryInvariant'
<1> USE DEF RegistryInvariant
<1>1. CASE Candidates(name[t]) = {}
  <2>1. /\ pc[t] = "find" /\ pc' = [pc EXCEPT ![t] = "idle"]
        /\ UNCHANGED <<folder, libNames, commands_map, history, lib, made, op, name>>
    BY <1>1 DEF FindLibrary, Goto, history
  <2>2. RegistryTypes'
    BY <2>1 DEF RegistryTypes, history, PluginPlaces
  <2>3. StoredRight' /\ CreatedOnce' /\ \A k \in Keys : Creating(k)' <=> Creating(k)
    BY <2>1, QuietStep DEF history, RegistryTypes
  <2>4. NullExplained'
    BY <2>1, <2>3 DEF NullExplained, NullHasReason, history, RegistryTypes
  <2>. QED  BY <2>2, <2>3, <2>4
<1>2. CASE Candidates(name[t]) # {}
  <2> DEFINE first == CHOOSE l \in Candidates(name[t]) : \A m \in Candidates(name[t]) : l <= m
  <2>1. first \in Libs
    <3>1. Candidates(name[t]) \subseteq Libs
      BY DEF Candidates, RegistryTypes
    <3>2. first \in Candidates(name[t])
      BY <1>2, <3>1, FirstLibrary
    <3>. QED  BY <3>1, <3>2
  <2>2. /\ pc[t] = "find" /\ pc' = [pc EXCEPT ![t] = "check"]
        /\ lib' = [lib EXCEPT ![t] = first]
        /\ UNCHANGED <<folder, libNames, commands_map, created, failed, raced, made, op, name>>
        /\ misled \subseteq misled' /\ unnamed \subseteq unnamed'
        /\ name[t] = Class[first] \/ name[t] \in misled' \union unnamed'
    BY <1>2 DEF FindLibrary, Goto
  <2> HIDE DEF first
  <2>3. RegistryTypes'
    BY <2>1, <2>2 DEF RegistryTypes, PluginPlaces
  <2>4. StoredRight' /\ CreatedOnce' /\ \A k \in Keys : Creating(k)' <=> Creating(k)
    BY <2>2, QuietStep DEF RegistryTypes
  <2>5. NullExplained'
    BY <2>2, <2>4 DEF NullExplained, NullHasReason, RegistryTypes
  <2>. QED  BY <2>3, <2>4, <2>5
<1>. QED  BY <1>1, <1>2

(* operator[] makes a null pointer of what was absent, and nothing else.      *)
LEMMA Touched ==
  ASSUME RegistryTypes, NEW k \in Keys, Touch(k)
  PROVE  /\ commands_map' \in [Keys -> Commands \union {Absent, Null}]
         /\ \A j \in Keys : Loaded(j)' <=> Loaded(j)
         /\ \A j \in Keys : commands_map[j] # Absent => commands_map'[j] = commands_map[j]
         /\ \A j \in Keys \ {k} : commands_map'[j] = commands_map[j]
         /\ commands_map'[k] # Absent
<1>1. Absent \notin Commands /\ Null \notin Commands /\ Absent # Null
  BY RegistryAssumption DEF Commands
<1>. QED  BY <1>1 DEF Touch, RegistryTypes, Loaded

LEMMA CheckLoadedStep ==
  ASSUME RegistryInvariant, NEW t \in Threads, CheckLoaded(t) PROVE RegistryInvariant'
<1> USE DEF RegistryInvariant
<1> DEFINE class == Class[lib[t]]
<1>0. CASE class = NoClass
  <2>1. /\ pc[t] = "check" /\ pc' = [pc EXCEPT ![t] = "serve"]
        /\ UNCHANGED <<folder, libNames, commands_map, created, failed, misled, unnamed, raced,
                       op, name, lib, made>>
    BY <1>0 DEF CheckLoaded, Goto
  <2>2. RegistryTypes'
    BY <2>1 DEF RegistryTypes, PluginPlaces
  <2>3. StoredRight' /\ CreatedOnce' /\ \A k \in Keys : Creating(k)' <=> Creating(k)
    BY <2>1, QuietStep DEF RegistryTypes
  <2>4. name[t] \in misled \union unnamed
    BY <1>0, <2>1, RegistryAssumption DEF NullExplained, RegistryTypes
  <2>5. NullExplained'
    BY <2>1, <2>3, <2>4 DEF NullExplained, NullHasReason, RegistryTypes
  <2>. QED  BY <2>2, <2>3, <2>5
<1> SUFFICES ASSUME class # NoClass PROVE RegistryInvariant'
  BY <1>0
<1>1. /\ pc[t] = "check" /\ class \in Keys /\ Touch(class)
      /\ pc' = [pc EXCEPT ![t] = IF Loaded(class) THEN "serve" ELSE "create"]
      /\ raced' = IF Creating(class) THEN raced \union {class} ELSE raced
      /\ UNCHANGED <<folder, libNames, created, failed, misled, unnamed, op, name, lib, made>>
  BY KeysOfLibraries DEF CheckLoaded, Goto, RegistryTypes
<1>2. /\ \A j \in Keys : Loaded(j)' <=> Loaded(j)
      /\ \A j \in Keys : commands_map[j] # Absent => commands_map'[j] = commands_map[j]
      /\ \A j \in Keys \ {class} : commands_map'[j] = commands_map[j]
      /\ commands_map'[class] # Absent
      /\ commands_map' \in [Keys -> Commands \union {Absent, Null}]
  BY <1>1, Touched
<1>3. RegistryTypes'
  BY <1>1, <1>2 DEF RegistryTypes, PluginPlaces
<1>4. StoredRight'
  BY <1>1, <1>2, RegistryAssumption DEF StoredRight, RegistryTypes, Loaded, Commands
<1>5. \A u \in Threads \ {t} : pc'[u] = pc[u]
  BY <1>1 DEF RegistryTypes
<1>6. /\ \A k \in Keys : Creating(k) => Creating(k)'
      /\ \A k \in Keys \ {class} : Creating(k)' => Creating(k)
      /\ ~Loaded(class) => Creating(class)'
  BY <1>1, <1>5 DEF Creating, RegistryTypes
<1>7. NullExplained'
  <2>1. NullHasReason'
    <3>1. Null \notin Commands
      BY RegistryAssumption DEF Commands
    <3>2. commands_map'[class] = Null => Creating(class)'
      BY <1>1, <1>2, <1>6, <3>1 DEF Loaded
    <3>3. \A k \in Keys \ {class} : commands_map'[k] = Null =>
            k \in failed \union misled \union unnamed \/ Creating(k)'
      BY <1>2, <1>6 DEF NullExplained, NullHasReason
    <3>. QED  BY <1>1, <3>2, <3>3 DEF NullHasReason
  <2>2. (pc'[t] = "serve" /\ op[t] = "get") =>
          commands_map'[name[t]] # Absent \/ name[t] \in misled \union unnamed \union failed
    BY <1>1, <1>2 DEF NullExplained
  <2>3. \A u \in Threads : pc[u] # "idle" => name[u] \in Keys
    BY KeysOfLibraries DEF RegistryTypes
  <2>. QED  BY <1>1, <1>2, <1>5, <2>1, <2>2, <2>3 DEF NullExplained, RegistryTypes
<1>8. CreatedOnce'
  BY <1>1, <1>2, <1>5, <1>6 DEF CreatedOnce, RegistryTypes, Creating
<1>. QED  BY <1>3, <1>4, <1>7, <1>8

LEMMA CreateCommandStep ==
  ASSUME RegistryInvariant, NEW t \in Threads, CreateCommand(t) PROVE RegistryInvariant'
<1> USE DEF RegistryInvariant
<1> DEFINE class == Class[lib[t]]
<1>0. pc[t] = "create" /\ class \in Keys
  BY KeysOfLibraries DEF CreateCommand, RegistryTypes
<1>1. CASE /\ failed' = failed \union {class} /\ pc' = [pc EXCEPT ![t] = "serve"]
           /\ UNCHANGED <<created, made>>
  <2>1. UNCHANGED <<folder, libNames, commands_map, misled, unnamed, raced, op, name, lib>>
    BY DEF CreateCommand
  <2>2. RegistryTypes'
    <3>1. /\ pc' \in [Threads -> PluginPlaces]
          /\ \A u \in Threads : pc'[u] = IF u = t THEN "serve" ELSE pc[u]
      BY <1>1 DEF RegistryTypes, PluginPlaces
    <3>2. name[t] \in Names
      BY <1>0 DEF RegistryTypes
    <3>3. \A u \in Threads :
            /\ pc'[u] # "idle" => name'[u] \in Names
            /\ pc'[u] \in {"check", "create", "store"} => lib'[u] \in Libs
            /\ pc'[u] \in {"create", "store"} => Class[lib'[u]] # NoClass
            /\ pc'[u] = "store" =>
                 made'[u] \in 1..Len(created') /\ created'[made'[u]] = Class[lib'[u]]
      BY <1>1, <2>1, <3>1, <3>2 DEF RegistryTypes
    <3>. QED  BY <1>1, <2>1, <3>1, <3>3 DEF RegistryTypes
  <2>3. StoredRight'
    BY <1>1, <2>1 DEF StoredRight, Loaded
  <2>4. \A k \in Keys \ {class} : Creating(k) => Creating(k)'
    BY <1>1, <2>1 DEF Creating, RegistryTypes
  <2>5. NullExplained'
    BY <1>0, <1>1, <2>1, <2>4 DEF NullExplained, NullHasReason, RegistryTypes
  <2>6. CreatedOnce'
    <3>1. \A u \in Threads : pc'[u] \in {"create", "store"} => u # t /\ pc'[u] = pc[u]
      BY <1>1 DEF RegistryTypes
    <3>2. \A k \in Keys : Loaded(k)' <=> Loaded(k)
      BY <2>1 DEF Loaded
    <3>3. \A k \in Keys \ raced, i \in 1..Len(created) :
            created[i] = k => Loaded(k) \/ Creating(k)'
      <4>1. \A i \in 1..Len(created) : class \notin raced => created[i] # class
        BY <1>0 DEF CreatedOnce
      <4>. QED  BY <2>4, <4>1 DEF CreatedOnce
    <3>. QED  BY <1>1, <2>1, <3>1, <3>2, <3>3 DEF CreatedOnce
  <2>. QED  BY <2>2, <2>3, <2>5, <2>6
<1>2. CASE /\ Len(created) < MaxCommands /\ created' = Append(created, class)
           /\ made' = [made EXCEPT ![t] = Len(created')]
           /\ pc' = [pc EXCEPT ![t] = "store"] /\ UNCHANGED failed
  <2>1. UNCHANGED <<folder, libNames, commands_map, misled, unnamed, raced, op, name, lib>>
    BY DEF CreateCommand
  <2>2. /\ created' \in Seq(Keys) /\ Len(created') = Len(created) + 1 /\ Len(created) \in Nat
        /\ \A i \in 1..Len(created) : created'[i] = created[i]
        /\ created'[Len(created) + 1] = class
    BY <1>0, <1>2, ElementsOfAppend DEF RegistryTypes
  <2>3. \A u \in Threads \ {t} : pc'[u] = pc[u] /\ made'[u] = made[u]
    BY <1>2 DEF RegistryTypes
  <2>4. made'[t] = Len(created) + 1 /\ pc'[t] = "store" /\ lib'[t] = lib[t]
    BY <1>2, <2>1, <2>2 DEF RegistryTypes
  <2>5. RegistryTypes'
    <3>1. Len(created') <= MaxCommands
      BY <1>2, <2>2, RegistryAssumption
    <3>2. pc' \in [Threads -> PluginPlaces] /\ DOMAIN made' = Threads
      BY <1>2 DEF RegistryTypes, PluginPlaces
    <3>3. name[t] \in Names /\ lib[t] \in Libs
      BY <1>0 DEF RegistryTypes
    <3>4. made'[t] \in 1..Len(created') /\ created'[made'[t]] = Class[lib'[t]]
      BY <2>2, <2>4
    <3>5. \A u \in Threads \ {t} : pc'[u] = "store" =>
            made'[u] \in 1..Len(created') /\ created'[made'[u]] = Class[lib'[u]]
      <4>1. \A u \in Threads \ {t} : pc'[u] = "store" =>
              made[u] \in 1..Len(created) /\ created[made[u]] = Class[lib[u]]
        BY <2>3 DEF RegistryTypes
      <4>. QED  BY <2>1, <2>2, <2>3, <4>1
    <3>6. \A u \in Threads :
            /\ pc'[u] # "idle" => name'[u] \in Names
            /\ pc'[u] \in {"check", "create", "store"} => lib'[u] \in Libs
            /\ pc'[u] \in {"create", "store"} => Class[lib'[u]] # NoClass
      BY <1>0, <2>1, <2>3, <3>3 DEF RegistryTypes
    <3>7. \A u \in Threads : pc'[u] = "store" =>
            made'[u] \in 1..Len(created') /\ created'[made'[u]] = Class[lib'[u]]
      BY <3>4, <3>5
    <3>8. /\ folder' \subseteq Libs /\ libNames' \subseteq Libs
          /\ commands_map' \in [Keys -> Commands \union {Absent, Null}]
          /\ DOMAIN lib' = Threads /\ op' \in [Threads -> {"get", "register"}]
          /\ DOMAIN name' = Threads
      BY <2>1 DEF RegistryTypes
    <3>. QED  BY <2>2, <3>1, <3>2, <3>6, <3>7, <3>8 DEF RegistryTypes
  <2>6. StoredRight'
    BY <2>1, <2>2 DEF StoredRight, Loaded
  <2>7. \A k \in Keys : (Creating(k)' <=> Creating(k)) /\ (Loaded(k)' <=> Loaded(k))
    BY <1>0, <2>1, <2>3, <2>4 DEF Creating, Loaded
  <2>8. NullExplained'
    BY <1>0, <1>2, <2>1, <2>3, <2>4, <2>7 DEF NullExplained, NullHasReason, RegistryTypes
  <2>9. CreatedOnce'
    <3> SUFFICES ASSUME NEW k \in Keys \ raced
                 PROVE  /\ \A u, v \in Threads :
                             (/\ pc'[u] \in {"create", "store"} /\ Class[lib[u]] = k
                              /\ pc'[v] \in {"create", "store"} /\ Class[lib[v]] = k) => u = v
                        /\ \A u \in Threads, i \in 1..Len(created') :
                             (/\ pc'[u] \in {"create", "store"}
                              /\ Class[lib[u]] = k /\ created'[i] = k) =>
                                pc'[u] = "store" /\ i = made'[u]
                        /\ \A i, j \in 1..Len(created') :
                             (created'[i] = k /\ created'[j] = k) => i = j
                        /\ \A i \in 1..Len(created') : created'[i] = k => Loaded(k) \/ Creating(k)
      BY <2>1, <2>7 DEF CreatedOnce
    <3>1. \A i \in 1..Len(created') : i \in 1..Len(created) \/ i = Len(created) + 1
      BY <2>2
    <3>2. CASE k = class
      <4>1. \A i \in 1..Len(created) : created[i] # k
        BY <1>0, <3>2 DEF CreatedOnce
      <4>2. \A u \in Threads : (pc'[u] \in {"create", "store"} /\ Class[lib[u]] = k) => u = t
        BY <1>0, <2>3, <3>2 DEF CreatedOnce
      <4>3. Creating(k)
        BY <1>0, <3>2 DEF Creating
      <4>. QED  BY <2>2, <2>4, <3>1, <4>1, <4>2, <4>3
    <3>3. CASE k # class
      <4>1. \A i \in 1..Len(created') : created'[i] = k => i \in 1..Len(created) /\ created[i] = k
        BY <2>2, <3>1, <3>3
      <4>2. \A u \in Threads : Class[lib[u]] = k => u # t
        BY <3>3
      <4>. QED  BY <2>3, <4>1, <4>2 DEF CreatedOnce
    <3>. QED  BY <3>2, <3>3
  <2>. QED  BY <2>5, <2>6, <2>8, <2>9
<1>. QED  BY <1>1, <1>2 DEF CreateCommand, Goto

LEMMA StoreCommandStep ==
  ASSUME RegistryInvariant, NEW t \in Threads, StoreCommand(t) PROVE RegistryInvariant'
<1> USE DEF RegistryInvariant
<1> DEFINE class == Class[lib[t]]
<1>1. /\ pc[t] = "store" /\ pc' = [pc EXCEPT ![t] = "serve"]
      /\ commands_map' = [commands_map EXCEPT ![class] = made[t]]
      /\ made' = [made EXCEPT ![t] = Null]
      /\ UNCHANGED <<folder, libNames, created, failed, misled, unnamed, raced, op, name, lib>>
  BY DEF StoreCommand, Goto, history
<1>2. /\ class \in Keys /\ made[t] \in 1..Len(created) /\ created[made[t]] = class
      /\ made[t] \in Commands
  BY <1>1, KeysOfLibraries, RegistryAssumption, LenProperties DEF RegistryTypes, Commands
<1>3. Null \notin Commands /\ Absent \notin Commands
  BY RegistryAssumption DEF Commands
<1>4. /\ \A u \in Threads \ {t} : pc'[u] = pc[u] /\ made'[u] = made[u]
      /\ pc'[t] = "serve"
  BY <1>1 DEF RegistryTypes
<1>5. /\ \A k \in Keys \ {class} : commands_map'[k] = commands_map[k]
      /\ commands_map'[class] = made[t]
      /\ \A k \in Keys : Loaded(k) => Loaded(k)'
      /\ Loaded(class)'
  BY <1>1, <1>2 DEF RegistryTypes, Loaded
<1>6. \A k \in Keys \ {class} : Creating(k) <=> Creating(k)'
  BY <1>1, <1>4 DEF Creating
<1>7. RegistryTypes'
  BY <1>1, <1>2, <1>4 DEF RegistryTypes, PluginPlaces
<1>8. StoredRight'
  BY <1>1, <1>2, <1>5 DEF StoredRight, Loaded
<1>9. NullExplained'
  <2>1. NullHasReason'
    BY <1>1, <1>2, <1>3, <1>5, <1>6 DEF NullExplained, NullHasReason
  <2>2. \A u \in Threads : pc[u] # "idle" => name[u] \in Keys
    BY KeysOfLibraries DEF RegistryTypes
  <2>3. \A k \in Keys : commands_map[k] # Absent => commands_map'[k] # Absent
    BY <1>2, <1>3, <1>5
  <2>4. name[t] = class => commands_map'[name[t]] # Absent
    BY <1>2, <1>3, <1>5
  <2>. QED  BY <1>1, <1>4, <2>1, <2>2, <2>3, <2>4 DEF NullExplained
<1>10. CreatedOnce'
  BY <1>1, <1>4, <1>5, <1>6 DEF CreatedOnce
<1>. QED  BY <1>7, <1>8, <1>9, <1>10

(* A null pointer that GetType inserts has its reason.                        *)
LEMMA ServeStep ==
  ASSUME RegistryInvariant, NEW t \in Threads, Serve(t) PROVE RegistryInvariant'
<1> USE DEF RegistryInvariant
<1>1. /\ pc[t] = "serve" /\ pc' = [pc EXCEPT ![t] = "idle"]
      /\ UNCHANGED <<folder, libNames, created, failed, misled, unnamed, raced, op, name, lib, made>>
  BY DEF Serve, Goto, history
<1>2. name[t] \in Keys
  BY <1>1, KeysOfLibraries DEF RegistryTypes
<1>3. \A u \in Threads \ {t} : pc'[u] = pc[u]
  BY <1>1 DEF RegistryTypes
<1>4. \A k \in Keys : Creating(k) <=> Creating(k)'
  BY <1>1, <1>3 DEF Creating, RegistryTypes
<1>5. /\ \A k \in Keys : Loaded(k)' <=> Loaded(k)
      /\ \A k \in Keys : commands_map[k] # Absent => commands_map'[k] = commands_map[k]
      /\ \A k \in Keys \ {name[t]} : commands_map'[k] = commands_map[k]
      /\ commands_map' \in [Keys -> Commands \union {Absent, Null}]
  <2>1. CASE op[t] = "register"
    BY <2>1 DEF Serve, Loaded, RegistryTypes
  <2>2. CASE op[t] # "register"
    BY <1>2, <2>2, Touched DEF Serve
  <2>. QED  BY <2>1, <2>2
<1>6. commands_map[name[t]] = Absent /\ commands_map'[name[t]] # Absent =>
        name[t] \in misled \union unnamed \union failed
  <2>1. op[t] \in {"get", "register"}
    BY DEF RegistryTypes
  <2>2. CASE op[t] = "register"
    BY <2>2 DEF Serve
  <2>3. CASE op[t] = "get"
    BY <1>1, <2>3 DEF NullExplained
  <2>. QED  BY <2>1, <2>2, <2>3
<1>7. RegistryTypes'
  BY <1>1, <1>5 DEF RegistryTypes, PluginPlaces
<1>8. StoredRight'
  BY <1>1, <1>5, RegistryAssumption DEF StoredRight, RegistryTypes, Loaded, Commands
<1>9. NullExplained'
  <2>1. NullHasReason'
    BY <1>1, <1>4, <1>5, <1>6, RegistryAssumption DEF NullExplained, NullHasReason
  <2>2. \A u \in Threads : pc[u] # "idle" => name[u] \in Keys
    BY KeysOfLibraries DEF RegistryTypes
  <2>. QED  BY <1>1, <1>3, <1>5, <2>1, <2>2 DEF NullExplained, RegistryTypes
<1>10. CreatedOnce'
  BY <1>1, <1>3, <1>4, <1>5 DEF CreatedOnce, RegistryTypes
<1>. QED  BY <1>7, <1>8, <1>9, <1>10

LEMMA RegistryStep == RegistryInvariant /\ [Next]_vars => RegistryInvariant'
<1> SUFFICES ASSUME RegistryInvariant, [Next]_vars PROVE RegistryInvariant'
  OBVIOUS
<1>1. CASE UpdateLibs \/ (\E l \in Libs : Install(l)) \/ UNCHANGED vars
  <2>1. UNCHANGED <<commands_map, created, failed, misled, unnamed, raced, pc, op, name, lib, made>>
    BY <1>1 DEF UpdateLibs, Install, vars, history, locals
  <2>2. folder' \subseteq Libs /\ libNames' \subseteq Libs
    BY <1>1 DEF UpdateLibs, Install, vars, RegistryInvariant, RegistryTypes
  <2>3. RegistryTypes'
    BY <2>1, <2>2 DEF RegistryInvariant, RegistryTypes
  <2>4. StoredRight' /\ CreatedOnce' /\ \A k \in Keys : Creating(k)' <=> Creating(k)
    BY <2>1, QuietStep DEF RegistryInvariant
  <2>5. NullExplained'
    BY <2>1, <2>4 DEF RegistryInvariant, NullExplained, NullHasReason
  <2>. QED  BY <2>3, <2>4, <2>5 DEF RegistryInvariant
<1>2. ASSUME NEW t \in Threads,
             FindLibrary(t) \/ CheckLoaded(t) \/ CreateCommand(t) \/ StoreCommand(t) \/ Serve(t)
      PROVE  RegistryInvariant'
  BY <1>2, FindLibraryStep, CheckLoadedStep, CreateCommandStep, StoreCommandStep, ServeStep
<1>3. ASSUME NEW t \in Threads, NEW n \in Names, Register(t, n) \/ GetType(t, n)
      PROVE  RegistryInvariant'
  BY <1>3, CallStep
<1>. QED  BY <1>1, <1>2, <1>3 DEF Next

LEMMA RegistryInvariantHolds == Spec => []RegistryInvariant
BY RegistryInvariantInit, RegistryStep, PTL DEF Spec

(* A name is asked for, another library's path contains it, and two threads   *)
(* load plugins at once: a key still never has a command of another class.    *)
THEOREM CommandsOfTheirClass == Spec => []RightClass
<1>1. RegistryInvariant => RightClass
  BY DEF RegistryInvariant, StoredRight, RightClass
<1>. QED  BY <1>1, RegistryInvariantHolds, PTL

(* A key that maps to null, for which GetType will look for no plugin any     *)
(* more, is there because create() has thrown, because its name led to a      *)
(* library of another class or of none, or because a thread is creating its   *)
(* command.                                                                   *)
THEOREM NullIsExplained == Spec => []NullHasReason
<1>1. RegistryInvariant => NullHasReason
  BY DEF RegistryInvariant, NullExplained
<1>. QED  BY <1>1, RegistryInvariantHolds, PTL

(* The look at commands_map keeps a class from a second command whenever no   *)
(* two threads were between that look and the store for it at once.           *)
THEOREM CreatedOnceUnlessRaced == Spec => []LoadedOnce
<1>1. RegistryInvariant => LoadedOnce
  <2> SUFFICES ASSUME RegistryInvariant, NEW i \in DOMAIN created, NEW j \in DOMAIN created,
                      created[i] = created[j], i # j
               PROVE  created[i] \in raced
    BY DEF LoadedOnce
  <2>1. created \in Seq(Keys) /\ i \in 1..Len(created) /\ j \in 1..Len(created)
    BY DEF RegistryInvariant, RegistryTypes
  <2>2. created[i] \in Keys
    BY <2>1, ElementOfSeq
  <2>. QED  BY <2>1, <2>2 DEF RegistryInvariant, CreatedOnce
<1>. QED  BY <1>1, RegistryInvariantHolds, PTL
=============================================================================
