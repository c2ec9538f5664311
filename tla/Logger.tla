-------------------------------- MODULE Logger --------------------------------
(* src/logger: the Logger singleton, the strategy LoggerFactory gives it, the *)
(* content writer's queue and the thread that flushes it.  mutex_ is held by  *)
(* a caller for one action at a time and by the thread while it flushes.      *)
EXTENDS Naturals, Sequences, FiniteSets

CONSTANTS
  Callers,   \* threads that use LOG_INFO, LOG_ERROR, ...
  Count,     \* bound on the messages of each caller
  Types,     \* values of LOGGER_TYPE to consider, "" when it is not set
  NoLogger,  \* a null pointer
  LastDay,   \* bound on the date
  Faults     \* "open", "sql", "send", "peer": what may fail in a WriteToMedia

ASSUME LoggerAssumption ==
  /\ Count \in Nat /\ LastDay \in Nat
  /\ NoLogger \notin Callers
  /\ Faults \subseteq {"open", "sql", "send", "peer"}

VARIABLES
  type,      \* LOGGER_TYPE
  day,       \* the date of localtime
  instance,  \* the static pointer
  made,      \* the Loggers that have been constructed
  pc,        \* each caller: in getInstance or in Log
  lg,        \* the Logger that getInstance has returned to it
  sent,      \* how many messages it has logged
  queue,     \* the queue of each Logger's content writer
  fileDay,   \* fileName of its FileLogStrategy
  worker,    \* its logThread
  written,   \* history: what has reached a medium, in order
  dropped,   \* history: what a WriteToMedia has failed to write
  orphaned,  \* history: what was queued in a writer that was replaced
  aborted    \* std::terminate

callerVars == <<pc, lg, sent>>
vars == <<type, day, instance, made, callerVars, queue, fileDay, worker,
          written, dropped, orphaned, aborted>>

(* A Logger is named after the caller that has constructed it.                *)
Loggers == Callers
Messages == Callers \X (1..Count)
Elements(s) == {s[n] : n \in 1..Len(s)}

(* LoggerFactory::CreateLogger.                                               *)
Strategy == IF type \in {"DB", "FILE", "NET"} THEN type ELSE "NULL"

(* The constructor starts logThread only when a type is given.                *)
FirstState == IF type = "" THEN "none" ELSE "lock"

Init ==
  /\ type \in Types
  /\ day = 0
  /\ instance = NoLogger /\ made = {}
  /\ pc = [c \in Callers |-> "idle"]
  /\ lg = [c \in Callers |-> NoLogger]
  /\ sent = [c \in Callers |-> 0]
  /\ queue = [l \in Loggers |-> <<>>]
  /\ fileDay = [l \in Loggers |-> 0]
  /\ worker = [l \in Loggers |-> "none"]
  /\ written = <<>> /\ dropped = {} /\ orphaned = {}
  /\ aborted = FALSE

(* Only FileLogStrategy reads the date: for the others it stands still.       *)
Midnight ==
  /\ Strategy = "FILE" /\ day < LastDay /\ day' = day + 1
  /\ UNCHANGED <<type, instance, made, callerVars, queue, fileDay, worker,
                 written, dropped, orphaned, aborted>>

-----------------------------------------------------------------------------
(* getInstance: the test of the pointer, the construction, the assignment and *)
(* the second read of the pointer are separate; nothing guards them.          *)
Check(c) ==
  /\ ~aborted /\ pc[c] = "idle" /\ sent[c] < Count
  /\ pc' = [pc EXCEPT ![c] = IF instance = NoLogger THEN "create" ELSE "return"]
  /\ UNCHANGED <<type, day, instance, made, lg, sent, queue, fileDay, worker,
                 written, dropped, orphaned, aborted>>

Create(c) ==
  /\ ~aborted /\ pc[c] = "create"
  /\ made' = made \union {c}
  /\ fileDay' = [fileDay EXCEPT ![c] = day]
  /\ worker' = [worker EXCEPT ![c] = FirstState]
  /\ pc' = [pc EXCEPT ![c] = "publish"]
  /\ UNCHANGED <<type, day, instance, lg, sent, queue, written, dropped, orphaned, aborted>>

(* The constructor of TcpClient throws through getInstance to the caller.     *)
CreateThrows(c) ==
  /\ ~aborted /\ pc[c] = "create" /\ Strategy = "NET" /\ "peer" \in Faults
  /\ pc' = [pc EXCEPT ![c] = "idle"]
  /\ UNCHANGED <<type, day, instance, made, lg, sent, queue, fileDay, worker,
                 written, dropped, orphaned, aborted>>

Publish(c) ==
  /\ ~aborted /\ pc[c] = "publish"
  /\ instance' = c
  /\ pc' = [pc EXCEPT ![c] = "return"]
  /\ UNCHANGED <<type, day, made, lg, sent, queue, fileDay, worker,
                 written, dropped, orphaned, aborted>>

Return(c) ==
  /\ ~aborted /\ pc[c] = "return"
  /\ lg' = [lg EXCEPT ![c] = instance]
  /\ pc' = [pc EXCEPT ![c] = "log"]
  /\ UNCHANGED <<type, day, instance, made, sent, queue, fileDay, worker,
                 written, dropped, orphaned, aborted>>

-----------------------------------------------------------------------------
(* Log up to the unlock: the strategy's Log and DoLog.  NullLogStrategy       *)
(* writes at once; FileLogStrategy replaces its writer when the date is not   *)
(* the one of its file; all but the first then queue the message.             *)
Rolls(l) == Strategy = "FILE" /\ fileDay[l] # day

LogMutantFront(c) ==
  LET l == lg[c]  m == <<c, sent[c] + 1>> IN
  /\ ~aborted /\ pc[c] = "log" /\ worker[l] # "flush"
  /\ queue' = [queue EXCEPT ![l] = <<m>> \o @]
  /\ sent' = [sent EXCEPT ![c] = @ + 1]
  /\ pc' = [pc EXCEPT ![c] = "notify"]
  /\ UNCHANGED <<type, day, instance, made, lg, fileDay, worker, written, dropped, orphaned, aborted>>

LogMutantKeepsOldQueue(c) ==
  LET l == lg[c]  m == <<c, sent[c] + 1>> IN
  /\ ~aborted /\ pc[c] = "log" /\ worker[l] # "flush"
  /\ fileDay' = [fileDay EXCEPT ![l] = IF Rolls(l) THEN day ELSE @]
  /\ orphaned' = IF Rolls(l) THEN orphaned \union Elements(queue[l]) ELSE orphaned
  /\ queue' = [queue EXCEPT ![l] = Append(@, m)]
  /\ sent' = [sent EXCEPT ![c] = @ + 1]
  /\ pc' = [pc EXCEPT ![c] = "notify"]
  /\ UNCHANGED <<type, day, instance, made, lg, worker, written, dropped, aborted>>

Log(c) ==
  LET l == lg[c]
      m == <<c, sent[c] + 1>>
  IN
  /\ ~aborted /\ pc[c] = "log" /\ worker[l] # "flush"
  /\ IF Strategy = "NULL"
     THEN written' = Append(written, m) /\ UNCHANGED <<queue, fileDay, orphaned>>
     ELSE /\ fileDay' = [fileDay EXCEPT ![l] = IF Rolls(l) THEN day ELSE @]
          /\ orphaned' = IF Rolls(l) THEN orphaned \union Elements(queue[l]) ELSE orphaned
          /\ queue' = [queue EXCEPT ![l] = IF Rolls(l) THEN <<m>> ELSE Append(@, m)]
          /\ UNCHANGED written
  /\ sent' = [sent EXCEPT ![c] = @ + 1]
  /\ pc' = [pc EXCEPT ![c] = "notify"]
  /\ UNCHANGED <<type, day, instance, made, lg, worker, dropped, aborted>>

(* notify_one, after the unlock.                                              *)
Notify(c) ==
  /\ ~aborted /\ pc[c] = "notify"
  /\ worker' = [worker EXCEPT ![lg[c]] = IF @ = "wait" THEN "lock" ELSE @]
  /\ pc' = [pc EXCEPT ![c] = "idle"] /\ lg' = [lg EXCEPT ![c] = NoLogger]
  /\ UNCHANGED <<type, day, instance, made, sent, queue, fileDay,
                 written, dropped, orphaned, aborted>>

-----------------------------------------------------------------------------
(* logWorker takes mutex_ and tests the predicate of wait: it keeps the mutex *)
(* to flush, or releases it and blocks in one step.  stopThread stays false:  *)
(* the destructor is private and nobody deletes the instance.                 *)
WorkerLocksMutantBlind(l) ==
  /\ ~aborted /\ worker[l] = "lock"
  /\ worker' = [worker EXCEPT ![l] = "wait"]
  /\ UNCHANGED <<type, day, instance, made, callerVars, queue, fileDay,
                 written, dropped, orphaned, aborted>>

WorkerLocks(l) ==
  /\ ~aborted /\ worker[l] = "lock"
  /\ worker' = [worker EXCEPT ![l] = IF queue[l] = <<>> THEN "wait" ELSE "flush"]
  /\ UNCHANGED <<type, day, instance, made, callerVars, queue, fileDay,
                 written, dropped, orphaned, aborted>>

SpuriousWakeup(l) ==
  /\ ~aborted /\ worker[l] = "wait"
  /\ worker' = [worker EXCEPT ![l] = "lock"]
  /\ UNCHANGED <<type, day, instance, made, callerVars, queue, fileDay,
                 written, dropped, orphaned, aborted>>

(* The ways in which WriteToMedia of each writer loses its argument.          *)
FileFails == Strategy = "FILE" /\ "open" \in Faults
InsertFails == Strategy = "DB" /\ "sql" \in Faults
SendFails == Strategy = "NET" /\ "send" \in Faults

(* One turn of Flush: pop, and WriteToMedia, whose result is ignored.         *)
FlushMutantNoPop(l) ==
  /\ ~aborted /\ worker[l] = "flush" /\ queue[l] # <<>> /\ Len(written) < Count * Cardinality(Callers)
  /\ written' = Append(written, Head(queue[l]))
  /\ UNCHANGED <<type, day, instance, made, callerVars, queue, fileDay, worker, dropped, orphaned, aborted>>

FlushOne(l) ==
  /\ ~aborted /\ worker[l] = "flush" /\ queue[l] # <<>>
  /\ queue' = [queue EXCEPT ![l] = Tail(@)]
  /\ \/ written' = Append(written, Head(queue[l])) /\ UNCHANGED dropped
     \/ /\ FileFails \/ InsertFails \/ SendFails
        /\ dropped' = dropped \union {Head(queue[l])} /\ UNCHANGED written
  /\ UNCHANGED <<type, day, instance, made, callerVars, fileDay, worker, orphaned, aborted>>

(* send fails and Reconnect throws out of the thread function.                *)
FlushAborts(l) ==
  /\ ~aborted /\ worker[l] = "flush" /\ queue[l] # <<>>
  /\ Strategy = "NET" /\ "peer" \in Faults
  /\ queue' = [queue EXCEPT ![l] = Tail(@)]
  /\ dropped' = dropped \union {Head(queue[l])}
  /\ aborted' = TRUE
  /\ UNCHANGED <<type, day, instance, made, callerVars, fileDay, worker, written, orphaned>>

(* The queue is empty: Flush returns, the lock is released, the loop begins   *)
(* again.                                                                     *)
FlushEnds(l) ==
  /\ ~aborted /\ worker[l] = "flush" /\ queue[l] = <<>>
  /\ worker' = [worker EXCEPT ![l] = "lock"]
  /\ UNCHANGED <<type, day, instance, made, callerVars, queue, fileDay,
                 written, dropped, orphaned, aborted>>

-----------------------------------------------------------------------------
InCall(c) == Create(c) \/ Publish(c) \/ Return(c) \/ Log(c) \/ Notify(c)

Worker(l) == WorkerLocks(l) \/ FlushOne(l) \/ FlushEnds(l)

Next ==
  \/ Midnight
  \/ \E c \in Callers : Check(c) \/ InCall(c) \/ CreateThrows(c)
  \/ \E l \in Loggers : Worker(l) \/ SpuriousWakeup(l) \/ FlushAborts(l)

Spec == Init /\ [][Next]_vars

(* A caller that has entered a LOG macro and a logThread that can run do run. *)
Fairness ==
  /\ \A c \in Callers : WF_vars(InCall(c))
  /\ \A l \in Loggers : WF_vars(Worker(l))

FairSpec == Spec /\ Fairness
-----------------------------------------------------------------------------
Logged == {m \in Messages : m[2] <= sent[m[1]]}
Queued == UNION {Elements(queue[l]) : l \in Loggers}

(* A message that was logged is in one place: in one queue, on the medium     *)
(* once, or in the account of what was lost.                                  *)
OneHome ==
  /\ Logged = Queued \union Elements(written) \union dropped \union orphaned
  /\ Len(written) = Cardinality(Elements(written))
  /\ Queued \intersect (Elements(written) \union dropped \union orphaned) = {}
  /\ Elements(written) \intersect (dropped \union orphaned) = {}

(* The notification follows the unlock, and the predicate is tested under the *)
(* mutex: a thread asleep over a queue that is not empty has a caller that is *)
(* about to notify it, however many Loggers a race has made.                  *)
SleeperHasNotifier ==
  \A l \in Loggers :
    (worker[l] = "wait" /\ queue[l] # <<>>) =>
      \E c \in Callers : pc[c] = "notify" /\ lg[c] = l

(* With one Logger, what a caller logs reaches the medium in the order of its *)
(* calls, also across midnight.                                               *)
CallerOrder ==
  Cardinality(made) <= 1 =>
    \A m, n \in 1..Len(written) :
      (m < n /\ written[m][1] = written[n][1]) => written[m][2] < written[n][2]

(* Each message leaves the queue: it is written, or a failed write or a new   *)
(* date has lost it, or the process dies.                                     *)
EveryMessageSettles ==
  \A m \in Messages :
    (m \in Logged) ~>
      (m \in Elements(written) \union dropped \union orphaned \/ aborted)
=============================================================================
