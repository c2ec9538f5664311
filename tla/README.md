# asabru-commons in TLA+

asabru-commons is the library that the Asabru proxies are built from: a thread
pool, a logger, load balancers, a registry of plugins, a scheduler, two
authentication lists, an authorization client, an HTTP message parser, a line
reader and a bridge to Python.  It has almost no tests, and most of its parts
are used by many threads at once.  This directory holds TLA+ models of those
parts, the TLC runs that check them, and machine-checked proofs of their
safety properties.  Paths below are relative to `src/src/`.

## Inventory

Each entry gives the state, the operations, what the part talks to, what is
hard about it, and what makes it correct.

**Thread pool** (`thread_pool/`, `thread_safe_queue/`).
State: a queue under a mutex with a condition variable; a vector of threads.
Operations: constructor, `push`, `pop` in each thread's loop, destructor.
Clients and running tasks push; each thread pops and runs.  The destructor
pushes one stop task per thread and joins after each push.
Hard: wakeups, stop tasks taken by another thread than the one being joined,
tasks that throw, tasks that push while the pool closes, a thread that cannot be
created.  Correct: a pushed task runs once, in order; a destructor that returns
has run what was accepted before it; nothing sleeps over a queue with work in it.

**Revoked-token list** (`authentication/CachedFileList.h`).
State: a map in memory, a file with one string per line, a temporary file.
Operations: constructor, `add`, `remove`, `find`, `getAll`, `compactFile`, all
under one `shared_mutex`.  Hard: a disk that fails, a process that dies inside
`compactFile`.  Correct: memory and file agree; what was removed stays removed.

**Basic authentication** (`authentication/BasicAuthenticationStrategy.h`).
State: a list as above, a thread, a flag.  Operations: `authenticate`,
`isAuthenticated`, `removeAuthentication`, the hourly pruning, the destructor.
Hard: a check has two halves with no lock over both; pruning works on a snapshot;
restarts.  Correct: a revoked token is not accepted, dead ones leave the list,
the destructor returns.

**Memory-mapped list** (`authentication/MemoryMappedListFile.h`).
State: a vector and a file.  Operations: `add`, `remove`, `removeList`, each in
three critical sections (change, write, load).  Hard: other operations between
those sections; a write stream that does not open, or fails when it has
truncated the file, says nothing; a load that fails throws.  Correct: memory
and file agree, and an operation takes effect.

**Logger** (`logger/`).
State: a static pointer, and per Logger a strategy, a writer with a queue, a
mutex, a condition variable and a thread.  Operations: `getInstance`, `Log`, the
thread's loop, `Flush`, the rollover of the file at midnight.  Hard: the pointer
is tested and set with no lock; writes, inserts and sends fail; a rollover
replaces a writer that has a queue.  Correct: a message is in one place, in
order, and does not stay in the queue.

**Load balancer** (`load_balancer/`).
State: a vector of servers; the statics of `selectServer`, one per server type
and not per balancer.  Operations: `addServer`, `removeAllServers`,
`selectServer`.  Hard: statics that threads and balancers share and that outlive
the vector; a counter that two threads take below zero.  Correct: a subscript
inside the vector, fair or proportional turns, turns that end.

**Plugin registry and command dispatcher** (`TypeFactory.*`, `CommandDispatcher.h`).
State: a set of library names, a map from class to command.  Operations:
`updateLibs`, `loadPlugin`, `GetType`, `RegisterCommand`, `Dispatch`.  Hard: no
lock; a name is looked for anywhere in a path and stored under another key;
`operator[]` inserts null.  Correct: a key has a command of its own class, created once.

**Scheduler** (`scheduler/`).
State: a vector of tasks with times, a flag.  Operations: `addTask`, `start`,
`stop`.  Hard: functions that add, stop or throw while the loop stands on their
entry.  Correct: each task runs once, not early, not forgotten; `stop` works.

**Authorization** (`authorization/`, `afcas/`).
State: four vectors in the strategy, copies of them in the client, and whatever
the AFCAS server has.  Operations: the migration of a constructor, the questions
of a request.  Hard: lost replies, crashes, several proxies, arguments evaluated
in an unspecified order.  Correct: no predicate on the server without its parts;
no request authorized that was not granted.

**HTTP messages** (`http/`).
State: a message with headers and content.  Operations: `SetHeader`,
`SetContent`, `RemoveHeader`, `ClearHeader`, two serialisers, two parsers.
Hard: separators and line ends inside values and bodies; errors that add up over
hops.  Correct: what is sent is what arrives.

**Line grabber** (`LineGrabber.h`).
State: a buffer and an index.  Operations: `GetNextLine`, `GetContentTillEof`.
Hard: line ends of one or two characters, the last character of the buffer, the
limit of the array that a line is copied into.  Correct: no text lost, split or
read twice.

**Python interpreter** (`util/PythonInterpreter.*`).
State: the interpreter of the process with its modules and their references, and
the objects that start and end it.  Operations: constructor, destructor,
`Execute`.  Hard: every object ends the interpreter of all; functions that are
missing, are no functions, or raise; texts without UTF-8; references on every
path.  Correct: the reference to the module is given back once, and a good script
on a fresh object does no harm.

The parts call each other little.  `BasicAuthenticationStrategy` owns a
`CachedFileList`, and its module extends that of the list: the two interact
through the list's operations and the process that holds both.
`AfcasAuthorizationStrategy` owns an `AfcasClient`; one module has both.
`ThreadPoolSingleton` picks the number of threads.  Everything logs, which no
other part can observe.

## Modules

| Component | Modules | Abstract specification |
|---|---|---|
| Thread pool | `ThreadPool`, `ThreadPoolProofs` | `TaskPool` |
| Revoked-token list | `CachedFileList`, `BasicAuthenticationProofs` | `DurableSet` |
| Basic authentication | `BasicAuthentication` over `CachedFileList`, `BasicAuthenticationProofs` | |
| Memory-mapped list | `MemoryMappedListFile`, `MemoryMappedListFileProofs` | |
| Logger | `Logger`, `LoggerProofs` | |
| Load balancer | `LoadBalancer` over `RoundRobin` and `WeightedRoundRobin`, `LoadBalancerProofs` | |
| Plugin registry | `PluginRegistry`, `PluginAndSchedulerProofs` | |
| Scheduler | `SimpleScheduler`, `PluginAndSchedulerProofs` | |
| Authorization | `AfcasAuthorization`, `AfcasAuthorizationProofs` | |
| HTTP messages | `TextReaders` over `HttpMessage`, `InterpreterAndReaderProofs` | |
| Line grabber | `TextReaders` over `LineGrabber`, `InterpreterAndReaderProofs` | |
| Python interpreter | `PythonInterpreter`, `InterpreterAndReaderProofs` | |

`MC<module>` instantiates a module for TLC, `<module>.cfg` is its run.
`<module>Proofs` holds its theorems; components that share a
proof module (`PluginAndSchedulerProofs`, `InterpreterAndReaderProofs`) come one
after the other in it, and `BasicAuthenticationProofs` begins with the list.  The
operators with `Mutant` in their name are broken variants of the definition they
stand in front of.  Nothing uses them; putting one in the place of its original
must make the property it is listed with in `PROJECT.json` fail.

How state and actions correspond to the code:

- **ThreadPool.** One action per critical section of the queue.  `Block` is a
  `pop` that finds the queue empty and waits, `Take` one that gets an element;
  `QueuePush` is `push`, with any sleeper chosen for `notify_one`.  The
  destructor's loop is `PushStop` and `Join`.  A task that throws is
  `std::terminate`, phase `"aborted"`, after which nothing happens.
- **CachedFileList.** `add` and `remove` are one action each, as they hold the
  mutex; a failing open, read or write is a disjunct.  `remove` forgets a string
  also when its mark does not reach the file: `unmarked` remembers those.  A
  failing write may leave a piece of a line, which the next line is joined to
  (`torn`); neither is a string of `Tokens`.  `compactFile` is one action
  per line and per system call, so that `Crash` comes between any two.
  `find` and `getAll` change nothing.  A line is a string and whether it is live.
- **BasicAuthentication.** A token is the second of its issue, as `authenticate`
  signs nothing else that varies: two logins in one second get one token, and
  the logout of one ends the other.  `Find` and `Verify` are the two halves of
  a check, `PruneCheck` and `PruneErase` those of a pruning.
- **Logger.** `Check`, `Create`, `Publish`, `Return` cut `getInstance` where
  another thread can come between; `Log` is the critical section, `Notify` what
  follows the unlock.  A Logger is named after the thread that made it.  The
  date advances for the file strategy only, as no other one reads it.
- **RoundRobin.** `Read`, `Store`, `Select` cut the line that moves the index.  `Select` may use
  the value just stored or read the index again, as a racy build may.
- **WeightedRoundRobin.** `selectServer` is cut at every access to a static:
  `Enter`, `Decrement`, `Test`, `NextServer`, `Store`, `Reload`, `Return`.  What a
  thread has read of a static it may use again or read again.  The statics are one
  pair for all balancers of the type; `owner` remembers whose present list the
  index is of, `Stray` when a request is made in the turn of another list.  Every
  read of a vector is recorded, and one outside it gives any weight.
- **LoadBalancer.** A balancer is constructed with one strategy and keeps it; the
  module joins the two state machines by that choice.
- **MemoryMappedListFile.** `Change`, `Write`, `Load`: the three critical sections.
  A `Write` that does not open leaves the file; one that fails later has truncated it,
  and leaves some first lines of the list and perhaps a piece of one (`Fragments`).
  A failing `Load` leaves the list and throws.
- **PluginRegistry.** `FindLibrary`, `CheckLoaded`, `CreateCommand`,
  `StoreCommand` cut `loadPlugin`; `GetType` and `Serve` surround it.  A library
  whose name is too short for `libnameothy`, which throws, is one of `NoClass`.
- **SimpleScheduler.** `Top`, `Scan`, `Erase`, `Sleep` are the loop of `start`.
  A `push_back` that moves the vector while a function runs sets `dangling`:
  the iterator is erased next, which is undefined, so the model makes no step of
  the loop from there and no property says anything of it.
- **AfcasAuthorization.** One action per request to the server.  `LoseReply` is
  a reply that does not come, the post having taken effect or not.  The order in
  which the build evaluates the arguments is `copied`, chosen in `Init`.
- **HttpMessage.** A text is a sequence of separators and words.  `find`,
  `getline`, `>>` and `trim` are operators with their behaviour at the ends of a
  text, and the parsers are written with them; a parser that throws is an empty set.
- **LineGrabber.** `GetNextLine` and `GetContentTillEof`, in any order, on every
  buffer.  A text that fills the array has no defined result, and nothing is said
  of what follows.  `TextReaders` is either this reader or that of `HttpMessage`.
- **PythonInterpreter.** `Execute` is cut at every call into Python: `Import`,
  `CreateContext`, `PreExecute`, `Execute`, `PostExecute`, `Release`, `Finalize`.
  A call that Python does not define ends in `pc = "undefined"`.  References are
  counted for the module only; the GIL is never taken, so calls do not overlap.
  A param that is no UTF-8, or an answer that has none, is a null pointer that the
  next call does not take (`garbled`).

## Runs

| Run | Shows |
|---|---|
| `ThreadPool` | `NoLostWakeup`, `ExactlyOnce`, `DrainedWhenGone`; `DestructorEnds` and `StolenForever`: the destructor may hang, only because another worker took the stop task, and then for ever; `AcceptedTaskRuns` even then; `PromiseSpec`: the pool implements `TaskPool` |
| `CachedFileList` | `Agreement` of memory and file, `NoResurrection`, `Recoverable`; `DurableSpec`: as long as no line is lost and every start reads the file, the list is a set that a crash does not change, except that one inside a compaction may empty it |
| `BasicAuthentication` | `RevokedRejected` end to end, and the reason for it, `KeptWhileValid`; `DeadTokensLeave`, `DestructorReturns` |
| `Logger` | `OneHome`, `CallerOrder`, `SleeperHasNotifier`, `EveryMessageSettles` |
| `LoadBalancer` | `SubscriptInside`: what takes an index outside its vector, for each strategy; `FairShare`: fair or proportional turns, on the terms of each strategy; `TurnsEnd`: a weighted counter goes below zero only by a race or a negative weight; `StuckForever`: and then no request moves the index again |
| `MemoryMappedListFile` | `QuiescentAgreement`, `SoloTakesEffect`, with writes and loads that fail |
| `MemoryMappedListFileLost` | violation of `ChangesReflected`, see Findings |
| `PluginRegistry` | `RightClass`, `NullHasReason`, `LoadedOnce` |
| `SimpleScheduler` | `RunOnce`, `PassLeavesNothingDue`, `EveryTaskRuns` |
| `AfcasAuthorization` | `NoDanglingPredicate`, `ReadyMeansMigrated`, `AuthorizedMeansGranted` |
| `TextReaders` | `RequestArrives`, `RelayIsFaithful`, `ResponseLosesNothing` of the parsers; `LinesAreFaithful` of `LineGrabber` |
| `PythonInterpreter` | `Contained`: the five reasons for which a call may be undefined; `ReleasesCounted`: the module is given back once, and once more for each name come to that is no function |

Many properties name the condition under which the code keeps them, which is
what a user of the library needs to know.  `RevokedRejected` excepts a process
that dies when its list is not on the disk: between the `remove` and the `rename`
of `compactFile`, or after a write or a rename that failed.  It speaks of tokens
that are on the list: `add` puts none on it, and says nothing, when the file does not
open.  The list's own properties hold until a start that cannot open the file, or
cannot read it to its end, takes it for a shorter one: what is added then may be in
the file twice, of which `remove` marks one.  They leave out each string whose mark
in the file has failed: `remove` has forgotten it, and a restart brings it back.
`SoloTakesEffect` is about operations whose write succeeds.  `DeadTokensLeave`
excepts a list whose file is gone after a failed `rename`.  `OneHome` counts what
a rollover leaves in the queue of the old file.  `SubscriptInside` excepts two
balancers of one server type that are asked at once, for both strategies.  For weights
it also excepts a request made in the turn of another list, which a single thread can
make: the turn begun on the list of another balancer, or on the servers that this one
had before, goes on at its index, inside the list at hand or not.  `LoadedOnce` excepts two
threads that create the same command at once, and `NullHasReason` lists why
`GetType` may answer null although the library is there: `create()` has thrown, the
path of another class contains the name, the library's own name is too short for a
class, or the command is being created.  `NoDanglingPredicate`
excepts builds that copy the predicates after the parse and other vectors before it.
`FairShare` holds of either strategy for a balancer while no other one of its server
type is asked and its list does not change; of weights also only while
requests come one at a time and no weight is negative, and it counts from the
first turn of that list, not the requests answered in the rest of an older one.
`TurnsEnd` has the last two conditions.  `Contained` excepts a second `Execute` on an object,
an object made before another one's `Execute` or destructor, scripts without the
three functions, exceptions in `execute` or `postExecute`, params that are no UTF-8,
and answers that have none.  `LinesAreFaithful`
is about buffers without NUL whose carriage returns have their line feed.

### Bounds, and why they are enough

- `ThreadPool`: 3 workers, 3 tasks.  A stop task can be stolen by a worker
  that is joined next or later, while a third one runs a task that pushes another.  The safety
  properties are also proved for every number of both.
- `CachedFileList`: 3 strings, `MaxLines` = 4, all five kinds of failure.  A
  string can be added, removed and added again around others, and compacted.
- `BasicAuthentication`: a token and a string that is none, one client,
  `Expiration` = 1, `MaxTime` = 2: the token is valid, expires and is dead.  One
  checking client is enough, as a check changes nothing that another reads.  The
  disk fills up, and refuses to `unlink` and to `rename`; `MaxLines` = 2 holds a
  token and its removal.  Files open, or else no dead token need ever leave the
  list (`DeadTokensLeave`); that the safety properties hold on a disk whose files may
  not open is proved.
- `Logger`: 2 callers, `Count` = 2, `LastDay` = 1, every type.  Both callers can
  make a Logger, a queue can hold two messages when the date changes or a write
  fails, and a caller's order shows with two messages.
- `LoadBalancer`: 2 threads, 2 balancers of one server type, weights -1 to 2,
  `MaxServers` = 2, `MaxRequests` = 4.  Two threads are enough for every race on a
  static, two balancers to leave the index beyond the other's vector, and four
  requests for a round of two servers of weight two.
- `MemoryMappedListFile`: 3 threads, 2 values and a piece of one, write streams that do
  not open or fail midway and loads that throw; the lost change needs two threads and
  two values.
- `PluginRegistry`: 3 libraries, one path containing another's name and one too
  short for a class, 2 threads, `MaxCommands` = 3: more than classes.
- `SimpleScheduler`: 3 tasks, `MaxTime` = 2; the vector moves at lengths 1 and 2.
- `AfcasAuthorization`: 2 proxies, three documents (small, with one operation more,
  broken), three requests, two kinds of server.
- `TextReaders`: `MaxHops` = 2: a message and its relay; headers before and behind
  `Content-Length`; values with blanks and colons, bodies with every line end.
  Every buffer of up to 6 characters over CR, LF, NUL and another, with `Limit` = 4
  in the place of 1024: buffers with several lines, and lines that fill the array.
- `PythonInterpreter`: 2 objects, a good script, one without `execute` and three with
  names that are no functions, `MaxCalls` = 2 calls that leave by an exception.

Symmetry is used where only invariants are checked and members of the set are
interchangeable, or where the one action property is symmetric in them: threads and
balancers in `LoadBalancer`, objects in `PythonInterpreter`, threads in
`PluginRegistry`.  Deadlock is not checked where a system may stop: the pool is
gone, the process is dead, a Python call is undefined, a caller has used up its messages, `start` has
returned, or a bound on a counter is reached.

### Fairness

- `ThreadPool`: weak fairness of the owner and of each worker.  A thread that
  can run does; it includes that a task returns or throws.
- `BasicAuthentication`: of the compaction thread and the return of the
  destructor.  `sleep_for` ends.
- `Logger`: of each caller inside a `LOG` macro and of each log thread.  Not of
  `Check`: nobody has to log.  Not of spurious wakeups, failures and rollovers.
- `SimpleScheduler`: of the loop, and of time.

Clients, crashes, failures and administrators are never fair.  No strong fairness is used.

## Proofs

Each theorem holds for every value of the constants that satisfies the `ASSUME`
of its module.  The assumptions are as weak as the code allows: bounds are natural
numbers, null values are none of the others, `Faults` are those the model has,
libraries are listed in an order, the characters include the line ends.
Beyond them, some theorems say what they assume: `NothingDangles`, that every
document declares what its predicates name (`Consistent`); those of the HTTP
messages, what texts a program sets (`CallersTexts`, `CleanContent`, see below).

**`ThreadPoolProofs`**, for every `NThreads` and every set of tasks:

| Theorem | Says | Argument |
|---|---|---|
| `Typing` | `[]TypeOK` | inductive as it stands; no run repeats it |
| `WakeupsNotLost` | `[]NoLostWakeup` | inductive with `TypeOK`, by the cardinality of `Poppers` |
| `PillsAccounted` | `[]StopAccounting` | inductive with `TypeOK`: where the stop tasks are in each phase |
| `StolenPillIsFinal` | `StolenForever` | by action, with `TypeOK`: the owner is in `join` and pushes no other stop task |
| `EachTaskOnce` | `[]ExactlyOnce` | inductive with `TypeOK` |
| `AcceptedFirst` | `[]AcceptedBeforePills` | a conjunct of `Drain` |
| `Drained` | `[]DrainedWhenGone` | from `Drain` when every worker has returned |
| `ImplementsTaskPool` | `PromiseSpec` | every action is a step of `TaskPool` or a stutter, from all of the above |

`DrainedWhenGone` is not inductive: it speaks of the end only.  `Drain` adds
`AcceptedBeforePills` (no accepted task is queued behind a stop task, and none is
queued any more once a worker has returned) and that what was accepted had been
pushed.  It is inductive with `StopAccounting`, by which at most one stop task
exists and every worker has returned when the destructor does, and `ExactlyOnce`,
by which a pushed task that is neither queued nor in a hand is finished.
`StopAccounting` and `AcceptedBeforePills` serve the other theorems; no run repeats them.
The refinement takes `Waiting`, the queue without its stop task, for the backlog: `WaitingAfterPush`
and `WaitingAfterTake` say how each queue operation changes it.

The other modules:

| Theorem | Says | Inductive invariant |
|---|---|---|
| `BasicAuthenticationProofs`: `CacheAgreesWithFile`, `RemovedStaysRemoved`, `ListOnDisk` | `Agreement`, `NoResurrection`, `Recoverable` | `ListInvariant`: no string has two live lines (`Unique`), the copy holds the live lines before the next one (`Copied`) and all of them before the rename (`Renamed`); it holds until a start could not read the whole file, and leaves out strings whose mark failed (`Clean`) |
| `BasicAuthenticationProofs`: `ImplementsDurableSet` | `DurableSpec` | by action, from `ListInvariant` |
| `BasicAuthenticationProofs`: `RevokedIsKept` | `KeptWhileValid` | `KeptUnlessLost`: what is listed, revoked or about to be erased is a string a client has held, and what is erased cannot verify again (`Kept`), until the list is lost |
| `BasicAuthenticationProofs`: `RevokedIsRejected` | `RevokedRejected` | `Checks`, with `KeptUnlessLost`: a late check that passed the lookup holds a token that does not verify |
| `MemoryMappedListFileProofs`: `MemoryAgreesWithFile` | `QuiescentAgreement` | `EmptyFileEmptyList`: an empty file that was written stands for an empty list until somebody changes it |
| `MemoryMappedListFileProofs`: `AloneTakesEffect` | `SoloTakesEffect` | `SoloState`: what an operation that is alone leaves between its sections |
| `LoggerProofs`: `SleepersAreWoken` | `SleeperHasNotifier` | inductive with `Places`: which Loggers exist and who may have them |
| `LoggerProofs`: `MessagesHaveOneHome`, `WrittenInOrder` | `OneHome`, `CallerOrder` | `Homes` (queues are in order and share no message) and `Order` (with one Logger what is written precedes what is queued) |
| `LoadBalancerProofs`: `SubscriptIsInside`, `TurnsAreFinite`, `StuckIsFinal` | `SubscriptInside`, `TurnsEnd`, `StuckForever` | `BalancerInvariant`: what a thread takes for the index is inside its vector; until a request strays, the index is inside the list it is of, and a thread of another list moves it before it uses it (`WeightedInside`); alone, a thread has seen the statics as they are (`WeightedTurns`) |
| `LoadBalancerProofs`: `SharesAreFair` | `FairShare` | the same, with `RoundShares` and `WeightedShares`: from the next server on, the number of turns served never grows by going back and differs by one at most (`Laps`) |
| `PluginAndSchedulerProofs`: `TasksRunOnce`, `NothingDueIsLeft` | `RunOnce`, `PassLeavesNothingDue` | `SchedulerInvariant`: what a pass has gone by is not yet due (`Passed`), and every task added is in the vector or has been called, at most once unless it threw (`Accounted`) |
| `PluginAndSchedulerProofs`: `CommandsOfTheirClass`, `NullIsExplained` | `RightClass`, `NullHasReason` | `RegistryInvariant`: a command is stored under the class it was created for (`StoredRight`), and `NullExplained` says, for every place of `loadPlugin`, why a null may be there |
| `PluginAndSchedulerProofs`: `CreatedOnceUnlessRaced` | `LoadedOnce` | the same, with `CreatedOnce`: a class that nobody raced for is being created by one thread only and has one command, which is stored or about to be |
| `InterpreterAndReaderProofs`: `ModuleReleasesCounted` | `ReleasesCounted` | `References`: where each reference to a module is, at every point of `Execute`, with those already given away for names that are no functions (`Given`) |
| `InterpreterAndReaderProofs`: `HarmContained` | `Contained` | the same, with `Survivors`: without an interpreter every object is stale |
| `InterpreterAndReaderProofs`: `NothingIsLost` | `LinesAreFaithful` | `LinesInvariant`: the types, an index inside a clean buffer, and `LinesAreFaithful` itself, over lemmas on `Plain` and the first line end |
| `InterpreterAndReaderProofs`: `RequestsArrive`, `RelaysChangeNothing` | `RequestArrives`, `RelayIsFaithful` | `RequestInvariant`: what is on the wire is `RequestToString` of what was sent, and what came from a parser has its blanks where a parser leaves them (`FromParser`) |
| `InterpreterAndReaderProofs`: `ResponsesArrive` | `ResponseLosesNothing` | `ResponseInvariant`: the same for responses, whose values may have carriage returns from earlier hops |
| `AfcasAuthorizationProofs`: `ReadyHaveMigrated`, `AuthorizedWereGranted` | `ReadyMeansMigrated`, `AuthorizedMeansGranted` | `Progress` and `Asking`: what is set out for is done, undone by others, or still to do |
| `AfcasAuthorizationProofs`: `NothingDangles` | `NoDanglingPredicate` | `Whole`, with `Progress`: what is still to post is sorted, so the parts of a predicate come first |

The weighted balancer counts requests, and a turn is as many of them as a weight
says.  `WeightedShares` therefore speaks of numbers of turns: those of every server but
the current one are complete, and the current turn has as many requests due as
the phase of `selectServer` says (`StillDue`).  `TurnsAreShares` takes that to the
products of counts and weights of `ProportionalToWeight`.

`LinesAreFaithful` compares with `Plain`, a recursive function over the length of a text.
Its value for an appended text (`PlainOfConcat`) needs an induction; as the provers cannot
instantiate an induction theorem on a predicate, `NaturalInduction` states induction for the set of
numbers with a property, and follows from the well-foundedness of `<`.

The round trip of an HTTP message is proved for all texts, headers and bodies of
any length, and any number of hops.  The argument follows the code: `Sorted` enumerates the
keys in the order of the `std::map`, since `Before` is a strict total order on texts;
`FlattenSeq` of the header lines is a text whose `Parts` are those lines
(`BlockParts`); no blank line is inside it (`BlockNoBlank`), so `find` cuts where
`to_string` had joined (`RequestCut`); each line read gives back its key and its
value (`ReadLine`, `ResponseLineCut`), and the loop over them all headers
(`ParsedBlock`, `ResponseResult`).  `trim` takes the blanks behind a value off for the last
key only, the one line without a carriage return; `Canonical` is what that leaves, and a
hop does not change it.  Recursive functions (`Parts`, `FlattenSeq`, the header loop) are taken
apart by `RecursionExists` and `RecursionUnique`, with induction as above.

What these theorems assume of a program is `CallersTexts`: a key is one or more words
without separators, a value has no line end, a start is a method with a path
or a status code, and a length is written as a word.  The parsers give no
such promise, so that it has to survive every hop is part of the proof.  The two theorems on requests also
assume that a body has `CR LF CR LF` at most at its beginning (`CleanContent`).
Without this they are false: `string_to_request` takes the first blank line behind
the first line end for the end of the headers, so that a request whose headers
have been removed and whose body is `x SP CR : x CR LF CR LF x` arrives with headers
made of its body, a key that ends with a blank among them, which the next hop trims.  The
constants of the run `TextReaders` satisfy both hypotheses, for the lengths that occur in it.

Only checked by TLC: liveness (`DestructorEnds`, `AcceptedTaskRuns`,
`EveryMessageSettles`, `DeadTokensLeave`, `DestructorReturns`, `EveryTaskRuns`),
which the prover does not reach.

## Findings

`MemoryMappedListFileLost`: `add`, `remove` and `removeList` release the mutex
before `writeToFile` and again before `loadFromFile`.  A thread that loads a
file written before another thread's change drops that change from memory.  The
comment at `authentication/MemoryMappedListFile.h:124` has it that the load is
there to reflect changes.

Other things the models contain because the code does them, and that the
properties name as exceptions: two Loggers when two threads log first
(`logger/Logger.h:75`); the static index shared by balancers of one server type
(`load_balancer/RoundRobinStrategy.h:10`), which makes two balancers used in
turn skip servers; the weighted turn that goes on in another list, or behind its end
(`load_balancer/WeightedRoundRobinStrategy.h:26`); the string that `remove` forgets
although its mark was not written (`authentication/CachedFileList.h:81`); the
null pointer that `GetType` inserts and then serves
(`TypeFactory.cpp:18`); the line feed that `string_to_response` adds to a body
and the carriage return it keeps in values (`http/http_message.cpp:311`, `:299`);
the headers that `string_to_request` reads from a body when there are none
before it (`http/http_message.cpp:230`);
the weighted counter that two threads take below zero, after which every later
request has the same index (`load_balancer/WeightedRoundRobinStrategy.h:18`);
the interpreter that the first `Execute` ends for every object
(`util/PythonInterpreter.cpp:153`), and the results of `execute()` and
`postExecute()` that are used when they are null (`:101`), as is a text without
UTF-8 (`:17`, `:46`).

## Not modelled, and why

- `ProtocolHelper`, `network_utils`, `ThreadUtils`, `UuidGenerator`: one library call each.
- `ComputationContext`, `Pipeline`, handlers, `Principal` and the like: a map,
  interfaces and records.
- `Payload`: constructors of packets.  What sends, receives and puts them in
  order is not in this repository.
- `RandomStrategy`: no state of its own.  `uri.h`: stores a path.
- `hardware_concurrency() - 1` in `ThreadPoolSingleton`, the format of log
  lines, JSON and JWT contents.
- A library without a create function, or whose function returns null: no plugin.
  A result of a Python function whose truth value raises an exception.
- What a data race does inside a container: an access is one step here.
- `addTask` from another thread while `start` runs, for the same reason.
- `nlohmann`, `unittest.h`, `endian_utils.h`: third-party code.  `nlohmann/json.hpp`
  alone has five of six lines of the repository.

## Plan

Done, in this order: the thread pool with its proofs; the two lists and the
authentication over one of them; the logger; the balancers; the registry; the
scheduler; the authorization; the HTTP messages; the Python interpreter and the
line grabber; the weighted balancer under races; the lists on disks that fail;
the proofs of the list, the authentication, the memory-mapped list, the Python
interpreter, the balancers with their shares, the authorization, the logger, the
registry, the scheduler, the line grabber and the HTTP messages; the refinements
of `TaskPool` and `DurableSet`.

Every safety invariant and every action property that a passing run checks is now stated by a
theorem.  What is left to TLC is liveness.
