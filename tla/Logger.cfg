SPECIFICATION FairSpec
CONSTANTS
  Callers = {c1, c2}
  Count = 2
  Types = {"", "FILE", "DB", "NET", "OTHER"}
  NoLogger = NoLogger
  LastDay = 1
  Faults = {"open", "sql", "send", "peer"}
INVARIANTS OneHome SleeperHasNotifier CallerOrder
PROPERTIES EveryMessageSettles
\* Every caller has logged its messages, or the process is dead.
CHECK_DEADLOCK FALSE
