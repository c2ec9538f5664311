SPECIFICATION FairSpec
CONSTANTS
  Tasks = {t1, t2, t3}
  NThreads = 3
  Stop = Stop
  None = None
INVARIANTS NoLostWakeup ExactlyOnce DrainedWhenGone
PROPERTIES StolenForever DestructorEnds AcceptedTaskRuns PromiseSpec
\* The pool may be gone, or the process dead.
CHECK_DEADLOCK FALSE
