SPECIFICATION FairSchedulerSpec
CONSTANTS
  Tasks = {t1, t2, t3}
  Times = {0, 1, 2}
  MaxTime = 2
INVARIANTS RunOnce PassLeavesNothingDue
PROPERTIES EveryTaskRuns
\* start() may have ended, or the vector have moved under the loop.
CHECK_DEADLOCK FALSE
