SPECIFICATION FairSpec
CONSTANTS
  Modules = {m1, m2}
  Callers = {c1, c2}
  Tasks = {t1, t2}
INVARIANT NoLostWakeUp
PROPERTIES TaskRuns WakeUpHeard StopReturns
CHECK_DEADLOCK FALSE
