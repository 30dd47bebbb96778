SPECIFICATION FairSpec
CONSTANTS
  Threads = {t1, t2, t3}
INVARIANTS CountersExact WriterHasWaker
PROPERTIES ImplementsRWLock WritersProgress
