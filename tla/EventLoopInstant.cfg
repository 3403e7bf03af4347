\* One thread adds a timer.
CONSTANTS
  t1 = t1  t2 = t2
  Threads = {t1}
  LoopThread = LoopThread
  MaxOps = 1
  MaxTimerOps = 1
SPECIFICATION FairSpec
INVARIANT TimerIsAwaited
