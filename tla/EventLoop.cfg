\* One thread of libvirt beside the loop and its callbacks, four operations, of
\* which the first two may be about timers.
CONSTANTS
  t1 = t1  t2 = t2
  Threads = {t1}
  LoopThread = LoopThread
  MaxOps = 4
  MaxTimerOps = 2
SPECIFICATION FairSpec
INVARIANTS
  SleepsInformed
  HandleOpaqueAlive
PROPERTY NewsIsSeen
