\* One command; one request fails, the watch closes once, libvirtwatcher pushes once.
CONSTANTS
  t1 = t1  t2 = t2  a = a  b = b
  Cmds = {a}
  None = None
  Threads = {t1, t2}
  Unsupported = {}
  EventTries = 2
  UpdateTries = 2
  MaxVm = 1
  MaxFaults = 1
  MaxCloses = 1
  MaxLives = 0
SPECIFICATION FairSpec
INVARIANTS
  HandedOutOnce
  AnnouncedIsClosed
PROPERTIES
  LifecycleConsumed
  DoingBecomesDone
