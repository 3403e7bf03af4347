\* No request fails: what becomes of a result when a second command is posted.
CONSTANTS
  t1 = t1  t2 = t2  a = a  b = b
  Cmds = {a, b}
  None = None
  Threads = {t1, t2}
  Unsupported = {}
  EventTries = 1
  UpdateTries = 1
  MaxVm = 0
  MaxFaults = 0
  MaxCloses = 0
  MaxLives = 0
SPECIFICATION Spec
INVARIANT ResultWritten
