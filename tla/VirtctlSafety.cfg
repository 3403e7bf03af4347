\* Requests fail, the watch closes, virtctl crashes and starts again.
CONSTANTS
  t1 = t1  t2 = t2  a = a  b = b
  Cmds = {a, b}
  None = None
  Threads = {t1, t2}
  Unsupported = {}
  EventTries = 1
  UpdateTries = 1
  MaxVm = 1
  MaxFaults = 1
  MaxCloses = 1
  MaxLives = 1
SPECIFICATION Spec
SYMMETRY Symmetry
INVARIANTS
  NoReentry
  RunInOneLife
PROPERTY ImplementsCommandLife
