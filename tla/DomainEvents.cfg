\* Two handlers; others write, a request fails, libvirtwatcher crashes and starts again.
CONSTANTS
  h1 = h1  h2 = h2  h3 = h3  c = c  m = m
  Cmds = {c, m}
  None = None
  Handlers = {h1, h2}
  Nobody = Nobody
  MigrateCmds = {m}
  HA = TRUE
  UpdateTries = 2
  StartTries = 2
  MaxVm = 2
  MaxWrites = 1
  MaxFaults = 1
  MaxCrashes = 1
SPECIFICATION FairSpec
INVARIANTS
  OneInside
  CaughtUp
PROPERTIES
  PushNeverStale
  EventsHandled
  RestartedOrReported
