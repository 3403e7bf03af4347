\* No fault but the loss of the masters; one crash or restart.
CONSTANTS
  h1 = h1  h2 = h2  v1 = v1
  Hosts = {h1, h2}
  Reporters = {h1}
  Vms = {v1}
  HaVms = {v1}
  Unknown = Unknown
  NMasters = 2
  MaxFaults = 0
  MaxCuts = 1
  MaxBoots = 1
  MaxChanges = 1
SPECIFICATION FairSpec
CHECK_DEADLOCK FALSE
PROPERTY HaVmRunsAgain
