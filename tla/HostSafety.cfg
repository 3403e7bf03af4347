\* One reporter beside a peer, one VM with HA, one master; one fault, one cut,
\* one crash or restart, one change.
CONSTANTS
  h1 = h1  h2 = h2  v1 = v1
  Hosts = {h1, h2}
  Reporters = {h1}
  Vms = {v1}
  HaVms = {v1}
  Unknown = Unknown
  NMasters = 1
  MaxFaults = 1
  MaxCuts = 1
  MaxBoots = 1
  MaxChanges = 1
SPECIFICATION Spec
CHECK_DEADLOCK FALSE
INVARIANTS
  TypeOK
  ForeignGone
PROPERTIES
  StateNeverOlder
  EnabledAfterCheck
