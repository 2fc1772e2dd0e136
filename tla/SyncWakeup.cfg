\* The notification of Stop is lost on a manager that is about to wait.
SPECIFICATION FairSpec
CONSTANTS
  i1 = i1
  Imports = {i1}
  Rotated = {i1}
  Embedded = {i1}
  Strict = TRUE
  Grace = 2
  Faults = {}
  MaxIntents = 1
  MaxEmbeds = 0
  MaxBacklog = 1
  MaxFaults = 0
PROPERTIES
  RotationStops
