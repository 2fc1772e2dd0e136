\* The row of the audit trail is rejected.
SPECIFICATION Spec
CONSTANTS
  i1 = i1
  Imports = {i1}
  Rotated = {}
  Embedded = {i1}
  Strict = TRUE
  Grace = 1
  Faults = {}
  MaxIntents = 0
  MaxEmbeds = 1
  MaxBacklog = 1
  MaxFaults = 0
INVARIANTS
  AuditChain
