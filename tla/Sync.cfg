\* Bursts of rotations of two photos and previews of a third, and a shutdown at
\* any time; nothing fails.
SPECIFICATION Spec
CONSTANTS
  i1 = i1
  i2 = i2
  i3 = i3
  Imports = {i1, i2, i3}
  Rotated = {i1, i2}
  Embedded = {i3}
  Strict = FALSE
  Grace = 2
  Faults = {}
  MaxIntents = 3
  MaxEmbeds = 2
  MaxBacklog = 2
  MaxFaults = 0
INVARIANTS
  TypeOK
  LastIntentWins
  OrientationAgreed
  NothingLeftBehind
  HashIsCurrent
  AuditChain
PROPERTIES
  FilesCoalesce
SYMMETRY RotatedSymmetry
