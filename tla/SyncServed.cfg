\* Rotations and embeds of two photos, and any one call fails.
SPECIFICATION FairSpec
CONSTANTS
  i1 = i1
  i2 = i2
  Imports = {i1, i2}
  Rotated = {i1, i2}
  Embedded = {i1, i2}
  Strict = TRUE
  Grace = 1
  Faults = {"db", "race", "exiftool", "hash", "notify"}
  MaxIntents = 2
  MaxEmbeds = 1
  MaxBacklog = 1
  MaxFaults = 1
PROPERTIES
  IntentServed
  GraceKept
  RowsCoalesce
