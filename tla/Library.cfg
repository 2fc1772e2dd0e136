\* Start-ups over a library the user brings, two workers, two faults; the
\* last photo done, the process only waits.
SPECIFICATION FairSpec
CONSTANTS
  w1 = w1
  w2 = w2
  Workers = {w1, w2}
  Faults = {"crash", "connect", "versions", "statement", "legacy", "cleanup", "alloc", "commit", "convert", "insert"}
  MaxLibrary = 3
  MaxPhotos = 2
  MaxFaults = 2
  MaxSeq = 10
CHECK_DEADLOCK FALSE
INVARIANTS
  TypeOK
  NumberHasRow
  SchemaComplete
  NumbersNeverCollide
PROPERTIES
  NumberingSpec
  ComesUp
