\* One worker, a name used twice for different photos by a user who replaces and
\* removes files while they are processed, every call may fail (but the duplicate
\* query), the archive on another device, one fault.
SPECIFICATION Spec
CONSTANTS
  p1 = p1
  p2 = p2
  c1 = c1
  c2 = c2
  bad = bad
  NoFile = NoFile
  Torn = Torn
  w1 = w1
  Paths = {p1}
  Contents = {c1, c2}
  Corrupt = {}
  Fingerprint <- Exact
  Feed <- SameName
  Workers = {w1}
  MaxRetries = 2
  PollInterval = 1
  FastFingerprint = FALSE
  CrossDevice = TRUE
  CacheLimit = 1
  Faults = {"crash", "connect", "hash", "alloc", "convert", "insert", "move", "range", "alert"}
  UserEdits = TRUE
  MaxDrops = 2
  MaxFaults = 1
  MaxQueue = 2
  MaxSeq = 4
  QueueSize = 1
INVARIANTS
  TypeOK
  ImportHasDng
PROPERTIES
  NoDngOverwritten
