\* One worker, two names, the same or different photos whose fingerprints do not
\* tell them apart, the cache with room for one entry, rows that cannot be
\* inserted, moves that fail and a crash.
SPECIFICATION Spec
CONSTANTS
  p1 = p1
  p2 = p2
  c1 = c1
  c2 = c2
  bad = bad
  NoFile = NoFile
  Torn = Torn
  w1 = w1
  Paths = {p1, p2}
  Contents = {c1, c2}
  Corrupt = {}
  Fingerprint <- Blind
  Feed <- EitherPhoto
  Workers = {w1}
  MaxRetries = 2
  PollInterval = 1
  FastFingerprint = TRUE
  CrossDevice = TRUE
  CacheLimit = 1
  Faults = {"crash", "insert", "move", "range"}
  UserEdits = FALSE
  MaxDrops = 1
  MaxFaults = 1
  MaxQueue = 2
  MaxSeq = 4
  QueueSize = 1
INVARIANTS
  OneImportPerPhoto
  NoOriginalLost
  RecordMatchesConversion
  DuplicateWasImported
