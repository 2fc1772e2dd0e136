\* One worker, a name that comes back twice, the fingerprint cache, no fault and
\* nobody who touches a file under the worker: what is left is the cache.
SPECIFICATION Spec
CONSTANTS
  p1 = p1
  p2 = p2
  c1 = c1
  c2 = c2
  bad = bad
  NoFile = NoFile
  Torn = Torn
  w1 = w1
  Paths = {p1}
  Contents = {c1, c2}
  Corrupt = {}
  Fingerprint <- Exact
  Feed <- SameName
  Workers = {w1}
  MaxRetries = 2
  PollInterval = 1
  FastFingerprint = TRUE
  CrossDevice = FALSE
  CacheLimit = 1
  Faults = {}
  UserEdits = FALSE
  MaxDrops = 3
  MaxFaults = 0
  MaxQueue = 2
  MaxSeq = 5
  QueueSize = 1
INVARIANTS
  DuplicateWasImported
