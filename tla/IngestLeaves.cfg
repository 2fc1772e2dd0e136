\* Liveness: one worker, a good and a bad photo under one name, one fault.
SPECIFICATION FairSpec
CONSTANTS
  p1 = p1
  p2 = p2
  c1 = c1
  c2 = c2
  bad = bad
  NoFile = NoFile
  Torn = Torn
  w1 = w1
  Paths = {p1}
  Contents = {c1, bad}
  Corrupt = {bad}
  Fingerprint <- Exact
  Feed <- SameAndBad
  Workers = {w1}
  MaxRetries = 2
  PollInterval = 1
  FastFingerprint = TRUE
  CrossDevice = FALSE
  CacheLimit = 1
  Faults = {"crash", "hash", "alloc", "convert", "move", "alert"}
  UserEdits = FALSE
  MaxDrops = 1
  MaxFaults = 1
  MaxQueue = 2
  MaxSeq = 6
  QueueSize = 1
PROPERTIES
  FileLeaves
  PhotoGetsImported
