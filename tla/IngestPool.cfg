\* Two workers that may come to own one file, good or bad; one fault.
SPECIFICATION Spec
CONSTANTS
  p1 = p1
  p2 = p2
  c1 = c1
  c2 = c2
  bad = bad
  NoFile = NoFile
  Torn = Torn
  w1 = w1
  w2 = w2
  Paths = {p1}
  Contents = {c1, bad}
  Corrupt = {bad}
  Fingerprint <- Exact
  Feed <- SameAndBad
  Workers = {w1, w2}
  MaxRetries = 2
  PollInterval = 1
  FastFingerprint = FALSE
  CrossDevice = FALSE
  CacheLimit = 1
  Faults = {"crash", "connect", "lookup", "convert", "move"}
  UserEdits = FALSE
  MaxDrops = 1
  MaxFaults = 1
  MaxQueue = 2
  MaxSeq = 6
  QueueSize = 1
SYMMETRY WorkerSymmetry
INVARIANTS
  ImportHasDng
PROPERTIES
  NumberingSpec
  DeadLetterDeserved
