\* Two workers, a photo with a date and one without, two faults.  When it
\* has stopped, it has stopped.
SPECIFICATION FairSpec
CONSTANTS
  f1 = f1
  f2 = f2
  w1 = w1
  w2 = w2
  Files = {f1, f2}
  Dated = {f1}
  Workers = {w1, w2}
  Enabled = TRUE
  Timeout = 1
  Faults = {"fork", "die", "tool"}
  MaxFaults = 2
CHECK_DEADLOCK FALSE
INVARIANTS
  TypeOK
  OwnDate
  NoNeedlessFallback
  ConvertedIsWhole
  NoChildLeft
PROPERTIES
  ComesUp
  FileFinished
  WorkerStops
