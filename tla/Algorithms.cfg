\* Every input of up to a few parts, until it cannot grow.
SPECIFICATION Spec
CONSTANTS
  MaxParts <- Small
CHECK_DEADLOCK FALSE
INVARIANTS
  SplitBetweenStatements
  FieldsAreRead
  ThumbnailIsLargest
  BucketsCount
