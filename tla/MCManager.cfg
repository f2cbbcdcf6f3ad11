CONSTANTS
  N = 2
  MaxKeys = 3
  MaxJobs = 3
SPECIFICATION Spec
\* The manager ends.
CHECK_DEADLOCK FALSE
INVARIANTS
  TypeOK
  StoppedIsListed
  TableRight
PROPERTY Prompted
