CONSTANTS
  n = 4
  Parent <- Four
  Input <- Powers
  csmtx = csmtx
  Main = main
  None = none
SPECIFICATION Spec
\* The threads may block each other, and the process ends.
CHECK_DEADLOCK FALSE
INVARIANTS
  SumsRight
  OnlyRootsGroupMissing
