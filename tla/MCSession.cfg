CONSTANTS
  Files <- FileSet
  MAX_PATIENTS = 2
  MAX_SALESREPS = 1
  N = 5
  Asst = Asst
  Doctor = Doctor
SPECIFICATION FairSpec
\* The assistant may miss a signal, and the session ends.
CHECK_DEADLOCK FALSE
INVARIANTS
  TypeOK
  UnlockedDataSafe
  DismissedForGood
  NobodyForgotten
PROPERTIES
  InTurn
  QueueSpec
  SessionEnds
