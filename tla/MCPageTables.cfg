\* Three frames for two processes of up to three pages: shares round down, and
\* faults find a free frame, a victim, or neither.
CONSTANTS
  K = 2
  M = 3
  F = 3
  MaxCount = 5
SPECIFICATION Spec
\* The bound on the timestamp stops the MMU.
CHECK_DEADLOCK FALSE
INVARIANTS
  FramesExclusive
  FreeListExact
PROPERTIES
  FramePoolSpec
  OperationsAreLru
