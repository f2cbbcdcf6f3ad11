\* Two processes of up to three pages, two frames: illegal pages, local
\* replacement, and a process that starts without a frame.
CONSTANTS
  K = 2
  M = 3
  F = 2
  MaxRefs = 6
SPECIFICATION FairSpec
\* With answers exchanged everybody may wait for ever (Termination).
CHECK_DEADLOCK FALSE
INVARIANTS
  TypeOK
  OneCpu
  RightUnlessOvertaken
  OneAnswerPerRequest
  RetryFindsPage
  CleanupUnlessOvertaken
PROPERTIES
  EndsUnlessOvertaken
