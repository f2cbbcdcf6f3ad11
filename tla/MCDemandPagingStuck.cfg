\* Two processes of up to two pages: enough for one to get the other's answer.
CONSTANTS
  K = 2
  M = 2
  F = 2
  MaxRefs = 4
SPECIFICATION FairSpec
\* It is the hang that the run shows.
CHECK_DEADLOCK FALSE
PROPERTY Termination
