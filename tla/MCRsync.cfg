CONSTANTS
  Paths <- MCPaths
  Blocks = {"x", "y"}
  MaxLen = 2
  Times = {1, 2}
  Now = 2
  Modes = {"rw-r--r--", "rw-rw-rw-"}
  Masked <- MCMasked
  Sources <- MCSources
  Targets <- MCTargets
  MaxStops = 1
SPECIFICATION Spec
\* The program ends.
CHECK_DEADLOCK FALSE
INVARIANTS
  TypeOK
  Mirrors
  NeverAway
PROPERTY SecondRunIdle
