CONSTANTS
  Programs = {"ls"}
  Unknown = {"swap", "role", "ex", "it"}
  SwapTexts <- RunTogetherToSwap
  ExitTexts <- RunTogetherToExit
  MaxTyped = 5
SPECIFICATION Spec
\* The windows may wait for ever, and the commands are bounded.
CHECK_DEADLOCK FALSE
INVARIANTS
  OneInput
  InOrder
PROPERTY GoesOn
