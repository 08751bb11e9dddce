SPECIFICATION Spec
CONSTANTS
  Keys = {"a"}
  MaxEncoders = 3
  MaxContainers = 4
  MaxCalls = 2
  MaxItems = 2
  NestInNested = TRUE
  RollUpThrows = TRUE
  ClientSwallows = FALSE
  LexicalRelease = TRUE
INVARIANTS
  DelayedErrorReported
\* encodeTree returns once.
CHECK_DEADLOCK FALSE
