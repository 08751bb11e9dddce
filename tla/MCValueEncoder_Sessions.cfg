SPECIFICATION MCSpec
CONSTANTS
  Keys = {"a", "b"}
  MaxEncoders = 3
  MaxContainers = 3
  MaxCalls = 2
  MaxItems = 2
  NestInNested = TRUE
  RollUpThrows = TRUE
  ClientSwallows = TRUE
  LexicalRelease = FALSE
INVARIANTS
  TypeOK
  InsertInBounds
  CodecsNeverTrap
  FlatErrorsReported
PROPERTIES
  DelayedErrorRethrown
  KeyOrderKept
  CodecsBuildTree
\* encodeTree returns once.
CHECK_DEADLOCK FALSE
