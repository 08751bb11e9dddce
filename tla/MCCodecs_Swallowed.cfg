SPECIFICATION SwallowSpec
CONSTANTS
  Keys <- MCKeys
  Documents <- MCDocuments
  Converts = TRUE
  Convert <- MCConvert
  MaxDecoders = 3
  MaxHandles = 3
  MaxCalls = 3
  IntMax = 7
  Heads <- MCHeads
  MaxStream = 5
INVARIANTS
  NoSchemaTrap
\* A session ends.
CHECK_DEADLOCK FALSE
