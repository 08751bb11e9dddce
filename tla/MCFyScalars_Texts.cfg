SPECIFICATION MCSpec
CONSTANTS
  Sources <- MCSources
  Others <- MCOthers
  Requests <- MCRequests
  LineWidth = 5
INVARIANTS
  ReadsMeaning
  ComparesTexts
  WrittenReadsBack
\* A scalar is read to its end.
CHECK_DEADLOCK FALSE
