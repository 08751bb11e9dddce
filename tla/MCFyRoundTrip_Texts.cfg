SPECIFICATION RoundTripSpec
CONSTANTS
  Writers <- AllTrees
  Profiles <- AllTexts
  MaxQueue = 24
  ResetAnywhere = FALSE
INVARIANTS
  TypeOK
  ScannerAgrees
  NoInternalError
PROPERTIES
  EventsAreATour
  Terminates
  ReadsBack
