SPECIFICATION RoundTripSpec
CONSTANTS
  Writers = {}
  Profiles <- ResetTexts
  MaxQueue = 24
  ResetAnywhere = TRUE
PROPERTIES
  ResetStartsOver
