SPECIFICATION Spec
CONSTANTS
  NumThreads = 2
  Works <- MCWorks
  Children <- MCChildren
  Clients <- MCStandardAndSteal
CHECK_DEADLOCK FALSE
INVARIANTS
  TypeOK
  ExecutedOnce
  StandardAsserts
PROPERTIES
  JoinsAll
  Terminates
