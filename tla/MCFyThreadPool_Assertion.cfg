SPECIFICATION Spec
CONSTANTS
  NumThreads = 2
  Works <- MCWorks
  Children <- MCChildren
  Clients <- MCSteal
CHECK_DEADLOCK FALSE
INVARIANTS
  SubmissionAccepted
