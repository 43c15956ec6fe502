\* The times of the code; three requests, one of them delivered again.
SPECIFICATION Spec
CONSTANTS
  Docs = {d1, d2}
  Revisions = {1, 2}
  Slow <- SlowSteps
  Fast <- FastSteps
  ActiveWait = 12
  DataPlaneWait = 10
  BackoffMax = 1
  Limit = 30
  MaxRequests = 3
  MaxAgain = 1
INVARIANTS
  TypeOK
  SuccessIsUsable
  SeedsOnce
  DeleteAnswers
  CleanDelete
  FailsForAReason
