\* The comment on the cold-start callback, against the deployed agent.
SPECIFICATION Spec
CONSTANTS
  Ceiling = 60
  BackoffStart = 1
  BackoffMax = 5
  SearchMax = 30
  LastWarmUp = 95
  Callers = {"tool"}
INVARIANT
  ColdStartTold
