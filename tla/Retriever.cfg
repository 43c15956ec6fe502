\* The times of the code, in seconds, and OPENSEARCH_TIMEOUT's default.
SPECIFICATION Spec
CONSTANTS
  Ceiling = 60
  BackoffStart = 1
  BackoffMax = 5
  SearchMax = 30
  LastWarmUp = 95
  Callers = {"tool", "direct"}
INVARIANTS
  TypeOK
  WaitBounded
  WarmIsFound
  ToldOnce
PROPERTY
  RetrievalEnds
