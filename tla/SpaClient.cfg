\* Three turns over up to three sockets, one token to an answer.
SPECIFICATION Spec
CONSTANTS
  MaxTurns = 3
  MaxSockets = 3
  Length = 1
INVARIANTS
  TypeOK
  SentOnce
  OwnAnswer
PROPERTY
  WaitEnds
