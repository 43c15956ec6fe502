\* One connection: two messages of any kind, two tokens per query, one ping.
SPECIFICATION Spec
CONSTANTS
  MaxMessages = 2
  MaxTokens = 2
  MaxPings = 1
  ClientKinds = {"malformed", "invalid", "ping", "pong", "auth", "forged", "query", "audit", "binary"}
  Deployments <- MCDeployments
INVARIANTS
  TypeOK
  IInv
  AuthBeforeAnything
  AnswersAreHonest
  OrphansOnlyAfterCut
PROPERTY
  KeepsPromise
