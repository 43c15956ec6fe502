\* Liveness of the deployed configuration, logged in.
SPECIFICATION FairSpec
CONSTANTS
  MaxMessages = 2
  MaxTokens = 1
  MaxPings = 1
  ClientKinds = {"ping", "query", "audit"}
  Deployments <- LoggedIn
PROPERTIES
  QueryEnds
  HandlerEnds
  MessagesAreTaken
