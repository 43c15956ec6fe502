\* Two commands and one failure; the context of cdk.json, a release over it,
\* another processor, and a request that is refused.
SPECIFICATION Spec
CONSTANTS
  Regions = {"us-east-1"}
  InstanceNames = {"demo"}
  RuntimeNames = {}
  EnvRegion <- Here
  Requests = {"base", "next", "arm", "half"}
  Context <- Contexts
  Source <- Directories
  Sources = {"v1", "v2"}
  NoRequest = NoRequest
  NoBuild = NoBuild
  NoStack = NoStack
  Rank <- ByName
  MaxCommands = 2
  MaxFaults = 1
  Failures = {"FAILED"}
INVARIANTS
  TypeOK
  StandsOnItsNeeds
  AsRequested
  PathWhole
  ServedThroughout
  DemoUserReady
PROPERTIES
  ImagesKept
  CommandEnds
CHECK_DEADLOCK FALSE
