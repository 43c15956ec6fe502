\* What the code says of the proxy image, against one request that changes
\* the processor alone.
SPECIFICATION Spec
CONSTANTS
  Regions = {"us-east-1"}
  InstanceNames = {"demo"}
  RuntimeNames = {}
  EnvRegion <- Here
  Requests = {"base", "arm"}
  Context <- Contexts
  Source <- Directories
  Sources = {"v1", "v2"}
  NoRequest = NoRequest
  NoBuild = NoBuild
  NoStack = NoStack
  Rank <- ByName
  MaxCommands = 2
  MaxFaults = 0
  Failures = {"FAILED"}
INVARIANT ImageMatchesPlatform
CHECK_DEADLOCK FALSE
