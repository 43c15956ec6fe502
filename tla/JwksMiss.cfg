\* A valid token beside two tokens of unknown keys.
SPECIFICATION Spec
CONSTANTS
  Calls = {c1, c2, c3}
  Kids = {k1}
  FirstKid = k1
  Unknown = unknown
  Malformed = malformed
  TTL = 2
  FetchMax = 0
  MaxTime = 0
SYMMETRY CallSymmetry
INVARIANT
  PublishedKeyFound
