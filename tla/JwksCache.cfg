\* Two verifications at a time, a rotation, and time for the cache to expire.
SPECIFICATION Spec
CONSTANTS
  Calls = {c1, c2}
  Kids = {k1, k2}
  FirstKid = k1
  Unknown = unknown
  Malformed = malformed
  TTL = 2
  FetchMax = 1
  MaxTime = 3
INVARIANTS
  TypeOK
  RefreshFindsKey
PROPERTIES
  RetiredKeysDie
  CallsEnd
