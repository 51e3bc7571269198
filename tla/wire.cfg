SPECIFICATION Spec
CONSTANTS
  p1 = p1
  p2 = p2
  k1 = k1
  k2 = k2
  b1 = b1
  b2 = b2
  c1 = c1
  c2 = c2
  Calls = {c1}
  Ids = {c1, c2}
  Processes = {p1, p2}
  Buckets = {b1, b2}
  Entities <- Spellings
  ActorKeys = {"Mxx"}
  Fold <- Lower
  Issuers = {k1, k2}
  Trusts <- Trusted
  Key <- OwnKey
  None = None
  MaxLength = 3
  NativeThreshold = 1
  HostThreshold = 2
  MaxFaults = 2
INVARIANTS
  ArrivesAsSent
  NothingLeftBehind
CHECK_DEADLOCK FALSE
