SPECIFICATION Spec
CONSTANTS
  Calls = {c1}
  Instances = {i1}
  Workers = {w1}
  Providers = {}
  NoOne = NoOne
  MaxHostCalls = 0
  MaxLinkChanges = 0
  MaxFaults = 0
INVARIANTS
  ErrorsAreReported
