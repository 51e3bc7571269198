SPECIFICATION Spec
CONSTANTS
  Calls = {c1, c2}
  Instances = {i1, i2}
  Workers = {w1, w2}
  Providers = {v1, v2}
  NoOne = NoOne
  MaxHostCalls = 1
  MaxLinkChanges = 1
  MaxFaults = 1
SYMMETRY Interchangeable
INVARIANTS
  TypeOK
  NoLostWakeup
  CallbackHoldsGuest
  RoutedByLink
PROPERTIES
  PromiseSafe
