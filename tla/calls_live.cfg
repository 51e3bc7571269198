SPECIFICATION FairSpec
CONSTANTS
  Calls = {c1, c2}
  Instances = {i1, i2}
  Workers = {w1}
  Providers = {}
  NoOne = NoOne
  MaxHostCalls = 1
  MaxLinkChanges = 0
  MaxFaults = 1
PROPERTIES
  ThreadsComeBack
