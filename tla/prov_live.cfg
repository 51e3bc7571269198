SPECIFICATION FairSpec
CONSTANTS
  p1 = p1
  Pids = {p1, p2, p3}
  a1 = a1
  a2 = a2
  b1 = b1
  ka = ka
  kb = kb
  Refs = {a1, a2, b1}
  Keys = {ka, kb}
  KeyOf <- TwoProviders
  Running <- NoneRunning
  Tasks = {t1, t2}
  NoStart = NoStart
  Requests <- OverlapRequests
  MaxRestarts = 0
  MaxCrashes = 1
  MaxBusy = 1
PROPERTIES
  HaltedExits
  RequestsEnd
