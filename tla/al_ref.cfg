SPECIFICATION Spec
CONSTANTS
  p1 = p1
  p2 = p2
  Pids = {p1, p2, p3}
  Running <- NoneRunning
  Tasks = {t1, t2}
  r1 = r1
  r2 = r2
  red = red
  Refs = {r1, r2}
  Tags = {red}
  NoRef = NoRef
  NoTask = NoTask
  Requests <- TwoRefRequests
  MaxRestarts = 0
  MaxCrashes = 0
  MaxSubFails = 0
  MaxBusy = 0
INVARIANTS
  OneReference
