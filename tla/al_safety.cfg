SPECIFICATION Spec
CONSTANTS
  p1 = p1
  p2 = p2
  Pids = {p1, p2, p3, p4}
  Running <- TwoRunning
  Tasks = {t1, t2}
  r1 = r1
  r2 = r2
  red = red
  Refs = {r1, r2}
  Tags = {red}
  NoRef = NoRef
  NoTask = NoTask
  Requests <- OverlapRequests
  MaxRestarts = 0
  MaxCrashes = 1
  MaxSubFails = 0
  MaxBusy = 1
SYMMETRY Interchangeable
INVARIANTS
  TypeOK
  HaltsWithinRequest
  HaltsMatchAnnotations
  EventsMatchInstances
  HaltBeforeUnsubscribe
PROPERTIES
  UndisturbedStart
  UndisturbedStop
