SPECIFICATION FairSpec
CONSTANTS
  p1 = p1
  p2 = p2
  Pids = {p1, p2}
  Running <- OneRunning
  Tasks = {t1, t2}
  r1 = r1
  r2 = r2
  red = red
  Refs = {r1, r2}
  Tags = {red}
  NoRef = NoRef
  NoTask = NoTask
  Requests <- HostRequests
  MaxRestarts = 0
  MaxCrashes = 1
  MaxSubFails = 1
  MaxBusy = 1
PROPERTIES
  RequestsEnd
  HostSettles
  StartsSubscribed
