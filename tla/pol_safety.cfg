SPECIFICATION FairSpec
CONSTANTS
  Tasks = {t1, t2}
  k1 = k1
  k2 = k2
  Keys = {k1, k2}
  Invalid = {k2}
  NoKey = NoKey
  NoJob = NoJob
  MaxRequests = 2
  MaxChanges = 2
  MaxRestarts = 1
CHECK_DEADLOCK FALSE
INVARIANTS
  TypeOK
  PermittedByServer
  OverrideStands
  AgreesAtRest
PROPERTIES
  WithdrawnEventually
