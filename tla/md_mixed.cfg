SPECIFICATION FairSpec
CONSTANTS
  link = link
  claimA = claimA
  claimB = claimB
  claimC = claimC
  refmap = refmap
  v1 = v1
  v2 = v2
  prov1 = prov1
  prov2 = prov2
  Values = {v1, v2}
  Providers = {prov1, prov2}
  ProviderOf <- TwoProviders
  Aliases = {"alias", "a"}
  Usable = {"alias"}
  AliasOf <- SharedAlias
  NoValue = NoValue
  NoKey = NoKey
  NoJob = NoJob
  Hosts = {h1, h2}
  Tasks = {t1, t2}
  LinkKeys = {link}
  ClaimKeys = {claimA, claimB, claimC}
  RefKeys = {refmap}
  Requests <- MixedRequests
  MaxWrites = 2
  MaxCrashes = 1
  MaxFailed = 1
  MaxLost = 1
INVARIANTS
  TypeOK
  CachesAgree
  AliasResolves
  ProviderInformed
PROPERTIES
  StoredReachesAll
  RegistersKept
CHECK_DEADLOCK FALSE
