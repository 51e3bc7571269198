SPECIFICATION Spec
CONSTANTS
  f1 = f1
  f2 = f2
  r1 = r1
  s1 = s1
  b1 = b1
  b2 = b2
  b3 = b3
  p1 = p1
  p2 = p2
  Fetchers = {f1, f2}
  Refs = {r1, s1}
  Images = {r1}
  Blobs = {b1, b2, b3}
  Pushed <- PushedBlobs
  Paths = {p1, p2}
  PathOf <- TwoPaths
  Latest = {}
  AllowLatest = FALSE
  Subject <- OneSubject
  Rev <- Revisions
  Iat <- Issued
  RevWidth = 8
  MaxMoves = 2
  MaxFetches = 3
SYMMETRY Interchangeable
INVARIANTS
  TypeOK
  UndisturbedFetch
  RunsRequested
