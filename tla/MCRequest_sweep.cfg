\* Two cached paths with different times to live, swept while in use.
CONSTANTS
  p1 = p1
  p2 = p2
  p3 = p3
  alice = alice
  short = short
  long = long
  empty = empty
  Procs = {p1, p2}
  Uid <- OneUser
  Paths = {a, b}
  Versions = {short}
  Codes = {404}
  Failures = {}
  Inodes = {i1, i2, i3}
  cache = TRUE
  cached_enable = FALSE
  query_wrapper = TRUE
  cache_ttl = 2
  negative_cache_ttl = 1
  request_locktime = 1
  request_retry = 0
  MaxClock = 3
  Root = root
  MayCrash = {}
  Chunks <- OneTwo
  None = None
  Junk = Junk
  Hole = Hole
  ULONG = 100
SPECIFICATION Spec
SYMMETRY PathSymmetry
INVARIANTS ImportIsFresh
PROPERTIES SweepJustified
