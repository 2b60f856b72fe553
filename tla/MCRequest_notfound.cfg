\* One process: a failed request is answered as not found afterwards.
CONSTANTS
  p1 = p1
  p2 = p2
  p3 = p3
  alice = alice
  short = short
  long = long
  empty = empty
  Procs = {p1}
  Uid <- OneUser
  Paths = {a}
  Versions = {short}
  Codes = {404}
  Failures = {"OTHER"}
  Inodes = {i1, i2}
  cache = TRUE
  cached_enable = FALSE
  query_wrapper = FALSE
  cache_ttl = 1
  negative_cache_ttl = 1
  request_locktime = 1
  request_retry = 0
  MaxClock = 2
  Root = root
  MayCrash = {}
  Chunks <- OneTwo
  None = None
  Junk = Junk
  Hole = Hole
  ULONG = 100
SPECIFICATION Spec
INVARIANTS NotFoundIsReal
