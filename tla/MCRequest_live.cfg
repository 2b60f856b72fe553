\* Fair scheduling: every request of every process ends.
CONSTANTS
  p1 = p1
  p2 = p2
  p3 = p3
  alice = alice
  short = short
  long = long
  empty = empty
  Procs = {p1, p2}
  Uid <- OneUser
  Paths = {a}
  Versions = {short}
  Codes = {}
  Failures = {"COULDNT_CONNECT"}
  Inodes = {i1, i2}
  cache = TRUE
  cached_enable = FALSE
  query_wrapper = FALSE
  cache_ttl = 1
  negative_cache_ttl = 1
  request_locktime = 1
  request_retry = 1
  MaxClock = 1
  Root = root
  MayCrash = {}
  Chunks <- OneTwo
  None = None
  Junk = Junk
  Hole = Hole
  ULONG = 100
SPECIFICATION FairSpec
PROPERTIES RequestsReturn
