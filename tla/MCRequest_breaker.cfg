\* Root and two processes of a user behind one lock file, no cache.
CONSTANTS
  p1 = p1
  p2 = p2
  p3 = p3
  alice = alice
  short = short
  long = long
  empty = empty
  Procs = {p1, p2, p3}
  Uid <- TwoUsers
  Paths = {a}
  Versions = {short}
  Codes = {404}
  Failures = {"COULDNT_CONNECT", "OTHER"}
  Inodes = {i1}
  cache = FALSE
  cached_enable = FALSE
  query_wrapper = FALSE
  cache_ttl = 1
  negative_cache_ttl = 1
  request_locktime = 1
  request_retry = 0
  MaxClock = 3
  Root = root
  MayCrash = {}
  Chunks <- OneTwo
  None = None
  Junk = Junk
  Hole = Hole
  ULONG = 100
SPECIFICATION Spec
SYMMETRY InodeSymmetry
PROPERTIES UnlockJustified
