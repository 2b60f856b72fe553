\* Buffers: DEFAULT is small enough for every block to grow twice; 7 exceeds MAX,
\* 4 is the longest line.  IdRange: ints of 4 bits, so 15 is an id that turns negative.
CONSTANTS
  DEFAULT = 4
  MAX = 6
  LINE = 5
  Segments = {0, 1, 3, 4, 6, 7}
  MaxPieces = 4
  Threads = {t1, t2}
  None = None
  Responses <- TwoServers
  Ids = {3, 5, 15}
  Width = 4
  Shift = 1
  Garbage = {0, 7}
  MaxResponses = 3
  Loaders = {"a1", "a2", "b1", "c1"}
  Procs = {"a", "b", "c"}
  Proc <- ThreeProcesses
  Roots = {"a", "b"}
  MaxLoads = 2
  Keys <- Fields
  Spellings = {"absent", "good", "bad", "mistyped"}
  MaxHeaders = 2
SPECIFICATION ProcessSpec
INVARIANTS TerminatorInBlock AllBytesKept RefusalJustified CrashOnlyWhenCrossed
           UmaskRestored ConfigSound
PROPERTY Restores
SYMMETRY Symmetric
CHECK_DEADLOCK FALSE
