\* Two threads on the group database, whose GROUP_ENSURE unlocks by itself.
CONSTANTS
  Threads = {t1, t2}
  Database = "group"
  Docs <- GroupDocs
  DocIds = {d1, d2, d3}
  NULL = NULL
  Free = Free
  STNS_LOCK_RETRY = 1
SPECIFICATION Spec
SYMMETRY Symmetry
INVARIANTS MutualExclusion NoUseAfterFree DeliveredInOrder
