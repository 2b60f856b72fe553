\* Two threads on the passwd database under fair scheduling: the mutex
\* discipline, the refinement of the cursor, termination.
CONSTANTS
  Threads = {t1, t2}
  Database = "passwd"
  Docs <- PasswdDocs
  DocIds = {d1, d2}
  NULL = NULL
  Free = Free
  STNS_LOCK_RETRY = 3
SPECIFICATION FairSpec
INVARIANTS NeverStolen LockReleased ReloadNeverLocks
PROPERTIES ImplementsCursor CallsReturn
