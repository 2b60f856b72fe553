\* JsonParse: texts of at most nine lexemes nested two deep, one failing
\* allocation.  JsonObject: capacities 0, 4 (2 items) and 8 (5 items, never full).
\* Lookup: ids of 3 bits, so 7 is above INT_MAX and 7 + Shift wraps around.
CONSTANTS
  MAX_NESTING = 2
  MaxLen = 9
  WholeLen = 5
  MaxFails = 1
  Keys = {"a", "b", "c", "d"}
  Values = {1, 2}
  Hash <- Hashes
  STARTING_CAPACITY = 4
  Databases = {"passwd", "group", "shadow"}
  Names = {"ann", "bob", "x!"}
  Valid = {"ann", "bob"}
  Width = 3
  Shift = 2
  Docs <- TwoElements
  FirstBuf = 1
  MaxCalls = 2
  NULL = NULL
  UserDocs <- TwoUsers
  SshKeys = {"k1", "k2", "k3", "k4", "c1"}
  NoString = NoString
  Chained <- OneKey
SPECIFICATION Spec
INVARIANTS NothingLeaks AcceptsExactlyValues FirstMatch LeaksExplained OutputFaithful
PROPERTIES ImplementsMap ProgramsEnd
CHECK_DEADLOCK FALSE
