\* Ensure: pointers of 2 bytes, arrays of 10: a name of 5 is cut in "/home/<name>".
CONSTANTS
  Databases = {"passwd", "group", "shadow"}
  Lengths = {0, 1, 5, 12}
  BufLens = {0, 1, 2, 4, 7, 8, 12, 16, 23, 31, 40, 64}
  MAXBUF = 10
  PTR = 2
  MaxMembers = 2
  NULL = NULL
  MAX = 3
  MaxLen = 4
  Chunks <- ByteChunks
  MaxChunks = 4
SPECIFICATION MCSpec
INVARIANTS PiecesInBuffer TryAgainIffTooSmall MembersComplete NamesExact Utf8Exact
           EscapesSound StringsConvert NumbersConvert OwnedOnce
CHECK_DEADLOCK FALSE
