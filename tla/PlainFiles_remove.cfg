\* A class whose unlink() works.
SPECIFICATION Spec
CONSTANTS
  NULL = NULL
  NUL = NUL
  Client = {c1}
  File = {"buf"}
  Kind <- MyKind
  Start <- MyStart
  Limit <- MyLimit
  Writable = {"buf"}
  Unlinkable = {"buf"}
  Byte = {"a", "b"}
  Piece <- MCPiece
  Offset = {0, 1, 3}
  Count = {0, 5}
  MaxCount = 2
  Mode <- MCMode
  UintSize = 8
  MaxLen = 3
PROPERTY DeniedChangesNothing
CHECK_DEADLOCK FALSE
