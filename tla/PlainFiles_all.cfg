\* Every kind of file, readers and writers, the host.
SPECIFICATION Spec
CONSTANTS
  NULL = NULL
  NUL = NUL
  Client = {c1, c2}
  File = {"str", "host", "buf", "heap"}
  Kind <- MyKind
  Start <- MyStart
  Limit <- MyLimit
  Writable = {"buf", "heap"}
  Unlinkable = {}
  Byte = {"a", "b"}
  Piece <- MCPiece
  Offset = {0, 1}
  Count = {0, 5}
  MaxCount = 2
  Mode <- MCMode
  UintSize = 8
  MaxLen = 3
SYMMETRY Symmetry
INVARIANT TypeOK
INVARIANT IInv
INVARIANT Terminated
INVARIANT PrefixRead
INVARIANT AnnouncedIsRead
PROPERTY NoEarlyEnd
PROPERTY AppendOnlyGrows
PROPERTY Implements
CHECK_DEADLOCK FALSE
