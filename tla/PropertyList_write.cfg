\* Writes to entries that clients and the application set, with callbacks for
\* both directions, for one or for none; no reader.
SPECIFICATION Spec
CONSTANTS
  NULL = NULL
  Client = {}
  Ent = {"str", "setonly", "getonly", "conint", "cb", "dir"}
  Type <- MCType
  Const <- MCConst
  Ops <- MCOps
  Text <- MCText
  Length <- MCLength
  Parse <- MCParse
  Decimal <- MCDecimal
  Refused = {"junk", "n0"}
  Unreliable = {}
  Sizes = {6, 9}
  MaxPos = 6
PROPERTY AcceptedWriteShows
PROPERTY RefusedWriteTraced
