\* A client reads to the end, with counts that have room for its text or not,
\* while others write and callbacks fail.
SPECIFICATION FairSpec
CONSTANTS
  NULL = NULL
  Client = {c1}
  Ent = {"str", "setonly", "cb", "get", "conval"}
  Type <- MCType
  Const <- MCConst
  Ops <- MCOps
  Text <- MCText
  Length <- MCLength
  Parse <- MCParse
  Decimal <- MCDecimal
  Refused = {"junk", "n0"}
  Unreliable = {"str", "get"}
  Sizes = {1, 3, 6}
  MaxPos = 6
INVARIANT WholeValue
INVARIANT IInv
PROPERTY ReadEnds
