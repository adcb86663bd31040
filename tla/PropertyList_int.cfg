\* A constant INT and a constant INT_VAL.
SPECIFICATION Spec
CONSTANTS
  NULL = NULL
  Client = {c1, c2}
  Ent = {"conint", "conval"}
  Type <- MCType
  Const <- MCConst
  Ops <- MCOps
  Text <- MCText
  Length <- MCLength
  Parse <- MCParse
  Decimal <- MCDecimal
  Refused = {}
  Unreliable = {}
  Sizes = {3, 9}
  MaxPos = 6
INVARIANT JustLikeInt
