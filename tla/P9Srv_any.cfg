\* Every client, odd property lists, a reference counter of width 3.
SPECIFICATION Spec
CONSTANTS
  Fid = {x1, x2}
  Server = Server
  root = root
  dir = dir
  file = file
  NoNode = NoNode
  Root = root
  Node <- MCNode
  Dir <- MCDir
  Name <- MCOddName
  Entries <- MCOddEntries
  MaxHandle = 4
  Block = 2
  RefMod = 3
  MaxName = 2
  SameFidWalk = TRUE
SYMMETRY Symmetry
INVARIANT TypeOK
INVARIANT Covered
INVARIANT NotRecycledInUse
INVARIANT IInv
PROPERTY FrozenWhileHeld
PROPERTY HandlersEnd
PROPERTY LossesKnown
PROPERTY NullUseTraced
CHECK_DEADLOCK FALSE
