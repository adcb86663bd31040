\* A walk with newfid = fid, with property lists as in P9Srv_clean.
SPECIFICATION Spec
CONSTANTS
  Fid = {x1, x2}
  Server = Server
  root = root
  dir = dir
  file = file
  NoNode = NoNode
  Root = root
  Node <- MCNode
  Dir <- MCDir
  Name <- MCName
  Entries <- MCEntries
  MaxHandle = 4
  Block = 2
  RefMod = 6
  MaxName = 2
  SameFidWalk = TRUE
CHECK_DEADLOCK FALSE
INVARIANT NothingLost
