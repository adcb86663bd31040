\* Clients that walk to a new fid, property lists without refused entries.
SPECIFICATION FairSpec
CONSTANTS
  Fid = {x1, x2}
  Server = Server
  root = root
  dir = dir
  file = file
  NoNode = NoNode
  Root = root
  Node <- MCNode
  Dir <- MCDir
  Name <- MCName
  Entries <- MCEntries
  MaxHandle = 4
  Block = 2
  RefMod = 3
  MaxName = 2
  SameFidWalk = FALSE
INVARIANT Exact
INVARIANT NothingLost
INVARIANT NoAbort
INVARIANT WalkOK
INVARIANT ListInOrder
PROPERTY ImplementsPaths
PROPERTY AllAnswered
