\* Every file class, handles recycled from one class to another.
SPECIFICATION Spec
CONSTANTS
  Fid = {x1, x2}
  MaxHandle = 2
  MaxFd = 3
  Length = {0, 2}
  Made = {"root", "dir", "plain", "entry", "hostfile", "rostring"}
  Sock = Sock
  None = None
SYMMETRY Symmetry
INVARIANT TypeOK
INVARIANT OwnDescriptor
INVARIANT FreedOnce
INVARIANT IInv
INVARIANT ListsReadAsLists
INVARIANT ServedAsAnnounced
PROPERTY ClosesOnlyOwn
CHECK_DEADLOCK FALSE
