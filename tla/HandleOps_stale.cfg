\* A recycled directory handle becomes a host file.
SPECIFICATION Spec
CONSTANTS
  Fid = {x1, x2, x3}
  MaxHandle = 3
  MaxFd = 3
  Length = {0, 2}
  Made = {"root", "entry", "hostfile"}
  Sock = Sock
  None = None
SYMMETRY Symmetry
INVARIANT ReadByOwnClass
CHECK_DEADLOCK FALSE
