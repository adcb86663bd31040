\* Host files and the last clunk of their handles.
SPECIFICATION Spec
CONSTANTS
  Fid = {x1, x2, x3}
  MaxHandle = 3
  MaxFd = 3
  Length = {0, 2}
  Made = {"root", "hostfile"}
  Sock = Sock
  None = None
SYMMETRY Symmetry
INVARIANT ClosedOnClunk
CHECK_DEADLOCK FALSE
