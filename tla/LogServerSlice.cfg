SPECIFICATION Spec
CONSTANTS
  SqDepth = 2
  AcceptReq = acc
  Reqs = {acc, r1, r2}
  FD = {f1, f2}
  ListenFd = lfd
  BufSize = 2
  RuntimeSafety = TRUE
  Faults = {}
  Signals = FALSE
  Backlog = 1
  MaxUnread = 2
  MaxAccepts = 1
SYMMETRY Symmetry
CHECK_DEADLOCK FALSE
INVARIANT
  SliceInBounds
