SPECIFICATION Spec
CONSTANTS
  SqDepth = 4
  AcceptReq = acc
  Reqs = {acc, r1, r2}
  FD = {f1, f2, f3}
  ListenFd = lfd
  BufSize = 3
  RuntimeSafety = TRUE
  Faults = {"accept", "recv", "close"}
  Signals = FALSE
  Backlog = 1
  MaxUnread = 2
  MaxAccepts = 1
SYMMETRY Symmetry
CHECK_DEADLOCK FALSE
INVARIANTS ReadsWhatArrived DescriptorOwnership
