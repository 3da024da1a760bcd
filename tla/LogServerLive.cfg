SPECIFICATION FairSpec
CONSTANTS
  SqDepth = 2
  AcceptReq = acc
  Reqs = {acc, r1, r2}
  FD = {f1, f2}
  ListenFd = lfd
  BufSize = 1
  RuntimeSafety = TRUE
  Faults = {}
  Signals = TRUE
  Backlog = 1
  MaxUnread = 0
  MaxAccepts = 2
CHECK_DEADLOCK FALSE
PROPERTIES FinishedIsClosedIfDrained BacklogIsServedIfDrained SignalStops
