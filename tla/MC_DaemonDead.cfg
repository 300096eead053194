CONSTANTS
  p1 = p1
  r1 = r1
  Nil = Nil
  Path = {p1}
  Root = {r1}
  RootOf <- MCRootOf
  QMax = 3
  Calls = {"reset"}
  Bursts = FALSE
  MaxChanges = 2
  MaxRaw = 1
  MaxCalls = 1
  MaxScans = 2
  MaxTimeouts = 0
SPECIFICATION Spec
INVARIANT RunningHasWorker
CHECK_DEADLOCK FALSE
