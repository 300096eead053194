CONSTANTS
  p1 = p1
  r1 = r1
  Nil = Nil
  Path = {p1}
  Root = {r1}
  RootOf <- MCRootOf
  QMax = 2
  Calls = {"add", "remove", "rescan", "reset"}
  Bursts = TRUE
  MaxChanges = 3
  MaxRaw = 1
  MaxCalls = 2
  MaxScans = 3
  MaxTimeouts = 1
SPECIFICATION Spec
INVARIANTS TypeOK NothingForgotten OneWorker NeverStuck
CHECK_DEADLOCK FALSE
