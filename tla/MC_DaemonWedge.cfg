CONSTANTS
  p1 = p1
  r1 = r1
  r2 = r2
  Nil = Nil
  Path = {p1}
  Root = {r1, r2}
  RootOf <- MCRootOf
  QMax = 1
  Calls = {"add"}
  Bursts = FALSE
  MaxChanges = 2
  MaxRaw = 1
  MaxCalls = 1
  MaxScans = 4
  MaxTimeouts = 0
SPECIFICATION FairSpec
PROPERTY AddedRootIsWatched
CHECK_DEADLOCK FALSE
