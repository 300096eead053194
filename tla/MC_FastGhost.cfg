CONSTANTS
  d1 = d1
  b1 = b1
  Top = Top
  Nil = Nil
  Done = Done
  Dir = {d1}
  File = {b1}
  DirOf <- MCDirOf
  Batch = 2
  OutMax = 1
  Calls = {}
  MaxChanges = 1
  MaxCalls = 0
  MaxScans = 1
SPECIFICATION Spec
INVARIANTS NoGhostNames
CHECK_DEADLOCK FALSE
