CONSTANTS
  d1 = d1
  a1 = a1
  a2 = a2
  b1 = b1
  b2 = b2
  Top = Top
  Nil = Nil
  Done = Done
  Dir = {d1}
  File = {a1, a2, b1, b2}
  DirOf <- MCDirOf
  Batch = 2
  OutMax = 1
  Calls = {"add", "remove", "rescan"}
  MaxChanges = 1
  MaxCalls = 2
  MaxScans = 2
SYMMETRY FileSymmetry
SPECIFICATION MCSpec
INVARIANTS TypeOK NeverStuck ExactScan NamesCaughtUp RemovedRootClean
CHECK_DEADLOCK FALSE
