CONSTANTS
  p1 = p1
  a = a
  Nil = Nil
  Path = {p1}
  Text = {a}
  Parts <- MCParts
  Empty = {}
  Huge = {}
  Large = {}
  Outcomes = {"ok"}
  WriteWhen = "any"
  DupWhen = "any"
  MoveWhen = "never"
  MaxOps = 1
  MaxRaw = 1
  Troubles = {"crash"}
  MaxTrouble = 1
SPECIFICATION Spec
INVARIANT CrashLosesNothing
CHECK_DEADLOCK FALSE
