CONSTANTS
  p1 = p1
  p2 = p2
  p3 = p3
  a = a
  Nil = Nil
  Path <- MCPath
  Text = {a}
  Parts <- MCParts
  Empty = {}
  Huge = {}
  Large = {}
  Outcomes = {"ok"}
  WriteWhen = "quiet"
  DupWhen = "quiet"
  MoveWhen = "quiet"
  MaxOps = 4
  MaxRaw = 1
  Troubles = {}
  MaxTrouble = 0
SPECIFICATION Spec
INVARIANT OneRowPerFile
CHECK_DEADLOCK FALSE
