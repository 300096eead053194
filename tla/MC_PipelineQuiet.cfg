CONSTANTS
  p1 = p1
  p2 = p2
  a = a
  b = b
  empty = empty
  large = large
  Nil = Nil
  Path <- MCPath
  Text <- MCText
  Parts <- MCParts
  Empty = {empty}
  Huge = {}
  Large = {large}
  Outcomes = {"ok", "failed"}
  WriteWhen = "quiet"
  DupWhen = "quiet"
  MoveWhen = "never"
  MaxOps = 4
  MaxRaw = 2
  Troubles = {"fail", "crash", "forget"}
  MaxTrouble = 1
SYMMETRY PathSymmetry
SPECIFICATION Spec
INVARIANTS NoUniqueClash CaughtUp NoStaleRows
PROPERTY RowsStayHome
CHECK_DEADLOCK FALSE
