CONSTANTS
  p1 = p1
  p2 = p2
  a = a
  b = b
  huge = huge
  Nil = Nil
  Path <- MCPath
  Text <- MCText
  Parts <- MCParts
  Empty = {}
  Huge = {huge}
  Large = {}
  Outcomes = {"ok", "failed"}
  WriteWhen = "any"
  DupWhen = "never"
  MoveWhen = "quiet"
  MaxOps = 3
  MaxRaw = 2
  Troubles = {}
  MaxTrouble = 0
SPECIFICATION FairSpec
INVARIANTS TypeOK NoUniqueClash NoOrphanHits CaughtUp NoGhosts
PROPERTY EventuallyServed
CHECK_DEADLOCK FALSE
