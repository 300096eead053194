CONSTANTS
  c1 = c1
  c2 = c2
  Calls <- Two
  Bridges <- AllBridges
  Remote <- One
  MaxChunks = 1
  MaxTyped = 2
SPECIFICATION Spec
INVARIANTS TypeOK HangsOnlyAfterLoss PatienceBounded OnlyAnswererFails ShownIsLatest
PROPERTIES LedgerSpec NoReplay EveryCallReturns
CHECK_DEADLOCK FALSE
