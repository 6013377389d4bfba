SPECIFICATION Spec
CONSTANTS
  MaxStmts = 6
  MaxDepth = 7
INVARIANTS
  BlocksInOrder
  JumpsStayInLoop
  EveryWayOutReturns
