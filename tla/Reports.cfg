SPECIFICATION ReportsSpec
CONSTANTS
  l1 = l1  l2 = l2
  Lots <- MCLots
  Price = {2, 3}
  Period = 1
  Oldest = 2
  Ahead = {0, 1, 2}
  MaxMoves = 4
  MaxOpen = 1
  MaxQty = 2
  MaxDay = 1
CHECK_DEADLOCK FALSE
INVARIANTS ReportsInv AgesOfStock AgesAddUp
