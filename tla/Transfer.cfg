SPECIFICATION TransferSpec
CONSTANTS
  r1 = r1  r2 = r2  s = s  a = a  l1 = l1  l2 = l2
  Rec = {r1, r2}
  Loc = {s, a}
  From <- MCFrom
  To <- MCTo
  Qty <- MCQty
  Serials <- MCSerials
  Lot = {l1}
  Price = {2, 3}
  MaxOthers = 4
  MaxListed = 2
  MaxReturns <- MCMaxReturns
CHECK_DEADLOCK FALSE
INVARIANT TransferInv
PROPERTY ReturnedAtItsCost
