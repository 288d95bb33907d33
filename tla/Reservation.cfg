SPECIFICATION ReservationSpec
CONSTANTS
  m1 = m1  m2 = m2  m3 = m3  NoGroup = NoGroup
  Lots = 2
  Move = {m1, m2, m3}
  Plan <- MCPlan
CHECK_DEADLOCK FALSE
INVARIANTS ReservationInv StateAgrees NoMoreThanDemand
PROPERTY ImplementsLedger
