SPECIFICATION FairProcessSpec
CONSTANTS
  a = a  b = b
  p1 = p1  p2 = p2
  Root = root
  Absent = Absent  Bad = Bad  Blank = Blank  Unlimited = None
  Option <- MCOption
  Entry <- MCEntry
  MaxEntries = 3
  Proc = {p1, p2}
  MaxJobs = 2
  MaxFollowed = 1
CHECK_DEADLOCK FALSE
INVARIANTS ConfigInv LastEntryHolds ProcessInv OneJobAfterStop
PROPERTIES StopEnds Replaced
