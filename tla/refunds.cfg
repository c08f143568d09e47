SPECIFICATION Spec
CONSTANTS
  c1 = c1
  c2 = c2
  d1 = d1
  Calls = {c1, c2}
  Dashboard = {d1}
  Amount = 2
  Methods = {"COD", "ONLINE"}
  MaxSequence = 2
  MaxAborts = 1
  MaxEvents = 2
  None = None
SYMMETRY CallSymmetry
INVARIANTS EqualRefundsFit MovedIsRecorded CountedOnce
PROPERTIES FailedIsFinal
CHECK_DEADLOCK FALSE
