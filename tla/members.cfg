SPECIFICATION Spec
CONSTANTS
  ann = ann
  bob = bob
  c1 = c1
  c2 = c2
  q1 = q1
  Users = {ann, bob}
  Calls = {c1, c2}
  Requests = {q1}
  Initially <- AnnWorksBobLeft
  MaxStaff = 1
  MaxChanges = 2
  Faults = TRUE
  None = None
INVARIANTS GuardsFresh SeatsBounded MirrorAgrees
SYMMETRY CallSymmetry
CHECK_DEADLOCK FALSE
