SPECIFICATION Spec
CONSTANTS
  a = a
  b = b
  Calls = {a, b}
  Loaders = {1}
  Invoices = {1}
  Plans = {"basic", "pro"}
  FirstPlan = "basic"
  Period = 2
  Grace = 1
  MaxTime = 4
  MaxGrants = 1
  None = None
INVARIANTS NeverOverExtended PaidIsServed FreshUnlessRaced
PROPERTIES SettledStays
CHECK_DEADLOCK FALSE
SYMMETRY CallSymmetry
