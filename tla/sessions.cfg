SPECIFICATION Spec
CONSTANTS
  a = a
  b = b
  second = second
  phone = phone
  laptop = laptop
  Calls = {a, b}
  Sids = {phone, laptop}
  MaxVersion = 2
  Ticks = {second}
  MaxChanges = 2
  None = None
SYMMETRY Symmetries
INVARIANTS DeadStaysDead OneHolder OldPasswordOut
CHECK_DEADLOCK FALSE
