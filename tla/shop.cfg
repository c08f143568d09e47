SPECIFICATION Spec
CONSTANTS
  shoe = shoe
  sock = sock
  amy = amy
  k1 = k1
  k2 = k2
  k3 = k3
  p1 = p1
  p2 = p2
  w1 = w1
  t1 = t1
  t2 = t2
  o1 = o1
  o2 = o2
  Variants = {shoe, sock}
  Items = {shoe, sock}
  Carts = {k1, k2, k3}
  Shoppers = {amy}
  CartCalls = {p1, p2}
  Counters = {w1}
  Clerks = {t1, t2}
  Orders = {o1, o2}
  MaxLine = 1
  MaxOnHand = 1
  OnHand <- OneShort
  Initially <- AtFirst
  Catalog <- Prices
  Store <- Inclusive
  Terms <- OneOff
  None = None
  Nothing = Nothing
INVARIANTS TypeOK CartKept LedgerSums ReservedIsOwed ChargedRight
SYMMETRY ShopSymmetry
CHECK_DEADLOCK FALSE
