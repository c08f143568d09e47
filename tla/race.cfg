SPECIFICATION Spec
CONSTANTS
  a1 = a1
  a2 = a2
  b1 = b1
  c1 = c1
  w1 = w1
  w2 = w2
  Requests = {a1, a2, c1}
  Workers = {w1, w2}
  Keys <- MCKeys
  Customers <- MCCustomers
  KeyOf <- MCKeyOf
  CustomerOf <- MCCustomerOf
  Method <- MCMethod
  CouponCarts = {"alice", "carol"}
  CartQuantity <- OneEach
  InitialQuantity = 2
  UsageLimit = 1
  PerCustomerLimit = 1
  AllowBackorder = FALSE
  StaffTargets = {"CONFIRMED", "PROCESSING", "CANCELLED"}
  Gateway = {"authorized", "captured", "failed"}
  WebhookKinds = {"payment.captured"}
  BadSignatures = TRUE
  Shoppers = FALSE
  Sweeping = TRUE
  OneCallPerOrder = FALSE
  MaxAborts = 0
SYMMETRY WorkerSymmetry
INVARIANTS TypeOK StockSound SoldOnce PaidIsBacked CouponHonest OneOrderPerKey
PROPERTIES SettledIsFinal
CHECK_DEADLOCK FALSE
