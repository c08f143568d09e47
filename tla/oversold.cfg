SPECIFICATION Spec
CONSTANTS
  a1 = a1
  a2 = a2
  b1 = b1
  c1 = c1
  w1 = w1
  w2 = w2
  Requests = {a1, b1, c1}
  Workers = {w1, w2}
  Keys <- MCKeys
  Customers <- MCCustomers
  KeyOf <- MCKeyOf
  CustomerOf <- MCCustomerOf
  Method <- MCMethod
  CouponCarts = {}
  CartQuantity <- OneEach
  InitialQuantity = 2
  UsageLimit = 0
  PerCustomerLimit = 0
  AllowBackorder = FALSE
  StaffTargets = {}
  Gateway = {"captured"}
  WebhookKinds = {"payment.captured"}
  BadSignatures = FALSE
  Shoppers = FALSE
  Sweeping = TRUE
  OneCallPerOrder = FALSE
  MaxAborts = 0
SYMMETRY WorkerSymmetry
INVARIANT NotOversold
CHECK_DEADLOCK FALSE
