SPECIFICATION FairSpec
CONSTANTS
  a1 = a1
  a2 = a2
  b1 = b1
  c1 = c1
  w1 = w1
  w2 = w2
  Requests = {b1, c1}
  Workers = {w1, w2}
  Keys <- MCKeys
  Customers <- MCCustomers
  KeyOf <- MCKeyOf
  CustomerOf <- MCCustomerOf
  Method <- MCMethod
  CouponCarts = {}
  CartQuantity <- BobTakesTwo
  InitialQuantity = 2
  UsageLimit = 0
  PerCustomerLimit = 0
  AllowBackorder = FALSE
  StaffTargets = {"CONFIRMED", "CANCELLED"}
  Gateway = {"captured", "failed"}
  WebhookKinds = {"payment.captured", "payment.failed"}
  BadSignatures = TRUE
  Shoppers = FALSE
  Sweeping = TRUE
  OneCallPerOrder = FALSE
  MaxAborts = 1
PROPERTIES PendingResolved
CHECK_DEADLOCK FALSE
