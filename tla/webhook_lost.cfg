SPECIFICATION FairSpec
CONSTANTS
  a1 = a1
  a2 = a2
  b1 = b1
  c1 = c1
  w1 = w1
  w2 = w2
  Requests = {b1}
  Workers = {w1, w2}
  Keys <- MCKeys
  Customers <- MCCustomers
  KeyOf <- MCKeyOf
  CustomerOf <- MCCustomerOf
  Method <- MCMethod
  CouponCarts = {}
  CartQuantity <- BobTakesTwo
  InitialQuantity = 3
  UsageLimit = 0
  PerCustomerLimit = 0
  AllowBackorder = FALSE
  StaffTargets = {}
  Gateway = {"captured"}
  WebhookKinds = {"payment.captured", "order.paid"}
  BadSignatures = FALSE
  Shoppers = FALSE
  Sweeping = FALSE
  OneCallPerOrder = FALSE
  MaxAborts = 1
PROPERTIES CapturedConfirmed
CHECK_DEADLOCK FALSE
