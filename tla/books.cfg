SPECIFICATION Spec
CONSTANTS
  a1 = a1
  a2 = a2
  b1 = b1
  c1 = c1
  w1 = w1
  w2 = w2
  Requests = {b1, c1}
  Workers = {w1, w2}
  Keys <- MCKeys
  Customers <- MCCustomers
  KeyOf <- MCKeyOf
  CustomerOf <- MCCustomerOf
  Method <- MCMethod
  CouponCarts = {}
  CartQuantity <- BobTakesTwo
  InitialQuantity = 2
  UsageLimit = 0
  PerCustomerLimit = 0
  AllowBackorder = FALSE
  StaffTargets = {"PROCESSING", "SHIPPED", "DELIVERED", "CANCELLED", "REFUNDED"}
  Gateway = {"authorized", "captured", "failed"}
  WebhookKinds = {"payment.captured", "order.paid", "payment.failed"}
  BadSignatures = TRUE
  Shoppers = TRUE
  Sweeping = TRUE
  OneCallPerOrder = TRUE
  MaxAborts = 2
SYMMETRY WorkerSymmetry
PROPERTIES ImplementsReservation
CHECK_DEADLOCK FALSE
