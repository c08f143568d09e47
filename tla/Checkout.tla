------------------------------- MODULE Checkout -------------------------------
(***************************************************************************)
(* The order lifecycle of one store: OrdersService, PaymentsService,       *)
(* CouponsService and InventoryService over the tenant database, with the  *)
(* payment gateway, its webhooks and the maintenance worker around them.   *)
(*                                                                         *)
(* A worker is one call in flight in the API or in the background worker.  *)
(* A transaction of the code is two steps: the reads that it takes no lock *)
(* for (READ COMMITTED, findUnique), whose results the call carries in     *)
(* call[w], and then its writes, which the row locks of the first UPDATE   *)
(* make one step.  Statements with their own commit are steps of their own *)
(* and between any two steps other calls run, or the call dies.            *)
(***************************************************************************)
EXTENDS Integers, FiniteSets, FiniteSetsExt, Stock

CONSTANTS
  Requests,          \* calls of POST /orders; an order has the name of the call that placed it
  Workers,           \* calls in flight at a time
  Keys,              \* idempotency keys
  Customers,
  KeyOf, CustomerOf, \* the key a request carries, and who sent it
  Method,            \* the payment method a request asks for, "COD" or "ONLINE"
  CouponCarts,       \* the customers whose cart has the coupon code
  CartQuantity,      \* what each customer's cart holds: units of the one variant
  InitialQuantity,   \* stock on hand at first
  UsageLimit, PerCustomerLimit,  \* of the coupon
  AllowBackorder,
  StaffTargets,      \* the statuses staff ask for in this environment
  Gateway,           \* what the gateway does: a subset of Outcomes
  WebhookKinds,      \* the webhook events the merchant subscribed to
  BadSignatures,     \* whether verify is called with signatures that do not verify
  Shoppers,          \* whether shoppers cancel orders
  Sweeping,          \* whether the maintenance worker runs
  OneCallPerOrder,   \* whether calls on the same order take turns
  MaxAborts          \* bound: calls that die half way

OrderStatus == {"PENDING", "CONFIRMED", "PROCESSING", "SHIPPED",
                "OUT_FOR_DELIVERY", "DELIVERED", "CANCELLED", "REFUNDED"}
OrderPaymentStatus == {"PENDING", "PAID", "FAILED", "REFUNDED"}
PaymentStatus == {"PENDING", "AUTHORIZED", "PAID", "FAILED"}
Outcomes == {"authorized", "captured", "failed"}
CapturedKinds == {"payment.captured", "order.paid"}
EventKinds == CapturedKinds \cup {"payment.failed"}

ASSUME RequestsAssumption ==
  /\ IsFiniteSet(Requests)
  /\ KeyOf \in [Requests -> Keys]
  /\ CustomerOf \in [Requests -> Customers]
  /\ Method \in [Requests -> {"COD", "ONLINE"}]

ASSUME StoreAssumption ==
  /\ CouponCarts \subseteq Customers
  /\ CartQuantity \in [Customers -> Nat \ {0}]
  /\ InitialQuantity \in Nat
  /\ UsageLimit \in Nat
  /\ PerCustomerLimit \in Nat
  /\ AllowBackorder \in BOOLEAN

ASSUME EnvironmentAssumption ==
  /\ StaffTargets \subseteq OrderStatus
  /\ Gateway \subseteq Outcomes
  /\ WebhookKinds \subseteq EventKinds
  /\ {BadSignatures, Shoppers, Sweeping, OneCallPerOrder} \subseteq BOOLEAN
  /\ MaxAborts \in Nat

VARIABLES
  cart,           \* units in each customer's cart
  stock,          \* the inventory row
  usageCount,     \* coupons.usage_count
  status, paymentStatus, qty, redeemed,  \* each order; redeemed: it has a coupon_redemptions row
  sold, returned, \* inventory_transactions rows of each order: SALE and RETURN
  payment,        \* payments.status of each order's payment
  intent,         \* the gateway order and its payment_routes row exist
  outcome,        \* what happened at the gateway
  event,          \* webhook_events.status by event
  reply,          \* what POST /orders answered
  call,           \* the call each worker is in
  aborts

orderVars == <<status, paymentStatus, qty, redeemed>>
shopVars == <<cart, stock, usageCount, sold, returned>>
gatewayVars == <<intent, outcome>>
vars == <<cart, stock, usageCount, status, paymentStatus, qty, redeemed, sold, returned,
          payment, intent, outcome, event, reply, call, aborts>>

-------------------------------------------------------------------------------
\* Calls in flight.

CreateSteps == {"cart", "place", "tail"}
Steps == {"free", "paidRead", "paidWrite", "failRead", "failWrite",
          "hook", "hookDone", "cancelRead", "moveWrite"} \cup CreateSteps

Call == [step : Steps,
         order : Requests \cup {"none"},
         seen : OrderStatus \cup {"none"},   \* the order's status when the call read it
         seenPaid : OrderPaymentStatus,      \* and its payment status
         to : OrderStatus \cup {"none"},     \* the status staff or the shopper asked for
         held : Nat,                         \* units the call read from the cart
         hook : EventKinds \cup {"none"}]    \* the webhook event the call serves

\* A call on order o that has read nothing yet, and no call at all.
Serving(o, step, hook) ==
  [step |-> step, order |-> o, seen |-> "none", seenPaid |-> "PENDING",
   to |-> "none", held |-> 0, hook |-> hook]
Free == Serving("none", "free", "none")

\* The call with what it read of its order.
Noting(c, step) ==
  [c EXCEPT !.step = step, !.seen = status[c.order], !.seenPaid = paymentStatus[c.order]]

At(w, step) == call[w].step = step
Becomes(w, c) == call' = [call EXCEPT ![w] = c]
Go(w, step) == Becomes(w, [call[w] EXCEPT !.step = step])
Leave(w) == Becomes(w, Free)

\* A settlement ends where it was called from: the webhook handler still has to
\* mark its event, the other callers are done.
Settled(w) ==
  Becomes(w, IF call[w].hook = "none" THEN Free
             ELSE Serving(call[w].order, "hookDone", call[w].hook))

MayTouch(o) == OneCallPerOrder => \A v \in Workers : call[v].order # o

Exists(o) == status[o] # "none"
KeyTaken(r) == \E s \in Requests : Exists(s) /\ KeyOf[s] = KeyOf[r]
Redemptions == {o \in Requests : redeemed[o]}
RedemptionsBy(c) == {o \in Redemptions : CustomerOf[o] = c}

Init ==
  /\ cart = CartQuantity
  /\ stock = [quantity |-> InitialQuantity, reserved |-> 0]
  /\ usageCount = 0
  /\ status = [o \in Requests |-> "none"]
  /\ paymentStatus = [o \in Requests |-> "PENDING"]
  /\ qty = [o \in Requests |-> 0]
  /\ redeemed = [o \in Requests |-> FALSE]
  /\ sold = [o \in Requests |-> 0]
  /\ returned = [o \in Requests |-> 0]
  /\ payment = [o \in Requests |-> "PENDING"]
  /\ intent = [o \in Requests |-> FALSE]
  /\ outcome = [o \in Requests |-> {}]
  /\ event = [o \in Requests |-> [k \in EventKinds |-> "none"]]
  /\ reply = [r \in Requests |-> "none"]
  /\ call = [w \in Workers |-> Free]
  /\ aborts = 0

-------------------------------------------------------------------------------
\* POST /orders.

\* The fast path: a key that already has an order gets that order back.
SubmitAgain(r) ==
  /\ reply[r] = "none" /\ KeyTaken(r)
  /\ reply' = [reply EXCEPT ![r] = "existing"]
  /\ UNCHANGED <<shopVars, orderVars, payment, gatewayVars, event, call, aborts>>

Submit(w, r) ==
  /\ At(w, "free") /\ reply[r] = "none" /\ ~KeyTaken(r)
  /\ reply' = [reply EXCEPT ![r] = "working"]
  /\ Becomes(w, Serving(r, "cart", "none"))
  /\ UNCHANGED <<shopVars, orderVars, payment, gatewayVars, event, aborts>>

Refuse(w) ==
  /\ reply' = [reply EXCEPT ![call[w].order] = "rejected"]
  /\ Leave(w)
  /\ UNCHANGED <<shopVars, orderVars, payment, gatewayVars, event, aborts>>

\* CouponsService.validate, on a connection of its own.
CouponValid(c) == /\ usageCount < UsageLimit
                  /\ Cardinality(RedemptionsBy(c)) < PerCustomerLimit

\* The transaction reads the cart and validates the coupon; nothing is locked.
ReadCart(w) ==
  LET c == CustomerOf[call[w].order]
  IN  /\ At(w, "cart")
      /\ IF cart[c] > 0 /\ (c \in CouponCarts => CouponValid(c))
         THEN /\ Becomes(w, [call[w] EXCEPT !.step = "place", !.held = cart[c]])
              /\ UNCHANGED <<shopVars, orderVars, payment, gatewayVars, event, reply, aborts>>
         ELSE Refuse(w)

\* CouponsService.redeem claims a use only while the limit allows one.
CanRedeem == usageCount < UsageLimit

\* Mutant of CanPlace: the unique index on idempotencyKey is missing.
CanPlaceWithoutIndex(w) ==
  LET r == call[w].order
  IN  /\ CanReserve(stock, call[w].held, AllowBackorder)
      /\ CustomerOf[r] \in CouponCarts => CanRedeem

CanPlace(w) ==
  LET r == call[w].order
  IN  /\ CanReserve(stock, call[w].held, AllowBackorder)
      /\ ~KeyTaken(r)                 \* the unique index on idempotencyKey
      /\ CustomerOf[r] \in CouponCarts => CanRedeem

\* CouponsService.redeem, for a cart with the coupon: a use and a row for the order.
RedeemCoupon(r) ==
  LET used == CustomerOf[r] \in CouponCarts
  IN  /\ redeemed' = [redeemed EXCEPT ![r] = used]
      /\ usageCount' = IF used THEN usageCount + 1 ELSE usageCount

\* createPaymentRecord, in the same transaction: no order without its payment.
CreatePayment(r) == payment' = [payment EXCEPT ![r] = "PENDING"]

\* The writes of the transaction: reserve, order, coupon, payment, empty cart.
\* A COD order is confirmed and its stock sold on the spot.
Place(w) ==
  LET r == call[w].order
      c == CustomerOf[r]
      n == call[w].held
      cod == Method[r] = "COD"
  IN  /\ At(w, "place") /\ CanPlace(w)
      /\ stock' = IF cod THEN Commit(Reserve(stock, n), n) ELSE Reserve(stock, n)
      /\ sold' = [sold EXCEPT ![r] = IF cod THEN @ + 1 ELSE @]
      /\ status' = [status EXCEPT ![r] = IF cod THEN "CONFIRMED" ELSE "PENDING"]
      /\ paymentStatus' = [paymentStatus EXCEPT ![r] = "PENDING"]
      /\ qty' = [qty EXCEPT ![r] = n]
      /\ RedeemCoupon(r)
      /\ CreatePayment(r)
      /\ cart' = [cart EXCEPT ![c] = 0]
      /\ Go(w, "tail")
      /\ UNCHANGED <<returned, gatewayVars, event, reply, aborts>>

\* Out of stock, coupon used up, or a duplicate key: the transaction rolls back.
PlaceRefused(w) == At(w, "place") /\ ~CanPlace(w) /\ Refuse(w)

\* attachProviderIntent: the gateway order and the route its webhooks come by.
\* Without them the shopper has nothing to pay.
OpenIntent(r) == intent' = [intent EXCEPT ![r] = TRUE] /\ UNCHANGED payment

\* For COD the payment row is set to PENDING once more, whatever it says by now.
ResetCod(r) == payment' = [payment EXCEPT ![r] = "PENDING"] /\ UNCHANGED intent

\* After the commit, and outside it.
Attach(w) ==
  LET r == call[w].order
  IN  /\ At(w, "tail")
      /\ IF Method[r] = "COD" THEN ResetCod(r) ELSE OpenIntent(r)
      /\ reply' = [reply EXCEPT ![r] = "placed"]
      /\ Leave(w)
      /\ UNCHANGED <<shopVars, orderVars, outcome, event, aborts>>

-------------------------------------------------------------------------------
\* The gateway.  An attempt may fail and a later one on the same gateway order
\* succeed; a capture is final.

GatewayStep(o, what) ==
  /\ intent[o] /\ what \in Gateway
  /\ "captured" \notin outcome[o]
  /\ outcome' = [outcome EXCEPT ![o] = @ \cup {what}]
  /\ UNCHANGED <<shopVars, orderVars, payment, intent, event, reply, call, aborts>>

-------------------------------------------------------------------------------
\* Settling a payment.

\* Mutant of Unsettled: the UPDATE also matches a payment that is PAID already.
NotFailed(o) == payment[o] # "FAILED"

Unsettled(o) == payment[o] \in {"PENDING", "AUTHORIZED"}

\* markPaid and markFailed: one conditional UPDATE, committed on its own, and
\* only the call whose UPDATE matched goes on to the order.
MarkPaid(w, o, hook) ==
  /\ Unsettled(o)
  /\ payment' = [payment EXCEPT ![o] = "PAID"]
  /\ Becomes(w, Serving(o, "paidRead", hook))

MarkFailed(w, o, hook) ==
  /\ Unsettled(o)
  /\ payment' = [payment EXCEPT ![o] = "FAILED"]
  /\ Becomes(w, Serving(o, "failRead", hook))

\* Mutant of VerifyCaptured: any answer of the gateway counts as a capture.
VerifyAnyAttempt(w, o) ==
  /\ At(w, "free") /\ MayTouch(o) /\ outcome[o] # {}
  /\ MarkPaid(w, o, "none")
  /\ UNCHANGED <<shopVars, orderVars, gatewayVars, event, reply, aborts>>

\* Mutant of VerifyAuthorized: the UPDATE does not ask for a PENDING payment.
VerifyAuthorizedLate(o) ==
  /\ "authorized" \in outcome[o] /\ payment[o] # "AUTHORIZED"
  /\ payment' = [payment EXCEPT ![o] = "AUTHORIZED"]
  /\ UNCHANGED <<shopVars, orderVars, gatewayVars, event, reply, call, aborts>>

\* POST /payments/verify, by what the gateway answers about the payment.
VerifyCaptured(w, o) ==
  /\ At(w, "free") /\ MayTouch(o) /\ "captured" \in outcome[o]
  /\ MarkPaid(w, o, "none")
  /\ UNCHANGED <<shopVars, orderVars, gatewayVars, event, reply, aborts>>

VerifyAuthorized(o) ==
  /\ "authorized" \in outcome[o] /\ payment[o] = "PENDING"
  /\ payment' = [payment EXCEPT ![o] = "AUTHORIZED"]
  /\ UNCHANGED <<shopVars, orderVars, gatewayVars, event, reply, call, aborts>>

\* The gateway says the payment failed, or the signature that came with the gateway
\* order does not verify, whatever became of the payment.
VerifyFailed(w, o) ==
  /\ At(w, "free") /\ MayTouch(o)
  /\ "failed" \in outcome[o] \/ (BadSignatures /\ intent[o])
  /\ MarkFailed(w, o, "none")
  /\ UNCHANGED <<shopVars, orderVars, gatewayVars, event, reply, aborts>>

-------------------------------------------------------------------------------
\* Webhooks.  The event row is inserted before anything is applied, so however
\* the handler ends a redelivery finds the row and is answered "duplicate".

Webhook(w, o, kind) ==
  /\ At(w, "free") /\ MayTouch(o)
  /\ kind \in WebhookKinds /\ event[o][kind] = "none"
  /\ (IF kind \in CapturedKinds THEN "captured" ELSE "failed") \in outcome[o]
  /\ event' = [event EXCEPT ![o][kind] = "RECEIVED"]
  /\ Becomes(w, Serving(o, "hook", kind))
  /\ UNCHANGED <<shopVars, orderVars, payment, gatewayVars, reply, aborts>>

HookApply(w) ==
  LET o == call[w].order
      kind == call[w].hook
  IN  /\ At(w, "hook")
      /\ \/ kind \in CapturedKinds /\ MarkPaid(w, o, kind)
         \/ kind \notin CapturedKinds /\ MarkFailed(w, o, kind)
         \/ ~Unsettled(o) /\ Go(w, "hookDone") /\ UNCHANGED payment
      /\ UNCHANGED <<shopVars, orderVars, gatewayVars, event, reply, aborts>>

HookDone(w) ==
  /\ At(w, "hookDone")
  /\ event' = [event EXCEPT ![call[w].order][call[w].hook] = "PROCESSED"]
  /\ Leave(w)
  /\ UNCHANGED <<shopVars, orderVars, payment, gatewayVars, reply, aborts>>

-------------------------------------------------------------------------------
\* onPaymentSucceeded and onPaymentFailed.

Note(w, step) == Becomes(w, Noting(call[w], step))

PaidRead(w) ==
  /\ At(w, "paidRead")
  /\ IF paymentStatus[call[w].order] = "PAID" THEN Settled(w) ELSE Note(w, "paidWrite")
  /\ UNCHANGED <<shopVars, orderVars, payment, gatewayVars, event, reply, aborts>>

PaidWrite(w) ==
  LET o == call[w].order
      first == call[w].seen = "PENDING"
  IN  /\ At(w, "paidWrite")
      /\ paymentStatus' = [paymentStatus EXCEPT ![o] = "PAID"]
      /\ status' = [status EXCEPT ![o] = IF first THEN "CONFIRMED" ELSE call[w].seen]
      /\ stock' = IF first THEN Commit(stock, qty[o]) ELSE stock
      /\ sold' = [sold EXCEPT ![o] = IF first THEN @ + 1 ELSE @]
      /\ Settled(w)
      /\ UNCHANGED <<cart, usageCount, returned, qty, redeemed, payment, gatewayVars, event, reply, aborts>>

\* Mutant of ReleaseCoupon: the use is given back without asking for a row.
ReleaseCouponBlindly(o) ==
  /\ usageCount' = usageCount - 1
  /\ redeemed' = [redeemed EXCEPT ![o] = FALSE]

\* Mutant of ReleaseCoupon: the redemption row is not deleted.
ReleaseCouponKeepsRow(o) ==
  /\ usageCount' = IF redeemed[o] THEN Greatest0(usageCount - 1) ELSE usageCount
  /\ UNCHANGED redeemed

\* CouponsService.release: gives the use back only where a redemption row is.
ReleaseCoupon(o) ==
  /\ usageCount' = IF redeemed[o] THEN Greatest0(usageCount - 1) ELSE usageCount
  /\ redeemed' = [redeemed EXCEPT ![o] = FALSE]

FailRead(w) ==
  /\ At(w, "failRead")
  /\ IF status[call[w].order] # "PENDING" THEN Settled(w) ELSE Note(w, "failWrite")
  /\ UNCHANGED <<shopVars, orderVars, payment, gatewayVars, event, reply, aborts>>

FailWrite(w) ==
  LET o == call[w].order
  IN  /\ At(w, "failWrite")
      /\ stock' = Release(stock, qty[o])
      /\ ReleaseCoupon(o)
      /\ status' = [status EXCEPT ![o] = "CANCELLED"]
      /\ paymentStatus' = [paymentStatus EXCEPT ![o] = "FAILED"]
      /\ Settled(w)
      /\ UNCHANGED <<cart, sold, returned, qty, payment, gatewayVars, event, reply, aborts>>

\* Mutant of Sweep: it lists unpaid payment rows instead of unpaid orders.
SweepUnpaidRows(w, o) ==
  /\ Sweeping /\ At(w, "free") /\ MayTouch(o)
  /\ status[o] = "PENDING" /\ payment[o] = "PENDING"
  /\ Becomes(w, Serving(o, "failRead", "none"))
  /\ UNCHANGED <<shopVars, orderVars, payment, gatewayVars, event, reply, aborts>>

\* The maintenance worker lists unpaid orders past the reservation window, and
\* fails each.  How long the shopper takes to pay has no bound.
Sweep(w, o) ==
  /\ Sweeping /\ At(w, "free") /\ MayTouch(o)
  /\ status[o] = "PENDING" /\ paymentStatus[o] = "PENDING"
  /\ Becomes(w, Serving(o, "failRead", "none"))
  /\ UNCHANGED <<shopVars, orderVars, payment, gatewayVars, event, reply, aborts>>

-------------------------------------------------------------------------------
\* updateStatus, for staff and for the shopper who cancels.

Transitions ==
  [PENDING |-> {"CONFIRMED", "CANCELLED"},
   CONFIRMED |-> {"PROCESSING", "CANCELLED"},
   PROCESSING |-> {"SHIPPED", "CANCELLED"},
   SHIPPED |-> {"OUT_FOR_DELIVERY", "DELIVERED", "CANCELLED"},
   OUT_FOR_DELIVERY |-> {"DELIVERED", "CANCELLED"},
   DELIVERED |-> {"REFUNDED"}, CANCELLED |-> {"REFUNDED"}, REFUNDED |-> {}]

CustomerCancellable == {"PENDING", "CONFIRMED", "PROCESSING"}

\* Captured money goes back through the refund endpoint only.
Owed(o) == Method[o] # "COD" /\ payment[o] = "PAID"

MayMove(o, to) == /\ Exists(o)
                  /\ to \in Transitions[status[o]]
                  /\ to = "REFUNDED" => ~Owed(o)

StaffMove(w, o, to) ==
  /\ At(w, "free") /\ MayTouch(o) /\ MayMove(o, to)
  /\ Becomes(w, [Noting(Serving(o, "free", "none"), "moveWrite") EXCEPT !.to = to])
  /\ UNCHANGED <<shopVars, orderVars, payment, gatewayVars, event, reply, aborts>>

\* cancelByCustomer checks the status in a query of its own first.
ShopperCancel(w, o) ==
  /\ Shoppers /\ At(w, "free") /\ MayTouch(o)
  /\ status[o] \in CustomerCancellable
  /\ Becomes(w, [Serving(o, "cancelRead", "none") EXCEPT !.to = "CANCELLED"])
  /\ UNCHANGED <<shopVars, orderVars, payment, gatewayVars, event, reply, aborts>>

CancelRead(w) ==
  /\ At(w, "cancelRead")
  /\ IF MayMove(call[w].order, "CANCELLED") THEN Note(w, "moveWrite") ELSE Leave(w)
  /\ UNCHANGED <<shopVars, orderVars, payment, gatewayVars, event, reply, aborts>>

\* Mutant of GivesBack: refunding an order that was cancelled restocks it again.
GivesBackTwice(from, to) == to \in {"CANCELLED", "REFUNDED"}

\* What the shop gets back on a move, unless it was only held.
GivesBack(from, to) == to = "CANCELLED" \/ (to = "REFUNDED" /\ from # "CANCELLED")

MoveWrite(w) ==
  LET o == call[w].order
      to == call[w].to
      held == to = "CANCELLED" /\ call[w].seen = "PENDING"
      restocked == GivesBack(call[w].seen, to) /\ ~held
      collected == to = "DELIVERED" /\ Method[o] = "COD"
  IN  /\ At(w, "moveWrite")
      /\ stock' = IF held THEN Release(stock, qty[o])
                  ELSE IF restocked THEN Restock(stock, qty[o]) ELSE stock
      /\ returned' = [returned EXCEPT ![o] = IF restocked THEN @ + 1 ELSE @]
      /\ IF to = "CANCELLED" THEN ReleaseCoupon(o) ELSE UNCHANGED <<usageCount, redeemed>>
      /\ status' = [status EXCEPT ![o] = to]
      /\ paymentStatus' = [paymentStatus EXCEPT ![o] =
           IF collected /\ call[w].seenPaid = "PENDING" THEN "PAID"
           ELSE IF to = "REFUNDED" THEN "REFUNDED" ELSE call[w].seenPaid]
      /\ payment' = IF collected /\ payment[o] = "PENDING"
                    THEN [payment EXCEPT ![o] = "PAID"] ELSE payment
      /\ Leave(w)
      /\ UNCHANGED <<cart, sold, qty, gatewayVars, event, reply, aborts>>

-------------------------------------------------------------------------------
\* A call dies between two steps: an exception, a timeout, a dead process.  The
\* webhook handler marks its event FAILED if it lives to catch the exception.
Abort(w) ==
  LET c == call[w]
  IN  /\ ~At(w, "free") /\ aborts < MaxAborts
      /\ aborts' = aborts + 1
      /\ \/ UNCHANGED event
         \/ c.hook # "none" /\ event' = [event EXCEPT ![c.order][c.hook] = "FAILED"]
      /\ reply' = IF c.step \in CreateSteps THEN [reply EXCEPT ![c.order] = "failed"] ELSE reply
      /\ Leave(w)
      /\ UNCHANGED <<shopVars, orderVars, payment, gatewayVars>>

\* The steps of a call already in flight.
Continue(w) == \/ ReadCart(w) \/ Place(w) \/ PlaceRefused(w) \/ Attach(w)
               \/ HookApply(w) \/ HookDone(w)
               \/ PaidRead(w) \/ PaidWrite(w) \/ FailRead(w) \/ FailWrite(w)
               \/ CancelRead(w) \/ MoveWrite(w)

Begin(w, o) == \/ Submit(w, o)
               \/ VerifyCaptured(w, o) \/ VerifyFailed(w, o)
               \/ \E kind \in EventKinds : Webhook(w, o, kind)
               \/ Sweep(w, o) \/ ShopperCancel(w, o)
               \/ \E to \in StaffTargets : StaffMove(w, o, to)

Next == \/ \E w \in Workers : Continue(w) \/ Abort(w)
        \/ \E w \in Workers, o \in Requests : Begin(w, o)
        \/ \E o \in Requests : SubmitAgain(o) \/ VerifyAuthorized(o)
        \/ \E o \in Requests, what \in Outcomes : GatewayStep(o, what)

Spec == Init /\ [][Next]_vars

\* Scheduling: a handler that does not die runs on, the gateway delivers every
\* webhook it has, and cron starts the sweep every five minutes.  Shoppers and
\* staff owe nobody a step.
Fairness ==
  /\ \A w \in Workers : WF_vars(Continue(w))
  /\ \A o \in Requests : /\ WF_vars(\E w \in Workers : Sweep(w, o))
                         /\ \A kind \in EventKinds :
                              WF_vars(\E w \in Workers : Webhook(w, o, kind))

FairSpec == Spec /\ Fairness

-------------------------------------------------------------------------------
\* Correctness.

\* Every variable keeps its type: rows, calls in flight and replies.
TypeOK ==
  /\ cart \in [Customers -> Nat]
  /\ stock \in Row
  /\ usageCount \in Nat
  /\ status \in [Requests -> OrderStatus \cup {"none"}]
  /\ paymentStatus \in [Requests -> OrderPaymentStatus]
  /\ qty \in [Requests -> Nat]
  /\ redeemed \in [Requests -> BOOLEAN]
  /\ sold \in [Requests -> Nat]
  /\ returned \in [Requests -> Nat]
  /\ payment \in [Requests -> PaymentStatus]
  /\ intent \in [Requests -> BOOLEAN]
  /\ outcome \in [Requests -> SUBSET Outcomes]
  /\ event \in [Requests -> [EventKinds -> {"none", "RECEIVED", "PROCESSED", "FAILED"}]]
  /\ reply \in [Requests -> {"none", "working", "placed", "existing", "rejected", "failed"}]
  /\ call \in [Workers -> Call]
  /\ aborts \in Nat

Online(o) == Method[o] = "ONLINE"

\* No interleaving of checkouts, settlements and cancellations drives the row
\* out of its CHECK constraints: they are a backstop that is never hit, so no
\* release, sale or restock of a paid order is ever rolled back by them.
StockSound == LegalRow(stock)

\* However many verify calls and webhooks race over one capture, the units of
\* an order are taken off the shelf once, and for an online order only when
\* the gateway did capture the money.
SoldOnce ==
  \A o \in Requests :
    /\ sold[o] <= 1
    /\ Online(o) /\ sold[o] = 1 => "captured" \in outcome[o]

\* An online order says PAID only when its payment row is settled and the
\* gateway captured: never on an authorisation, never from a stale snapshot.
PaidIsBacked ==
  \A o \in Requests :
    Online(o) /\ paymentStatus[o] = "PAID" => /\ payment[o] = "PAID"
                                             /\ "captured" \in outcome[o]

\* The coupon counter equals the redemption rows that exist, whichever calls
\* redeem and release at the same time, and never passes the usage limit.
CouponHonest == /\ usageCount = Cardinality(Redemptions)
                /\ usageCount <= UsageLimit

\* Double taps: no two orders carry one idempotency key, even when the second
\* call took the fast path before the first committed.
OneOrderPerKey ==
  \A r, s \in Requests : Exists(r) /\ Exists(s) /\ KeyOf[r] = KeyOf[s] => r = s

\* A settled online payment stays as it was settled: a late authorisation, a
\* late failure or a second capture never reopens or flips it.
SettledIsFinal ==
  [][\A o \in Requests : Online(o) /\ ~Unsettled(o) => payment'[o] = payment[o]]_vars

\* Units out to customers are at most the units there ever were: two shoppers
\* who buy the last unit at the same instant do not both succeed.
UnitsOut == LET n(o) == qty[o] * (sold[o] - returned[o])
            IN  MapThenSumSet(n, Requests)
NotOversold == UnitsOut <= InitialQuantity

\* An unpaid order does not hold its stock for ever: it is settled, confirmed
\* or cancelled in the end.
PendingResolved == \A o \in Requests : status[o] = "PENDING" ~> status[o] # "PENDING"

\* A shopper who paid and closed the tab gets a confirmed order, because the
\* webhook arrives independently (docs/PAYMENT.md).
CapturedConfirmed ==
  \A o \in Requests : "captured" \in outcome[o] ~> paymentStatus[o] = "PAID"

\* The stock accounting of the lifecycle implements the abstract reservation.
Reserved == INSTANCE Reservation WITH
  Orders <- Requests,
  Initial <- InitialQuantity,
  onHand <- stock.quantity,
  free <- stock.quantity - stock.reserved,
  held <- [o \in Requests |-> IF status[o] = "PENDING" THEN qty[o] ELSE 0],
  sold <- [o \in Requests |-> qty[o] * (sold[o] - returned[o])]

\* Every step of the lifecycle is a step of the reservation: an order takes
\* what is free, sells what it held, and returns what it took.
ImplementsReservation == Reserved!Spec
===============================================================================
