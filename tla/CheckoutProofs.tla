---------------------------- MODULE CheckoutProofs ----------------------------
(***************************************************************************)
(* What the runs of Checkout check on small stores, proved for every set   *)
(* of requests, every number of calls in flight, every cart and limit, and *)
(* any number of calls that die; and that the orders of a store whose      *)
(* calls on one order take turns implement Reservation.                    *)
(***************************************************************************)
EXTENDS Checkout, FiniteSetTheorems, TLAPS

-------------------------------------------------------------------------------
\* Types.

\* A call that is past "free" is about one order, and knows what it needs.
Named(c) ==
  /\ c.step # "free" => c.order \in Requests
  /\ c.step \in {"hook", "hookDone"} => c.hook # "none"
  /\ c.step = "place" => c.held > 0
  /\ c.step \in {"cancelRead", "moveWrite"} => c.to # "none"

CallsNamed == \A w \in Workers : Named(call[w])

TypeInv == TypeOK /\ CallsNamed

CallsOK == call \in [Workers -> Call] /\ CallsNamed

\* The type invariant without the calls.
RowsOK ==
  /\ cart \in [Customers -> Nat]
  /\ stock \in Row
  /\ usageCount \in Nat
  /\ status \in [Requests -> OrderStatus \cup {"none"}]
  /\ paymentStatus \in [Requests -> OrderPaymentStatus]
  /\ qty \in [Requests -> Nat]
  /\ redeemed \in [Requests -> BOOLEAN]
  /\ sold \in [Requests -> Nat]
  /\ returned \in [Requests -> Nat]
  /\ payment \in [Requests -> PaymentStatus]
  /\ intent \in [Requests -> BOOLEAN]
  /\ outcome \in [Requests -> SUBSET Outcomes]
  /\ event \in [Requests -> [EventKinds -> {"none", "RECEIVED", "PROCESSED", "FAILED"}]]
  /\ reply \in [Requests -> {"none", "working", "placed", "existing", "rejected", "failed"}]
  /\ aborts \in Nat

LEMMA TypeInvSplit == TypeInv <=> RowsOK /\ CallsOK
BY DEF TypeInv, TypeOK, RowsOK, CallsOK

\* What the code's GREATEST(0, ...) computes, and what one row's UPDATE keeps.
LEMMA Greatest0Nat == ASSUME NEW x \in Int PROVE Greatest0(x) \in Nat
BY DEF Greatest0

LEMMA UpdateTyped ==
  ASSUME NEW S, NEW T, NEW f \in [S -> T], NEW x \in S, NEW y \in T
  PROVE  [f EXCEPT ![x] = y] \in [S -> T]
OBVIOUS

\* Giving a coupon's use back keeps the counter and the rows typed.
LEMMA ReleaseCouponTyped ==
  ASSUME RowsOK, NEW o \in Requests, ReleaseCoupon(o)
  PROVE  usageCount' \in Nat /\ redeemed' \in [Requests -> BOOLEAN]
<1>1. usageCount \in Nat /\ redeemed \in [Requests -> BOOLEAN]
  BY DEF RowsOK
<1>2. Greatest0(usageCount - 1) \in Nat
  BY <1>1, Greatest0Nat
<1>3. redeemed' \in [Requests -> BOOLEAN]
  BY <1>1 DEF ReleaseCoupon
<1>4. usageCount' \in Nat
  BY <1>1, <1>2 DEF ReleaseCoupon
<1> QED
  BY <1>3, <1>4

\* A call that has read nothing is typed.
LEMMA ServingTyped ==
  ASSUME NEW o \in Requests \cup {"none"}, NEW step \in Steps, NEW hook \in EventKinds \cup {"none"}
  PROVE  Serving(o, step, hook) \in Call
BY DEF Serving, Call, OrderStatus, OrderPaymentStatus

LEMMA FreeTyped == Free \in Call /\ Named(Free) /\ Free.step = "free"
<1>1. "free" \in Steps
  BY DEF Steps
<1> QED
  BY <1>1, ServingTyped DEF Free, Serving, Named

\* One call becomes a typed call and the others stay as they are.
LEMMA BecomesTyped ==
  ASSUME CallsOK, NEW w \in Workers, NEW c \in Call, Named(c), Becomes(w, c)
  PROVE  /\ CallsOK'
         /\ call'[w] = c
         /\ \A v \in Workers : v # w => call'[v] = call[v]
BY DEF CallsOK, CallsNamed, Becomes, Named

LEMMA LeaveTyped ==
  ASSUME CallsOK, NEW w \in Workers, Leave(w)
  PROVE  CallsOK'
BY FreeTyped, BecomesTyped DEF Leave

\* A call that moves on without reading anything.
LEMMA GoTyped ==
  ASSUME CallsOK, NEW w \in Workers, NEW step \in {"tail", "hookDone"}, Go(w, step),
         call[w].step # "free", step = "hookDone" => call[w].hook # "none"
  PROVE  CallsOK'
<1> DEFINE c == [call[w] EXCEPT !.step = step]
<1>1. call[w] \in Call /\ Named(call[w]) /\ step \in Steps
  BY DEF CallsOK, CallsNamed, Steps, CreateSteps
<1>2. c \in Call /\ Named(c)
  BY <1>1 DEF Call, Named
<1> QED
  BY <1>2, BecomesTyped DEF Go

\* A call that has noted the order's status.
LEMMA NoteTyped ==
  ASSUME RowsOK, CallsOK, NEW w \in Workers, call[w].step # "free",
         NEW step \in {"paidWrite", "failWrite", "moveWrite"}, Note(w, step),
         step = "moveWrite" => call[w].to # "none"
  PROVE  CallsOK'
<1> DEFINE c == Noting(call[w], step)
<1>1. call[w] \in Call /\ Named(call[w]) /\ step \in Steps
  BY DEF CallsOK, CallsNamed, Steps
<1>2. call[w].order \in Requests
  BY <1>1 DEF Named
<1>3. status[call[w].order] \in OrderStatus \cup {"none"} /\ paymentStatus[call[w].order] \in OrderPaymentStatus
  BY <1>2 DEF RowsOK
<1>4. c \in Call /\ Named(c)
  BY <1>1, <1>2, <1>3 DEF Call, Named, Noting
<1> QED
  BY <1>4, BecomesTyped DEF Note

\* A settlement that is done leaves a typed call.
LEMMA SettledTyped ==
  ASSUME CallsOK, NEW w \in Workers, call[w].step # "free", Settled(w)
  PROVE  CallsOK'
<1> DEFINE c == Serving(call[w].order, "hookDone", call[w].hook)
<1>1. call[w] \in Call /\ call[w].order \in Requests
  BY DEF CallsOK, CallsNamed, Named
<1>2. call[w].hook \in EventKinds \cup {"none"}
  BY <1>1 DEF Call
<1>3. CASE call[w].hook = "none"
  BY <1>3, LeaveTyped DEF Settled, Leave
<1>4. CASE call[w].hook # "none"
  <2>1. c \in Call
    BY <1>1, <1>2, ServingTyped DEF Steps
  <2>2. Named(c)
    BY <1>1, <1>4 DEF Named, Serving
  <2> QED
    BY <1>4, <2>1, <2>2, BecomesTyped DEF Settled
<1> QED
  BY <1>3, <1>4

\* A call that starts on an order.
LEMMA StartTyped ==
  ASSUME CallsOK, NEW w \in Workers, NEW o \in Requests, NEW hook \in EventKinds \cup {"none"},
         NEW step \in {"cart", "paidRead", "failRead", "hook"},
         step = "hook" => hook # "none", Becomes(w, Serving(o, step, hook))
  PROVE  CallsOK'
<1> DEFINE c == Serving(o, step, hook)
<1>1. c \in Call
  BY ServingTyped DEF Steps, CreateSteps
<1>2. Named(c)
  BY DEF Named, Serving
<1> QED
  BY <1>1, <1>2, BecomesTyped

\* The initial state is typed.
LEMMA InitTyped == Init => TypeInv
<1> SUFFICES ASSUME Init PROVE TypeInv
  OBVIOUS
<1>1. RowsOK
  BY RequestsAssumption, StoreAssumption
     DEF Init, RowsOK, Row, OrderPaymentStatus, PaymentStatus
<1>2. CallsOK
  BY FreeTyped DEF Init, CallsOK, CallsNamed
<1> QED
  BY <1>1, <1>2, TypeInvSplit

\* The actions that leave every row but the reply alone.
LEMMA RefuseTyped ==
  ASSUME RowsOK, CallsOK, NEW w \in Workers, call[w].step # "free", Refuse(w)
  PROVE  RowsOK' /\ CallsOK'
<1>1. CallsOK'
  BY LeaveTyped DEF Refuse
<1>2. RowsOK'
  BY DEF Refuse, RowsOK, shopVars, orderVars, gatewayVars
<1> QED
  BY <1>1, <1>2

\* Every step that continues a call keeps the types.
LEMMA ContinueTyped ==
  ASSUME TypeInv, NEW w \in Workers, Continue(w)
  PROVE  TypeInv'
<1> SUFFICES ASSUME RowsOK, CallsOK PROVE RowsOK' /\ CallsOK'
  BY DEF TypeInv, TypeOK, RowsOK, CallsOK, CallsNamed
<1> DEFINE o == call[w].order
<1> USE DEF At
<1>0. call[w] \in Call /\ Named(call[w])
  BY DEF CallsOK, CallsNamed
<1>1. CASE ReadCart(w)
  <2>1. CASE Refuse(w)
    BY <1>1, <2>1, RefuseTyped DEF ReadCart
  <2>2. CASE ~Refuse(w)
    <3> DEFINE c == [call[w] EXCEPT !.step = "place", !.held = cart[CustomerOf[o]]]
    <3>1. cart[CustomerOf[o]] \in Nat /\ cart[CustomerOf[o]] > 0
      BY <1>0, <1>1, <2>2, RequestsAssumption DEF ReadCart, RowsOK, Named
    <3>2. c \in Call /\ Named(c)
      BY <1>0, <1>1, <3>1 DEF Call, Named, Steps, CreateSteps, ReadCart
    <3>3. CallsOK'
      BY <1>1, <2>2, <3>2, BecomesTyped DEF ReadCart
    <3>4. RowsOK'
      BY <1>1, <2>2 DEF ReadCart, RowsOK, shopVars, orderVars, gatewayVars
    <3> QED
      BY <3>3, <3>4
  <2> QED
    BY <2>1, <2>2
<1>2. CASE Place(w)
  <2>1. CallsOK'
    BY <1>2, GoTyped DEF Place
  <2>2. call[w].held \in Nat
    BY <1>0 DEF Call
  <2>3. stock' \in Row
    BY <1>2, <2>2 DEF Place, RowsOK, Row, Commit, Reserve, Greatest0
  <2>4. o \in Requests /\ sold[o] \in Nat /\ CustomerOf[o] \in Customers
    BY <1>0, <1>2, RequestsAssumption DEF Place, RowsOK, Named
  <2>5. sold' \in [Requests -> Nat] /\ returned' \in [Requests -> Nat]
    BY <1>2, <2>4 DEF Place, RowsOK
  <2>6. qty' \in [Requests -> Nat] /\ cart' \in [Customers -> Nat]
    BY <1>2, <2>2, <2>4 DEF Place, RowsOK
  <2>7. status' \in [Requests -> OrderStatus \cup {"none"}]
    BY <1>2, <2>4 DEF Place, RowsOK, OrderStatus
  <2>8. redeemed' \in [Requests -> BOOLEAN] /\ usageCount' \in Nat
    BY <1>2, <2>4 DEF Place, RedeemCoupon, RowsOK
  <2>9. /\ payment' \in [Requests -> PaymentStatus]
        /\ paymentStatus' \in [Requests -> OrderPaymentStatus]
    BY <1>2, <2>4 DEF Place, CreatePayment, RowsOK, PaymentStatus, OrderPaymentStatus
  <2>10. RowsOK'
    BY <1>2, <2>3, <2>5, <2>6, <2>7, <2>8, <2>9 DEF Place, RowsOK, gatewayVars
  <2> QED
    BY <2>1, <2>10
<1>3. CASE PlaceRefused(w)
  BY <1>3, RefuseTyped DEF PlaceRefused
<1>4. CASE Attach(w)
  <2>1. CallsOK'
    BY <1>4, LeaveTyped DEF Attach
  <2>2. RowsOK'
    BY <1>4 DEF Attach, OpenIntent, ResetCod, RowsOK, PaymentStatus, shopVars, orderVars
  <2> QED
    BY <2>1, <2>2
<1>5. CASE HookApply(w)
  <2>1. call[w].hook \in EventKinds \cup {"none"} /\ o \in Requests /\ call[w].hook # "none"
    BY <1>0, <1>5 DEF Call, Named, HookApply
  <2>2. CallsOK'
    BY <1>5, <2>1, StartTyped, GoTyped DEF HookApply, MarkPaid, MarkFailed
  <2>3. RowsOK'
    BY <1>5 DEF HookApply, MarkPaid, MarkFailed, RowsOK, PaymentStatus, shopVars, orderVars, gatewayVars
  <2> QED
    BY <2>2, <2>3
<1>6. CASE HookDone(w)
  <2>1. CallsOK'
    BY <1>6, LeaveTyped DEF HookDone
  <2>2. RowsOK'
    BY <1>6 DEF HookDone, RowsOK, shopVars, orderVars, gatewayVars
  <2> QED
    BY <2>1, <2>2
<1>7. CASE PaidRead(w)
  <2>1. CallsOK'
    BY <1>7, SettledTyped, NoteTyped DEF PaidRead
  <2>2. RowsOK'
    BY <1>7 DEF PaidRead, RowsOK, shopVars, orderVars, gatewayVars
  <2> QED
    BY <2>1, <2>2
<1>8. CASE PaidWrite(w)
  <2>1. CallsOK'
    BY <1>8, SettledTyped DEF PaidWrite
  <2>2. call[w].seen \in OrderStatus \cup {"none"} /\ qty[o] \in Nat
    BY <1>0, <1>8 DEF Call, Named, PaidWrite, RowsOK
  <2>3. stock' \in Row
    BY <1>8, <2>2 DEF PaidWrite, RowsOK, Row, Commit, Greatest0
  <2>4. o \in Requests /\ sold[o] \in Nat
    BY <1>0, <1>8 DEF PaidWrite, RowsOK, Named
  <2>5. sold' \in [Requests -> Nat]
    BY <1>8, <2>4 DEF PaidWrite, RowsOK
  <2>6. status' \in [Requests -> OrderStatus \cup {"none"}]
    BY <1>8, <2>2, <2>4 DEF PaidWrite, RowsOK, OrderStatus
  <2>7. paymentStatus' \in [Requests -> OrderPaymentStatus]
    BY <1>8, <2>4 DEF PaidWrite, RowsOK, OrderPaymentStatus
  <2>8. RowsOK'
    BY <1>8, <2>3, <2>5, <2>6, <2>7 DEF PaidWrite, RowsOK, gatewayVars
  <2> QED
    BY <2>1, <2>8
<1>9. CASE FailRead(w)
  <2>1. CallsOK'
    BY <1>9, SettledTyped, NoteTyped DEF FailRead
  <2>2. RowsOK'
    BY <1>9 DEF FailRead, RowsOK, shopVars, orderVars, gatewayVars
  <2> QED
    BY <2>1, <2>2
<1>10. CASE FailWrite(w)
  <2>1. CallsOK'
    BY <1>10, SettledTyped DEF FailWrite
  <2>2. qty[o] \in Nat
    BY <1>0, <1>10 DEF Named, FailWrite, RowsOK
  <2>3. stock' \in Row
    BY <1>10, <2>2 DEF FailWrite, RowsOK, Row, Release, Greatest0
  <2>4. usageCount' \in Nat /\ redeemed' \in [Requests -> BOOLEAN]
    BY <1>0, <1>10, ReleaseCouponTyped DEF FailWrite, Named
  <2>5. /\ status' \in [Requests -> OrderStatus \cup {"none"}]
        /\ paymentStatus' \in [Requests -> OrderPaymentStatus]
    BY <1>10 DEF FailWrite, RowsOK, OrderStatus, OrderPaymentStatus
  <2>6. RowsOK'
    BY <1>10, <2>3, <2>4, <2>5 DEF FailWrite, RowsOK, gatewayVars
  <2> QED
    BY <2>1, <2>6
<1>11. CASE CancelRead(w)
  <2>1. CallsOK'
    BY <1>0, <1>11, LeaveTyped, NoteTyped DEF CancelRead, Named
  <2>2. RowsOK'
    BY <1>11 DEF CancelRead, RowsOK, shopVars, orderVars, gatewayVars
  <2> QED
    BY <2>1, <2>2
<1>12. CASE MoveWrite(w)
  <2>1. CallsOK'
    BY <1>12, LeaveTyped DEF MoveWrite
  <2>2. call[w].to \in OrderStatus /\ call[w].seenPaid \in OrderPaymentStatus /\ qty[o] \in Nat
    BY <1>0, <1>12 DEF Call, Named, MoveWrite, RowsOK
  <2>3. stock' \in Row
    BY <1>12, <2>2 DEF MoveWrite, RowsOK, Row, Release, Restock, Greatest0
  <2>4. o \in Requests /\ returned[o] \in Nat
    BY <1>0, <1>12 DEF MoveWrite, RowsOK, Named
  <2>5. returned' \in [Requests -> Nat]
    BY <1>12, <2>4, UpdateTyped DEF MoveWrite, RowsOK
  <2>6. usageCount' \in Nat /\ redeemed' \in [Requests -> BOOLEAN]
    <3>1. CASE call[w].to = "CANCELLED"
      BY <1>12, <2>4, <3>1, ReleaseCouponTyped DEF MoveWrite
    <3>2. CASE call[w].to # "CANCELLED"
      BY <1>12, <3>2 DEF MoveWrite, RowsOK
    <3> QED
      BY <3>1, <3>2
  <2>7. status' \in [Requests -> OrderStatus \cup {"none"}]
    BY <1>12, <2>2 DEF MoveWrite, RowsOK
  <2>8. paymentStatus' \in [Requests -> OrderPaymentStatus]
    BY <1>12, <2>2 DEF MoveWrite, RowsOK, OrderPaymentStatus
  <2>9. payment' \in [Requests -> PaymentStatus]
    BY <1>12 DEF MoveWrite, RowsOK, PaymentStatus
  <2>10. RowsOK'
    BY <1>12, <2>3, <2>5, <2>6, <2>7, <2>8, <2>9 DEF MoveWrite, RowsOK, gatewayVars
  <2> QED
    BY <2>1, <2>10
<1> QED
  BY <1>1, <1>2, <1>3, <1>4, <1>5, <1>6, <1>7, <1>8, <1>9, <1>10, <1>11, <1>12 DEF Continue

\* Every call that begins is typed.
LEMMA BeginTyped ==
  ASSUME TypeInv, NEW w \in Workers, NEW o \in Requests, Begin(w, o)
  PROVE  TypeInv'
<1> SUFFICES ASSUME RowsOK, CallsOK PROVE RowsOK' /\ CallsOK'
  BY DEF TypeInv, TypeOK, RowsOK, CallsOK, CallsNamed
<1>1. CASE Submit(w, o)
  <2>1. CallsOK'
    BY <1>1, StartTyped DEF Submit
  <2>2. RowsOK'
    BY <1>1 DEF Submit, RowsOK, shopVars, orderVars, gatewayVars
  <2> QED
    BY <2>1, <2>2
<1>2. CASE VerifyCaptured(w, o)
  <2>1. CallsOK'
    BY <1>2, StartTyped DEF VerifyCaptured, MarkPaid
  <2>2. RowsOK'
    BY <1>2 DEF VerifyCaptured, MarkPaid, RowsOK, PaymentStatus, shopVars, orderVars, gatewayVars
  <2> QED
    BY <2>1, <2>2
<1>3. CASE VerifyFailed(w, o)
  <2>1. CallsOK'
    BY <1>3, StartTyped DEF VerifyFailed, MarkFailed
  <2>2. RowsOK'
    BY <1>3 DEF VerifyFailed, MarkFailed, RowsOK, PaymentStatus, shopVars, orderVars, gatewayVars
  <2> QED
    BY <2>1, <2>2
<1>4. CASE \E kind \in EventKinds : Webhook(w, o, kind)
  <2>1. PICK kind \in EventKinds : Webhook(w, o, kind)
    BY <1>4
  <2>2. kind # "none"
    BY DEF EventKinds, CapturedKinds
  <2>3. CallsOK'
    BY <2>1, <2>2, StartTyped DEF Webhook
  <2>4. RowsOK'
    BY <2>1 DEF Webhook, RowsOK, shopVars, orderVars, gatewayVars
  <2> QED
    BY <2>3, <2>4
<1>5. CASE Sweep(w, o)
  <2>1. CallsOK'
    BY <1>5, StartTyped DEF Sweep
  <2>2. RowsOK'
    BY <1>5 DEF Sweep, RowsOK, shopVars, orderVars, gatewayVars
  <2> QED
    BY <2>1, <2>2
<1>6. CASE ShopperCancel(w, o)
  <2> DEFINE c == [Serving(o, "cancelRead", "none") EXCEPT !.to = "CANCELLED"]
  <2>1. c \in Call /\ Named(c)
    BY DEF Serving, Call, Named, Steps, OrderStatus, OrderPaymentStatus
  <2>2. CallsOK'
    BY <1>6, <2>1, BecomesTyped DEF ShopperCancel
  <2>3. RowsOK'
    BY <1>6 DEF ShopperCancel, RowsOK, shopVars, orderVars, gatewayVars
  <2> QED
    BY <2>2, <2>3
<1>7. CASE \E to \in StaffTargets : StaffMove(w, o, to)
  <2>1. PICK to \in StaffTargets : StaffMove(w, o, to)
    BY <1>7
  <2> DEFINE c == [Noting(Serving(o, "free", "none"), "moveWrite") EXCEPT !.to = to]
  <2>2. to \in OrderStatus /\ to # "none"
    BY EnvironmentAssumption DEF OrderStatus
  <2>3. status[o] \in OrderStatus \cup {"none"} /\ paymentStatus[o] \in OrderPaymentStatus
    BY DEF RowsOK
  <2> DEFINE b == Serving(o, "free", "none")
  <2>4. b \in Call /\ b.order = o
    BY ServingTyped DEF Serving, Steps
  <2>5. c \in Call /\ Named(c)
    <3>1. Noting(b, "moveWrite") \in Call
      BY <2>3, <2>4 DEF Noting, Call, Steps
    <3>2. Noting(b, "moveWrite").step = "moveWrite" /\ Noting(b, "moveWrite").order = o
      BY <2>4 DEF Noting, Call
    <3> QED
      BY <2>2, <3>1, <3>2 DEF Call, Named
  <2>6. CallsOK'
    BY <2>1, <2>5, BecomesTyped DEF StaffMove
  <2>7. RowsOK'
    BY <2>1 DEF StaffMove, RowsOK, shopVars, orderVars, gatewayVars
  <2> QED
    BY <2>6, <2>7
<1> QED
  BY <1>1, <1>2, <1>3, <1>4, <1>5, <1>6, <1>7 DEF Begin

\* A call that dies leaves its worker free.
LEMMA AbortTyped ==
  ASSUME TypeInv, NEW w \in Workers, Abort(w)
  PROVE  TypeInv'
<1> SUFFICES ASSUME RowsOK, CallsOK PROVE RowsOK' /\ CallsOK'
  BY DEF TypeInv, TypeOK, RowsOK, CallsOK, CallsNamed
<1>1. CallsOK'
  BY LeaveTyped DEF Abort
<1>2. event' \in [Requests -> [EventKinds -> {"none", "RECEIVED", "PROCESSED", "FAILED"}]]
  <2>1. CASE UNCHANGED event
    BY <2>1 DEF RowsOK
  <2>2. CASE event' = [event EXCEPT ![call[w].order][call[w].hook] = "FAILED"]
    BY <2>2 DEF RowsOK
  <2> QED
    BY <2>1, <2>2 DEF Abort
<1>3. reply' \in [Requests -> {"none", "working", "placed", "existing", "rejected", "failed"}]
  BY DEF Abort, RowsOK
<1>4. aborts' \in Nat
  BY DEF Abort, RowsOK
<1>5. RowsOK'
  BY <1>2, <1>3, <1>4 DEF Abort, RowsOK, shopVars, orderVars, gatewayVars
<1> QED
  BY <1>1, <1>5

LEMMA NextTyped == ASSUME TypeInv, [Next]_vars PROVE TypeInv'
<1>1. ASSUME NEW w \in Workers, Continue(w) PROVE TypeInv'
  BY <1>1, ContinueTyped
<1>2. ASSUME NEW w \in Workers, Abort(w) PROVE TypeInv'
  BY <1>2, AbortTyped
<1>3. ASSUME NEW w \in Workers, NEW o \in Requests, Begin(w, o) PROVE TypeInv'
  BY <1>3, BeginTyped
<1>4. ASSUME NEW o \in Requests, SubmitAgain(o) PROVE TypeInv'
  BY <1>4 DEF SubmitAgain, TypeInv, TypeOK, CallsNamed, shopVars, orderVars, gatewayVars
<1>5. ASSUME NEW o \in Requests, VerifyAuthorized(o) PROVE TypeInv'
  BY <1>5 DEF VerifyAuthorized, TypeInv, TypeOK, CallsNamed, PaymentStatus, shopVars, orderVars, gatewayVars
<1>6. ASSUME NEW o \in Requests, NEW what \in Outcomes, GatewayStep(o, what) PROVE TypeInv'
  BY <1>6 DEF GatewayStep, TypeInv, TypeOK, CallsNamed, shopVars, orderVars
<1>7. CASE UNCHANGED vars
  BY <1>7 DEF vars, TypeInv, TypeOK, CallsNamed
<1> QED
  BY <1>1, <1>2, <1>3, <1>4, <1>5, <1>6, <1>7 DEF Next

LEMMA TypeInvariant == Spec => []TypeInv
<1>1. Init => TypeInv
  BY InitTyped
<1>2. TypeInv /\ [Next]_vars => TypeInv'
  BY NextTyped
<1> QED
  BY <1>1, <1>2, PTL DEF Spec

\* Rows, calls in flight and replies keep their types in every behaviour,
\* whatever the number of calls and the order in which they run or die.
THEOREM TypeCorrect == Spec => []TypeOK
<1>1. TypeInv => TypeOK
  BY DEF TypeInv
<1> QED
  BY <1>1, TypeInvariant, PTL

-------------------------------------------------------------------------------
\* The stock row.

\* Each movement keeps a legal row legal; a reservation only when the guard of
\* its UPDATE let it through.
LEMMA MovementsLegal ==
  ASSUME NEW row \in Row, LegalRow(row), NEW n \in Nat
  PROVE  /\ Commit(row, n) \in Row /\ LegalRow(Commit(row, n))
         /\ Release(row, n) \in Row /\ LegalRow(Release(row, n))
         /\ Restock(row, n) \in Row /\ LegalRow(Restock(row, n))
         /\ \A backorder \in BOOLEAN : CanReserve(row, n, backorder) =>
              Reserve(row, n) \in Row /\ LegalRow(Reserve(row, n))
BY DEF Row, LegalRow, Commit, Release, Restock, Reserve, CanReserve, Greatest0

\* The steps that move stock; every other step leaves the row alone.
LEMMA StockMoves ==
  ASSUME TypeInv, StockSound, [Next]_vars
  PROVE  StockSound'
<1> USE DEF StockSound, At
<1>0. stock \in Row /\ LegalRow(stock)
  BY DEF TypeInv, TypeOK
<1>1. ASSUME NEW w \in Workers, Place(w) PROVE StockSound'
  <2>1. call[w].held \in Nat
    BY DEF TypeInv, TypeOK, Call
  <2>2. CanReserve(stock, call[w].held, AllowBackorder)
    BY <1>1 DEF Place, CanPlace
  <2>3. Reserve(stock, call[w].held) \in Row /\ LegalRow(Reserve(stock, call[w].held))
    BY <1>0, <2>1, <2>2, MovementsLegal, StoreAssumption
  <2>4. LegalRow(Commit(Reserve(stock, call[w].held), call[w].held))
    BY <2>1, <2>3, MovementsLegal
  <2> QED
    BY <1>1, <2>3, <2>4 DEF Place
<1>2. ASSUME NEW w \in Workers, PaidWrite(w) PROVE StockSound'
  <2>1. qty[call[w].order] \in Nat
    BY <1>2 DEF PaidWrite, TypeInv, TypeOK, CallsNamed, Named
  <2> QED
    BY <1>0, <1>2, <2>1, MovementsLegal DEF PaidWrite
<1>3. ASSUME NEW w \in Workers, FailWrite(w) PROVE StockSound'
  <2>1. qty[call[w].order] \in Nat
    BY <1>3 DEF FailWrite, TypeInv, TypeOK, CallsNamed, Named
  <2> QED
    BY <1>0, <1>3, <2>1, MovementsLegal DEF FailWrite
<1>4. ASSUME NEW w \in Workers, MoveWrite(w) PROVE StockSound'
  <2>1. qty[call[w].order] \in Nat
    BY <1>4 DEF MoveWrite, TypeInv, TypeOK, CallsNamed, Named
  <2> QED
    BY <1>0, <1>4, <2>1, MovementsLegal DEF MoveWrite
<1>5. ASSUME UNCHANGED stock PROVE StockSound'
  BY <1>0, <1>5
<1>6. CASE UNCHANGED vars
  BY <1>5, <1>6 DEF vars
<1>7. ASSUME NEW w \in Workers, Continue(w) PROVE StockSound'
  BY <1>1, <1>2, <1>3, <1>4, <1>5, <1>7
     DEF Continue, ReadCart, Refuse, PlaceRefused, Attach, HookApply, HookDone, PaidRead, FailRead, CancelRead, shopVars
<1>8. ASSUME NEW w \in Workers, NEW o \in Requests, Begin(w, o) PROVE StockSound'
  BY <1>5, <1>8
     DEF Begin, Submit, VerifyCaptured, VerifyFailed, Webhook, Sweep, ShopperCancel, StaffMove, shopVars
<1> QED
  BY <1>5, <1>6, <1>7, <1>8 DEF Next, Abort, SubmitAgain, VerifyAuthorized, GatewayStep, shopVars

\* Whatever checkouts, settlements, cancellations and returns interleave, and
\* whichever of them die, the stock row never leaves its CHECK constraints, so
\* the database never rolls a settlement back because of them.
THEOREM StockAlwaysSound == Spec => []StockSound
<1>1. Init => StockSound
  BY StoreAssumption DEF Init, StockSound, LegalRow
<1>2. TypeInv /\ StockSound /\ [Next]_vars => StockSound'
  BY StockMoves
<1> QED
  BY <1>1, <1>2, TypeInvariant, PTL DEF Spec

-------------------------------------------------------------------------------
\* Orders.

\* What exists is never un-created: gateway orders, and every call past the
\* transaction of POST /orders, belong to an order that has been placed.
Backed(c) ==
  /\ c.step \notin {"free", "cart", "place"} => Exists(c.order)
  /\ c.step = "paidWrite" => c.seen # "none"

KnownRows ==
  \A o \in Requests :
    intent[o] \/ outcome[o] # {} \/ redeemed[o] \/ payment[o] # "PENDING" => Exists(o)

KnownCalls == \A w \in Workers : Backed(call[w])

KnownOrders == KnownRows /\ KnownCalls

OrderInv == TypeInv /\ KnownOrders /\ OneOrderPerKey

\* Only the transaction of POST /orders creates an order, and nothing removes one.
SameOrders == \A o \in Requests : Exists(o)' <=> Exists(o)

\* A status written over another one is a status, so the order stays.
LEMMA Overwrite ==
  ASSUME TypeInv, NEW o \in Requests, Exists(o), NEW to \in OrderStatus,
         status' = [status EXCEPT ![o] = to]
  PROVE  SameOrders
<1>1. to # "none"
  BY DEF OrderStatus
<1> QED
  BY <1>1 DEF SameOrders, Exists, TypeInv, TypeOK

LEMMA WritesKeepOrders ==
  ASSUME TypeInv, KnownOrders, NEW w \in Workers, PaidWrite(w) \/ FailWrite(w) \/ MoveWrite(w)
  PROVE  SameOrders
<1> USE DEF At
<1>1. /\ call[w] \in Call /\ Named(call[w])
      /\ call[w].step \in {"paidWrite", "failWrite", "moveWrite"}
  BY DEF TypeInv, TypeOK, CallsNamed, PaidWrite, FailWrite, MoveWrite
<1>2. call[w].order \in Requests /\ Exists(call[w].order)
  BY <1>1 DEF Named, KnownOrders, KnownCalls, Backed
<1>3. CASE PaidWrite(w)
  <2>1. call[w].seen \in OrderStatus
    BY <1>1, <1>3 DEF PaidWrite, KnownOrders, KnownCalls, Backed, Call
  <2>2. (IF call[w].seen = "PENDING" THEN "CONFIRMED" ELSE call[w].seen) \in OrderStatus
    BY <2>1 DEF OrderStatus
  <2> QED
    BY <1>2, <1>3, <2>2, Overwrite DEF PaidWrite
<1>4. CASE FailWrite(w)
  BY <1>2, <1>4, Overwrite DEF FailWrite, OrderStatus
<1>5. CASE MoveWrite(w)
  <2>1. call[w].to \in OrderStatus
    BY <1>1, <1>5 DEF MoveWrite, Named, Call
  <2> QED
    BY <1>2, <1>5, <2>1, Overwrite DEF MoveWrite
<1> QED
  BY <1>3, <1>4, <1>5

\* The steps that leave every status alone.
LEMMA StatusMoves ==
  ASSUME TypeInv, KnownOrders, [Next]_vars, ~ \E w \in Workers : Place(w)
  PROVE  SameOrders
<1>1. ASSUME UNCHANGED status PROVE SameOrders
  BY <1>1 DEF SameOrders, Exists
<1>2. ASSUME NEW w \in Workers, Continue(w) PROVE SameOrders
  BY <1>1, <1>2, WritesKeepOrders
     DEF Continue, ReadCart, Refuse, PlaceRefused, Attach, HookApply, HookDone, PaidRead, FailRead, CancelRead, orderVars
<1>3. ASSUME NEW w \in Workers, NEW o \in Requests, Begin(w, o) PROVE SameOrders
  BY <1>1, <1>3
     DEF Begin, Submit, VerifyCaptured, VerifyFailed, Webhook, Sweep, ShopperCancel, StaffMove, orderVars
<1>4. CASE UNCHANGED vars
  BY <1>1, <1>4 DEF vars
<1> QED
  BY <1>1, <1>2, <1>3, <1>4 DEF Next, Abort, SubmitAgain, VerifyAuthorized, GatewayStep, orderVars

\* The transaction of POST /orders adds one order, under a key no order had.
LEMMA PlaceAdds ==
  ASSUME TypeInv, NEW w \in Workers, Place(w)
  PROVE  /\ call[w].order \in Requests
         /\ ~KeyTaken(call[w].order)
         /\ \A o \in Requests : Exists(o)' <=> Exists(o) \/ o = call[w].order
<1>1. call[w].order \in Requests
  BY DEF TypeInv, TypeOK, CallsNamed, Named, Place, At
<1> QED
  BY <1>1 DEF Place, CanPlace, Exists, TypeInv, TypeOK

LEMMA OneOrderPerKeyStays ==
  ASSUME TypeInv, KnownOrders, OneOrderPerKey, [Next]_vars
  PROVE  OneOrderPerKey'
<1>1. CASE \E w \in Workers : Place(w)
  <2>1. PICK w \in Workers : Place(w)
    BY <1>1
  <2> QED
    BY <2>1, PlaceAdds DEF OneOrderPerKey, KeyTaken
<1>2. CASE ~ \E w \in Workers : Place(w)
  BY <1>2, StatusMoves DEF OneOrderPerKey, SameOrders
<1> QED
  BY <1>1, <1>2

\* Rows of the gateway, of the coupon and of payments change for orders that
\* exist only: each step touches those of one such order.
LEMMA KnownRowsStay ==
  ASSUME TypeInv, KnownOrders, SameOrders, [Next]_vars, ~ \E w \in Workers : Place(w)
  PROVE  KnownRows'
<1> USE DEF At
<1>1. ASSUME UNCHANGED <<intent, outcome, redeemed, payment>> PROVE KnownRows'
  BY <1>1 DEF SameOrders, KnownOrders, KnownRows
<1>2. ASSUME NEW o \in Requests, Exists(o),
             \A p \in Requests \ {o} : /\ intent'[p] = intent[p] /\ outcome'[p] = outcome[p]
                                       /\ redeemed'[p] = redeemed[p] /\ payment'[p] = payment[p]
      PROVE  KnownRows'
  BY <1>2 DEF SameOrders, KnownOrders, KnownRows
<1>3. ASSUME NEW w \in Workers, call[w].step \notin {"free", "cart", "place"}
      PROVE  call[w].order \in Requests /\ Exists(call[w].order)
  BY <1>3 DEF TypeInv, CallsNamed, Named, KnownOrders, KnownCalls, Backed
<1>4. ASSUME NEW o \in Requests, outcome[o] # {} \/ intent[o] PROVE Exists(o)
  BY <1>4 DEF KnownOrders, KnownRows
<1>5. ASSUME NEW w \in Workers, Attach(w) PROVE KnownRows'
  BY <1>2, <1>3, <1>5 DEF Attach, OpenIntent, ResetCod, TypeInv, TypeOK, orderVars
<1>6. ASSUME NEW w \in Workers, HookApply(w) PROVE KnownRows'
  BY <1>2, <1>3, <1>6 DEF HookApply, MarkPaid, MarkFailed, TypeInv, TypeOK, orderVars, gatewayVars
<1>7. ASSUME NEW w \in Workers, FailWrite(w) PROVE KnownRows'
  BY <1>2, <1>3, <1>7 DEF FailWrite, ReleaseCoupon, TypeInv, TypeOK, gatewayVars
<1>8. ASSUME NEW w \in Workers, MoveWrite(w) PROVE KnownRows'
  <2> DEFINE o == call[w].order
  <2>1. \A p \in Requests \ {o} : redeemed'[p] = redeemed[p]
    BY <1>8 DEF MoveWrite, ReleaseCoupon, TypeInv, TypeOK
  <2>2. \A p \in Requests \ {o} : payment'[p] = payment[p]
    BY <1>8 DEF MoveWrite, TypeInv, TypeOK
  <2>3. UNCHANGED <<intent, outcome>> /\ o \in Requests /\ Exists(o)
    BY <1>3, <1>8 DEF MoveWrite, gatewayVars
  <2> QED
    BY <1>2, <2>1, <2>2, <2>3
<1>9. ASSUME NEW o \in Requests, NEW w \in Workers, VerifyCaptured(w, o) \/ VerifyFailed(w, o)
      PROVE  KnownRows'
  <2>1. Exists(o)
    BY <1>4, <1>9 DEF VerifyCaptured, VerifyFailed
  <2> QED
    BY <1>2, <1>9, <2>1
       DEF VerifyCaptured, VerifyFailed, MarkPaid, MarkFailed, TypeInv, TypeOK, orderVars, gatewayVars
<1>10. ASSUME NEW o \in Requests, VerifyAuthorized(o) PROVE KnownRows'
  <2>1. Exists(o)
    BY <1>4, <1>10 DEF VerifyAuthorized
  <2> QED
    BY <1>2, <1>10, <2>1 DEF VerifyAuthorized, TypeInv, TypeOK, orderVars, gatewayVars
<1>11. ASSUME NEW o \in Requests, NEW what \in Outcomes, GatewayStep(o, what) PROVE KnownRows'
  BY <1>2, <1>4, <1>11 DEF GatewayStep, TypeInv, TypeOK, orderVars
<1>12. ASSUME NEW w \in Workers, Continue(w) PROVE KnownRows'
  BY <1>1, <1>5, <1>6, <1>7, <1>8, <1>12
     DEF Continue, ReadCart, Refuse, PlaceRefused, HookDone, PaidRead, PaidWrite, FailRead,
         CancelRead, orderVars, gatewayVars
<1>13. ASSUME NEW w \in Workers, NEW o \in Requests, Begin(w, o) PROVE KnownRows'
  BY <1>1, <1>9, <1>13
     DEF Begin, Submit, Webhook, Sweep, ShopperCancel, StaffMove, orderVars, gatewayVars
<1>14. CASE UNCHANGED vars
  BY <1>1, <1>14 DEF vars
<1> QED
  BY <1>1, <1>10, <1>11, <1>12, <1>13, <1>14 DEF Next, Abort, SubmitAgain, orderVars, gatewayVars

\* A worker takes a call that is backed, and the others keep theirs.
LEMMA BackedCall ==
  ASSUME TypeInv, KnownOrders, SameOrders, NEW w \in Workers, NEW c, Becomes(w, c),
         c.step # "free" => c.order \in Requests, Backed(c)
  PROVE  KnownCalls'
<1>1. ASSUME NEW v \in Workers PROVE Backed(call[v])'
  <2>1. CASE v = w
    <3>1. call'[v] = c
      BY <2>1 DEF Becomes, TypeInv, TypeOK
    <3> QED
      BY <3>1 DEF Backed, SameOrders
  <2>2. CASE v # w
    <3>1. call'[v] = call[v]
      BY <2>2 DEF Becomes, TypeInv, TypeOK
    <3>2. call[v].step # "free" => call[v].order \in Requests
      BY DEF TypeInv, CallsNamed, Named
    <3> QED
      BY <3>1, <3>2 DEF Backed, SameOrders, KnownOrders, KnownCalls
  <2> QED
    BY <2>1, <2>2
<1> QED
  BY <1>1 DEF KnownCalls

LEMMA FreeBacked == Free.step = "free" /\ Backed(Free)
BY DEF Free, Serving, Backed

LEMMA ServingBacked ==
  ASSUME NEW o, NEW step, NEW hook, Exists(o), step # "paidWrite"
  PROVE  Serving(o, step, hook).order = o /\ Backed(Serving(o, step, hook))
BY DEF Serving, Backed

\* Calls that continue or begin stay backed.
LEMMA ContinueBacked ==
  ASSUME TypeInv, KnownOrders, SameOrders, NEW w \in Workers, Continue(w), ~Place(w)
  PROVE  KnownCalls'
<1> DEFINE c == call[w]
<1> USE DEF At
<1>1. c \in Call /\ Named(c) /\ Backed(c)
  BY DEF TypeInv, TypeOK, CallsNamed, KnownOrders, KnownCalls
<1>2. ASSUME Leave(w) PROVE KnownCalls'
  BY <1>2, FreeBacked, BackedCall DEF Leave
<1>3. ASSUME c.step \notin {"free", "cart", "place"} PROVE c.order \in Requests /\ Exists(c.order)
  BY <1>1, <1>3 DEF Named, Backed
<1>4. ASSUME Settled(w), c.step \notin {"free", "cart", "place"} PROVE KnownCalls'
  BY <1>2, <1>3, <1>4, ServingBacked, BackedCall DEF Settled, Leave
<1>5. ASSUME NEW step, Note(w, step), c.step \notin {"free", "cart", "place"} PROVE KnownCalls'
  <2>1. Noting(c, step).order = c.order /\ Noting(c, step).seen # "none"
    BY <1>1, <1>3, <1>5 DEF Noting, Call, Exists
  <2> QED
    BY <1>3, <1>5, <2>1, BackedCall DEF Note, Backed
<1>6. CASE ReadCart(w)
  <2>1. CASE Refuse(w)
    BY <1>2, <2>1 DEF Refuse
  <2>2. CASE ~Refuse(w)
    <3> DEFINE d == [call[w] EXCEPT !.step = "place", !.held = cart[CustomerOf[call[w].order]]]
    <3>1. Becomes(w, d)
      BY <1>6, <2>2 DEF ReadCart
    <3>2. d.step = "place" /\ d.order = c.order
      BY <1>1 DEF Call
    <3>3. c.order \in Requests
      BY <1>1, <1>6 DEF ReadCart, Named
    <3> QED
      BY <3>1, <3>2, <3>3, BackedCall DEF Backed
  <2> QED
    BY <2>1, <2>2
<1>7. CASE PlaceRefused(w)
  BY <1>2, <1>7 DEF PlaceRefused, Refuse
<1>8. CASE Attach(w) \/ HookDone(w) \/ MoveWrite(w)
  BY <1>2, <1>8 DEF Attach, HookDone, MoveWrite
<1>9. CASE HookApply(w)
  <2>1. c.order \in Requests /\ Exists(c.order)
    BY <1>3, <1>9 DEF HookApply
  <2>2. ASSUME NEW step \in {"paidRead", "failRead"}, Becomes(w, Serving(c.order, step, c.hook))
        PROVE  KnownCalls'
    BY <2>1, <2>2, ServingBacked, BackedCall
  <2>3. ASSUME Go(w, "hookDone") PROVE KnownCalls'
    <3>1. [call[w] EXCEPT !.step = "hookDone"].order = c.order
      BY <1>1 DEF Call
    <3>2. [call[w] EXCEPT !.step = "hookDone"].step = "hookDone"
      BY <1>1 DEF Call
    <3> QED
      BY <2>1, <2>3, <3>1, <3>2, BackedCall DEF Go, Backed
  <2> QED
    BY <1>9, <2>2, <2>3 DEF HookApply, MarkPaid, MarkFailed
<1>10. CASE PaidRead(w)
  BY <1>4, <1>5, <1>10 DEF PaidRead
<1>11. CASE PaidWrite(w) \/ FailWrite(w)
  BY <1>4, <1>11 DEF PaidWrite, FailWrite
<1>12. CASE FailRead(w)
  BY <1>4, <1>5, <1>12 DEF FailRead
<1>13. CASE CancelRead(w)
  BY <1>2, <1>5, <1>13 DEF CancelRead
<1> QED
  BY <1>6, <1>7, <1>8, <1>9, <1>10, <1>11, <1>12, <1>13 DEF Continue

LEMMA BeginBacked ==
  ASSUME TypeInv, KnownOrders, SameOrders, NEW w \in Workers, NEW o \in Requests, Begin(w, o)
  PROVE  KnownCalls'
<1>1. ASSUME NEW step, NEW hook, step # "paidWrite", Exists(o), Becomes(w, Serving(o, step, hook))
      PROVE  KnownCalls'
  BY <1>1, ServingBacked, BackedCall
<1>2. outcome[o] # {} \/ intent[o] => Exists(o)
  BY DEF KnownOrders, KnownRows
<1>3. CASE Submit(w, o)
  BY <1>3, BackedCall DEF Submit, Serving, Backed
<1>4. CASE VerifyCaptured(w, o)
  BY <1>1, <1>2, <1>4 DEF VerifyCaptured, MarkPaid
<1>5. CASE VerifyFailed(w, o)
  BY <1>1, <1>2, <1>5 DEF VerifyFailed, MarkFailed
<1>6. CASE \E kind \in EventKinds : Webhook(w, o, kind)
  BY <1>1, <1>2, <1>6 DEF Webhook
<1>7. CASE Sweep(w, o)
  BY <1>1, <1>7 DEF Sweep, Exists
<1>8. CASE ShopperCancel(w, o)
  <2> DEFINE c == [Serving(o, "cancelRead", "none") EXCEPT !.to = "CANCELLED"]
  <2>1. c.step = "cancelRead" /\ c.order = o
    BY DEF Serving
  <2>2. Exists(o)
    BY <1>8 DEF ShopperCancel, CustomerCancellable, Exists
  <2> QED
    BY <1>8, <2>1, <2>2, BackedCall DEF ShopperCancel, Backed
<1>9. CASE \E to \in StaffTargets : StaffMove(w, o, to)
  <2>1. PICK to \in StaffTargets : StaffMove(w, o, to)
    BY <1>9
  <2> DEFINE b == Serving(o, "free", "none")
             c == [Noting(b, "moveWrite") EXCEPT !.to = to]
  <2>2. Exists(o)
    BY <2>1 DEF StaffMove, MayMove
  <2>3. c.step = "moveWrite" /\ c.order = o
    <3>1. Noting(b, "moveWrite").step = "moveWrite" /\ Noting(b, "moveWrite").order = o
      BY DEF Noting, Serving
    <3> QED
      BY <3>1 DEF Noting, Serving
  <2> QED
    BY <2>1, <2>2, <2>3, BackedCall DEF StaffMove, Backed
<1> QED
  BY <1>3, <1>4, <1>5, <1>6, <1>7, <1>8, <1>9 DEF Begin

LEMMA KnownCallsStay ==
  ASSUME TypeInv, KnownOrders, SameOrders, [Next]_vars, ~ \E w \in Workers : Place(w)
  PROVE  KnownCalls'
<1>1. ASSUME UNCHANGED call PROVE KnownCalls'
  BY <1>1 DEF KnownCalls, KnownOrders, Backed, SameOrders, TypeInv, CallsNamed, Named
<1>2. ASSUME NEW w \in Workers, Abort(w) PROVE KnownCalls'
  BY <1>2, FreeBacked, BackedCall DEF Abort, Leave
<1>3. CASE UNCHANGED vars
  BY <1>1, <1>3 DEF vars
<1> QED
  BY <1>1, <1>2, <1>3, ContinueBacked, BeginBacked
     DEF Next, SubmitAgain, VerifyAuthorized, GatewayStep

\* The order a transaction of POST /orders adds is known from then on.
LEMMA KnownAfterPlace ==
  ASSUME TypeInv, KnownOrders, NEW w \in Workers, Place(w)
  PROVE  KnownOrders'
<1> DEFINE r == call[w].order
<1> USE DEF At
<1>1. /\ r \in Requests
      /\ \A o \in Requests : Exists(o)' <=> Exists(o) \/ o = r
  BY PlaceAdds
<1>2. KnownRows'
  <2>1. /\ \A o \in Requests : redeemed'[o] => redeemed[o] \/ o = r
        /\ \A o \in Requests : payment'[o] = payment[o] \/ o = r
        /\ UNCHANGED <<intent, outcome>>
    BY <1>1 DEF Place, RedeemCoupon, CreatePayment, TypeInv, TypeOK, gatewayVars
  <2> QED
    BY <1>1, <2>1 DEF KnownOrders, KnownRows
<1>3. ASSUME NEW v \in Workers PROVE Backed(call[v])'
  <2>1. CASE v = w
    <3>1. call[w] \in Call
      BY DEF TypeInv, TypeOK
    <3>2. call'[v].step = "tail" /\ call'[v].order = r
      BY <2>1, <3>1 DEF Place, Go, Becomes, TypeInv, TypeOK, Call
    <3> QED
      BY <1>1, <3>2 DEF Backed
  <2>2. CASE v # w
    <3>1. call'[v] = call[v]
      BY <2>2 DEF Place, Go, Becomes, TypeInv, TypeOK
    <3>2. call[v].step # "free" => call[v].order \in Requests
      BY DEF TypeInv, CallsNamed, Named
    <3> QED
      BY <1>1, <3>1, <3>2 DEF Backed, KnownOrders, KnownCalls
  <2> QED
    BY <2>1, <2>2
<1> QED
  BY <1>2, <1>3 DEF KnownOrders, KnownCalls

LEMMA OrderInvariant == Spec => []OrderInv
<1>1. Init => OrderInv
  <2> SUFFICES ASSUME Init PROVE OrderInv
    OBVIOUS
  <2>1. \A o \in Requests : ~Exists(o) /\ ~intent[o] /\ outcome[o] = {} /\ ~redeemed[o] /\ payment[o] = "PENDING"
    BY DEF Init, Exists
  <2>2. \A w \in Workers : Backed(call[w])
    BY FreeBacked DEF Init
  <2> QED
    BY <2>1, <2>2, InitTyped DEF OrderInv, KnownOrders, KnownRows, KnownCalls, OneOrderPerKey
<1>2. OrderInv /\ [Next]_vars => OrderInv'
  <2> SUFFICES ASSUME TypeInv, KnownOrders, OneOrderPerKey, [Next]_vars PROVE OrderInv'
    BY DEF OrderInv
  <2>1. TypeInv' /\ OneOrderPerKey'
    BY NextTyped, OneOrderPerKeyStays
  <2>2. KnownOrders'
    <3>1. CASE \E w \in Workers : Place(w)
      BY <3>1, KnownAfterPlace
    <3>2. CASE ~ \E w \in Workers : Place(w)
      BY <3>2, StatusMoves, KnownRowsStay, KnownCallsStay DEF KnownOrders
    <3> QED
      BY <3>1, <3>2
  <2> QED
    BY <2>1, <2>2 DEF OrderInv
<1> QED
  BY <1>1, <1>2, PTL DEF Spec

\* However many calls carry one idempotency key, and wherever they interleave
\* or die, the store never holds two orders with that key.
THEOREM KeyHasOneOrder == Spec => []OneOrderPerKey
<1>1. OrderInv => OneOrderPerKey
  BY DEF OrderInv
<1> QED
  BY <1>1, OrderInvariant, PTL

-------------------------------------------------------------------------------
\* The coupon.

\* Giving back a use that was taken keeps the counter equal to the rows.
LEMMA ReleaseHonest ==
  ASSUME TypeInv, CouponHonest, NEW o \in Requests, ReleaseCoupon(o)
  PROVE  CouponHonest'
<1>1. IsFiniteSet(Redemptions) /\ UsageLimit \in Nat /\ usageCount \in Nat
  <2>1. IsFiniteSet(Requests) /\ Redemptions \subseteq Requests
    BY RequestsAssumption DEF Redemptions
  <2> QED
    BY <2>1, FS_Subset, StoreAssumption DEF TypeInv, TypeOK
<1>2. Redemptions' = Redemptions \ {o}
  BY DEF ReleaseCoupon, Redemptions, TypeInv, TypeOK
<1>3. CASE redeemed[o]
  <2>1. o \in Redemptions
    BY <1>3 DEF Redemptions
  <2>2. Cardinality(Redemptions \ {o}) = Cardinality(Redemptions) - 1 /\ Cardinality(Redemptions) \in Nat
    BY <1>1, <2>1, FS_RemoveElement, FS_CardinalityType
  <2>3. Cardinality(Redemptions \ {o}) \in Nat
    BY <1>1, FS_RemoveElement, FS_CardinalityType
  <2>4. usageCount' = Greatest0(usageCount - 1)
    BY <1>3 DEF ReleaseCoupon
  <2>5. usageCount = Cardinality(Redemptions) /\ usageCount <= UsageLimit
    BY DEF CouponHonest
  <2>6. usageCount' = usageCount - 1
    BY <2>2, <2>3, <2>4, <2>5 DEF Greatest0
  <2> QED
    BY <1>1, <1>2, <2>2, <2>5, <2>6 DEF CouponHonest
<1>4. CASE ~redeemed[o]
  BY <1>2, <1>4 DEF ReleaseCoupon, CouponHonest, Redemptions
<1> QED
  BY <1>3, <1>4

\* Redeeming adds a row and a use, while the limit has one left.
LEMMA RedeemHonest ==
  ASSUME TypeInv, KnownOrders, CouponHonest, NEW w \in Workers, Place(w)
  PROVE  CouponHonest'
<1> DEFINE r == call[w].order
<1>1. IsFiniteSet(Redemptions) /\ UsageLimit \in Nat /\ usageCount \in Nat
  <2>1. IsFiniteSet(Requests) /\ Redemptions \subseteq Requests
    BY RequestsAssumption DEF Redemptions
  <2> QED
    BY <2>1, FS_Subset, StoreAssumption DEF TypeInv, TypeOK
<1>2. r \in Requests /\ r \notin Redemptions
  BY PlaceAdds DEF KeyTaken, KnownOrders, KnownRows, Redemptions
<1>3. CASE CustomerOf[r] \in CouponCarts
  <2>1. Redemptions' = Redemptions \cup {r}
    BY <1>2, <1>3 DEF Place, RedeemCoupon, Redemptions, TypeInv, TypeOK
  <2>2. Cardinality(Redemptions \cup {r}) = Cardinality(Redemptions) + 1
    BY <1>1, <1>2, FS_AddElement
  <2>3. usageCount' = usageCount + 1 /\ usageCount < UsageLimit
    BY <1>3 DEF Place, RedeemCoupon, CanPlace, CanRedeem
  <2> QED
    BY <1>1, <2>1, <2>2, <2>3 DEF CouponHonest
<1>4. CASE CustomerOf[r] \notin CouponCarts
  <2>1. Redemptions' = Redemptions
    BY <1>2, <1>4 DEF Place, RedeemCoupon, Redemptions, TypeInv, TypeOK
  <2> QED
    BY <1>4, <2>1 DEF Place, RedeemCoupon, CouponHonest
<1> QED
  BY <1>3, <1>4

LEMMA CouponStaysHonest ==
  ASSUME TypeInv, KnownOrders, CouponHonest, [Next]_vars
  PROVE  CouponHonest'
<1> USE DEF At
<1>1. ASSUME UNCHANGED <<usageCount, redeemed>> PROVE CouponHonest'
  BY <1>1 DEF CouponHonest, Redemptions
<1>2. ASSUME NEW w \in Workers, FailWrite(w) PROVE CouponHonest'
  BY <1>2, ReleaseHonest DEF FailWrite, TypeInv, CallsNamed, Named
<1>3. ASSUME NEW w \in Workers, MoveWrite(w) PROVE CouponHonest'
  BY <1>1, <1>3, ReleaseHonest DEF MoveWrite, TypeInv, CallsNamed, Named
<1>4. ASSUME NEW w \in Workers, Continue(w) PROVE CouponHonest'
  BY <1>1, <1>2, <1>3, <1>4, RedeemHonest
     DEF Continue, ReadCart, Refuse, PlaceRefused, Attach, HookApply, HookDone, PaidRead, PaidWrite,
         FailRead, CancelRead, orderVars, shopVars
<1>5. ASSUME NEW w \in Workers, NEW o \in Requests, Begin(w, o) PROVE CouponHonest'
  BY <1>1, <1>5
     DEF Begin, Submit, VerifyCaptured, VerifyFailed, Webhook, Sweep, ShopperCancel, StaffMove, orderVars, shopVars
<1>6. CASE UNCHANGED vars
  BY <1>1, <1>6 DEF vars
<1> QED
  BY <1>1, <1>4, <1>5, <1>6
     DEF Next, Abort, SubmitAgain, VerifyAuthorized, GatewayStep, orderVars, shopVars

\* The uses counted on the coupon are exactly the redemption rows, and never
\* more than its limit, however orders that redeem and release it interleave.
THEOREM CouponAlwaysHonest == Spec => []CouponHonest
<1>1. Init => CouponHonest
  <2> SUFFICES ASSUME Init PROVE CouponHonest
    OBVIOUS
  <2>1. Redemptions = {} /\ usageCount = 0 /\ UsageLimit \in Nat
    BY StoreAssumption DEF Init, Redemptions
  <2> QED
    BY <2>1, FS_EmptySet DEF CouponHonest
<1>2. OrderInv /\ CouponHonest /\ [Next]_vars => CouponHonest'
  BY CouponStaysHonest DEF OrderInv
<1> QED
  BY <1>1, <1>2, OrderInvariant, PTL DEF Spec

-------------------------------------------------------------------------------
\* Settled payments.

\* Every statement that writes the payment of an online order either asks for
\* an unsettled one, or belongs to the transaction that creates the order.
PaymentKept == \A o \in Requests : Online(o) /\ ~Unsettled(o) => payment'[o] = payment[o]

LEMMA SettledPaymentsStay ==
  ASSUME TypeInv, KnownOrders, [Next]_vars
  PROVE  PaymentKept
<1> USE DEF PaymentKept, At
<1>1. ASSUME UNCHANGED payment PROVE PaymentKept
  BY <1>1
<1>2. ASSUME NEW o \in Requests, ~Online(o) \/ Unsettled(o),
             \A p \in Requests \ {o} : payment'[p] = payment[p]
      PROVE  PaymentKept
  BY <1>2
<1>3. ASSUME NEW w \in Workers, call[w].step # "free" PROVE call[w].order \in Requests
  BY <1>3 DEF TypeInv, CallsNamed, Named
<1>4. ASSUME NEW w \in Workers, Place(w) PROVE PaymentKept
  <2>1. call[w].order \in Requests /\ ~Exists(call[w].order)
    BY <1>4, PlaceAdds DEF KeyTaken
  <2>2. Unsettled(call[w].order)
    BY <2>1 DEF KnownOrders, KnownRows, Unsettled
  <2> QED
    BY <1>2, <1>4, <2>1, <2>2 DEF Place, CreatePayment, TypeInv, TypeOK
<1>5. ASSUME NEW w \in Workers, Attach(w) PROVE PaymentKept
  BY <1>1, <1>2, <1>3, <1>5 DEF Attach, OpenIntent, ResetCod, Online, TypeInv, TypeOK
<1>6. ASSUME NEW w \in Workers, HookApply(w) PROVE PaymentKept
  BY <1>1, <1>2, <1>3, <1>6 DEF HookApply, MarkPaid, MarkFailed, TypeInv, TypeOK
<1>7. ASSUME NEW w \in Workers, MoveWrite(w) PROVE PaymentKept
  BY <1>1, <1>2, <1>3, <1>7 DEF MoveWrite, Online, TypeInv, TypeOK
<1>8. ASSUME NEW o \in Requests, NEW w \in Workers, VerifyCaptured(w, o) \/ VerifyFailed(w, o)
      PROVE  PaymentKept
  BY <1>2, <1>8 DEF VerifyCaptured, VerifyFailed, MarkPaid, MarkFailed, TypeInv, TypeOK
<1>9. ASSUME NEW o \in Requests, VerifyAuthorized(o) PROVE PaymentKept
  BY <1>2, <1>9 DEF VerifyAuthorized, Unsettled, TypeInv, TypeOK
<1>10. ASSUME NEW w \in Workers, Continue(w) PROVE PaymentKept
  BY <1>1, <1>4, <1>5, <1>6, <1>7, <1>10
     DEF Continue, ReadCart, Refuse, PlaceRefused, HookDone, PaidRead, PaidWrite, FailRead, FailWrite, CancelRead
<1>11. ASSUME NEW w \in Workers, NEW o \in Requests, Begin(w, o) PROVE PaymentKept
  BY <1>1, <1>8, <1>11 DEF Begin, Submit, Webhook, Sweep, ShopperCancel, StaffMove
<1>12. CASE UNCHANGED vars
  BY <1>1, <1>12 DEF vars
<1> QED
  BY <1>1, <1>9, <1>10, <1>11, <1>12 DEF Next, Abort, SubmitAgain, GatewayStep

\* No late authorisation, late failure or second capture reopens or flips an
\* online payment that is settled, whatever runs at the same time.
THEOREM SettledPaymentIsFinal == Spec => SettledIsFinal
<1>1. OrderInv /\ [Next]_vars =>
        [\A o \in Requests : Online(o) /\ ~Unsettled(o) => payment'[o] = payment[o]]_vars
  BY SettledPaymentsStay DEF OrderInv, PaymentKept
<1> QED
  BY <1>1, OrderInvariant, PTL DEF Spec, SettledIsFinal

-------------------------------------------------------------------------------
\* Paid orders.

Captured(o) == "captured" \in outcome[o]

\* What a call in flight may rely on: a settlement under way is of a payment
\* that is PAID, a snapshot that says PAID is not out of date about it, and the
\* webhook of a capture is about money that was captured.
Funded(c) ==
  /\ c.step \in {"paidRead", "paidWrite"} /\ Online(c.order) => payment[c.order] = "PAID"
  /\ c.step = "moveWrite" /\ c.seenPaid = "PAID" /\ Online(c.order) => payment[c.order] = "PAID"
  /\ c.step = "hook" /\ c.hook \in CapturedKinds => Captured(c.order)

FundedCalls == \A w \in Workers : Funded(call[w])

FundedRows ==
  \A o \in Requests : Online(o) => /\ payment[o] = "PAID" => Captured(o)
                                   /\ paymentStatus[o] = "PAID" => payment[o] = "PAID"

MoneyInv == OrderInv /\ FundedRows /\ FundedCalls

\* What a step never takes back: a capture, and an online payment that is PAID.
MoneyStays ==
  \A o \in Requests : /\ Captured(o) => Captured(o)'
                      /\ Online(o) /\ payment[o] = "PAID" => payment'[o] = "PAID"

LEMMA NoMoneyTakenBack ==
  ASSUME TypeInv, KnownOrders, [Next]_vars
  PROVE  MoneyStays
<1>1. \A o \in Requests : Captured(o) => Captured(o)'
  <2>1. ASSUME UNCHANGED outcome PROVE \A o \in Requests : Captured(o) => Captured(o)'
    BY <2>1 DEF Captured
  <2>2. ASSUME NEW p \in Requests, NEW what \in Outcomes, GatewayStep(p, what)
        PROVE  \A o \in Requests : Captured(o) => Captured(o)'
    BY <2>2 DEF GatewayStep, Captured, TypeInv, TypeOK
  <2>3. ASSUME NEW w \in Workers, Continue(w) PROVE UNCHANGED outcome
    BY <2>3
       DEF Continue, ReadCart, Refuse, Place, PlaceRefused, Attach, HookApply, HookDone, PaidRead,
           PaidWrite, FailRead, FailWrite, CancelRead, MoveWrite, gatewayVars
  <2>4. ASSUME NEW w \in Workers, NEW o \in Requests, Begin(w, o) PROVE UNCHANGED outcome
    BY <2>4
       DEF Begin, Submit, VerifyCaptured, VerifyFailed, Webhook, Sweep, ShopperCancel, StaffMove, gatewayVars
  <2> QED
    BY <2>1, <2>2, <2>3, <2>4 DEF Next, vars, Abort, SubmitAgain, VerifyAuthorized, gatewayVars
<1>2. \A o \in Requests : Online(o) /\ payment[o] = "PAID" => payment'[o] = "PAID"
  BY SettledPaymentsStay DEF PaymentKept, Unsettled
<1> QED
  BY <1>1, <1>2 DEF MoneyStays

\* The rows: a payment turns PAID on a capture only, and an order after it.
LEMMA FundedRowsStay ==
  ASSUME TypeInv, KnownOrders, FundedRows, FundedCalls, MoneyStays, [Next]_vars
  PROVE  FundedRows'
<1> USE DEF At
<1>1. ASSUME UNCHANGED <<payment, paymentStatus>> PROVE FundedRows'
  BY <1>1 DEF FundedRows, MoneyStays
<1>2. ASSUME NEW o \in Requests,
             \A p \in Requests \ {o} : payment'[p] = payment[p] /\ paymentStatus'[p] = paymentStatus[p],
             Online(o) => /\ payment'[o] = "PAID" => Captured(o) \/ payment[o] = "PAID"
                          /\ paymentStatus'[o] = "PAID" => payment[o] = "PAID" \/ paymentStatus[o] = "PAID"
      PROVE  FundedRows'
  BY <1>2 DEF FundedRows, MoneyStays
<1>3. ASSUME NEW w \in Workers, call[w].step # "free"
      PROVE  call[w].order \in Requests /\ Funded(call[w])
  BY <1>3 DEF TypeInv, CallsNamed, Named, FundedCalls
<1>4. ASSUME NEW w \in Workers, Place(w) PROVE FundedRows'
  BY <1>2, <1>3, <1>4 DEF Place, CreatePayment, TypeInv, TypeOK
<1>5. ASSUME NEW w \in Workers, Attach(w) PROVE FundedRows'
  BY <1>2, <1>3, <1>5 DEF Attach, OpenIntent, ResetCod, TypeInv, TypeOK, orderVars
<1>6. ASSUME NEW w \in Workers, HookApply(w) PROVE FundedRows'
  <2>1. call[w].order \in Requests /\ Funded(call[w]) /\ UNCHANGED paymentStatus
    BY <1>3, <1>6 DEF HookApply, orderVars
  <2>2. CASE UNCHANGED payment
    BY <1>1, <2>1, <2>2
  <2>3. CASE call[w].hook \in CapturedKinds /\ MarkPaid(w, call[w].order, call[w].hook)
    BY <1>2, <1>6, <2>1, <2>3 DEF HookApply, MarkPaid, Funded, TypeInv, TypeOK
  <2>4. CASE MarkFailed(w, call[w].order, call[w].hook)
    BY <1>2, <2>1, <2>4 DEF MarkFailed, TypeInv, TypeOK
  <2> QED
    BY <1>6, <2>2, <2>3, <2>4 DEF HookApply
<1>7. ASSUME NEW w \in Workers, PaidWrite(w) PROVE FundedRows'
  <2>1. /\ call[w].order \in Requests
        /\ Online(call[w].order) => payment[call[w].order] = "PAID"
    BY <1>3, <1>7 DEF PaidWrite, Funded
  <2> QED
    BY <1>2, <1>7, <2>1 DEF PaidWrite, TypeInv, TypeOK
<1>8. ASSUME NEW w \in Workers, FailWrite(w) PROVE FundedRows'
  BY <1>2, <1>3, <1>8 DEF FailWrite, TypeInv, TypeOK
<1>9. ASSUME NEW w \in Workers, MoveWrite(w) PROVE FundedRows'
  <2> DEFINE o == call[w].order
  <2>1. o \in Requests /\ (call[w].seenPaid = "PAID" /\ Online(o) => payment[o] = "PAID")
    BY <1>3, <1>9 DEF MoveWrite, Funded
  <2>2. \A p \in Requests \ {o} : payment'[p] = payment[p] /\ paymentStatus'[p] = paymentStatus[p]
    BY <1>9, <2>1 DEF MoveWrite, TypeInv, TypeOK
  <2>3. Online(o) => payment'[o] = payment[o]
    BY <1>9, <2>1 DEF MoveWrite, Online
  <2>4. Online(o) /\ paymentStatus'[o] = "PAID" => call[w].seenPaid = "PAID"
    BY <1>9, <2>1 DEF MoveWrite, Online, TypeInv, TypeOK
  <2> QED
    BY <1>2, <2>1, <2>2, <2>3, <2>4
<1>10. ASSUME NEW o \in Requests, NEW w \in Workers, VerifyCaptured(w, o) PROVE FundedRows'
  BY <1>2, <1>10 DEF VerifyCaptured, MarkPaid, Captured, TypeInv, TypeOK, orderVars
<1>11. ASSUME NEW o \in Requests, NEW w \in Workers, VerifyFailed(w, o) PROVE FundedRows'
  BY <1>2, <1>11 DEF VerifyFailed, MarkFailed, TypeInv, TypeOK, orderVars
<1>12. ASSUME NEW o \in Requests, VerifyAuthorized(o) PROVE FundedRows'
  BY <1>2, <1>12 DEF VerifyAuthorized, TypeInv, TypeOK, orderVars
<1>13. ASSUME NEW w \in Workers, Continue(w) PROVE FundedRows'
  BY <1>1, <1>4, <1>5, <1>6, <1>7, <1>8, <1>9, <1>13
     DEF Continue, ReadCart, Refuse, PlaceRefused, HookDone, PaidRead, FailRead, CancelRead, orderVars
<1>14. ASSUME NEW w \in Workers, NEW o \in Requests, Begin(w, o) PROVE FundedRows'
  BY <1>1, <1>10, <1>11, <1>14 DEF Begin, Submit, Webhook, Sweep, ShopperCancel, StaffMove, orderVars
<1>15. CASE UNCHANGED vars
  BY <1>1, <1>15 DEF vars
<1> QED
  BY <1>1, <1>12, <1>13, <1>14, <1>15 DEF Next, Abort, SubmitAgain, GatewayStep, orderVars

\* Funded, of the call a step leaves behind: in the state after the step.
FundedNext(c) ==
  /\ c.step \in {"paidRead", "paidWrite"} /\ Online(c.order) => payment'[c.order] = "PAID"
  /\ c.step = "moveWrite" /\ c.seenPaid = "PAID" /\ Online(c.order) => payment'[c.order] = "PAID"
  /\ c.step = "hook" /\ c.hook \in CapturedKinds => "captured" \in outcome'[c.order]

LEMMA FundedCall ==
  ASSUME TypeInv, FundedCalls, MoneyStays, NEW w \in Workers, NEW c, Becomes(w, c), FundedNext(c)
  PROVE  FundedCalls'
<1>1. ASSUME NEW v \in Workers PROVE Funded(call[v])'
  <2>1. CASE v = w
    <3>1. call'[v] = c
      BY <2>1 DEF Becomes, TypeInv, TypeOK
    <3> QED
      BY <3>1 DEF FundedNext, Funded, Captured, Online
  <2>2. CASE v # w
    <3>1. call'[v] = call[v]
      BY <2>2 DEF Becomes, TypeInv, TypeOK
    <3>2. call[v].step # "free" => call[v].order \in Requests
      BY DEF TypeInv, CallsNamed, Named
    <3>3. Funded(call[v])
      BY DEF FundedCalls
    <3> QED
      BY <3>1, <3>2, <3>3 DEF Funded, Captured, Online, MoneyStays
  <2> QED
    BY <2>1, <2>2
<1> QED
  BY <1>1 DEF FundedCalls

\* A call at one of these steps relies on nothing about money.
Plain(step) == step \notin {"paidRead", "paidWrite", "moveWrite", "hook"}

LEMMA PlainFunded == ASSUME NEW c, Plain(c.step) PROVE FundedNext(c)
BY DEF Plain, FundedNext

LEMMA ContinueFunded ==
  ASSUME TypeInv, FundedRows, FundedCalls, MoneyStays, NEW w \in Workers, Continue(w)
  PROVE  FundedCalls'
<1> DEFINE c == call[w]
<1> USE DEF At
<1>1. c \in Call /\ Funded(c) /\ (c.step # "free" => c.order \in Requests)
  BY DEF TypeInv, TypeOK, CallsNamed, Named, FundedCalls
<1>2. ASSUME NEW d, Becomes(w, d), Plain(d.step) PROVE FundedCalls'
  BY <1>2, PlainFunded, FundedCall
<1>3. ASSUME Leave(w) PROVE FundedCalls'
  BY <1>2, <1>3 DEF Leave, Free, Serving, Plain
<1>4. ASSUME Settled(w) PROVE FundedCalls'
  BY <1>2, <1>3, <1>4 DEF Settled, Leave, Serving, Plain
<1>5. ASSUME NEW step, Plain(step), Go(w, step) PROVE FundedCalls'
  <2>1. [call[w] EXCEPT !.step = step].step = step
    BY <1>1 DEF Call
  <2> QED
    BY <1>2, <1>5, <2>1 DEF Go
<1>6. CASE ReadCart(w)
  <2>1. CASE Refuse(w)
    BY <1>3, <2>1 DEF Refuse
  <2>2. CASE ~Refuse(w)
    <3> DEFINE d == [call[w] EXCEPT !.step = "place", !.held = cart[CustomerOf[call[w].order]]]
    <3>1. Becomes(w, d)
      BY <1>6, <2>2 DEF ReadCart
    <3>2. d.step = "place"
      BY <1>1 DEF Call
    <3> QED
      BY <1>2, <3>1, <3>2 DEF Plain
  <2> QED
    BY <2>1, <2>2
<1>7. CASE Place(w)
  BY <1>5, <1>7 DEF Place, Plain
<1>8. CASE PlaceRefused(w) \/ Attach(w) \/ HookDone(w) \/ MoveWrite(w)
  BY <1>3, <1>8 DEF PlaceRefused, Refuse, Attach, HookDone, MoveWrite
<1>9. CASE HookApply(w)
  <2>1. CASE MarkPaid(w, c.order, c.hook)
    <3>1. payment'[c.order] = "PAID"
      BY <1>1, <1>9, <2>1 DEF HookApply, MarkPaid, TypeInv, TypeOK
    <3>2. FundedNext(Serving(c.order, "paidRead", c.hook))
      BY <3>1 DEF FundedNext, Serving
    <3> QED
      BY <2>1, <3>2, FundedCall DEF MarkPaid
  <2>2. CASE MarkFailed(w, c.order, c.hook)
    BY <1>2, <2>2 DEF MarkFailed, Serving, Plain
  <2>3. CASE Go(w, "hookDone")
    BY <1>5, <2>3 DEF Plain
  <2> QED
    BY <1>9, <2>1, <2>2, <2>3 DEF HookApply
<1>10. CASE PaidRead(w)
  <2>1. CASE Settled(w)
    BY <1>4, <2>1
  <2>2. CASE Note(w, "paidWrite")
    <3>1. Online(c.order) => payment[c.order] = "PAID"
      BY <1>1, <1>10 DEF PaidRead, Funded
    <3>2. Noting(c, "paidWrite").step = "paidWrite" /\ Noting(c, "paidWrite").order = c.order
      BY <1>1 DEF Noting, Call
    <3>3. UNCHANGED payment
      BY <1>10 DEF PaidRead
    <3> QED
      BY <2>2, <3>1, <3>2, <3>3, FundedCall DEF Note, FundedNext
  <2> QED
    BY <1>10, <2>1, <2>2 DEF PaidRead
<1>11. CASE PaidWrite(w) \/ FailWrite(w)
  BY <1>4, <1>11 DEF PaidWrite, FailWrite
<1>12. CASE FailRead(w)
  <2>1. Noting(c, "failWrite").step = "failWrite"
    BY <1>1 DEF Noting, Call
  <2> QED
    BY <1>2, <1>4, <1>12, <2>1 DEF FailRead, Note, Plain
<1>13. CASE CancelRead(w)
  <2>1. CASE Leave(w)
    BY <1>3, <2>1
  <2>2. CASE Note(w, "moveWrite")
    <3> DEFINE d == Noting(c, "moveWrite")
    <3>1. d.step = "moveWrite" /\ d.order = c.order /\ d.seenPaid = paymentStatus[c.order]
      BY <1>1 DEF Noting, Call
    <3>2. c.order \in Requests /\ UNCHANGED payment
      BY <1>1, <1>13 DEF CancelRead
    <3>3. FundedNext(d)
      BY <3>1, <3>2 DEF FundedNext, FundedRows
    <3> QED
      BY <2>2, <3>3, FundedCall DEF Note
  <2> QED
    BY <1>13, <2>1, <2>2 DEF CancelRead
<1> QED
  BY <1>6, <1>7, <1>8, <1>9, <1>10, <1>11, <1>12, <1>13 DEF Continue

LEMMA BeginFunded ==
  ASSUME TypeInv, FundedRows, FundedCalls, MoneyStays, NEW w \in Workers, NEW o \in Requests, Begin(w, o)
  PROVE  FundedCalls'
<1>1. ASSUME NEW d, Becomes(w, d), Plain(d.step) PROVE FundedCalls'
  BY <1>1, PlainFunded, FundedCall
<1>2. CASE Submit(w, o) \/ Sweep(w, o) \/ VerifyFailed(w, o)
  BY <1>1, <1>2 DEF Submit, Sweep, VerifyFailed, MarkFailed, Serving, Plain
<1>3. CASE VerifyCaptured(w, o)
  <2>1. payment'[o] = "PAID"
    BY <1>3 DEF VerifyCaptured, MarkPaid, TypeInv, TypeOK
  <2>2. FundedNext(Serving(o, "paidRead", "none"))
    BY <2>1 DEF FundedNext, Serving
  <2> QED
    BY <1>3, <2>2, FundedCall DEF VerifyCaptured, MarkPaid
<1>4. CASE \E kind \in EventKinds : Webhook(w, o, kind)
  <2>1. PICK kind \in EventKinds : Webhook(w, o, kind)
    BY <1>4
  <2>2. (kind \in CapturedKinds => "captured" \in outcome[o]) /\ UNCHANGED outcome
    BY <2>1 DEF Webhook, gatewayVars
  <2>3. FundedNext(Serving(o, "hook", kind))
    BY <2>2 DEF FundedNext, Serving
  <2> QED
    BY <2>1, <2>3, FundedCall DEF Webhook
<1>5. CASE ShopperCancel(w, o)
  BY <1>1, <1>5 DEF ShopperCancel, Serving, Plain
<1>6. CASE \E to \in StaffTargets : StaffMove(w, o, to)
  <2>1. PICK to \in StaffTargets : StaffMove(w, o, to)
    BY <1>6
  <2> DEFINE d == [Noting(Serving(o, "free", "none"), "moveWrite") EXCEPT !.to = to]
  <2>2. d.step = "moveWrite" /\ d.order = o /\ d.seenPaid = paymentStatus[o]
    BY DEF Noting, Serving
  <2>3. FundedNext(d)
    BY <2>1, <2>2 DEF StaffMove, FundedNext, FundedRows
  <2> QED
    BY <2>1, <2>3, FundedCall DEF StaffMove
<1> QED
  BY <1>2, <1>3, <1>4, <1>5, <1>6 DEF Begin

LEMMA FundedCallsStay ==
  ASSUME TypeInv, FundedRows, FundedCalls, MoneyStays, [Next]_vars
  PROVE  FundedCalls'
<1>1. ASSUME UNCHANGED call PROVE FundedCalls'
  BY <1>1 DEF FundedCalls, Funded, Captured, MoneyStays, Online, TypeInv, CallsNamed, Named
<1>2. ASSUME NEW w \in Workers, Abort(w) PROVE FundedCalls'
  BY <1>2, PlainFunded, FundedCall DEF Abort, Leave, Free, Serving, Plain
<1>3. CASE UNCHANGED vars
  BY <1>1, <1>3 DEF vars
<1> QED
  BY <1>1, <1>2, <1>3, ContinueFunded, BeginFunded
     DEF Next, SubmitAgain, VerifyAuthorized, GatewayStep

LEMMA MoneyInvariant == Spec => []MoneyInv
<1>1. Init => FundedRows /\ FundedCalls
  <2> SUFFICES ASSUME Init PROVE FundedRows /\ FundedCalls
    OBVIOUS
  <2>1. FundedRows
    BY DEF Init, FundedRows
  <2>2. \A w \in Workers : call[w].step = "free"
    BY FreeTyped DEF Init
  <2> QED
    BY <2>1, <2>2 DEF FundedCalls, Funded
<1>2. OrderInv /\ FundedRows /\ FundedCalls /\ [Next]_vars => FundedRows' /\ FundedCalls'
  BY NoMoneyTakenBack, FundedRowsStay, FundedCallsStay DEF OrderInv
<1> QED
  BY <1>1, <1>2, OrderInvariant, PTL DEF Spec, MoneyInv

\* An online order says PAID only over a payment row that is PAID and money the
\* gateway captured, in every behaviour of every store: no authorisation, no
\* stale snapshot and no racing settlement gets there.
THEOREM PaidAlwaysBacked == Spec => []PaidIsBacked
<1>1. MoneyInv => PaidIsBacked
  BY DEF MoneyInv, FundedRows, PaidIsBacked, Captured
<1> QED
  BY <1>1, MoneyInvariant, PTL

-------------------------------------------------------------------------------
\* One sale for each order.

\* A call between the UPDATE that made a payment PAID and the sale it leads to.
Settling(c) == c.step \in {"paidRead", "paidWrite"}

\* A settlement under way is of an online order that is not sold yet.
Unsold(c) == Settling(c) => Online(c.order) /\ sold[c.order] = 0

UnsoldCalls == \A w \in Workers : Unsold(call[w])

\* The conditional UPDATE lets one call through for each order.
OneSettling ==
  \A v, w \in Workers :
    Settling(call[v]) /\ Settling(call[w]) /\ call[v].order = call[w].order => v = w

\* Cash orders have nothing at the gateway, and are sold as they are placed.
SoldRows ==
  \A o \in Requests : /\ Online(o) \/ (~intent[o] /\ outcome[o] = {})
                      /\ Exists(o) \/ sold[o] = 0
                      /\ sold[o] <= 1
                      /\ Online(o) /\ sold[o] = 1 => payment[o] = "PAID"

SoldInv == MoneyInv /\ SoldRows /\ UnsoldCalls /\ OneSettling

\* Orders are never removed.
LEMMA OrdersStay ==
  ASSUME TypeInv, KnownOrders, [Next]_vars
  PROVE  \A o \in Requests : Exists(o) => Exists(o)'
<1>1. CASE \E w \in Workers : Place(w)
  BY <1>1, PlaceAdds
<1>2. CASE ~ \E w \in Workers : Place(w)
  BY <1>2, StatusMoves DEF SameOrders
<1> QED
  BY <1>1, <1>2

\* A settlement under way is backed by an order and by its PAID payment.
LEMMA SettlingKnown ==
  ASSUME MoneyInv, SoldRows, UnsoldCalls, NEW w \in Workers, Settling(call[w])
  PROVE  /\ call[w].order \in Requests /\ Exists(call[w].order)
         /\ Online(call[w].order) /\ sold[call[w].order] = 0 /\ payment[call[w].order] = "PAID"
<1>1. call[w].order \in Requests /\ Exists(call[w].order)
  BY DEF Settling, MoneyInv, OrderInv, TypeInv, CallsNamed, Named, KnownOrders, KnownCalls, Backed
<1>2. Online(call[w].order) /\ sold[call[w].order] = 0
  BY DEF UnsoldCalls, Unsold
<1> QED
  BY <1>1, <1>2 DEF MoneyInv, FundedCalls, Funded, Settling

\* The steps that sell: a cash order as it is placed, an online order as the
\* one settlement of its payment is written.
LEMMA SoldMoves ==
  ASSUME MoneyInv, SoldRows, UnsoldCalls, [Next]_vars
  PROVE  \/ UNCHANGED sold
         \/ \E w \in Workers :
              /\ Place(w) \/ PaidWrite(w)
              /\ call[w].order \in Requests /\ sold[call[w].order] = 0
              /\ sold'[call[w].order] \in {0, 1}
              /\ \A p \in Requests \ {call[w].order} : sold'[p] = sold[p]
<1> USE DEF At
<1>1. ASSUME NEW w \in Workers, Place(w)
      PROVE  /\ call[w].order \in Requests /\ sold[call[w].order] = 0
             /\ sold'[call[w].order] \in {0, 1}
             /\ \A p \in Requests \ {call[w].order} : sold'[p] = sold[p]
  <2>1. call[w].order \in Requests /\ ~Exists(call[w].order)
    BY <1>1, PlaceAdds DEF KeyTaken, MoneyInv, OrderInv
  <2>2. sold[call[w].order] = 0
    BY <2>1 DEF SoldRows
  <2> QED
    BY <1>1, <2>1, <2>2 DEF Place, MoneyInv, OrderInv, TypeInv, TypeOK
<1>2. ASSUME NEW w \in Workers, PaidWrite(w)
      PROVE  /\ call[w].order \in Requests /\ sold[call[w].order] = 0
             /\ sold'[call[w].order] \in {0, 1}
             /\ \A p \in Requests \ {call[w].order} : sold'[p] = sold[p]
  <2>1. Settling(call[w])
    BY <1>2 DEF PaidWrite, Settling
  <2>2. call[w].order \in Requests /\ sold[call[w].order] = 0
    BY <2>1, SettlingKnown
  <2> QED
    BY <1>2, <2>2 DEF PaidWrite, MoneyInv, OrderInv, TypeInv, TypeOK
<1>3. ASSUME NEW w \in Workers, Continue(w) PROVE UNCHANGED sold \/ Place(w) \/ PaidWrite(w)
  BY <1>3
     DEF Continue, ReadCart, Refuse, PlaceRefused, Attach, HookApply, HookDone, PaidRead, FailRead,
         FailWrite, CancelRead, MoveWrite, shopVars
<1>4. ASSUME NEW w \in Workers, NEW o \in Requests, Begin(w, o) PROVE UNCHANGED sold
  BY <1>4
     DEF Begin, Submit, VerifyCaptured, VerifyFailed, Webhook, Sweep, ShopperCancel, StaffMove, shopVars
<1>5. CASE \E w \in Workers : Continue(w)
  BY <1>1, <1>2, <1>3, <1>5
<1>6. CASE ~ \E w \in Workers : Continue(w)
  BY <1>4, <1>6 DEF Next, vars, Abort, SubmitAgain, VerifyAuthorized, GatewayStep, shopVars
<1> QED
  BY <1>5, <1>6

\* Only an online order gets a gateway order, and so an outcome at the gateway.
LEMMA GatewayOnlineOnly ==
  ASSUME TypeInv, SoldRows, [Next]_vars
  PROVE  \A o \in Requests : Online(o) \/ (~intent'[o] /\ outcome'[o] = {})
<1> DEFINE Goal == \A o \in Requests : Online(o) \/ (~intent'[o] /\ outcome'[o] = {})
<1> USE DEF At
<1>1. ASSUME UNCHANGED gatewayVars PROVE Goal
  BY <1>1 DEF gatewayVars, SoldRows
<1>2. ASSUME NEW w \in Workers, Attach(w) PROVE Goal
  <2>1. call[w].order \in Requests /\ Method[call[w].order] \in {"COD", "ONLINE"}
    BY <1>2, RequestsAssumption DEF Attach, TypeInv, CallsNamed, Named
  <2> QED
    BY <1>2, <2>1 DEF Attach, OpenIntent, ResetCod, SoldRows, Online, TypeInv, TypeOK
<1>3. ASSUME NEW o \in Requests, NEW what \in Outcomes, GatewayStep(o, what) PROVE Goal
  BY <1>3 DEF GatewayStep, SoldRows, TypeInv, TypeOK
<1>4. ASSUME NEW w \in Workers, Continue(w) PROVE Goal
  BY <1>1, <1>2, <1>4
     DEF Continue, ReadCart, Refuse, Place, PlaceRefused, HookApply, HookDone, PaidRead, PaidWrite,
         FailRead, FailWrite, CancelRead, MoveWrite
<1>5. ASSUME NEW w \in Workers, NEW o \in Requests, Begin(w, o) PROVE Goal
  BY <1>1, <1>5 DEF Begin, Submit, VerifyCaptured, VerifyFailed, Webhook, Sweep, ShopperCancel, StaffMove
<1>6. CASE UNCHANGED vars
  BY <1>1, <1>6 DEF vars, gatewayVars
<1> QED
  BY <1>1, <1>3, <1>4, <1>5, <1>6 DEF Next, Abort, SubmitAgain, VerifyAuthorized

LEMMA SoldRowsStay ==
  ASSUME MoneyInv, SoldRows, UnsoldCalls, [Next]_vars
  PROVE  SoldRows'
<1>0. TypeInv /\ KnownOrders
  BY DEF MoneyInv, OrderInv
<1>1. /\ \A o \in Requests : Online(o) \/ (~intent'[o] /\ outcome'[o] = {})
      /\ \A o \in Requests : Exists(o) => Exists(o)'
      /\ \A o \in Requests : Online(o) /\ payment[o] = "PAID" => payment'[o] = "PAID"
  BY <1>0, GatewayOnlineOnly, OrdersStay, NoMoneyTakenBack DEF MoneyStays
<1>2. CASE UNCHANGED sold
  BY <1>1, <1>2 DEF SoldRows, Online, Exists
<1>3. ASSUME NEW w \in Workers, Place(w) \/ PaidWrite(w),
             call[w].order \in Requests, sold[call[w].order] = 0, sold'[call[w].order] \in {0, 1},
             \A p \in Requests \ {call[w].order} : sold'[p] = sold[p]
      PROVE  SoldRows'
  <2> DEFINE r == call[w].order
  <2>1. status'[r] # "none"
    <3>1. CASE Place(w)
      BY <1>0, <3>1, PlaceAdds DEF Exists
    <3>2. CASE PaidWrite(w)
      BY <1>1, <3>2, SettlingKnown DEF PaidWrite, At, Settling, Exists
    <3> QED
      BY <1>3, <3>1, <3>2
  <2>2. Online(r) /\ sold'[r] = 1 => payment'[r] = "PAID"
    <3>1. CASE Place(w)
      BY <1>0, <1>3, <3>1 DEF Place, Online, TypeInv, TypeOK
    <3>2. CASE PaidWrite(w)
      BY <1>1, <3>2, SettlingKnown DEF PaidWrite, At, Settling
    <3> QED
      BY <1>3, <3>1, <3>2
  <2> QED
    BY <1>1, <1>3, <2>1, <2>2 DEF SoldRows, Online, Exists
<1> QED
  BY <1>2, <1>3, SoldMoves

-------------------------------------------------------------------------------
\* The calls.  A call that goes on settling is the one that was; a settlement
\* begins only where the payment was not settled, so no other can be under way.

BeginsSettling(c) == Online(c.order) /\ Unsettled(c.order) /\ c.order \in Requests
GoesOnSettling(w, c) == Settling(call[w]) /\ c.order = call[w].order

LEMMA SettlingCallStays ==
  ASSUME MoneyInv, SoldRows, UnsoldCalls, OneSettling, NEW w \in Workers, NEW c, Becomes(w, c),
         \A v \in Workers \ {w} : Settling(call[v]) => sold'[call[v].order] = sold[call[v].order],
         Settling(c) => UNCHANGED sold /\ (BeginsSettling(c) \/ GoesOnSettling(w, c))
  PROVE  UnsoldCalls' /\ OneSettling'
<1>1. /\ call'[w] = c
      /\ \A v \in Workers \ {w} : call'[v] = call[v]
  BY DEF Becomes, MoneyInv, OrderInv, TypeInv, TypeOK
<1>2. ASSUME Settling(c)
      PROVE  /\ c.order \in Requests /\ Online(c.order) /\ sold'[c.order] = 0
             /\ \A v \in Workers \ {w} : Settling(call[v]) => call[v].order # c.order
  <2>1. CASE BeginsSettling(c)
    <3>1. sold[c.order] # 1 /\ sold[c.order] <= 1 /\ sold[c.order] \in Nat
      BY <2>1 DEF BeginsSettling, Unsettled, SoldRows, MoneyInv, OrderInv, TypeInv, TypeOK
    <3>2. \A v \in Workers : Settling(call[v]) => call[v].order # c.order
      BY <2>1, SettlingKnown DEF BeginsSettling, Unsettled
    <3> QED
      BY <1>2, <2>1, <3>1, <3>2 DEF BeginsSettling
  <2>2. CASE GoesOnSettling(w, c)
    <3>1. c.order \in Requests /\ Online(c.order) /\ sold[c.order] = 0
      BY <2>2, SettlingKnown DEF GoesOnSettling
    <3>2. \A v \in Workers \ {w} : Settling(call[v]) => call[v].order # c.order
      BY <2>2 DEF GoesOnSettling, OneSettling
    <3> QED
      BY <1>2, <3>1, <3>2
  <2> QED
    BY <1>2, <2>1, <2>2
<1>3. ASSUME NEW v \in Workers PROVE Unsold(call[v])'
  <2>1. CASE v = w
    BY <1>1, <1>2, <2>1 DEF Unsold, Settling, Online
  <2>2. CASE v # w
    BY <1>1, <2>2 DEF Unsold, UnsoldCalls, Settling, Online
  <2> QED
    BY <2>1, <2>2
<1>4. OneSettling'
  <2> SUFFICES ASSUME NEW u \in Workers, NEW v \in Workers,
                      Settling(call'[u]), Settling(call'[v]), call'[u].order = call'[v].order
               PROVE  u = v
    BY DEF OneSettling, Settling
  <2> QED
    BY <1>1, <1>2 DEF OneSettling
<1> QED
  BY <1>3, <1>4 DEF UnsoldCalls

\* Steps that leave the worker at rest, or at a step that settles nothing.
LEMMA NotSettlingStays ==
  ASSUME MoneyInv, SoldRows, UnsoldCalls, OneSettling, NEW w \in Workers, NEW c, Becomes(w, c),
         ~Settling(c), UNCHANGED sold
  PROVE  UnsoldCalls' /\ OneSettling'
BY SettlingCallStays

LEMMA ContinueSettling ==
  ASSUME MoneyInv, SoldRows, UnsoldCalls, OneSettling, NEW w \in Workers, Continue(w)
  PROVE  UnsoldCalls' /\ OneSettling'
<1> DEFINE c == call[w]
           Goal == UnsoldCalls' /\ OneSettling'
<1> USE DEF At
<1>0. TypeInv /\ KnownOrders
  BY DEF MoneyInv, OrderInv
<1>1. c \in Call /\ Funded(c) /\ (c.step # "free" => c.order \in Requests)
  BY <1>0 DEF TypeInv, TypeOK, CallsNamed, Named, MoneyInv, FundedCalls
<1>2. ASSUME NEW d, Becomes(w, d), ~Settling(d), UNCHANGED sold PROVE Goal
  BY <1>2, NotSettlingStays
<1>3. ~Settling(Free)
  BY DEF Settling, Free, Serving
<1>4. ASSUME Leave(w), UNCHANGED sold PROVE Goal
  BY <1>2, <1>3, <1>4 DEF Leave
<1>5. ASSUME Settled(w) PROVE \E d : Becomes(w, d) /\ ~Settling(d)
  <2>1. ~Settling(Serving(c.order, "hookDone", c.hook))
    BY DEF Settling, Serving
  <2> QED
    BY <1>3, <1>5, <2>1 DEF Settled
<1>6. \A step \in {"tail", "hookDone"} : ~Settling([call[w] EXCEPT !.step = step])
  BY <1>1 DEF Settling, Call
<1>7. CASE ReadCart(w)
  <2>1. CASE Refuse(w)
    BY <1>4, <2>1 DEF Refuse, shopVars
  <2>2. CASE ~Refuse(w)
    <3> DEFINE d == [call[w] EXCEPT !.step = "place", !.held = cart[CustomerOf[call[w].order]]]
    <3>1. Becomes(w, d) /\ UNCHANGED sold
      BY <1>7, <2>2 DEF ReadCart, shopVars
    <3>2. ~Settling(d)
      BY <1>1 DEF Call, Settling
    <3> QED
      BY <1>2, <3>1, <3>2
  <2> QED
    BY <2>1, <2>2
<1>8. CASE Place(w)
  <2>1. \A p \in Requests \ {c.order} : sold'[p] = sold[p]
    BY <1>0, <1>8 DEF Place, TypeInv, TypeOK
  <2>2. \A v \in Workers : Settling(call[v]) => call[v].order \in Requests \ {c.order}
    BY <1>0, <1>8, PlaceAdds, SettlingKnown DEF KeyTaken
  <2> QED
    BY <1>6, <1>8, <2>1, <2>2, SettlingCallStays DEF Place, Go
<1>9. CASE PlaceRefused(w) \/ Attach(w) \/ HookDone(w) \/ MoveWrite(w)
  BY <1>4, <1>9 DEF PlaceRefused, Refuse, Attach, HookDone, MoveWrite, shopVars
<1>10. CASE HookApply(w)
  <2>1. UNCHANGED sold
    BY <1>10 DEF HookApply, shopVars
  <2>2. CASE c.hook \in CapturedKinds /\ MarkPaid(w, c.order, c.hook)
    <3> DEFINE d == Serving(c.order, "paidRead", c.hook)
    <3>1. c.order \in Requests /\ Captured(c.order) /\ Unsettled(c.order)
      BY <1>1, <1>10, <2>2 DEF HookApply, MarkPaid, Funded
    <3>2. Online(c.order)
      BY <3>1 DEF Captured, SoldRows
    <3>3. BeginsSettling(d)
      BY <3>1, <3>2 DEF BeginsSettling, Serving
    <3> QED
      BY <2>1, <2>2, <3>3, SettlingCallStays DEF MarkPaid
  <2>3. CASE MarkFailed(w, c.order, c.hook)
    BY <1>2, <2>1, <2>3 DEF MarkFailed, Serving, Settling
  <2>4. CASE Go(w, "hookDone")
    BY <1>2, <1>6, <2>1, <2>4 DEF Go
  <2> QED
    BY <1>10, <2>2, <2>3, <2>4 DEF HookApply
<1>11. CASE PaidRead(w)
  <2>1. UNCHANGED sold
    BY <1>11 DEF PaidRead, shopVars
  <2>2. CASE Settled(w)
    BY <1>2, <1>5, <2>1, <2>2
  <2>3. CASE Note(w, "paidWrite")
    <3> DEFINE d == Noting(c, "paidWrite")
    <3>1. d.order = c.order
      BY <1>1 DEF Noting, Call
    <3>2. GoesOnSettling(w, d)
      BY <1>11, <3>1 DEF PaidRead, GoesOnSettling, Settling
    <3> QED
      BY <2>1, <2>3, <3>2, SettlingCallStays DEF Note
  <2> QED
    BY <1>11, <2>2, <2>3 DEF PaidRead
<1>12. CASE PaidWrite(w)
  <2>1. PICK d : Becomes(w, d) /\ ~Settling(d)
    BY <1>5, <1>12 DEF PaidWrite
  <2>2. \A v \in Workers \ {w} : Settling(call[v]) => call[v].order \in Requests \ {c.order}
    BY <1>12, SettlingKnown DEF PaidWrite, OneSettling, Settling
  <2>3. \A p \in Requests \ {c.order} : sold'[p] = sold[p]
    BY <1>0, <1>12 DEF PaidWrite, TypeInv, TypeOK
  <2> QED
    BY <2>1, <2>2, <2>3, SettlingCallStays
<1>13. CASE FailRead(w)
  <2>1. ~Settling(Noting(c, "failWrite")) /\ UNCHANGED sold
    BY <1>1, <1>13 DEF Noting, Call, Settling, FailRead, shopVars
  <2> QED
    BY <1>2, <1>5, <1>13, <2>1 DEF FailRead, Note
<1>14. CASE FailWrite(w)
  BY <1>2, <1>5, <1>14 DEF FailWrite
<1>15. CASE CancelRead(w)
  <2>1. ~Settling(Noting(c, "moveWrite")) /\ UNCHANGED sold
    BY <1>1, <1>15 DEF Noting, Call, Settling, CancelRead, shopVars
  <2> QED
    BY <1>2, <1>4, <1>15, <2>1 DEF CancelRead, Note
<1> QED
  BY <1>7, <1>8, <1>9, <1>10, <1>11, <1>12, <1>13, <1>14, <1>15 DEF Continue

LEMMA BeginSettling ==
  ASSUME MoneyInv, SoldRows, UnsoldCalls, OneSettling, NEW w \in Workers, NEW o \in Requests, Begin(w, o)
  PROVE  UnsoldCalls' /\ OneSettling'
<1> DEFINE Goal == UnsoldCalls' /\ OneSettling'
<1>1. ASSUME NEW d, Becomes(w, d), ~Settling(d), UNCHANGED sold PROVE Goal
  BY <1>1, NotSettlingStays
<1>2. CASE Submit(w, o) \/ Sweep(w, o) \/ VerifyFailed(w, o)
  BY <1>1, <1>2 DEF Submit, Sweep, VerifyFailed, MarkFailed, Serving, Settling, shopVars
<1>3. CASE VerifyCaptured(w, o)
  <2> DEFINE d == Serving(o, "paidRead", "none")
  <2>1. Online(o) /\ Unsettled(o) /\ UNCHANGED sold
    BY <1>3 DEF VerifyCaptured, MarkPaid, SoldRows, shopVars
  <2>2. BeginsSettling(d)
    BY <2>1 DEF BeginsSettling, Serving
  <2> QED
    BY <1>3, <2>1, <2>2, SettlingCallStays DEF VerifyCaptured, MarkPaid
<1>4. CASE \E kind \in EventKinds : Webhook(w, o, kind)
  BY <1>1, <1>4 DEF Webhook, Serving, Settling, shopVars
<1>5. CASE ShopperCancel(w, o)
  BY <1>1, <1>5 DEF ShopperCancel, Serving, Settling, shopVars
<1>6. CASE \E to \in StaffTargets : StaffMove(w, o, to)
  <2>1. PICK to \in StaffTargets : StaffMove(w, o, to)
    BY <1>6
  <2> DEFINE d == [Noting(Serving(o, "free", "none"), "moveWrite") EXCEPT !.to = to]
  <2>2. ~Settling(d)
    BY DEF Noting, Serving, Settling
  <2> QED
    BY <1>1, <2>1, <2>2 DEF StaffMove, shopVars
<1> QED
  BY <1>2, <1>3, <1>4, <1>5, <1>6 DEF Begin

LEMMA SettlingsStay ==
  ASSUME MoneyInv, SoldRows, UnsoldCalls, OneSettling, [Next]_vars
  PROVE  UnsoldCalls' /\ OneSettling'
<1> DEFINE Goal == UnsoldCalls' /\ OneSettling'
<1>1. ASSUME UNCHANGED <<call, sold>> PROVE Goal
  BY <1>1 DEF UnsoldCalls, Unsold, OneSettling, Settling, Online
<1>2. ASSUME NEW w \in Workers, Abort(w) PROVE Goal
  <2>1. Becomes(w, Free) /\ UNCHANGED sold /\ ~Settling(Free)
    BY <1>2 DEF Abort, Leave, Free, Serving, Settling, shopVars
  <2> QED
    BY <2>1, NotSettlingStays
<1>3. CASE UNCHANGED vars
  BY <1>1, <1>3 DEF vars
<1>4. ASSUME NEW o \in Requests, SubmitAgain(o) \/ VerifyAuthorized(o) PROVE Goal
  BY <1>1, <1>4 DEF SubmitAgain, VerifyAuthorized, shopVars
<1>5. ASSUME NEW o \in Requests, NEW what \in Outcomes, GatewayStep(o, what) PROVE Goal
  BY <1>1, <1>5 DEF GatewayStep, shopVars
<1> QED
  BY <1>2, <1>3, <1>4, <1>5, ContinueSettling, BeginSettling DEF Next

LEMMA SoldInvariant == Spec => []SoldInv
<1>1. Init => SoldRows /\ UnsoldCalls /\ OneSettling
  <2> SUFFICES ASSUME Init PROVE SoldRows /\ UnsoldCalls /\ OneSettling
    OBVIOUS
  <2>1. SoldRows
    BY DEF Init, SoldRows
  <2>2. \A w \in Workers : ~Settling(call[w])
    BY FreeTyped DEF Init, Settling
  <2> QED
    BY <2>1, <2>2 DEF UnsoldCalls, Unsold, OneSettling
<1>2. MoneyInv /\ SoldRows /\ UnsoldCalls /\ OneSettling /\ [Next]_vars
        => SoldRows' /\ UnsoldCalls' /\ OneSettling'
  BY SoldRowsStay, SettlingsStay
<1> QED
  BY <1>1, <1>2, MoneyInvariant, PTL DEF Spec, SoldInv

\* However many verify calls and webhooks race over one capture, in a store of
\* any size, an order's units leave the shelf once, and an online order's only
\* for money the gateway captured.
THEOREM SoldAtMostOnce == Spec => []SoldOnce
<1>1. SoldInv => SoldOnce
  BY DEF SoldInv, SoldRows, SoldOnce, MoneyInv, FundedRows, Captured
<1> QED
  BY <1>1, SoldInvariant, PTL

-------------------------------------------------------------------------------
\* Checkout implements Reservation, for every store in which calls on one order
\* take turns and staff do not confirm unpaid orders.

\* The environment of the refinement: calls on the same order take turns, and
\* staff never move an order to CONFIRMED by hand, which sells nothing.
InTurn == OneCallPerOrder /\ "CONFIRMED" \notin StaffTargets

-------------------------------------------------------------------------------
\* Calls that take turns.

Busy(v) == call[v].step # "free"

\* No other call is on order o.
Alone(w, o) == \A v \in Workers \ {w} : Busy(v) => call[v].order # o

Turns == \A w \in Workers : Busy(w) => Alone(w, call[w].order)

\* What a call knows while nobody else touches its order: the order it places
\* is not there yet, and the status it read is the status still.
Fresh(c) ==
  /\ c.step \in {"cart", "place"} => reply[c.order] = "working" /\ status[c.order] = "none"
  /\ c.step \in {"paidWrite", "failWrite", "moveWrite"} => c.seen = status[c.order]
  /\ c.step = "failWrite" => c.seen = "PENDING"
  /\ c.step = "cancelRead" => c.to = "CANCELLED"
  /\ c.step = "moveWrite" => c.to \in Transitions[c.seen] \ {"CONFIRMED"}

FreshCalls == \A w \in Workers : Fresh(call[w])

TurnsInv == Turns /\ FreshCalls

\* Fresh, of the call a step leaves behind: in the state after the step.
FreshNext(c) ==
  /\ c.step \in {"cart", "place"} => reply'[c.order] = "working" /\ status'[c.order] = "none"
  /\ c.step \in {"paidWrite", "failWrite", "moveWrite"} => c.seen = status'[c.order]
  /\ c.step = "failWrite" => c.seen = "PENDING"
  /\ c.step = "cancelRead" => c.to = "CANCELLED"
  /\ c.step = "moveWrite" => c.to \in Transitions[c.seen] \ {"CONFIRMED"}

\* The orders of the other calls are as they were.
OthersKept(w) ==
  \A v \in Workers \ {w} : Busy(v) =>
    /\ status'[call[v].order] = status[call[v].order]
    /\ reply[call[v].order] = "working" => reply'[call[v].order] = "working"

LEMMA TurnTaken ==
  ASSUME TypeInv, TurnsInv, NEW w \in Workers, NEW c, Becomes(w, c), OthersKept(w),
         c.step # "free" => Alone(w, c.order) /\ FreshNext(c)
  PROVE  TurnsInv'
<1>1. /\ call'[w] = c
      /\ \A v \in Workers \ {w} : call'[v] = call[v]
  BY DEF Becomes, TypeInv, TypeOK
<1>2. Turns'
  <2> SUFFICES ASSUME NEW u \in Workers, NEW v \in Workers, u # v,
                      call'[u].step # "free", call'[v].step # "free"
               PROVE  call'[v].order # call'[u].order
    BY DEF Turns, Alone, Busy
  <2>1. CASE u = w
    BY <1>1, <2>1 DEF Alone, Busy
  <2>2. CASE v = w
    BY <1>1, <2>2 DEF Alone, Busy
  <2>3. CASE u # w /\ v # w
    BY <1>1, <2>3 DEF TurnsInv, Turns, Alone, Busy
  <2> QED
    BY <2>1, <2>2, <2>3
<1>3. ASSUME NEW v \in Workers PROVE Fresh(call[v])'
  <2>1. CASE v = w
    BY <1>1, <2>1 DEF Fresh, FreshNext
  <2>2. CASE v # w
    BY <1>1, <2>2 DEF Fresh, TurnsInv, FreshCalls, OthersKept, Busy
  <2> QED
    BY <2>1, <2>2
<1> QED
  BY <1>2, <1>3 DEF TurnsInv, FreshCalls

\* A worker whose call goes on, or ends, on the order it was on.
LEMMA OwnTurn ==
  ASSUME TypeInv, TurnsInv, NEW w \in Workers, Busy(w), NEW c, Becomes(w, c),
         \A o \in Requests \ {call[w].order} : status'[o] = status[o] /\ reply'[o] = reply[o],
         c.step # "free" => c.order = call[w].order /\ FreshNext(c)
  PROVE  TurnsInv'
<1>1. Alone(w, call[w].order)
  BY DEF TurnsInv, Turns
<1>2. \A v \in Workers \ {w} : Busy(v) => call[v].order \in Requests \ {call[w].order}
  BY <1>1 DEF Alone, Busy, TypeInv, CallsNamed, Named
<1>3. OthersKept(w)
  BY <1>2 DEF OthersKept
<1> QED
  BY <1>1, <1>3, TurnTaken

LEMMA ContinueInTurn ==
  ASSUME TypeInv, TurnsInv, NEW w \in Workers, Continue(w)
  PROVE  TurnsInv'
<1> DEFINE c == call[w]
           o == c.order
           Elsewhere == \A p \in Requests \ {o} : status'[p] = status[p] /\ reply'[p] = reply[p]
<1> USE DEF At
<1>1. c \in Call /\ Fresh(c) /\ (Busy(w) => o \in Requests)
  BY DEF TypeInv, TypeOK, CallsNamed, Named, TurnsInv, FreshCalls, Busy
<1>2. ASSUME Busy(w), Elsewhere, Leave(w) PROVE TurnsInv'
  BY <1>2, FreeTyped, OwnTurn DEF Leave
<1>3. ASSUME Busy(w), Elsewhere, Settled(w) PROVE TurnsInv'
  <2> DEFINE d == Serving(o, "hookDone", c.hook)
  <2>1. d.order = o /\ FreshNext(d)
    BY DEF Serving, FreshNext
  <2> QED
    BY <1>2, <1>3, <2>1, OwnTurn DEF Settled, Leave
<1>4. ASSUME NEW step \in {"tail", "hookDone"}, Busy(w), Elsewhere, Go(w, step) PROVE TurnsInv'
  <2> DEFINE d == [call[w] EXCEPT !.step = step]
  <2>1. d.step = step /\ d.order = o
    BY <1>1 DEF Call
  <2>2. FreshNext(d)
    BY <2>1 DEF FreshNext
  <2> QED
    BY <1>4, <2>1, <2>2, OwnTurn DEF Go
<1>5. CASE ReadCart(w)
  <2>1. Busy(w) /\ c.step = "cart"
    BY <1>5 DEF ReadCart, Busy
  <2>2. CASE Refuse(w)
    BY <1>2, <2>1, <2>2 DEF Refuse, orderVars, TypeInv, TypeOK
  <2>3. CASE ~Refuse(w)
    <3> DEFINE d == [call[w] EXCEPT !.step = "place", !.held = cart[CustomerOf[call[w].order]]]
    <3>1. Becomes(w, d) /\ UNCHANGED <<status, reply>>
      BY <1>5, <2>3 DEF ReadCart, orderVars
    <3>2. d.step = "place" /\ d.order = o
      BY <1>1 DEF Call
    <3>3. FreshNext(d)
      BY <1>1, <2>1, <3>1, <3>2 DEF FreshNext, Fresh
    <3> QED
      BY <2>1, <3>1, <3>2, <3>3, OwnTurn
  <2> QED
    BY <2>2, <2>3
<1>6. CASE Place(w)
  BY <1>4, <1>6 DEF Place, Busy, TypeInv, TypeOK
<1>7. CASE PlaceRefused(w)
  BY <1>2, <1>7 DEF PlaceRefused, Refuse, Busy, orderVars, TypeInv, TypeOK
<1>8. CASE Attach(w)
  BY <1>2, <1>8 DEF Attach, Busy, orderVars, TypeInv, TypeOK
<1>9. CASE HookApply(w)
  <2>1. Busy(w) /\ UNCHANGED <<status, reply>>
    BY <1>9 DEF HookApply, Busy, orderVars
  <2>2. ASSUME NEW step \in {"paidRead", "failRead"}, Becomes(w, Serving(o, step, c.hook)) PROVE TurnsInv'
    <3>1. Serving(o, step, c.hook).order = o /\ FreshNext(Serving(o, step, c.hook))
      BY DEF Serving, FreshNext
    <3> QED
      BY <2>1, <2>2, <3>1, OwnTurn
  <2>3. CASE Go(w, "hookDone")
    BY <1>4, <2>1, <2>3
  <2> QED
    BY <1>9, <2>2, <2>3 DEF HookApply, MarkPaid, MarkFailed
<1>10. CASE HookDone(w)
  BY <1>2, <1>10 DEF HookDone, Busy, orderVars
<1>11. CASE PaidRead(w)
  <2>1. Busy(w) /\ UNCHANGED <<status, reply>>
    BY <1>11 DEF PaidRead, Busy, orderVars
  <2>2. CASE Settled(w)
    BY <1>3, <2>1, <2>2
  <2>3. CASE Note(w, "paidWrite")
    <3> DEFINE d == Noting(c, "paidWrite")
    <3>1. d.step = "paidWrite" /\ d.order = o /\ d.seen = status[o]
      BY <1>1 DEF Noting, Call
    <3>2. FreshNext(d)
      BY <2>1, <3>1 DEF FreshNext
    <3> QED
      BY <2>1, <2>3, <3>1, <3>2, OwnTurn DEF Note
  <2> QED
    BY <1>11, <2>2, <2>3 DEF PaidRead
<1>12. CASE PaidWrite(w) \/ FailWrite(w)
  BY <1>3, <1>12 DEF PaidWrite, FailWrite, Busy, TypeInv, TypeOK
<1>13. CASE FailRead(w)
  <2>1. Busy(w) /\ UNCHANGED <<status, reply>>
    BY <1>13 DEF FailRead, Busy, orderVars
  <2>2. CASE Settled(w)
    BY <1>3, <2>1, <2>2
  <2>3. CASE ~Settled(w)
    <3> DEFINE d == Noting(c, "failWrite")
    <3>1. d.step = "failWrite" /\ d.order = o /\ d.seen = status[o]
      BY <1>1 DEF Noting, Call
    <3>2. status[o] = "PENDING" /\ Note(w, "failWrite")
      BY <1>13, <2>3 DEF FailRead
    <3>3. FreshNext(d)
      BY <2>1, <3>1, <3>2 DEF FreshNext
    <3> QED
      BY <2>1, <3>1, <3>2, <3>3, OwnTurn DEF Note
  <2> QED
    BY <2>2, <2>3
<1>14. CASE CancelRead(w)
  <2>1. Busy(w) /\ UNCHANGED <<status, reply>> /\ c.to = "CANCELLED"
    BY <1>1, <1>14 DEF CancelRead, Busy, orderVars, Fresh
  <2>2. CASE Leave(w)
    BY <1>2, <2>1, <2>2
  <2>3. CASE MayMove(o, "CANCELLED") /\ Note(w, "moveWrite")
    <3> DEFINE d == Noting(c, "moveWrite")
    <3>1. d.step = "moveWrite" /\ d.order = o /\ d.seen = status[o] /\ d.to = "CANCELLED"
      BY <1>1, <2>1 DEF Noting, Call
    <3>2. FreshNext(d)
      BY <2>1, <2>3, <3>1 DEF FreshNext, MayMove
    <3> QED
      BY <2>1, <2>3, <3>1, <3>2, OwnTurn DEF Note
  <2> QED
    BY <1>14, <2>2, <2>3 DEF CancelRead
<1>15. CASE MoveWrite(w)
  BY <1>2, <1>15 DEF MoveWrite, Busy, TypeInv, TypeOK
<1> QED
  BY <1>5, <1>6, <1>7, <1>8, <1>9, <1>10, <1>11, <1>12, <1>13, <1>14, <1>15 DEF Continue

\* A call that begins: it waited until nobody was on its order, or its order is
\* not placed yet and nobody else is placing it.
LEMMA BeginInTurn ==
  ASSUME InTurn, TypeInv, KnownOrders, TurnsInv, NEW w \in Workers, NEW o \in Requests, Begin(w, o)
  PROVE  TurnsInv'
<1>1. ASSUME NEW c, MayTouch(o), Becomes(w, c), UNCHANGED <<status, reply>>, c.order = o, FreshNext(c)
      PROVE  TurnsInv'
  <2>1. Alone(w, o) /\ OthersKept(w)
    BY <1>1 DEF InTurn, MayTouch, Alone, OthersKept
  <2> QED
    BY <1>1, <2>1, TurnTaken
<1>2. CASE Submit(w, o)
  <2> DEFINE c == Serving(o, "cart", "none")
  <2>1. Becomes(w, c) /\ UNCHANGED status /\ reply[o] = "none" /\ reply' = [reply EXCEPT ![o] = "working"]
    BY <1>2 DEF Submit, orderVars
  <2>2. ~Exists(o)
    BY <1>2 DEF Submit, KeyTaken
  <2>3. Alone(w, o)
    <3> SUFFICES ASSUME NEW v \in Workers \ {w}, Busy(v), call[v].order = o PROVE FALSE
      BY DEF Alone
    <3>1. call[v].step \in {"cart", "place"}
      BY <2>2 DEF Busy, KnownOrders, KnownCalls, Backed
    <3> QED
      BY <2>1, <3>1 DEF TurnsInv, FreshCalls, Fresh
  <2>4. OthersKept(w)
    BY <2>1 DEF OthersKept, Busy, TypeInv, TypeOK, CallsNamed, Named
  <2>5. c.order = o /\ FreshNext(c)
    BY <2>1, <2>2 DEF Serving, FreshNext, Exists, TypeInv, TypeOK
  <2> QED
    BY <2>1, <2>3, <2>4, <2>5, TurnTaken
<1>3. CASE VerifyCaptured(w, o)
  BY <1>1, <1>3 DEF VerifyCaptured, MarkPaid, Serving, FreshNext, orderVars
<1>4. CASE VerifyFailed(w, o)
  BY <1>1, <1>4 DEF VerifyFailed, MarkFailed, Serving, FreshNext, orderVars
<1>5. CASE \E kind \in EventKinds : Webhook(w, o, kind)
  BY <1>1, <1>5 DEF Webhook, Serving, FreshNext, orderVars
<1>6. CASE Sweep(w, o)
  BY <1>1, <1>6 DEF Sweep, Serving, FreshNext, orderVars
<1>7. CASE ShopperCancel(w, o)
  <2> DEFINE c == [Serving(o, "cancelRead", "none") EXCEPT !.to = "CANCELLED"]
  <2>1. c.step = "cancelRead" /\ c.order = o /\ c.to = "CANCELLED"
    BY DEF Serving
  <2> QED
    BY <1>1, <1>7, <2>1 DEF ShopperCancel, FreshNext, orderVars
<1>8. CASE \E to \in StaffTargets : StaffMove(w, o, to)
  <2>1. PICK to \in StaffTargets : StaffMove(w, o, to)
    BY <1>8
  <2> DEFINE b == Noting(Serving(o, "free", "none"), "moveWrite")
             c == [b EXCEPT !.to = to]
  <2>2. c.step = "moveWrite" /\ c.order = o /\ c.seen = status[o] /\ c.to = to
    BY DEF Noting, Serving
  <2>3. to \in Transitions[status[o]] /\ to # "CONFIRMED" /\ UNCHANGED <<status, reply>>
    BY <2>1 DEF StaffMove, MayMove, InTurn, orderVars
  <2> QED
    BY <1>1, <2>1, <2>2, <2>3 DEF StaffMove, FreshNext
<1> QED
  BY <1>2, <1>3, <1>4, <1>5, <1>6, <1>7, <1>8 DEF Begin

LEMMA TurnsStay ==
  ASSUME InTurn, TypeInv, KnownOrders, TurnsInv, [Next]_vars
  PROVE  TurnsInv'
<1> USE DEF At
<1>1. ASSUME UNCHANGED <<call, status>>,
             \A o \in Requests : reply[o] = "working" => reply'[o] = "working"
      PROVE  TurnsInv'
  BY <1>1 DEF TurnsInv, Turns, Alone, Busy, FreshCalls, Fresh, TypeInv, CallsNamed, Named
<1>2. ASSUME NEW w \in Workers, Abort(w) PROVE TurnsInv'
  <2>1. \A p \in Requests \ {call[w].order} : status'[p] = status[p] /\ reply'[p] = reply[p]
    BY <1>2 DEF Abort, orderVars, TypeInv, TypeOK
  <2>2. Busy(w) /\ Becomes(w, Free)
    BY <1>2 DEF Abort, Leave, Busy
  <2> QED
    BY <2>1, <2>2, FreeTyped, OwnTurn
<1>3. ASSUME NEW o \in Requests, SubmitAgain(o) PROVE TurnsInv'
  BY <1>1, <1>3 DEF SubmitAgain, orderVars, TypeInv, TypeOK
<1>4. ASSUME NEW o \in Requests, VerifyAuthorized(o) PROVE TurnsInv'
  BY <1>1, <1>4 DEF VerifyAuthorized, orderVars
<1>5. ASSUME NEW o \in Requests, NEW what \in Outcomes, GatewayStep(o, what) PROVE TurnsInv'
  BY <1>1, <1>5 DEF GatewayStep, orderVars
<1>6. CASE UNCHANGED vars
  BY <1>1, <1>6 DEF vars
<1> QED
  BY <1>2, <1>3, <1>4, <1>5, <1>6, ContinueInTurn, BeginInTurn DEF Next

-------------------------------------------------------------------------------
\* The units held are counted as a set: one pair for each unit of each unpaid
\* order, so that adding an order and settling it are facts about cardinalities.

Units(o, n) == {o} \X (1..n)

HeldUnits == {u \in Requests \X Nat : status[u[1]] = "PENDING" /\ u[2] \in 1..qty[u[1]]}

ReservedIsHeld == IsFiniteSet(HeldUnits) /\ stock.reserved = Cardinality(HeldUnits)

LEMMA UnitsCount ==
  ASSUME NEW o, NEW n \in Nat
  PROVE  IsFiniteSet(Units(o, n)) /\ Cardinality(Units(o, n)) = n
<1>1. IsFiniteSet({o}) /\ Cardinality({o}) = 1
  BY FS_Singleton
<1>2. IsFiniteSet(1..n) /\ Cardinality(1..n) = n
  BY FS_Interval
<1>3. /\ IsFiniteSet({o} \X (1..n))
      /\ Cardinality({o} \X (1..n)) = Cardinality({o}) * Cardinality(1..n)
  BY <1>1, <1>2, FS_Product, Zenon
<1>4. Cardinality({o}) * Cardinality(1..n) = n
  BY <1>1, <1>2
<1> QED
  BY <1>3, <1>4, Zenon DEF Units

\* A disjoint set of units is added, and a contained one taken away.
LEMMA UnitsAdded ==
  ASSUME NEW H, IsFiniteSet(H), NEW o, NEW n \in Nat, H \cap Units(o, n) = {}
  PROVE  /\ IsFiniteSet(H \cup Units(o, n))
         /\ Cardinality(H \cup Units(o, n)) = Cardinality(H) + n
<1>1. IsFiniteSet(Units(o, n)) /\ Cardinality(Units(o, n)) = n
  BY UnitsCount
<1>2. Cardinality(H \cap Units(o, n)) = 0 /\ Cardinality(H) \in Nat
  BY FS_EmptySet, FS_CardinalityType
<1>3. /\ IsFiniteSet(H \cup Units(o, n))
      /\ Cardinality(H \cup Units(o, n)) = Cardinality(H) + Cardinality(Units(o, n)) - Cardinality(H \cap Units(o, n))
  BY <1>1, FS_Union
<1> QED
  BY <1>1, <1>2, <1>3

LEMMA UnitsTaken ==
  ASSUME NEW H, IsFiniteSet(H), NEW o, NEW n \in Nat, Units(o, n) \subseteq H
  PROVE  /\ IsFiniteSet(H \ Units(o, n))
         /\ Cardinality(H \ Units(o, n)) = Cardinality(H) - n
         /\ n <= Cardinality(H)
<1>1. Cardinality(Units(o, n)) = n
  BY UnitsCount
<1>2. H \cap Units(o, n) = Units(o, n)
  OBVIOUS
<1>3. /\ IsFiniteSet(H \ Units(o, n))
      /\ Cardinality(H \ Units(o, n)) = Cardinality(H) - Cardinality(H \cap Units(o, n))
  BY FS_Difference
<1>4. Cardinality(Units(o, n)) <= Cardinality(H)
  BY FS_Subset
<1> QED
  BY <1>1, <1>2, <1>3, <1>4

\* An unpaid order's units are held, so the row has them reserved.
LEMMA PendingIsReserved ==
  ASSUME TypeInv, ReservedIsHeld, NEW o \in Requests, status[o] = "PENDING"
  PROVE  Units(o, qty[o]) \subseteq HeldUnits /\ qty[o] <= stock.reserved
<1>1. qty[o] \in Nat
  BY DEF TypeInv, TypeOK
<1>2. Units(o, qty[o]) \subseteq HeldUnits
  BY <1>1 DEF Units, HeldUnits
<1> QED
  BY <1>1, <1>2, UnitsTaken DEF ReservedIsHeld

-------------------------------------------------------------------------------
\* The books: what each status says about an order's units.

\* The statuses of an order that has its units: sold, and not given back.
Kept == {"CONFIRMED", "PROCESSING", "SHIPPED", "OUT_FOR_DELIVERY", "DELIVERED"}

BookedRows ==
  \A o \in Requests : /\ status[o] # "none" => qty[o] > 0
                      /\ sold[o] - returned[o] = IF status[o] \in Kept THEN 1 ELSE 0

BooksInv == OrderInv /\ StockSound /\ TurnsInv /\ BookedRows /\ ReservedIsHeld

\* One order moves to status t with n units, and the row moves with it: the
\* order is placed or sold on the spot, sold or let go, taken back, or moves on
\* with its units where they are.
Free1 == stock.quantity - stock.reserved
RowIs(q, r) == stock' = [quantity |-> q, reserved |-> r]

BookStep(o, t, n) ==
  /\ status' = [status EXCEPT ![o] = t]
  /\ qty' = [qty EXCEPT ![o] = n]
  /\ \A p \in Requests \ {o} : sold'[p] = sold[p] /\ returned'[p] = returned[p]
  /\ sold'[o] - returned'[o] = IF t \in Kept THEN 1 ELSE 0
  /\ t \in OrderStatus /\ n \in Nat \ {0}
  /\ \/ /\ status[o] = "none" /\ t = "PENDING" /\ n <= Free1
        /\ RowIs(stock.quantity, stock.reserved + n)
     \/ /\ status[o] = "none" /\ t = "CONFIRMED" /\ n <= Free1
        /\ RowIs(stock.quantity - n, stock.reserved)
     \/ /\ status[o] = "PENDING" /\ t = "CONFIRMED" /\ n = qty[o]
        /\ RowIs(stock.quantity - n, stock.reserved - n)
     \/ /\ status[o] = "PENDING" /\ t = "CANCELLED" /\ n = qty[o]
        /\ RowIs(stock.quantity, stock.reserved - n)
     \/ /\ status[o] \in Kept /\ t \notin Kept \cup {"PENDING"} /\ n = qty[o]
        /\ RowIs(stock.quantity + n, stock.reserved)
     \/ /\ status[o] # "PENDING" /\ t # "PENDING" /\ n = qty[o]
        /\ status[o] \in Kept <=> t \in Kept
        /\ UNCHANGED stock

LEMMA PlaceBooks ==
  ASSUME BooksInv, NEW w \in Workers, Place(w)
  PROVE  \E t, n : BookStep(call[w].order, t, n)
<1> DEFINE o == call[w].order
           n == call[w].held
           cod == Method[o] = "COD"
           t == IF cod THEN "CONFIRMED" ELSE "PENDING"
<1>1. TypeInv /\ o \in Requests /\ status[o] = "none"
  BY PlaceAdds DEF BooksInv, OrderInv, KeyTaken, Exists
<1>2. n \in Nat /\ n > 0 /\ sold[o] \in Nat /\ returned[o] \in Nat
  BY <1>1 DEF TypeInv, TypeOK, CallsNamed, Named, Call, Place, At
<1>3. stock \in Row /\ LegalRow(stock)
  BY <1>1 DEF BooksInv, StockSound, TypeInv, TypeOK
<1>4. n <= Free1
  <2>1. CanReserve(stock, n, AllowBackorder)
    BY DEF Place, CanPlace
  <2> QED
    BY <1>2, <1>3, <2>1 DEF CanReserve, LegalRow, Reserve, Row, Free1
<1>5. sold[o] - returned[o] = 0
  BY <1>1 DEF BooksInv, BookedRows, Kept
<1>6. IF cod THEN RowIs(stock.quantity - n, stock.reserved) ELSE RowIs(stock.quantity, stock.reserved + n)
  BY <1>2, <1>3, <1>4 DEF Place, RowIs, Row, LegalRow, Reserve, Commit, Greatest0, Free1
<1>7. /\ status' = [status EXCEPT ![o] = t]
      /\ qty' = [qty EXCEPT ![o] = n]
      /\ UNCHANGED returned
      /\ sold' = [sold EXCEPT ![o] = IF cod THEN @ + 1 ELSE @]
  BY DEF Place
<1>8. /\ \A p \in Requests \ {o} : sold'[p] = sold[p] /\ returned'[p] = returned[p]
      /\ sold'[o] - returned'[o] = IF t \in Kept THEN 1 ELSE 0
  BY <1>1, <1>2, <1>5, <1>7 DEF Kept, TypeInv, TypeOK
<1>9. t \in OrderStatus
  BY DEF OrderStatus
<1>10. BookStep(o, t, n)
  BY <1>1, <1>2, <1>4, <1>6, <1>7, <1>8, <1>9 DEF BookStep
<1> QED
  BY <1>10

\* A settlement, a failed payment and a move of an order that is there.
LEMMA WriteBooks ==
  ASSUME BooksInv, NEW w \in Workers, PaidWrite(w) \/ FailWrite(w) \/ MoveWrite(w)
  PROVE  \E t, n : BookStep(call[w].order, t, n)
<1> DEFINE o == call[w].order
           n == qty[o]
<1> USE DEF At
<1>1. TypeInv /\ o \in Requests /\ Fresh(call[w]) /\ Backed(call[w])
  BY DEF BooksInv, OrderInv, TypeInv, CallsNamed, Named, KnownOrders, KnownCalls, TurnsInv, FreshCalls,
         PaidWrite, FailWrite, MoveWrite
<1>2. status[o] # "none" /\ status[o] \in OrderStatus
  BY <1>1 DEF Backed, Exists, PaidWrite, FailWrite, MoveWrite, TypeInv, TypeOK
<1>3. n \in Nat /\ n > 0 /\ sold[o] \in Nat /\ returned[o] \in Nat
  BY <1>1, <1>2 DEF BooksInv, BookedRows, TypeInv, TypeOK
<1>4. stock \in Row /\ LegalRow(stock)
  BY <1>1 DEF BooksInv, StockSound, TypeInv, TypeOK
<1>5. status[o] = "PENDING" => n <= stock.reserved
  BY <1>1, PendingIsReserved DEF BooksInv
<1>6. sold[o] - returned[o] = IF status[o] \in Kept THEN 1 ELSE 0
  BY <1>1 DEF BooksInv, BookedRows
<1>7. call[w].seen = status[o]
  BY <1>1 DEF Fresh, PaidWrite, FailWrite, MoveWrite
<1>8. qty' = [qty EXCEPT ![o] = n]
  BY <1>1 DEF PaidWrite, FailWrite, MoveWrite, TypeInv, TypeOK
<1>9. CASE PaidWrite(w)
  <2> DEFINE first == status[o] = "PENDING"
             t == IF first THEN "CONFIRMED" ELSE status[o]
  <2>1. /\ status' = [status EXCEPT ![o] = t]
        /\ UNCHANGED returned
        /\ sold' = [sold EXCEPT ![o] = IF first THEN @ + 1 ELSE @]
        /\ stock' = IF first THEN Commit(stock, n) ELSE stock
    BY <1>7, <1>9 DEF PaidWrite
  <2>2. IF first THEN RowIs(stock.quantity - n, stock.reserved - n) ELSE UNCHANGED stock
    BY <1>3, <1>4, <1>5, <2>1 DEF RowIs, Row, LegalRow, Commit, Greatest0
  <2>3. /\ \A p \in Requests \ {o} : sold'[p] = sold[p] /\ returned'[p] = returned[p]
        /\ sold'[o] - returned'[o] = IF t \in Kept THEN 1 ELSE 0
    BY <1>1, <1>3, <1>6, <2>1 DEF Kept, TypeInv, TypeOK
  <2>4. t \in OrderStatus
    BY <1>2 DEF OrderStatus
  <2>5. BookStep(o, t, n)
    BY <1>3, <1>8, <2>1, <2>2, <2>3, <2>4 DEF BookStep
  <2> QED
    BY <2>5
<1>10. CASE FailWrite(w)
  <2>1. /\ status' = [status EXCEPT ![o] = "CANCELLED"]
        /\ UNCHANGED <<sold, returned>>
        /\ stock' = Release(stock, n)
        /\ status[o] = "PENDING"
    BY <1>1, <1>7, <1>10 DEF FailWrite, Fresh
  <2>2. RowIs(stock.quantity, stock.reserved - n)
    BY <1>3, <1>4, <1>5, <2>1 DEF RowIs, Row, LegalRow, Release, Greatest0
  <2>3. sold'[o] - returned'[o] = 0 /\ "CANCELLED" \notin Kept
    BY <1>6, <2>1 DEF Kept
  <2>4. BookStep(o, "CANCELLED", n)
    BY <1>3, <1>8, <2>1, <2>2, <2>3 DEF BookStep, OrderStatus
  <2> QED
    BY <2>4
<1>11. CASE MoveWrite(w)
  <2> DEFINE t == call[w].to
             held == t = "CANCELLED" /\ status[o] = "PENDING"
             restocked == GivesBack(status[o], t) /\ ~held
  <2>1. /\ status' = [status EXCEPT ![o] = t]
        /\ UNCHANGED sold
        /\ returned' = [returned EXCEPT ![o] = IF restocked THEN @ + 1 ELSE @]
        /\ stock' = IF held THEN Release(stock, n) ELSE IF restocked THEN Restock(stock, n) ELSE stock
    BY <1>7, <1>11 DEF MoveWrite
  <2>2. t \in Transitions[status[o]] \ {"CONFIRMED"}
    BY <1>1, <1>7, <1>11 DEF MoveWrite, Fresh
  <2>3. t \in OrderStatus /\ t # "PENDING"
    BY <1>2, <2>2 DEF Transitions, OrderStatus
  <2>4. /\ held => RowIs(stock.quantity, stock.reserved - n)
        /\ restocked => RowIs(stock.quantity + n, stock.reserved)
        /\ ~held /\ ~restocked => UNCHANGED stock
    BY <1>3, <1>4, <1>5, <2>1 DEF RowIs, Row, LegalRow, Release, Restock, Greatest0
  <2>5. /\ status[o] = "PENDING" => held
        /\ restocked <=> status[o] \in Kept /\ t \notin Kept
        /\ ~held /\ ~restocked => (status[o] \in Kept <=> t \in Kept)
    BY <1>2, <2>2 DEF Transitions, OrderStatus, Kept, GivesBack
  <2>6. \A p \in Requests \ {o} : sold'[p] = sold[p] /\ returned'[p] = returned[p]
    BY <2>1, <1>1 DEF TypeInv, TypeOK
  <2>7. sold'[o] - returned'[o] = IF t \in Kept THEN 1 ELSE 0
    BY <1>1, <1>3, <1>6, <2>1, <2>5 DEF Kept, TypeInv, TypeOK
  <2>8. BookStep(o, t, n)
    BY <1>3, <1>8, <2>1, <2>3, <2>4, <2>5, <2>6, <2>7 DEF BookStep
  <2> QED
    BY <2>8
<1> QED
  BY <1>9, <1>10, <1>11

\* Every other step leaves the books alone.
LEMMA NextBooks ==
  ASSUME BooksInv, [Next]_vars
  PROVE  \/ UNCHANGED <<status, qty, stock, sold, returned>>
         \/ \E o \in Requests : \E t, n : BookStep(o, t, n)
<1> DEFINE Rest == UNCHANGED <<status, qty, stock, sold, returned>>
<1>1. ASSUME NEW w \in Workers, Place(w) \/ PaidWrite(w) \/ FailWrite(w) \/ MoveWrite(w)
      PROVE  \E o \in Requests : \E t, n : BookStep(o, t, n)
  <2>1. call[w].order \in Requests
    BY <1>1 DEF BooksInv, OrderInv, TypeInv, CallsNamed, Named, Place, PaidWrite, FailWrite, MoveWrite, At
  <2> QED
    BY <1>1, <2>1, PlaceBooks, WriteBooks
<1>2. ASSUME NEW w \in Workers, Continue(w)
      PROVE  Rest \/ Place(w) \/ PaidWrite(w) \/ FailWrite(w) \/ MoveWrite(w)
  BY <1>2
     DEF Continue, ReadCart, Refuse, PlaceRefused, Attach, HookApply, HookDone, PaidRead, FailRead,
         CancelRead, shopVars, orderVars
<1>3. ASSUME NEW w \in Workers, NEW o \in Requests, Begin(w, o) PROVE Rest
  BY <1>3
     DEF Begin, Submit, VerifyCaptured, VerifyFailed, Webhook, Sweep, ShopperCancel, StaffMove, shopVars, orderVars
<1>4. CASE \E w \in Workers : Continue(w)
  BY <1>1, <1>2, <1>4
<1>5. CASE ~ \E w \in Workers : Continue(w)
  BY <1>3, <1>5 DEF Next, vars, Abort, SubmitAgain, VerifyAuthorized, GatewayStep, shopVars, orderVars
<1> QED
  BY <1>4, <1>5

\* What the row has reserved is what unpaid orders hold, after each step too.
LEMMA ReservedStaysHeld ==
  ASSUME TypeInv, ReservedIsHeld, NEW o \in Requests, NEW t, NEW n, BookStep(o, t, n)
  PROVE  ReservedIsHeld'
<1>1. n \in Nat /\ qty[o] \in Nat /\ stock \in Row
  BY DEF TypeInv, TypeOK, BookStep
<1>2. \A p \in Requests : /\ status'[p] = IF p = o THEN t ELSE status[p]
                          /\ qty'[p] = IF p = o THEN n ELSE qty[p]
  BY DEF BookStep, TypeInv, TypeOK
<1>3. HeldUnits' = {u \in Requests \X Nat : status'[u[1]] = "PENDING" /\ u[2] \in 1..qty'[u[1]]}
  BY DEF HeldUnits
<1>4. IsFiniteSet(HeldUnits) /\ stock.reserved = Cardinality(HeldUnits)
  BY DEF ReservedIsHeld
<1>5. CASE status[o] # "PENDING" /\ t = "PENDING" /\ RowIs(stock.quantity, stock.reserved + n)
  <2>1. HeldUnits' = HeldUnits \cup Units(o, n)
    BY <1>1, <1>2, <1>3, <1>5 DEF HeldUnits, Units
  <2>2. HeldUnits \cap Units(o, n) = {}
    BY <1>5 DEF HeldUnits, Units
  <2>3. IsFiniteSet(HeldUnits') /\ Cardinality(HeldUnits') = Cardinality(HeldUnits) + n
    BY <1>1, <1>4, <2>1, <2>2, UnitsAdded
  <2>4. stock'.reserved = stock.reserved + n
    BY <1>5 DEF RowIs
  <2> QED
    BY <1>4, <2>3, <2>4 DEF ReservedIsHeld
<1>6. CASE status[o] # "PENDING" /\ t # "PENDING" /\ stock'.reserved = stock.reserved
  <2>1. HeldUnits' = HeldUnits
    BY <1>1, <1>2, <1>3, <1>6 DEF HeldUnits
  <2> QED
    BY <1>4, <1>6, <2>1 DEF ReservedIsHeld
<1>7. CASE status[o] = "PENDING" /\ t # "PENDING" /\ n = qty[o] /\ stock'.reserved = stock.reserved - n
  <2>1. HeldUnits' = HeldUnits \ Units(o, n)
    BY <1>1, <1>2, <1>3, <1>7 DEF HeldUnits, Units
  <2>2. Units(o, n) \subseteq HeldUnits
    BY <1>7, PendingIsReserved
  <2>3. IsFiniteSet(HeldUnits') /\ Cardinality(HeldUnits') = Cardinality(HeldUnits) - n
    BY <1>1, <1>4, <2>1, <2>2, UnitsTaken
  <2> QED
    BY <1>4, <1>7, <2>3 DEF ReservedIsHeld
<1>8. /\ status[o] = "none" => status[o] # "PENDING"
      /\ status[o] \in Kept => status[o] # "PENDING"
      /\ "CONFIRMED" # "PENDING" /\ "CANCELLED" # "PENDING"
  BY DEF Kept
<1> QED
  BY <1>5, <1>6, <1>7, <1>8 DEF BookStep, RowIs

LEMMA BookedStays ==
  ASSUME TypeInv, BookedRows, NEW o \in Requests, NEW t, NEW n, BookStep(o, t, n)
  PROVE  BookedRows'
<1>1. \A p \in Requests : /\ status'[p] = IF p = o THEN t ELSE status[p]
                          /\ qty'[p] = IF p = o THEN n ELSE qty[p]
  BY DEF BookStep, TypeInv, TypeOK
<1>2. n > 0
  BY DEF BookStep
<1> QED
  BY <1>1, <1>2 DEF BookedRows, BookStep

LEMMA BooksInvariant == ASSUME InTurn PROVE Spec => []BooksInv
<1>1. Init => TurnsInv /\ BookedRows /\ ReservedIsHeld
  <2> SUFFICES ASSUME Init PROVE TurnsInv /\ BookedRows /\ ReservedIsHeld
    OBVIOUS
  <2>1. TurnsInv
    <3>1. \A w \in Workers : call[w].step = "free"
      BY FreeTyped DEF Init
    <3> QED
      BY <3>1 DEF TurnsInv, Turns, FreshCalls, Fresh, Busy
  <2>2. BookedRows
    BY DEF Init, BookedRows, Kept
  <2>3. ReservedIsHeld
    <3>1. HeldUnits = {}
      BY DEF Init, HeldUnits
    <3> QED
      BY <3>1, FS_EmptySet DEF Init, ReservedIsHeld
  <2> QED
    BY <2>1, <2>2, <2>3
<1>2. BooksInv /\ [Next]_vars => TurnsInv' /\ BookedRows' /\ ReservedIsHeld'
  <2> SUFFICES ASSUME BooksInv, [Next]_vars PROVE TurnsInv' /\ BookedRows' /\ ReservedIsHeld'
    OBVIOUS
  <2>1. TypeInv /\ KnownOrders /\ TurnsInv /\ BookedRows /\ ReservedIsHeld
    BY DEF BooksInv, OrderInv
  <2>2. TurnsInv'
    BY <2>1, TurnsStay
  <2>3. CASE UNCHANGED <<status, qty, stock, sold, returned>>
    BY <2>1, <2>2, <2>3 DEF BookedRows, ReservedIsHeld, HeldUnits
  <2>4. CASE \E o \in Requests : \E t, n : BookStep(o, t, n)
    BY <2>1, <2>2, <2>4, BookedStays, ReservedStaysHeld
  <2> QED
    BY <2>3, <2>4, NextBooks
<1>3. BooksInv <=> OrderInv /\ StockSound /\ TurnsInv /\ BookedRows /\ ReservedIsHeld
  BY DEF BooksInv
<1> QED
  BY <1>1, <1>2, <1>3, OrderInvariant, StockAlwaysSound, PTL DEF Spec

-------------------------------------------------------------------------------
\* The refinement.

\* What an order has out of the shop, under the mapping of Reserved.
LEMMA NetUnits ==
  ASSUME NEW n \in Nat, NEW s \in Nat, NEW r \in Nat, NEW kept \in BOOLEAN, s - r = IF kept THEN 1 ELSE 0
  PROVE  n * (s - r) = IF kept THEN n ELSE 0
OBVIOUS

HeldOf == [o \in Requests |-> IF status[o] = "PENDING" THEN qty[o] ELSE 0]
KeptOf == [o \in Requests |-> IF status[o] \in Kept THEN qty[o] ELSE 0]

\* What is kept, by its status, is what the movements of the order add up to.
KeptIsSold == KeptOf = [o \in Requests |-> qty[o] * (sold[o] - returned[o])]

LEMMA KeptAddsUp == TypeInv /\ BookedRows => KeptIsSold
<1> SUFFICES ASSUME TypeInv, BookedRows, NEW o \in Requests
             PROVE  qty[o] * (sold[o] - returned[o]) = IF status[o] \in Kept THEN qty[o] ELSE 0
  BY DEF KeptOf, KeptIsSold
<1>1. /\ qty[o] \in Nat /\ sold[o] \in Nat /\ returned[o] \in Nat
      /\ sold[o] - returned[o] = IF status[o] \in Kept THEN 1 ELSE 0
  BY DEF TypeInv, TypeOK, BookedRows
<1> QED
  BY <1>1, NetUnits

\* The step of the reservation that each step of the books is.
LEMMA BookStepReserves ==
  ASSUME TypeInv, BookedRows, StockSound, NEW o \in Requests, NEW t, NEW n, BookStep(o, t, n),
         KeptIsSold, KeptIsSold'
  PROVE  Reserved!Next \/ UNCHANGED Reserved!resVars
<1> DEFINE free == stock.quantity - stock.reserved
           freeNext == stock'.quantity - stock'.reserved
<1>1. /\ n \in Nat /\ n > 0 /\ qty[o] \in Nat
      /\ stock.quantity \in Int /\ stock.reserved \in Int
      /\ status[o] # "none" => qty[o] > 0
  BY DEF TypeInv, TypeOK, BookStep, BookedRows, Row
<1>2. \A p \in Requests : /\ status'[p] = IF p = o THEN t ELSE status[p]
                          /\ qty'[p] = IF p = o THEN n ELSE qty[p]
  BY DEF BookStep, TypeInv, TypeOK
<1>3. /\ HeldOf' = [HeldOf EXCEPT ![o] = IF t = "PENDING" THEN n ELSE 0]
      /\ KeptOf' = [KeptOf EXCEPT ![o] = IF t \in Kept THEN n ELSE 0]
  BY <1>2 DEF HeldOf, KeptOf
<1>4. /\ HeldOf[o] = IF status[o] = "PENDING" THEN qty[o] ELSE 0
      /\ KeptOf[o] = IF status[o] \in Kept THEN qty[o] ELSE 0
  BY DEF HeldOf, KeptOf
<1>5. /\ HeldOf' = [p \in Requests |-> IF status'[p] = "PENDING" THEN qty'[p] ELSE 0]
      /\ HeldOf = [p \in Requests |-> IF status[p] = "PENDING" THEN qty[p] ELSE 0]
      /\ KeptOf' = [p \in Requests |-> qty'[p] * (sold'[p] - returned'[p])]
      /\ KeptOf = [p \in Requests |-> qty[p] * (sold[p] - returned[p])]
  BY DEF HeldOf, KeptIsSold
<1>6. Reserved!Next <=> \E p \in Requests :
        Reserved!Hold(p) \/ Reserved!Sell(p) \/ Reserved!SellAtOnce(p) \/ Reserved!LetGo(p) \/ Reserved!TakeBack(p)
  BY DEF Reserved!Next
<1>7. CASE /\ status[o] = "none" /\ t = "PENDING" /\ n <= Free1
           /\ RowIs(stock.quantity, stock.reserved + n)
  <2>1. n \in 1..free /\ stock'.quantity = stock.quantity /\ freeNext = free - n
    BY <1>1, <1>7 DEF Free1, RowIs
  <2>2. HeldOf[o] = 0 /\ KeptOf[o] = 0 /\ HeldOf' = [HeldOf EXCEPT ![o] = n] /\ KeptOf' = KeptOf
    BY <1>3, <1>4, <1>7 DEF Kept, KeptOf
  <2>3. Reserved!Hold(o)
    BY <1>5, <2>1, <2>2 DEF Reserved!Hold
  <2> QED
    BY <1>6, <2>3
<1>8. CASE /\ status[o] = "none" /\ t = "CONFIRMED" /\ n <= Free1
           /\ RowIs(stock.quantity - n, stock.reserved)
  <2>1. n \in 1..free /\ stock'.quantity = stock.quantity - n /\ freeNext = free - n
    BY <1>1, <1>8 DEF Free1, RowIs
  <2>2. HeldOf[o] = 0 /\ KeptOf[o] = 0 /\ HeldOf' = HeldOf /\ KeptOf' = [KeptOf EXCEPT ![o] = n]
    BY <1>3, <1>4, <1>8 DEF Kept, HeldOf
  <2>3. Reserved!SellAtOnce(o)
    BY <1>5, <2>1, <2>2 DEF Reserved!SellAtOnce
  <2> QED
    BY <1>6, <2>3
<1>9. CASE /\ status[o] = "PENDING" /\ t = "CONFIRMED" /\ n = qty[o]
           /\ RowIs(stock.quantity - n, stock.reserved - n)
  <2>1. stock'.quantity = stock.quantity - n /\ freeNext = free
    BY <1>1, <1>9 DEF RowIs
  <2>2. HeldOf[o] = n /\ HeldOf' = [HeldOf EXCEPT ![o] = 0] /\ KeptOf' = [KeptOf EXCEPT ![o] = n]
    BY <1>3, <1>4, <1>9 DEF Kept
  <2>3. Reserved!Sell(o)
    BY <1>1, <1>5, <2>1, <2>2 DEF Reserved!Sell
  <2> QED
    BY <1>6, <2>3
<1>10. CASE /\ status[o] = "PENDING" /\ t = "CANCELLED" /\ n = qty[o]
            /\ RowIs(stock.quantity, stock.reserved - n)
  <2>1. stock'.quantity = stock.quantity /\ freeNext = free + n
    BY <1>1, <1>10 DEF RowIs
  <2>2. HeldOf[o] = n /\ HeldOf' = [HeldOf EXCEPT ![o] = 0] /\ KeptOf' = KeptOf
    BY <1>3, <1>4, <1>10 DEF Kept, KeptOf
  <2>3. Reserved!LetGo(o)
    BY <1>1, <1>5, <2>1, <2>2 DEF Reserved!LetGo
  <2> QED
    BY <1>6, <2>3
<1>11. CASE /\ status[o] \in Kept /\ t \notin Kept \cup {"PENDING"} /\ n = qty[o]
            /\ RowIs(stock.quantity + n, stock.reserved)
  <2>1. stock'.quantity = stock.quantity + n /\ freeNext = free + n
    BY <1>1, <1>11 DEF RowIs
  <2>2. KeptOf[o] = n /\ KeptOf' = [KeptOf EXCEPT ![o] = 0] /\ HeldOf' = HeldOf
    BY <1>3, <1>4, <1>11 DEF Kept, HeldOf
  <2>3. Reserved!TakeBack(o)
    BY <1>1, <1>5, <2>1, <2>2 DEF Reserved!TakeBack
  <2> QED
    BY <1>6, <2>3
<1>12. CASE /\ status[o] # "PENDING" /\ t # "PENDING" /\ n = qty[o]
            /\ status[o] \in Kept <=> t \in Kept
            /\ UNCHANGED stock
  <2>1. HeldOf' = [HeldOf EXCEPT ![o] = HeldOf[o]] /\ KeptOf' = [KeptOf EXCEPT ![o] = KeptOf[o]]
    BY <1>3, <1>4, <1>12
  <2>2. HeldOf' = HeldOf
    BY <2>1 DEF HeldOf
  <2>3. KeptOf' = KeptOf
    BY <2>1 DEF KeptOf
  <2> QED
    BY <1>5, <1>12, <2>2, <2>3 DEF Reserved!resVars
<1> QED
  BY <1>7, <1>8, <1>9, <1>10, <1>11, <1>12 DEF BookStep

\* Where calls on one order take turns, checkouts of any number of shoppers,
\* settlements, cancellations and returns, with calls dying at any point, are a
\* reservation: no unit is sold that was not free or held for that very order,
\* and none is given back that was not.
THEOREM LifecycleReserves == ASSUME InTurn PROVE Spec => ImplementsReservation
<1>1. Init => Reserved!Init
  <2> SUFFICES ASSUME Init PROVE Reserved!Init
    OBVIOUS
  <2>1. InitialQuantity \in Nat
    BY StoreAssumption
  <2> QED
    BY <2>1 DEF Init, Reserved!Init
<1>2. BooksInv => TypeInv /\ BookedRows /\ StockSound /\ KeptIsSold
  BY KeptAddsUp DEF BooksInv, OrderInv
<1>3. BooksInv /\ KeptIsSold /\ KeptIsSold' /\ [Next]_vars => [Reserved!Next]_(Reserved!resVars)
  <2> SUFFICES ASSUME BooksInv, KeptIsSold, KeptIsSold', [Next]_vars
               PROVE  Reserved!Next \/ UNCHANGED Reserved!resVars
    BY Zenon
  <2>1. CASE UNCHANGED <<status, qty, stock, sold, returned>>
    BY <2>1 DEF Reserved!resVars
  <2>2. CASE \E o \in Requests : \E t, n : BookStep(o, t, n)
    <3>1. PICK o \in Requests : \E t, n : BookStep(o, t, n)
      BY <2>2
    <3>2. PICK t, n : BookStep(o, t, n)
      BY <3>1
    <3> QED
      BY <1>2, <3>2, BookStepReserves
  <2> QED
    BY <2>1, <2>2, NextBooks
<1> QED
  BY <1>1, <1>2, <1>3, BooksInvariant, PTL DEF Spec, ImplementsReservation, Reserved!Spec

-------------------------------------------------------------------------------
\* What never gets lost.

\* The units customers have: one pair for each unit of each order that keeps its own.
KeptUnits == {u \in Requests \X Nat : status[u[1]] \in Kept /\ u[2] \in 1..qty[u[1]]}

\* On the shelf or with a customer: no unit is lost and none is made up.
UnitsConserved ==
  IsFiniteSet(KeptUnits) /\ stock.quantity + Cardinality(KeptUnits) = InitialQuantity

LEMMA ConservedStays ==
  ASSUME TypeInv, UnitsConserved, NEW o \in Requests, NEW t, NEW n, BookStep(o, t, n)
  PROVE  UnitsConserved'
<1>1. n \in Nat /\ qty[o] \in Nat /\ stock.quantity \in Int /\ InitialQuantity \in Nat
  BY StoreAssumption DEF TypeInv, TypeOK, BookStep, Row
<1>2. \A p \in Requests : /\ status'[p] = IF p = o THEN t ELSE status[p]
                          /\ qty'[p] = IF p = o THEN n ELSE qty[p]
  BY DEF BookStep, TypeInv, TypeOK
<1>3. KeptUnits' = {u \in Requests \X Nat : status'[u[1]] \in Kept /\ u[2] \in 1..qty'[u[1]]}
  BY DEF KeptUnits, Kept
<1>4. IsFiniteSet(KeptUnits) /\ Cardinality(KeptUnits) \in Nat
      /\ stock.quantity + Cardinality(KeptUnits) = InitialQuantity
  BY FS_CardinalityType DEF UnitsConserved
<1>5. CASE status[o] \notin Kept /\ t \in Kept /\ stock'.quantity = stock.quantity - n
  <2>1. KeptUnits' = KeptUnits \cup Units(o, n)
    BY <1>1, <1>2, <1>3, <1>5 DEF KeptUnits, Units
  <2>2. KeptUnits \cap Units(o, n) = {}
    BY <1>5 DEF KeptUnits, Units
  <2>3. IsFiniteSet(KeptUnits') /\ Cardinality(KeptUnits') = Cardinality(KeptUnits) + n
    BY <1>1, <1>4, <2>1, <2>2, UnitsAdded
  <2> QED
    BY <1>1, <1>4, <1>5, <2>3 DEF UnitsConserved
<1>6. CASE (status[o] \in Kept <=> t \in Kept) /\ (t \in Kept => n = qty[o])
           /\ stock'.quantity = stock.quantity
  <2>1. KeptUnits' = KeptUnits
    BY <1>1, <1>2, <1>3, <1>6 DEF KeptUnits
  <2> QED
    BY <1>4, <1>6, <2>1 DEF UnitsConserved
<1>7. CASE status[o] \in Kept /\ t \notin Kept /\ n = qty[o] /\ stock'.quantity = stock.quantity + n
  <2>1. KeptUnits' = KeptUnits \ Units(o, n)
    BY <1>1, <1>2, <1>3, <1>7 DEF KeptUnits, Units
  <2>2. Units(o, n) \subseteq KeptUnits
    BY <1>1, <1>7 DEF KeptUnits, Units
  <2>3. IsFiniteSet(KeptUnits') /\ Cardinality(KeptUnits') = Cardinality(KeptUnits) - n
    BY <1>1, <1>4, <2>1, <2>2, UnitsTaken
  <2> QED
    BY <1>1, <1>4, <1>7, <2>3 DEF UnitsConserved
<1>8. "CONFIRMED" \in Kept /\ {"none", "PENDING", "CANCELLED"} \cap Kept = {}
  BY DEF Kept
<1> QED
  BY <1>5, <1>6, <1>7, <1>8 DEF BookStep, RowIs

\* Where calls on one order take turns, the units on the shelf and those that
\* customers keep are always the units there were at first: two shoppers after
\* the last unit never both get it, and no cancellation restocks what was only held.
THEOREM NothingLostInTurn == ASSUME InTurn PROVE Spec => []UnitsConserved
<1>1. Init => UnitsConserved
  <2> SUFFICES ASSUME Init PROVE UnitsConserved
    OBVIOUS
  <2>1. KeptUnits = {} /\ InitialQuantity \in Nat
    BY StoreAssumption DEF Init, KeptUnits, Kept
  <2> QED
    BY <2>1, FS_EmptySet DEF Init, UnitsConserved
<1>2. BooksInv /\ UnitsConserved /\ [Next]_vars => UnitsConserved'
  <2> SUFFICES ASSUME BooksInv, UnitsConserved, [Next]_vars PROVE UnitsConserved'
    OBVIOUS
  <2>1. CASE UNCHANGED <<status, qty, stock, sold, returned>>
    BY <2>1 DEF UnitsConserved, KeptUnits, Kept
  <2>2. CASE \E o \in Requests : \E t, n : BookStep(o, t, n)
    BY <2>2, ConservedStays DEF BooksInv, OrderInv
  <2> QED
    BY <2>1, <2>2, NextBooks
<1> QED
  BY <1>1, <1>2, BooksInvariant, PTL DEF Spec
===============================================================================
