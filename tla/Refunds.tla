------------------------------- MODULE Refunds -------------------------------
(***************************************************************************)
(* Refunds of one captured payment: PaymentsService.refund, applyRefund    *)
(* and settleRefund, and the gateway they talk to.                         *)
(*                                                                         *)
(* A refund request runs as one call, a webhook delivery as another.  Each *)
(* statement committed on its own is a step; the transaction of            *)
(* applyRefund is its read, its sum and its write.  A request names any    *)
(* amount that is left, and the idempotency key                            *)
(* refund:payment:sequence:amount is the pair of its two numbers.          *)
(***************************************************************************)
EXTENDS Integers, FiniteSets

CONSTANTS
  Calls,        \* refund requests by staff; each runs once
  Dashboard,    \* refunds a merchant issues on the gateway's own dashboard
  Amount,       \* what was captured
  Methods,      \* payment methods considered
  MaxSequence,  \* bound on sequence numbers
  MaxAborts,    \* how many calls may die
  MaxEvents,    \* bound on the webhooks the gateway sends
  None          \* no row, no key, no refund id

Keys == (1..MaxSequence) \X (1..Amount)         \* sequence and amount
Gids == Keys \cup (Dashboard \X (1..Amount))    \* refunds at the gateway
Kinds == {"processed", "failed"}    \* of webhook
Hooks == Gids \X Kinds
Procs == Calls \cup Hooks
RowIds == Calls \cup Gids

ASSUME RefundAssumption ==
  /\ IsFiniteSet(Calls) /\ IsFiniteSet(Dashboard)
  /\ Amount \in Nat \ {0} /\ MaxSequence \in Nat /\ MaxSequence >= Amount
  /\ MaxAborts \in Nat /\ MaxEvents \in Nat
  /\ Methods \subseteq {"COD", "ONLINE"}
  /\ Calls \cap Gids = {} /\ Calls \cap Hooks = {} /\ Dashboard \cap (1..MaxSequence) = {}
  /\ None \notin RowIds

VARIABLES
  method,    \* the payment's method; fixed
  row,       \* payment_refunds, by the call or the gateway refund it is about
  refunded,  \* payments.refunded_amount; payments.status follows from it
  order,     \* the order's status and paymentStatus
  gw,        \* the gateway's refunds
  pc, loc,   \* where each call is, and what it remembers
  aborts

bookVars == <<row, refunded, order>>
vars == <<method, row, refunded, order, gw, pc, loc, aborts>>

RowStatus == {"none", "PENDING", "PROCESSED", "FAILED"}
RefundRow == [status: RowStatus, amount: 0..Amount, key: Keys \cup {None},
              provider: Gids \cup {None}]
NoRow == [status |-> "none", amount |-> 0, key |-> None, provider |-> None]

CallSteps == {"idle", "insert", "send", "store", "catch", "close", "refused"}
HookSteps == {"none", "sent", "create", "fail", "failSum", "failWrite", "ignored"}
ApplySteps == {"apply", "sum", "write"}
Ended == {"idle", "none", "sent", "done", "refused", "ignored", "dead"}
Steps == CallSteps \cup HookSteps \cup ApplySteps \cup {"done", "dead"}

GatewayStatus == {"none", "pending", "processed", "failed"}
Local == [row: RowIds \cup {None}, key: Keys \cup {None}, full: BOOLEAN,
          answer: GatewayStatus, seen: RowStatus, total: Int]
Remember(r, key, full, answer) ==
  [row |-> r, key |-> key, full |-> full, answer |-> answer, seen |-> "none", total |-> 0]
NoLocal == Remember(None, None, FALSE, "none")

OrderState == [status: {"DELIVERED", "REFUNDED"},
               paid: {"PAID", "PARTIALLY_REFUNDED", "REFUNDED"}]

TypeOK ==
  /\ method \in Methods
  /\ row \in [RowIds -> RefundRow]
  /\ refunded \in Int
  /\ order \in OrderState
  /\ gw \in [Gids -> GatewayStatus]
  /\ pc \in [Procs -> Steps]
  /\ loc \in [Procs -> Local]
  /\ aborts \in 0..MaxAborts

Init ==
  /\ method \in Methods
  /\ row = [r \in RowIds |-> NoRow]
  /\ refunded = 0
  /\ order = [status |-> "DELIVERED", paid |-> "PAID"]
  /\ gw = [g \in Gids |-> "none"]
  /\ pc = [p \in Procs |-> IF p \in Calls THEN "idle" ELSE "none"]
  /\ loc = [p \in Procs |-> NoLocal]
  /\ aborts = 0

-------------------------------------------------------------------------------
\* Helpers

At(p, step) == pc[p] = step
Go(p, step) == pc' = [pc EXCEPT ![p] = step]

\* A call is over: it forgets what it remembered.
End(p, step) == Go(p, step) /\ loc' = [loc EXCEPT ![p] = NoLocal]

\* Rows that count against what is left, and the sum of their amounts: the
\* number of units of money they stand for.
Accepted == {r \in RowIds : row[r].status \in {"PENDING", "PROCESSED"}}
Units(rows) == {u \in rows \X (1..Amount) : u[2] <= row[u[1]].amount}
AcceptedTotal == Cardinality(Units(Accepted))

Larger(a, b) == IF a >= b THEN a ELSE b
Smaller(a, b) == IF a <= b THEN a ELSE b

\* payments.status, and orders.paymentStatus, after a total was written.
StatusOf(total) ==
  IF total <= 0 THEN "PAID" ELSE IF total >= Amount THEN "REFUNDED" ELSE "PARTIALLY_REFUNDED"

KeyTaken(k) == \E r \in RowIds : row[r].key = k

\* Mutant of ProviderTaken: no unique index on provider_refund_id.
NeverTaken(g) == FALSE

ProviderTaken(g) == \E r \in RowIds : row[r].provider = g

\* The row lock a transaction holds from its UPDATE of the refund to its commit.
RowFree(r, p) == \A q \in Procs \ {p} : ~(At(q, "write") /\ loc[q].row = r
                                          /\ loc[q].answer = "processed")

-------------------------------------------------------------------------------
\* PaymentsService.refund

Refundable == Amount - Larger(AcceptedTotal, refunded)

\* Mutant of Sequence: failed refunds count too, so a retry gets a fresh key.
SequenceOfAll == Cardinality({r \in RowIds : row[r].status # "none"}) + 1

Sequence == Cardinality(Accepted) + 1

\* The read: the payment with its accepted refunds.
Ask(c, amount) ==
  /\ At(c, "idle")
  /\ StatusOf(refunded) # "REFUNDED"
  /\ amount <= Refundable
  /\ <<Sequence, amount>> \in Keys
  /\ LET full == amount = Refundable /\ Accepted = {} /\ refunded = 0
     IN  loc' = [loc EXCEPT ![c] = Remember(c, <<Sequence, amount>>, full, "none")]
  /\ Go(c, "insert")
  /\ UNCHANGED <<method, bookVars, gw, aborts>>

\* Cash has nothing to send back through a gateway: it is processed at once.
Insert(c) ==
  /\ At(c, "insert") /\ ~KeyTaken(loc[c].key)
  /\ row' = [row EXCEPT ![c] = [status |-> "PENDING", amount |-> loc[c].key[2],
                                key |-> loc[c].key, provider |-> None]]
  /\ IF method = "COD"
       THEN /\ loc' = [loc EXCEPT ![c].answer = "processed"]
            /\ Go(c, "apply")
       ELSE /\ Go(c, "send")
            /\ UNCHANGED loc
  /\ UNCHANGED <<method, refunded, order, gw, aborts>>

\* The unique index on idempotency_key refuses the row.
InsertRefused(c) ==
  /\ At(c, "insert") /\ KeyTaken(loc[c].key)
  /\ End(c, "refused")
  /\ UNCHANGED <<method, bookVars, gw, aborts>>

\* Events a gateway refund causes when it reaches a state.
Emit(g, status) ==
  IF status \in Kinds THEN {<<g, status>>} ELSE {}

MayEmit(status) ==
  status \in Kinds => Cardinality({h \in Hooks : pc[h] # "none"}) < MaxEvents

\* The gateway creates the refund, or finds it by its idempotency key; the
\* answer reaches the call, or is lost.  Or the request fails outright.
Send(c, status, lost) ==
  LET k == loc[c].key
  IN  /\ At(c, "send")
      /\ IF gw[k] = "none" THEN MayEmit(status) ELSE status = gw[k]
      /\ gw' = [gw EXCEPT ![k] = status]
      /\ loc' = [loc EXCEPT ![c].answer = IF lost THEN "none" ELSE status]
      /\ pc' = [p \in Procs |->
           CASE p = c -> IF lost THEN "catch" ELSE "store"
             [] gw[k] = "none" /\ p \in Emit(k, status) -> "sent"
             [] OTHER -> pc[p]]
      /\ UNCHANGED <<method, bookVars, aborts>>

SendFails(c) ==
  /\ At(c, "send")
  /\ Go(c, "catch")
  /\ UNCHANGED <<method, bookVars, gw, loc, aborts>>

\* The provider's id is stored; the unique index may refuse it.  An answer that
\* says "failed" leaves the row as it is and applies nothing.
Store(c) ==
  LET g == loc[c].key
  IN  /\ At(c, "store") /\ ~ProviderTaken(g)
      /\ row' = [row EXCEPT ![c].provider = g]
      /\ Go(c, IF loc[c].answer = "failed" THEN "close" ELSE "apply")
      /\ UNCHANGED <<method, refunded, order, gw, loc, aborts>>

StoreRefused(c) ==
  /\ At(c, "store") /\ ProviderTaken(loc[c].key)
  /\ Go(c, "catch")
  /\ UNCHANGED <<method, bookVars, gw, loc, aborts>>

Catch(c) ==
  /\ At(c, "catch")
  /\ row' = [row EXCEPT ![c].status = "FAILED"]
  /\ End(c, "done")
  /\ UNCHANGED <<method, refunded, order, gw, aborts>>

\* A full refund closes the order; updateStatus refuses while an online payment
\* is still owed.
Close(c) ==
  /\ At(c, "close")
  /\ order' = IF /\ loc[c].full /\ order.status = "DELIVERED"
                 /\ method = "COD" \/ StatusOf(refunded) = "REFUNDED"
              THEN [status |-> "REFUNDED", paid |-> "REFUNDED"] ELSE order
  /\ End(c, "done")
  /\ UNCHANGED <<method, row, refunded, gw, aborts>>

-------------------------------------------------------------------------------
\* PaymentsService.applyRefund, one transaction of a call or a webhook

AfterApply(p) == IF p \in Calls THEN Go(p, "close") /\ UNCHANGED loc ELSE End(p, "done")

ApplyRead(p) ==
  /\ At(p, "apply")
  /\ loc' = [loc EXCEPT ![p].seen = row[loc[p].row].status]
  /\ Go(p, "sum")
  /\ UNCHANGED <<method, bookVars, gw, aborts>>

Applies(p) == loc[p].answer = "processed" =>
                row[loc[p].row].status = "PENDING" \/ loc[p].seen = "PENDING"

\* The conditional UPDATE of the refund takes its row lock; the aggregate
\* counts this refund either way.
ApplySum(p) ==
  /\ At(p, "sum") /\ Applies(p)
  /\ loc[p].answer = "processed" => RowFree(loc[p].row, p)
  /\ loc' = [loc EXCEPT ![p].total = Smaller(AcceptedTotal, Amount)]
  /\ Go(p, "write")
  /\ UNCHANGED <<method, bookVars, gw, aborts>>

AlreadySettled(p) ==
  /\ At(p, "sum") /\ ~Applies(p)
  /\ AfterApply(p)
  /\ UNCHANGED <<method, bookVars, gw, aborts>>

\* Mutant of Moves: the UPDATE does not repeat WHERE status = 'PENDING'.
MovesAlways(p) == loc[p].answer = "processed"

Moves(p) == loc[p].answer = "processed" /\ row[loc[p].row].status = "PENDING"

ApplyWrite(p) ==
  /\ At(p, "write")
  /\ row' = IF Moves(p) THEN [row EXCEPT ![loc[p].row].status = "PROCESSED"] ELSE row
  /\ refunded' = loc[p].total
  /\ order' = [order EXCEPT !.paid = StatusOf(loc[p].total)]
  /\ AfterApply(p)
  /\ UNCHANGED <<method, gw, aborts>>

-------------------------------------------------------------------------------
\* PaymentsService.settleRefund; the event row was inserted before, so each
\* event is handled once.

Known(h) == {r \in RowIds : row[r].provider = h[1]}

HookFind(h) ==
  /\ At(h, "sent") /\ Known(h) # {}
  /\ loc' = [loc EXCEPT ![h] = Remember(CHOOSE r \in Known(h) : TRUE, None, FALSE, h[2])]
  /\ Go(h, IF h[2] = "processed" THEN "apply" ELSE "fail")
  /\ UNCHANGED <<method, bookVars, gw, aborts>>

HookUnknown(h) ==
  /\ At(h, "sent") /\ Known(h) = {}
  /\ Go(h, IF h[2] = "processed" THEN "create" ELSE "ignored")
  /\ UNCHANGED <<method, bookVars, gw, loc, aborts>>

\* Mutant of HookCreate: an unknown refund is ignored.
HookDrop(h) ==
  /\ At(h, "create")
  /\ End(h, "done")
  /\ UNCHANGED <<method, bookVars, gw, aborts>>

\* Issued from the dashboard, says the code; recorded so the books agree.
HookCreate(h) ==
  LET g == h[1]
  IN  /\ At(h, "create") /\ ~ProviderTaken(g)
      /\ row' = [row EXCEPT ![g] = [status |-> "PENDING", amount |-> g[2],
                                    key |-> None, provider |-> g]]
      /\ loc' = [loc EXCEPT ![h] = Remember(g, None, FALSE, "processed")]
      /\ Go(h, "apply")
      /\ UNCHANGED <<method, refunded, order, gw, aborts>>

HookCreateRefused(h) ==
  /\ At(h, "create") /\ ProviderTaken(h[1])
  /\ End(h, "done")
  /\ UNCHANGED <<method, bookVars, gw, aborts>>

HookFail(h) ==
  LET r == loc[h].row
  IN  /\ At(h, "fail") /\ RowFree(r, h)
      /\ IF row[r].status \in {"PENDING", "PROCESSED"}
           THEN row' = [row EXCEPT ![r].status = "FAILED"] /\ Go(h, "failSum") /\ UNCHANGED loc
           ELSE row' = row /\ End(h, "done")
      /\ UNCHANGED <<method, refunded, order, gw, aborts>>

\* The total without the failed refund: read, then written, without the cap and
\* without the order.
FailSum(h) ==
  /\ At(h, "failSum")
  /\ loc' = [loc EXCEPT ![h].total = AcceptedTotal]
  /\ Go(h, "failWrite")
  /\ UNCHANGED <<method, bookVars, gw, aborts>>

FailWrite(h) ==
  /\ At(h, "failWrite")
  /\ refunded' = loc[h].total
  /\ End(h, "done")
  /\ UNCHANGED <<method, row, order, gw, aborts>>

-------------------------------------------------------------------------------
\* The gateway (external) and failures.

Moving(g, status) ==
  /\ MayEmit(status)
  /\ gw' = [gw EXCEPT ![g] = status]
  /\ pc' = [p \in Procs |-> IF p \in Emit(g, status) THEN "sent" ELSE pc[p]]
  /\ UNCHANGED <<method, bookVars, loc, aborts>>

GatewayMove(g, status) ==
  /\ \/ gw[g] = "pending" /\ status \in Kinds
     \/ gw[g] = "processed" /\ status = "failed"
  /\ Moving(g, status)

\* One refund for each member of Dashboard.
DashboardRefund(d, amount) ==
  /\ method = "ONLINE"
  /\ \A a \in 1..Amount : gw[<<d, a>>] = "none"
  /\ Moving(<<d, amount>>, "pending")

\* A refund call dies: an exception outside the catch, a timeout, a killed
\* process.  An open transaction rolls back.
Abort(c) ==
  /\ pc[c] \notin Ended /\ aborts < MaxAborts
  /\ aborts' = aborts + 1
  /\ End(c, "dead")
  /\ UNCHANGED <<method, bookVars, gw>>

CallNext(c) ==
  \/ \E amount \in 1..Amount : Ask(c, amount)
  \/ Insert(c) \/ InsertRefused(c) \/ SendFails(c)
  \/ \E status \in GatewayStatus \ {"none"}, lost \in BOOLEAN : Send(c, status, lost)
  \/ Store(c) \/ StoreRefused(c) \/ Catch(c) \/ Close(c) \/ Abort(c)

ApplyNext(p) == ApplyRead(p) \/ ApplySum(p) \/ AlreadySettled(p) \/ ApplyWrite(p)

HookNext(h) ==
  \/ HookFind(h) \/ HookUnknown(h) \/ HookCreate(h) \/ HookCreateRefused(h)
  \/ HookFail(h) \/ FailSum(h) \/ FailWrite(h)

GatewayNext ==
  \/ \E g \in Gids, status \in Kinds : GatewayMove(g, status)
  \/ \E d \in Dashboard, amount \in 1..Amount : DashboardRefund(d, amount)

Next ==
  \/ \E c \in Calls : CallNext(c)
  \/ \E p \in Procs : ApplyNext(p)
  \/ \E h \in Hooks : HookNext(h)
  \/ GatewayNext

Spec == Init /\ [][Next]_vars

-------------------------------------------------------------------------------
\* Properties

\* A double click, a retry after a timeout that had moved the money, or a
\* webhook in between never sends one amount back more often than it fits into
\* what was captured: the number a repeated request takes in its key is one that
\* fits, and the key is used once.  It is the key that holds this, with no help
\* of the gateway's; requests of two amounts have two keys, and nothing in this
\* code stops them when they cross.  For cash it is the rows that say what was
\* handed back.
Returned == IF method = "COD"
            THEN {c \in Calls : row[c].status = "PROCESSED"}
            ELSE {k \in Keys : gw[k] \in {"pending", "processed"}}

OneAmount(a) == \A r \in RowIds : row[r].status # "none" => row[r].amount = a

EqualRefundsFit ==
  \A a \in 1..Amount : OneAmount(a) => a * Cardinality(Returned) <= Amount

\* Money never leaves without a record: once the webhook of a processed refund
\* was handled, a row that counts stands for it, however the call that asked
\* for the refund ended.
MovedIsRecorded ==
  \A g \in Gids : gw[g] = "processed" /\ pc[<<g, "processed">>] = "done"
    => \E r \in RowIds : row[r].provider = g /\ r \in Accepted

\* No refund is counted twice or for nothing: when no call died or is under
\* way and all webhooks were handled, no two rows that count stand for the same
\* gateway refund, and one stands for a failed refund only if its failure came
\* before the row knew the refund's id.
Quiet == aborts = 0 /\ (\A p \in Procs : pc[p] \in Ended \ {"sent"})
         /\ \A g \in Gids : gw[g] # "pending"
About(r) == IF r \in Calls THEN row[r].key ELSE r
CountedOnce ==
  Quiet /\ method = "ONLINE" =>
    /\ \A r, s \in Accepted : About(r) = About(s) => r = s
    /\ \A r \in Accepted : gw[About(r)] = "processed" \/ At(<<About(r), "failed">>, "ignored")

\* A refund that failed stays failed, whichever order the webhooks and the
\* gateway's answer are applied in: applyRefund moves PENDING rows only.
FailedIsFinal ==
  [][\A r \in RowIds : row[r].status = "FAILED" => row'[r].status = "FAILED"]_vars
===============================================================================
