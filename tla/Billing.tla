-------------------------------- MODULE Billing --------------------------------
(***************************************************************************)
(* The subscription of one store: BillingService's checkout, confirmation  *)
(* and lifecycle pass, the console's change of plan, and what the store    *)
(* may do because of it: EntitlementsService over CacheService.remember.   *)
(*                                                                         *)
(* Every statement committed on its own is a step.  Time is counted in     *)
(* units of the grace window; the cache's 300 seconds take none of it.     *)
(***************************************************************************)
EXTENDS Naturals, FiniteSets

CONSTANTS
  Calls,         \* requests of the merchant, the gateway and the console
  Loaders,       \* processes that read entitlements; one load at a time in each
  Invoices,      \* references of subscription invoices
  Plans,         \* paid plans
  FirstPlan,     \* the plan the store was created on
  Period, Grace, \* a month, and BILLING_GRACE_DAYS
  MaxTime,
  MaxGrants,     \* bound on changes and overrides by the console
  None

ASSUME BillingAssumption ==
  /\ IsFiniteSet(Calls) /\ IsFiniteSet(Invoices)
  /\ FirstPlan \in Plans /\ None \notin Plans /\ None \notin Invoices
  /\ Period \in Nat \ {0} /\ Grace \in Nat /\ MaxTime \in Nat /\ MaxGrants \in Nat

VARIABLES
  now,
  subscription,  \* the subscriptions row
  invoice,       \* subscription_invoices
  cache,         \* the Redis entry of the store's entitlements
  pc, loc,       \* where each call is, and what it remembers
  pass,          \* the worker's lifecycle pass
  load,          \* the load under way in each process
  grants,
  \* History, for the properties:
  paid,          \* invoices that were ever paid
  contested,     \* invoices two confirmations have handled at the same time
  spoiled,       \* a lifecycle pass that read the store before its last payment goes on
  raced          \* the entry was read before a change and stored after it

books == <<subscription, invoice>>
history == <<paid, contested, spoiled, raced>>
vars == <<now, subscription, invoice, cache, pc, loc, pass, load, grants,
          paid, contested, spoiled, raced>>

SubStatus == {"TRIALING", "ACTIVE", "PAST_DUE", "EXPIRED"}
Subscription == [plan: Plans, status: SubStatus, end: Nat]
Invoice == [status: {"none", "PENDING", "PAID", "FAILED"}, plan: Plans, end: Nat]
NoInvoice == [status |-> "none", plan |-> FirstPlan, end |-> 0]
Local == [ref: Invoices \cup {None}, plan: Plans, end: Nat]
NoLocal == [ref |-> None, plan |-> FirstPlan, end |-> 0]
Steps == {"idle", "create", "pay", "forget", "fail", "failRead", "failWrite"}
Pass == [pc: {"idle", "pastDue", "expire", "forget"}, due: BOOLEAN, over: BOOLEAN]
NoPass == [pc |-> "idle", due |-> FALSE, over |-> FALSE]
\* Entitlements that were computed: whether the subscription and the overrides
\* are still those they were computed from.
Entry == {"none", "fresh", "stale"}

TypeOK ==
  /\ now \in 0..MaxTime
  /\ subscription \in Subscription
  /\ invoice \in [Invoices -> Invoice]
  /\ cache \in Entry
  /\ pc \in [Calls -> Steps]
  /\ loc \in [Calls -> Local]
  /\ pass \in Pass
  /\ load \in [Loaders -> Entry]
  /\ grants \in 0..MaxGrants
  /\ paid \subseteq Invoices /\ contested \subseteq Invoices
  /\ spoiled \in BOOLEAN /\ raced \in BOOLEAN

Init ==
  /\ now = 0
  /\ subscription \in [plan: {FirstPlan}, status: {"TRIALING", "ACTIVE"}, end: {Period}]
  /\ invoice = [i \in Invoices |-> NoInvoice]
  /\ cache = "none"
  /\ pc = [c \in Calls |-> "idle"]
  /\ loc = [c \in Calls |-> NoLocal]
  /\ pass = NoPass
  /\ load = [l \in Loaders |-> "none"]
  /\ grants = 0
  /\ paid = {} /\ contested = {}
  /\ spoiled = FALSE /\ raced = FALSE

-------------------------------------------------------------------------------
\* Helpers

At(c, step) == pc[c] = step
Go(c, step) == pc' = [pc EXCEPT ![c] = step]
End(c) == Go(c, "idle") /\ loc' = [loc EXCEPT ![c] = NoLocal]

Larger(a, b) == IF a >= b THEN a ELSE b

\* isLapsed
Lapsed(sub) ==
  \/ sub.status = "EXPIRED"
  \/ sub.end + (IF sub.status = "PAST_DUE" THEN Grace ELSE 0) < now

Stale(entry) == IF entry = "none" THEN "none" ELSE "stale"

\* The subscription or the overrides change under whoever has read them.
Changes ==
  /\ cache' = Stale(cache)
  /\ load' = [l \in Loaders |-> Stale(load[l])]

\* A load under way that read the store before its last change.
Outdated == \E l \in Loaders : load[l] = "stale"

\* Mutant of Forgotten: the entry is left to its TTL.
ForgottenNot == cache

Forgotten == "none"

\* EntitlementsService.invalidate; a Redis error is swallowed.
Invalidate(lost) ==
  /\ cache' = IF lost THEN cache ELSE Forgotten
  /\ raced' = (Outdated \/ lost)

-------------------------------------------------------------------------------
\* BillingService.startCheckout

\* The period a payment buys: a renewal of the same plan extends, all else
\* starts now.
PeriodEnd(plan) ==
  Period + IF subscription.plan = plan /\ subscription.status = "ACTIVE" /\ subscription.end > now
           THEN subscription.end ELSE now

StartCheckout(c, plan) ==
  /\ At(c, "idle") /\ \E i \in Invoices : invoice[i].status = "none"
  /\ loc' = [loc EXCEPT ![c].plan = plan, ![c].end = PeriodEnd(plan)]
  /\ Go(c, "create")
  /\ UNCHANGED <<now, books, cache, pass, load, grants, history>>

CreateInvoice(c, i) ==
  /\ At(c, "create") /\ invoice[i].status = "none"
  /\ invoice' = [invoice EXCEPT ![i] =
       [status |-> "PENDING", plan |-> loc[c].plan, end |-> loc[c].end]]
  /\ End(c)
  /\ UNCHANGED <<now, subscription, cache, pass, load, grants, history>>

-------------------------------------------------------------------------------
\* BillingService.confirm

Handling(i) == \E c \in Calls : pc[c] \in {"pay", "fail"} /\ loc[c].ref = i

\* Mutant of Settles: a settled invoice is settled again.
SettlesAgain(i) == invoice[i].status # "none"

Settles(i) == invoice[i].status = "PENDING"

\* Reads the invoice; one that is settled returns as it is.
Confirm(c, i, outcome) ==
  /\ At(c, "idle") /\ Settles(i)
  /\ loc' = [loc EXCEPT ![c].ref = i]
  /\ Go(c, outcome)
  /\ contested' = IF Handling(i) THEN contested \cup {i} ELSE contested
  /\ UNCHANGED <<now, books, cache, pass, load, grants, paid, spoiled, raced>>

\* Mutant of PaidUntil: the period is computed when the payment arrives.
PaidUntilLater(i) == PeriodEnd(invoice[i].plan)

PaidUntil(i) == invoice[i].end

\* The transaction: the invoice and the subscription.
Pay(c) ==
  LET i == loc[c].ref
  IN  /\ At(c, "pay")
      /\ invoice' = [invoice EXCEPT ![i].status = "PAID"]
      /\ subscription' = [plan |-> invoice[i].plan, status |-> "ACTIVE", end |-> PaidUntil(i)]
      /\ loc' = [loc EXCEPT ![c] = NoLocal]
      /\ Go(c, "forget")
      /\ paid' = paid \cup {i}
      /\ spoiled' = (pass.over /\ pass.pc # "forget")
      /\ Changes
      /\ UNCHANGED <<now, pass, grants, contested, raced>>

\* EntitlementsService.syncPlanEntitlements; the PLAN rows it writes are read by
\* the console only.
Forget(c, lost) ==
  /\ At(c, "forget")
  /\ Invalidate(lost)
  /\ End(c)
  /\ UNCHANGED <<now, books, pass, load, grants, paid, contested, spoiled>>

\* recordFailure
Fail(c) ==
  /\ At(c, "fail")
  /\ invoice' = [invoice EXCEPT ![loc[c].ref].status = "FAILED"]
  /\ Go(c, "failRead")
  /\ UNCHANGED <<now, subscription, cache, loc, pass, load, grants, history>>

FailRead(c) ==
  /\ At(c, "failRead")
  /\ IF subscription.status = "ACTIVE" THEN Go(c, "failWrite") /\ UNCHANGED loc ELSE End(c)
  /\ UNCHANGED <<now, books, cache, pass, load, grants, history>>

FailWrite(c) ==
  /\ At(c, "failWrite")
  /\ subscription' = [subscription EXCEPT !.status = "PAST_DUE"]
  /\ Go(c, "forget")
  /\ Changes
  /\ UNCHANGED <<now, invoice, loc, pass, grants, history>>

\* The process dies or the database is gone; what was committed stays.
Dies(c) ==
  /\ pc[c] # "idle"
  /\ raced' = (raced \/ At(c, "forget"))
  /\ End(c)
  /\ UNCHANGED <<now, books, cache, pass, load, grants, paid, contested, spoiled>>

-------------------------------------------------------------------------------
\* PlatformService.changeSubscription and setEntitlement

ChangePlan(c, plan) ==
  /\ At(c, "idle") /\ grants < MaxGrants
  /\ subscription' = [plan |-> plan, status |-> "ACTIVE", end |-> now + Period]
  /\ Go(c, "forget")
  /\ grants' = grants + 1
  /\ spoiled' = (pass.over /\ pass.pc # "forget")
  /\ Changes
  /\ UNCHANGED <<now, invoice, loc, pass, paid, contested, raced>>

SetOverride(c) ==
  /\ At(c, "idle") /\ grants < MaxGrants
  /\ grants' = grants + 1
  /\ Go(c, "forget")
  /\ Changes
  /\ UNCHANGED <<now, books, loc, pass, history>>

-------------------------------------------------------------------------------
\* BillingService.advanceLifecycle, of the worker

Due == subscription.status = "ACTIVE" /\ subscription.end < now

\* Mutant of Over: a failed payment ends the plan whatever was paid before.
OverAtOnce == \/ subscription.status = "TRIALING" /\ subscription.end < now
              \/ subscription.status = "PAST_DUE"

Over == \/ subscription.status = "TRIALING" /\ subscription.end < now
        \/ subscription.status = "PAST_DUE" /\ subscription.end + Grace < now

\* The two queries run together.
PassRead ==
  /\ pass.pc = "idle" /\ (Due \/ Over)
  /\ pass' = [pc |-> "pastDue", due |-> Due, over |-> Over]
  /\ UNCHANGED <<now, books, cache, pc, loc, load, grants, history>>

PassWrite(step, next, listed, status) ==
  /\ pass.pc = step
  /\ IF listed THEN subscription' = [subscription EXCEPT !.status = status] /\ Changes
     ELSE UNCHANGED <<subscription, cache, load>>
  /\ pass' = [pass EXCEPT !.pc = next]
  /\ UNCHANGED <<now, invoice, pc, loc, grants, history>>

PassPastDue == PassWrite("pastDue", "expire", pass.due, "PAST_DUE")
PassExpire == PassWrite("expire", "forget", pass.over, "EXPIRED")

PassForget(lost) ==
  /\ pass.pc = "forget"
  /\ Invalidate(lost)
  /\ pass' = NoPass
  /\ UNCHANGED <<now, books, pc, loc, load, grants, paid, contested, spoiled>>

-------------------------------------------------------------------------------
\* EntitlementsService.get: CacheService.remember

Load(l) ==
  /\ cache = "none" /\ load[l] = "none"
  /\ load' = [load EXCEPT ![l] = "fresh"]
  /\ UNCHANGED <<now, books, cache, pc, loc, pass, grants, history>>

Remember(l) ==
  /\ load[l] # "none"
  /\ cache' = load[l]
  /\ load' = [load EXCEPT ![l] = "none"]
  /\ UNCHANGED <<now, books, pc, loc, pass, grants, history>>

\* 300 seconds.
Expires ==
  /\ cache # "none"
  /\ cache' = "none"
  /\ raced' = Outdated
  /\ UNCHANGED <<now, books, pc, loc, pass, load, grants, paid, contested, spoiled>>

Tick ==
  /\ now < MaxTime
  /\ now' = now + 1
  /\ UNCHANGED <<books, cache, pc, loc, pass, load, grants, history>>

-------------------------------------------------------------------------------

CallStep(c) ==
  \/ \E i \in Invoices : CreateInvoice(c, i)
  \/ Pay(c) \/ Fail(c) \/ FailRead(c) \/ FailWrite(c)
  \/ \E lost \in BOOLEAN : Forget(c, lost)
  \/ Dies(c)

CallStart(c) ==
  \/ \E plan \in Plans : StartCheckout(c, plan) \/ ChangePlan(c, plan)
  \/ \E i \in Invoices : Confirm(c, i, "pay") \/ Confirm(c, i, "fail")
  \/ SetOverride(c)

PassStep == PassPastDue \/ PassExpire \/ \E lost \in BOOLEAN : PassForget(lost)

Next ==
  \/ \E c \in Calls : CallStart(c) \/ CallStep(c)
  \/ PassRead \/ PassStep
  \/ \E l \in Loaders : Load(l) \/ Remember(l)
  \/ Expires \/ Tick

Spec == Init /\ [][Next]_vars

-------------------------------------------------------------------------------
\* Properties

\* A payment extends once, however often it is confirmed: the subscription never
\* runs longer than what was paid for and granted.
NeverOverExtended ==
  subscription.end <= Larger(Period, now)
                        + Period * (Cardinality(paid) + IF grants > 0 THEN 1 ELSE 0)

\* A settled invoice stays as it was settled, unless two confirmations handled it
\* at the same time.
SettledStays ==
  [][\A i \in Invoices \ contested :
       invoice[i].status \in {"PAID", "FAILED"} => invoice'[i].status = invoice[i].status]_vars

\* Who has paid is served to the end of the period: no failed payment and no
\* lifecycle pass takes the plan away before, unless the pass had read the store
\* before the payment.
PaidIsServed ==
  (paid # {} \/ subscription.status = "ACTIVE") /\ ~spoiled /\ subscription.end >= now
    => ~Lapsed(subscription)

\* A cached entry was computed from the store's present subscription and
\* overrides, unless a change is about to be announced, or the entry was loaded
\* across one.
Announcing == pass.pc # "idle" \/ \E c \in Calls : At(c, "forget")
FreshUnlessRaced == ~raced /\ ~Announcing => cache # "stale"
===============================================================================
