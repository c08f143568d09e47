----------------------------- MODULE BillingProofs -----------------------------
(***************************************************************************)
(* What the run of Billing checks on one invoice and two calls, proved for *)
(* every number of calls, processes, invoices and plans, every period and  *)
(* every length of the grace window.                                       *)
(***************************************************************************)
EXTENDS Billing, FiniteSetTheorems, TLAPS

-------------------------------------------------------------------------------
\* Types.

\* A confirmation under way knows its invoice.
Settling == {"pay", "fail"}
Named == \A c \in Calls : pc[c] \in Settling => loc[c].ref \in Invoices

TypeInv == TypeOK /\ Named

LEMMA NoLocalTyped == ASSUME BillingAssumption PROVE NoLocal \in Local
BY BillingAssumption DEF NoLocal, Local

LEMMA EndTyped ==
  ASSUME BillingAssumption, TypeOK, NEW c \in Calls, End(c)
  PROVE  /\ pc' = [pc EXCEPT ![c] = "idle"] /\ pc' \in [Calls -> Steps]
         /\ loc' = [loc EXCEPT ![c] = NoLocal] /\ loc' \in [Calls -> Local]
         /\ \A d \in Calls : pc'[d] # "idle" => d # c /\ pc'[d] = pc[d] /\ loc'[d] = loc[d]
BY NoLocalTyped DEF End, Go, TypeOK, Steps

LEMMA ChangesTyped ==
  ASSUME TypeOK, Changes
  PROVE  cache' \in Entry /\ load' \in [Loaders -> Entry]
BY DEF TypeOK, Changes, Stale, Entry

LEMMA InvalidateTyped ==
  ASSUME TypeOK, NEW lost \in BOOLEAN, Invalidate(lost)
  PROVE  cache' \in Entry /\ raced' \in BOOLEAN
BY DEF TypeOK, Invalidate, Forgotten, Entry

LEMMA TypeInvInit == ASSUME BillingAssumption, Init PROVE TypeInv
<1>1. subscription \in Subscription
  BY BillingAssumption DEF Init, Subscription, SubStatus
<1>2. invoice \in [Invoices -> Invoice]
  BY BillingAssumption DEF Init, Invoice, NoInvoice
<1>3. pc \in [Calls -> Steps] /\ loc \in [Calls -> Local] /\ load \in [Loaders -> Entry]
  BY BillingAssumption, NoLocalTyped DEF Init, Steps, Entry
<1>4. pass \in Pass /\ cache \in Entry /\ now \in 0..MaxTime /\ grants \in 0..MaxGrants
  BY BillingAssumption DEF Init, Pass, NoPass, Entry
<1>5. Named
  BY DEF Init, Named, Settling
<1> QED
  BY <1>1, <1>2, <1>3, <1>4, <1>5 DEF Init, TypeInv, TypeOK

LEMMA TypeInvStep ==
  ASSUME BillingAssumption, TypeInv, [Next]_vars
  PROVE  TypeInv'
<1> USE DEF TypeInv, Settling
<1>0. CASE UNCHANGED vars
  BY <1>0 DEF vars, TypeOK, Named
<1>1. CASE \E c \in Calls : CallStart(c)
  <2> PICK c \in Calls : CallStart(c)
    BY <1>1
  <2>1. CASE \E plan \in Plans : StartCheckout(c, plan)
    <3> PICK plan \in Plans : StartCheckout(c, plan)
      BY <2>1
    <3>1. PeriodEnd(plan) \in Nat
      BY BillingAssumption DEF PeriodEnd, TypeOK, Subscription
    <3>2. /\ loc' = [loc EXCEPT ![c].plan = plan, ![c].end = PeriodEnd(plan)]
          /\ pc' = [pc EXCEPT ![c] = "create"]
          /\ UNCHANGED <<now, subscription, invoice, cache, pass, load, grants,
                         paid, contested, spoiled, raced>>
      BY DEF StartCheckout, Go, books, history
    <3>3. loc' = [loc EXCEPT ![c] = [@ EXCEPT !.plan = plan, !.end = PeriodEnd(plan)]]
      BY <3>2
    <3>4. [loc[c] EXCEPT !.plan = plan, !.end = PeriodEnd(plan)] \in Local
      BY <3>1 DEF TypeOK, Local
    <3>5. loc' \in [Calls -> Local] /\ \A d \in Calls \ {c} : loc'[d] = loc[d]
      BY <3>3, <3>4 DEF TypeOK
    <3> QED
      BY <3>2, <3>5 DEF TypeOK, Named, Steps
  <2>2. CASE \E plan \in Plans : ChangePlan(c, plan)
    <3> PICK plan \in Plans : ChangePlan(c, plan)
      BY <2>2
    <3>1. subscription' \in Subscription
      BY BillingAssumption DEF ChangePlan, TypeOK, Subscription, SubStatus
    <3>2. grants' \in 0..MaxGrants
      BY BillingAssumption DEF ChangePlan, TypeOK
    <3>3. Changes /\ spoiled' \in BOOLEAN
      BY DEF ChangePlan
    <3> QED
      BY <3>1, <3>2, <3>3, ChangesTyped DEF ChangePlan, Go, TypeOK, Named, Steps
  <2>3. CASE \E i \in Invoices : Confirm(c, i, "pay") \/ Confirm(c, i, "fail")
    <3> PICK i \in Invoices : Confirm(c, i, "pay") \/ Confirm(c, i, "fail")
      BY <2>3
    <3> QED
      BY DEF Confirm, Go, books, TypeOK, Named, Steps, Local
  <2>4. CASE SetOverride(c)
    <3>1. grants' \in 0..MaxGrants /\ Changes
      BY <2>4, BillingAssumption DEF SetOverride, TypeOK
    <3> QED
      BY <2>4, <3>1, ChangesTyped DEF SetOverride, Go, books, history, TypeOK, Named, Steps
  <2> QED
    BY <2>1, <2>2, <2>3, <2>4 DEF CallStart
<1>2. CASE \E c \in Calls : CallStep(c)
  <2> PICK c \in Calls : CallStep(c)
    BY <1>2
  <2>1. CASE \E i \in Invoices : CreateInvoice(c, i)
    <3> PICK i \in Invoices : CreateInvoice(c, i)
      BY <2>1
    <3>1. invoice' \in [Invoices -> Invoice]
      BY DEF CreateInvoice, TypeOK, Invoice, Local
    <3>2. End(c)
      BY DEF CreateInvoice
    <3> QED
      BY <3>1, <3>2, EndTyped DEF CreateInvoice, history, TypeOK, Named
  <2>2. CASE Pay(c)
    <3> DEFINE i == loc[c].ref
    <3>1. i \in Invoices
      BY <2>2 DEF Pay, At, Named
    <3>2. invoice' \in [Invoices -> Invoice]
      BY <2>2, <3>1 DEF Pay, TypeOK, Invoice
    <3>3. subscription' \in Subscription
      BY <2>2, <3>1 DEF Pay, PaidUntil, TypeOK, Invoice, Subscription, SubStatus
    <3>4. loc' \in [Calls -> Local] /\ paid' \subseteq Invoices
      BY <2>2, <3>1, NoLocalTyped DEF Pay, TypeOK
    <3>5. Changes /\ spoiled' \in BOOLEAN
      BY <2>2 DEF Pay
    <3> QED
      BY <2>2, <3>2, <3>3, <3>4, <3>5, ChangesTyped DEF Pay, Go, TypeOK, Named, Steps
  <2>3. CASE Fail(c)
    <3>1. loc[c].ref \in Invoices
      BY <2>3 DEF Fail, At, Named
    <3>2. invoice' \in [Invoices -> Invoice]
      BY <2>3, <3>1 DEF Fail, TypeOK, Invoice
    <3> QED
      BY <2>3, <3>2 DEF Fail, Go, history, TypeOK, Named, Steps
  <2>4. CASE FailRead(c)
    <3>1. CASE subscription.status = "ACTIVE"
      BY <2>4, <3>1 DEF FailRead, Go, books, history, TypeOK, Named, Steps
    <3>2. CASE subscription.status # "ACTIVE"
      BY <2>4, <3>2, EndTyped DEF FailRead, books, history, TypeOK, Named
    <3> QED
      BY <3>1, <3>2
  <2>5. CASE FailWrite(c)
    <3>1. subscription' \in Subscription /\ Changes
      BY <2>5 DEF FailWrite, TypeOK, Subscription, SubStatus
    <3> QED
      BY <2>5, <3>1, ChangesTyped DEF FailWrite, Go, history, TypeOK, Named, Steps
  <2>6. CASE \E lost \in BOOLEAN : Forget(c, lost)
    BY <2>6, InvalidateTyped, EndTyped DEF Forget, books, TypeOK, Named
  <2>7. CASE Dies(c)
    <3>1. raced' \in BOOLEAN
      BY <2>7 DEF Dies
    <3> QED
      BY <2>7, <3>1, EndTyped DEF Dies, books, TypeOK, Named
  <2> QED
    BY <2>1, <2>2, <2>3, <2>4, <2>5, <2>6, <2>7 DEF CallStep
<1>3. CASE PassRead
  <2>1. pass' \in Pass
    BY <1>3 DEF PassRead, Pass, Due, Over
  <2> QED
    BY <1>3, <2>1 DEF PassRead, books, history, TypeOK, Named
<1>4. CASE PassPastDue \/ PassExpire
  <2>1. pass' \in Pass /\ UNCHANGED <<now, invoice, pc, loc, grants, history>>
    BY <1>4 DEF PassPastDue, PassExpire, PassWrite, TypeOK, Pass
  <2>2. \/ UNCHANGED <<subscription, cache, load>>
        \/ subscription' \in Subscription /\ Changes
    BY <1>4 DEF PassPastDue, PassExpire, PassWrite, TypeOK, Subscription, SubStatus
  <2> QED
    BY <2>1, <2>2, ChangesTyped DEF history, TypeOK, Named
<1>5. CASE \E lost \in BOOLEAN : PassForget(lost)
  BY <1>5, InvalidateTyped DEF PassForget, NoPass, Pass, books, TypeOK, Named
<1>6. CASE \E l \in Loaders : Load(l) \/ Remember(l)
  BY <1>6 DEF Load, Remember, books, history, TypeOK, Named, Entry
<1>7. CASE Expires
  <2>1. raced' \in BOOLEAN
    BY <1>7 DEF Expires, Outdated
  <2> QED
    BY <1>7, <2>1 DEF Expires, books, TypeOK, Named, Entry
<1>8. CASE Tick
  BY <1>8, BillingAssumption DEF Tick, books, history, TypeOK, Named
<1> QED
  BY <1>0, <1>1, <1>2, <1>3, <1>4, <1>5, <1>6, <1>7, <1>8 DEF Next, PassStep

\* Every variable keeps its type, and a confirmation under way names the
\* invoice it settles (BillingService.confirm).
THEOREM TypeCorrect == ASSUME BillingAssumption PROVE Spec => []TypeInv
BY BillingAssumption, TypeInvInit, TypeInvStep, PTL DEF Spec
-------------------------------------------------------------------------------
\* A settled invoice.

\* Who confirms an invoice that no two calls handled together is alone with it,
\* and it is still PENDING.
Handles(c, i) == pc[c] \in Settling /\ loc[c].ref = i
HandleInv ==
  \A i \in Invoices \ contested :
    /\ \A c \in Calls : Handles(c, i) => invoice[i].status = "PENDING"
    /\ \A c, d \in Calls : Handles(c, i) /\ Handles(d, i) => c = d

\* What one step does about it.
SettledKept ==
  \A i \in Invoices \ contested :
    invoice[i].status \in {"PAID", "FAILED"} => invoice'[i].status = invoice[i].status

\* A step that leaves the invoices alone and lets nobody in keeps both.
LEMMA HandleKept ==
  ASSUME HandleInv, invoice' = invoice, contested' = contested,
         \A c \in Calls : pc'[c] \in Settling => pc[c] \in Settling /\ loc'[c] = loc[c]
  PROVE  HandleInv' /\ SettledKept
<1>1. \A c \in Calls, i \in Invoices : Handles(c, i)' => Handles(c, i)
  BY DEF Handles
<1> QED
  BY <1>1 DEF HandleInv, SettledKept

LEMMA HandleInvStep ==
  ASSUME BillingAssumption, TypeInv, HandleInv, [Next]_vars
  PROVE  HandleInv' /\ SettledKept
<1> USE DEF Settling
<1>0. CASE UNCHANGED vars
  BY <1>0, HandleKept DEF vars
<1>1. CASE \E c \in Calls : CallStart(c)
  <2> PICK c \in Calls : CallStart(c)
    BY <1>1
  <2>1. CASE \/ \E plan \in Plans : StartCheckout(c, plan) \/ ChangePlan(c, plan)
             \/ SetOverride(c)
    <3>1. /\ invoice' = invoice /\ contested' = contested
          /\ pc' = [pc EXCEPT ![c] = "create"] \/ pc' = [pc EXCEPT ![c] = "forget"]
          /\ \A d \in Calls \ {c} : loc'[d] = loc[d]
      BY <2>1 DEF StartCheckout, ChangePlan, SetOverride, Go, books, history, TypeInv, TypeOK
    <3> QED
      BY <3>1, HandleKept DEF TypeInv, TypeOK
  <2>2. CASE \E i \in Invoices : Confirm(c, i, "pay") \/ Confirm(c, i, "fail")
    <3> PICK i \in Invoices : Confirm(c, i, "pay") \/ Confirm(c, i, "fail")
      BY <2>2
    <3>1. /\ invoice' = invoice /\ invoice[i].status = "PENDING"
          /\ contested' = IF Handling(i) THEN contested \cup {i} ELSE contested
          /\ loc' = [loc EXCEPT ![c].ref = i]
          /\ pc' = [pc EXCEPT ![c] = "pay"] \/ pc' = [pc EXCEPT ![c] = "fail"]
      BY DEF Confirm, Go, books, Settles
    <3>2. \A d \in Calls \ {c} : pc'[d] = pc[d] /\ loc'[d] = loc[d]
      BY <3>1 DEF TypeInv, TypeOK
    <3>3. loc'[c].ref = i
      BY <3>1 DEF TypeInv, TypeOK, Local
    <3>4. i \notin contested' => \A d \in Calls : ~Handles(d, i)
      BY <3>1 DEF Handling, Handles
    <3>5. \A d \in Calls, j \in Invoices : Handles(d, j)' => (d = c /\ j = i) \/ Handles(d, j)
      BY <3>2, <3>3 DEF Handles
    <3>6. \A j \in Invoices \ contested' : j \notin contested
      BY <3>1
    <3> QED
      BY <3>1, <3>4, <3>5, <3>6 DEF HandleInv, SettledKept
  <2> QED
    BY <2>1, <2>2 DEF CallStart
<1>2. CASE \E c \in Calls : CallStep(c)
  <2> PICK c \in Calls : CallStep(c)
    BY <1>2
  <2>1. CASE \E i \in Invoices : CreateInvoice(c, i)
    <3> PICK i \in Invoices : CreateInvoice(c, i)
      BY <2>1
    <3>1. /\ invoice[i].status = "none" /\ contested' = contested /\ End(c)
          /\ invoice' = [invoice EXCEPT ![i] =
               [status |-> "PENDING", plan |-> loc[c].plan, end |-> loc[c].end]]
      BY DEF CreateInvoice, history
    <3>2. \A d \in Calls : pc'[d] \in Settling => pc[d] \in Settling /\ loc'[d] = loc[d]
      BY <3>1, EndTyped DEF TypeInv
    <3>3. \A d \in Calls, j \in Invoices : Handles(d, j)' => Handles(d, j)
      BY <3>2 DEF Handles
    <3>4. \A j \in Invoices : invoice'[j].status = IF j = i THEN "PENDING" ELSE invoice[j].status
      BY <3>1 DEF TypeInv, TypeOK
    <3> QED
      BY <3>1, <3>3, <3>4 DEF HandleInv, SettledKept
  <2>2. CASE Pay(c) \/ Fail(c)
    <3> PICK i \in Invoices : i = loc[c].ref
      BY <2>2 DEF Pay, Fail, At, TypeInv, Named
    <3>1. Handles(c, i)
      BY <2>2 DEF Pay, Fail, At, Handles
    <3>2. /\ contested' = contested
          /\ pc' = [pc EXCEPT ![c] = "forget"] \/ pc' = [pc EXCEPT ![c] = "failRead"]
          /\ loc' = [loc EXCEPT ![c] = NoLocal] \/ loc' = loc
      BY <2>2 DEF Pay, Fail, Go, history
    <3>3. \A j \in Invoices \ {i} : invoice'[j] = invoice[j]
      BY <2>2, <3>1 DEF Pay, Fail, TypeInv, TypeOK
    <3>4. \A d \in Calls, j \in Invoices : Handles(d, j)' => Handles(d, j) /\ d # c
      BY <3>2 DEF Handles, TypeInv, TypeOK
    <3>5. i \notin contested => invoice[i].status = "PENDING" /\ \A d \in Calls : ~Handles(d, i)'
      BY <3>1, <3>4 DEF HandleInv
    <3>6. HandleInv'
      BY <3>2, <3>3, <3>4, <3>5 DEF HandleInv
    <3>7. SettledKept
      BY <3>3, <3>5 DEF SettledKept
    <3> QED
      BY <3>6, <3>7
  <2>3. CASE FailRead(c) \/ (\E lost \in BOOLEAN : Forget(c, lost)) \/ Dies(c)
    <3>1. /\ invoice' = invoice /\ contested' = contested
          /\ End(c) \/ (pc' = [pc EXCEPT ![c] = "failWrite"] /\ loc' = loc)
      BY <2>3 DEF FailRead, Forget, Dies, Go, books, history
    <3>2. \A d \in Calls : pc'[d] \in Settling => pc[d] \in Settling /\ loc'[d] = loc[d]
      BY <3>1, EndTyped DEF TypeInv, TypeOK
    <3> QED
      BY <3>1, <3>2, HandleKept
  <2>4. CASE FailWrite(c)
    BY <2>4, HandleKept DEF FailWrite, Go, history, TypeInv, TypeOK
  <2> QED
    BY <2>1, <2>2, <2>3, <2>4 DEF CallStep
<1>3. CASE PassRead \/ PassStep \/ (\E l \in Loaders : Load(l) \/ Remember(l)) \/ Expires \/ Tick
  <2>1. UNCHANGED <<invoice, contested, pc, loc>>
    BY <1>3 DEF PassRead, PassStep, PassPastDue, PassExpire, PassWrite, PassForget, Load, Remember,
                Expires, Tick, books, history
  <2> QED
    BY <2>1, HandleKept
<1> QED
  BY <1>0, <1>1, <1>2, <1>3 DEF Next

\* BillingService.confirm settles an invoice once: no step changes an invoice
\* that is PAID or FAILED, unless two confirmations handled it at the same time.
THEOREM SettledInvoiceStays == ASSUME BillingAssumption PROVE Spec => SettledStays
<1>1. Init => HandleInv
  BY DEF Init, HandleInv, Handles, Settling
<1>2. TypeInv /\ HandleInv /\ [Next]_vars => HandleInv' /\ SettledKept
  BY BillingAssumption, HandleInvStep
<1>3. SettledKept =>
        [\A i \in Invoices \ contested :
           invoice[i].status \in {"PAID", "FAILED"} => invoice'[i].status = invoice[i].status]_vars
  BY DEF SettledKept
<1> QED
  BY <1>1, <1>2, <1>3, BillingAssumption, TypeCorrect, PTL DEF Spec, SettledStays

-------------------------------------------------------------------------------
\* The paid period.

\* An expired store is past its end, and so is one a pass is about to expire,
\* unless a payment came in between.
ServedInv ==
  /\ ~spoiled /\ pass.over /\ pass.pc \in {"pastDue", "expire"} => subscription.end < now
  /\ ~spoiled /\ subscription.status = "EXPIRED" => subscription.end < now

LEMMA ServedInvStep ==
  ASSUME BillingAssumption, TypeInv, ServedInv, [Next]_vars
  PROVE  ServedInv'
<1>n. now \in Nat /\ subscription.end \in Nat /\ Grace \in Nat
  BY BillingAssumption DEF TypeInv, TypeOK, Subscription
<1>0. CASE UNCHANGED <<now, subscription, pass, spoiled>>
  BY <1>0 DEF ServedInv
<1>1. CASE \E c \in Calls : CallStart(c)
  <2> PICK c \in Calls : CallStart(c)
    BY <1>1
  <2>1. CASE \E plan \in Plans : ChangePlan(c, plan)
    <3>1. /\ subscription'.status = "ACTIVE" /\ pass' = pass
          /\ spoiled' = (pass.over /\ pass.pc # "forget")
      BY <2>1 DEF ChangePlan
    <3> QED
      BY <3>1 DEF ServedInv
  <2>2. CASE ~\E plan \in Plans : ChangePlan(c, plan)
    BY <2>2, <1>0 DEF CallStart, StartCheckout, Confirm, SetOverride, books, history
  <2> QED
    BY <2>1, <2>2
<1>2. CASE \E c \in Calls : CallStep(c)
  <2> PICK c \in Calls : CallStep(c)
    BY <1>2
  <2>1. CASE Pay(c)
    BY <2>1 DEF Pay, ServedInv
  <2>2. CASE FailWrite(c)
    <3>1. /\ subscription'.status = "PAST_DUE" /\ subscription'.end = subscription.end
          /\ UNCHANGED <<now, pass, spoiled>>
      BY <2>2 DEF FailWrite, history, TypeInv, TypeOK, Subscription
    <3> QED
      BY <3>1 DEF ServedInv
  <2>3. CASE ~Pay(c) /\ ~FailWrite(c)
    BY <2>3, <1>0 DEF CallStep, CreateInvoice, Fail, FailRead, Forget, Dies, books, history
  <2> QED
    BY <2>1, <2>2, <2>3
<1>3. CASE PassRead
  <2>1. Over => subscription.end < now
    BY <1>n DEF Over
  <2>2. pass'.over <=> Over
    BY <1>3 DEF PassRead
  <2> QED
    BY <1>3, <2>1, <2>2 DEF PassRead, books, history, ServedInv
<1>4. CASE PassPastDue \/ PassExpire
  <2>1. /\ pass'.over = pass.over /\ UNCHANGED <<now, spoiled>>
        /\ subscription'.end = subscription.end
    BY <1>4 DEF PassPastDue, PassExpire, PassWrite, history, TypeInv, TypeOK, Subscription, Pass
  <2>2. pass'.pc \in {"pastDue", "expire"} => pass.pc \in {"pastDue", "expire"}
    BY <1>4 DEF PassPastDue, PassExpire, PassWrite, TypeInv, TypeOK, Pass
  <2>3. subscription'.status = "EXPIRED" =>
          subscription.status = "EXPIRED" \/ (pass.over /\ pass.pc = "expire")
    BY <1>4 DEF PassPastDue, PassExpire, PassWrite, TypeInv, TypeOK, Subscription
  <2> QED
    BY <2>1, <2>2, <2>3 DEF ServedInv
<1>5. CASE \E lost \in BOOLEAN : PassForget(lost)
  BY <1>5 DEF PassForget, NoPass, books, ServedInv
<1>6. CASE (\E l \in Loaders : Load(l) \/ Remember(l)) \/ Expires
  BY <1>6, <1>0 DEF Load, Remember, Expires, books, history
<1>7. CASE Tick
  BY <1>7, <1>n DEF Tick, books, history, ServedInv
<1> QED
  BY <1>0, <1>1, <1>2, <1>3, <1>4, <1>5, <1>6, <1>7 DEF Next, PassStep, vars

\* What was paid for is served: neither recordFailure nor advanceLifecycle takes
\* the plan away before its end, unless the pass had listed the store before the
\* payment.
THEOREM PaidAlwaysServed == ASSUME BillingAssumption PROVE Spec => []PaidIsServed
<1>1. Init => ServedInv
  BY DEF Init, ServedInv, NoPass
<1>2. TypeInv /\ ServedInv /\ [Next]_vars => ServedInv'
  BY BillingAssumption, ServedInvStep
<1>3. TypeInv /\ ServedInv => PaidIsServed
  BY BillingAssumption DEF TypeInv, TypeOK, Subscription, ServedInv, PaidIsServed, Lapsed
<1> QED
  BY <1>1, <1>2, <1>3, BillingAssumption, TypeCorrect, PTL DEF Spec

-------------------------------------------------------------------------------
\* The cache.

\* A stale entry, or a load that will store one, was met by a change that is
\* still to be announced, or is known to have raced.
FreshInv == cache = "stale" \/ Outdated => raced \/ Announcing

LEMMA FreshKept ==
  ASSUME FreshInv, UNCHANGED <<cache, load>>, raced => raced', Announcing => Announcing'
  PROVE  FreshInv'
BY DEF FreshInv, Outdated

LEMMA FreshInvStep ==
  ASSUME BillingAssumption, TypeInv, FreshInv, [Next]_vars
  PROVE  FreshInv'
<1> USE DEF At
<1>0. CASE UNCHANGED <<cache, load, raced, pc, pass>>
  BY <1>0, FreshKept DEF Announcing
<1>1. CASE \E c \in Calls : CallStart(c)
  <2> PICK c \in Calls : CallStart(c)
    BY <1>1
  <2>1. CASE (\E plan \in Plans : ChangePlan(c, plan)) \/ SetOverride(c)
    <3>1. pc' = [pc EXCEPT ![c] = "forget"]
      BY <2>1 DEF ChangePlan, SetOverride, Go
    <3> QED
      BY <3>1 DEF FreshInv, Announcing, TypeInv, TypeOK
  <2>2. CASE \/ \E plan \in Plans : StartCheckout(c, plan)
             \/ \E i \in Invoices : Confirm(c, i, "pay") \/ Confirm(c, i, "fail")
    <3>1. /\ UNCHANGED <<cache, load, pass, raced>> /\ pc[c] = "idle"
          /\ \A d \in Calls \ {c} : pc'[d] = pc[d]
      BY <2>2 DEF StartCheckout, Confirm, Go, books, history, TypeInv, TypeOK
    <3> QED
      BY <3>1, FreshKept DEF Announcing
  <2> QED
    BY <2>1, <2>2 DEF CallStart
<1>2. CASE \E c \in Calls : CallStep(c)
  <2> PICK c \in Calls : CallStep(c)
    BY <1>2
  <2>1. CASE Pay(c) \/ FailWrite(c)
    <3>1. pc' = [pc EXCEPT ![c] = "forget"]
      BY <2>1 DEF Pay, FailWrite, Go
    <3> QED
      BY <3>1 DEF FreshInv, Announcing, TypeInv, TypeOK
  <2>2. CASE (\E i \in Invoices : CreateInvoice(c, i)) \/ Fail(c) \/ FailRead(c)
    <3>1. /\ UNCHANGED <<cache, load, pass, raced>> /\ pc[c] # "forget"
          /\ \A d \in Calls \ {c} : pc'[d] = pc[d]
      BY <2>2 DEF CreateInvoice, Fail, FailRead, End, Go, books, history, TypeInv, TypeOK
    <3> QED
      BY <3>1, FreshKept DEF Announcing
  <2>3. CASE \E lost \in BOOLEAN : Forget(c, lost)
    BY <2>3 DEF Forget, Invalidate, Forgotten, FreshInv, Outdated
  <2>4. CASE Dies(c)
    <3>1. /\ UNCHANGED <<cache, load, pass>> /\ raced' = (raced \/ pc[c] = "forget")
          /\ \A d \in Calls \ {c} : pc'[d] = pc[d]
      BY <2>4 DEF Dies, End, Go, books, TypeInv, TypeOK
    <3>2. raced \/ Announcing => raced' \/ Announcing'
      BY <3>1 DEF Announcing
    <3> QED
      BY <3>1, <3>2 DEF FreshInv, Outdated
  <2> QED
    BY <2>1, <2>2, <2>3, <2>4 DEF CallStep
<1>3. CASE PassRead
  <2>1. UNCHANGED <<cache, load, raced, pc>> /\ pass.pc = "idle"
    BY <1>3 DEF PassRead, history
  <2> QED
    BY <2>1, <1>3, FreshKept DEF PassRead, Announcing
<1>4. CASE PassPastDue \/ PassExpire
  <2>1. pass'.pc \in {"expire", "forget"}
    BY <1>4 DEF PassPastDue, PassExpire, PassWrite, TypeInv, TypeOK, Pass
  <2> QED
    BY <2>1 DEF FreshInv, Announcing
<1>5. CASE \E lost \in BOOLEAN : PassForget(lost)
  BY <1>5 DEF PassForget, Invalidate, Forgotten, FreshInv, Outdated
<1>6. CASE \E l \in Loaders : Load(l) \/ Remember(l)
  <2> PICK l \in Loaders : Load(l) \/ Remember(l)
    BY <1>6
  <2>1. UNCHANGED <<raced, pc, pass>>
    BY DEF Load, Remember, history
  <2>2. cache' = "stale" => cache = "stale" \/ Outdated
    BY DEF Load, Remember, Outdated
  <2>3. Outdated' => Outdated
    BY DEF Load, Remember, Outdated, TypeInv, TypeOK
  <2> QED
    BY <2>1, <2>2, <2>3 DEF FreshInv, Announcing
<1>7. CASE Expires
  BY <1>7 DEF Expires, FreshInv, Outdated
<1>8. CASE Tick
  BY <1>8, <1>0 DEF Tick, history
<1> QED
  BY <1>0, <1>1, <1>2, <1>3, <1>4, <1>5, <1>6, <1>7, <1>8 DEF Next, PassStep, vars

\* What CacheService.remember serves was computed from the present subscription
\* and overrides, unless a change is about to be announced or the entry was
\* loaded across one.
THEOREM CacheFreshUnlessRaced == ASSUME BillingAssumption PROVE Spec => []FreshUnlessRaced
<1>1. Init => FreshInv
  BY DEF Init, FreshInv, Outdated
<1>2. TypeInv /\ FreshInv /\ [Next]_vars => FreshInv'
  BY BillingAssumption, FreshInvStep
<1>3. FreshInv => FreshUnlessRaced
  BY DEF FreshInv, FreshUnlessRaced
<1> QED
  BY <1>1, <1>2, <1>3, BillingAssumption, TypeCorrect, PTL DEF Spec
-------------------------------------------------------------------------------
\* What was paid for.

\* The end of n paid periods, at a time and after a number of grants.
Granted(g) == IF g > 0 THEN 1 ELSE 0
Bound(time, g, n) == Larger(Period, time) + Period * (n + Granted(g))

LEMMA BoundGrows ==
  ASSUME BillingAssumption, NEW t \in Nat, NEW u \in Nat, t <= u,
         NEW g \in Nat, NEW h \in Nat, g <= h, NEW m \in Nat, NEW n \in Nat, m <= n
  PROVE  Bound(t, g, m) \in Nat /\ Bound(u, h, n) \in Nat /\ Bound(t, g, m) <= Bound(u, h, n)
<1>1. Granted(g) \in Nat /\ Granted(h) \in Nat /\ Granted(g) <= Granted(h)
  BY DEF Granted
<1>2. Larger(Period, t) \in Nat /\ Larger(Period, u) \in Nat /\ Larger(Period, t) <= Larger(Period, u)
  BY BillingAssumption DEF Larger
<1> DEFINE a == m + Granted(g)
           b == n + Granted(h)
<1>3. a \in Nat /\ b \in Nat /\ a <= b
  BY <1>1
<1> HIDE DEF a, b
<1>4. b - a \in Nat /\ b = a + (b - a)
  BY <1>3
<1>5. Period * b = Period * a + Period * (b - a)
  BY <1>3, <1>4, BillingAssumption
<1>6. Period * a \in Nat /\ Period * b \in Nat /\ Period * (b - a) \in Nat
  BY <1>3, <1>4, BillingAssumption
<1>7. Period * a <= Period * b
  BY <1>5, <1>6
<1> QED
  BY <1>2, <1>6, <1>7 DEF Bound, a, b

LEMMA BoundNext ==
  ASSUME BillingAssumption, NEW t \in Nat, NEW g \in Nat, NEW n \in Nat
  PROVE  /\ Bound(t, g, n) + Period = Bound(t, g, n + 1)
         /\ t <= Bound(t, g, n) /\ Period <= Bound(t, g, n)
<1> DEFINE a == n + Granted(g)
<1>1. a \in Nat
  BY DEF Granted
<1>2. (n + 1) + Granted(g) = a + 1
  BY DEF Granted
<1> HIDE DEF a
<1>3. Period * (a + 1) = Period * a + Period /\ Period * a \in Nat
  BY <1>1, BillingAssumption
<1>4. Larger(Period, t) \in Nat /\ t <= Larger(Period, t) /\ Period <= Larger(Period, t)
  BY BillingAssumption DEF Larger
<1>5. Bound(t, g, n) = Larger(Period, t) + Period * a
  BY DEF Bound, a
<1>6. Bound(t, g, n + 1) = Larger(Period, t) + (Period * a + Period)
  BY <1>2, <1>3 DEF Bound
<1> QED
  BY <1>3, <1>4, <1>5, <1>6, BillingAssumption

\* A grant is a period more.
LEMMA BoundGranted ==
  ASSUME BillingAssumption, NEW t \in Nat, NEW g \in Nat, g > 0, NEW n \in Nat
  PROVE  t + Period <= Bound(t, g, n)
<1>1. Bound(t, g, n) = Larger(Period, t) + Period * (n + 1)
  BY DEF Bound, Granted
<1>2. Period * (n + 1) = Period * n + Period /\ Period * n \in Nat
  BY BillingAssumption
<1>3. Larger(Period, t) \in Nat /\ t <= Larger(Period, t)
  BY BillingAssumption DEF Larger
<1> QED
  BY <1>1, <1>2, <1>3, BillingAssumption

LEMMA PaidCounted ==
  ASSUME BillingAssumption, TypeOK, NEW i \in Invoices
  PROVE  /\ Cardinality(paid) \in Nat /\ Cardinality(paid \ {i}) \in Nat
         /\ Cardinality(paid \cup {i}) = Cardinality(paid \ {i}) + 1
         /\ Cardinality(paid \ {i}) <= Cardinality(paid)
         /\ \A j \in Invoices : /\ Cardinality((paid \cup {i}) \ {j}) \in Nat
                                /\ Cardinality(paid \ {j}) \in Nat
                                /\ Cardinality(paid \ {j}) <= Cardinality((paid \cup {i}) \ {j})
<1>1. IsFiniteSet(paid)
  BY FS_Subset, BillingAssumption DEF TypeOK
<1>2. IsFiniteSet(paid \ {i}) /\ IsFiniteSet(paid \cup {i})
  BY <1>1, FS_Subset, FS_AddElement
<1>3. (paid \ {i}) \cup {i} = paid \cup {i} /\ i \notin paid \ {i}
  OBVIOUS
<1>4. Cardinality(paid \cup {i}) = Cardinality(paid \ {i}) + 1
  BY <1>2, <1>3, FS_AddElement
<1>5. Cardinality(paid \ {i}) <= Cardinality(paid)
  BY <1>1, FS_Subset
<1>6. \A j \in Invoices : /\ IsFiniteSet((paid \cup {i}) \ {j}) /\ IsFiniteSet(paid \ {j})
                          /\ Cardinality(paid \ {j}) <= Cardinality((paid \cup {i}) \ {j})
  <2> SUFFICES ASSUME NEW j \in Invoices
               PROVE  /\ IsFiniteSet((paid \cup {i}) \ {j}) /\ IsFiniteSet(paid \ {j})
                      /\ Cardinality(paid \ {j}) <= Cardinality((paid \cup {i}) \ {j})
    OBVIOUS
  <2>1. IsFiniteSet((paid \cup {i}) \ {j})
    BY <1>2, FS_Subset
  <2>2. paid \ {j} \subseteq (paid \cup {i}) \ {j}
    OBVIOUS
  <2> QED
    BY <2>1, <2>2, FS_Subset
<1> QED
  BY <1>1, <1>2, <1>4, <1>5, <1>6, FS_CardinalityType

\* What is sold, at every stage of a sale: the period a checkout computed, the one
\* its invoice carries, the one the subscription has.
ExtendInv ==
  /\ \A i \in paid : invoice[i].status # "none"
  /\ \A c \in Calls : pc[c] \in Settling => invoice[loc[c].ref].status # "none"
  /\ subscription.end <= Bound(now, grants, Cardinality(paid))
  /\ \A c \in Calls : pc[c] = "create" => loc[c].end <= Bound(now, grants, Cardinality(paid) + 1)
  /\ \A i \in Invoices : invoice[i].status # "none"
       => invoice[i].end <= Bound(now, grants, Cardinality(paid \ {i}) + 1)

\* A step that sells nothing keeps it.
LEMMA ExtendKept ==
  ASSUME BillingAssumption, TypeInv, TypeInv', ExtendInv, now <= now', grants <= grants', paid' = paid,
         subscription'.end <= Bound(now', grants', Cardinality(paid)),
         \A i \in Invoices : /\ invoice'[i].end = invoice[i].end
                             /\ invoice'[i].status = "none" <=> invoice[i].status = "none",
         \A c \in Calls : /\ pc'[c] = "create" => pc[c] = "create" /\ loc'[c] = loc[c]
                          /\ pc'[c] \in Settling => invoice[loc'[c].ref].status # "none"
  PROVE  ExtendInv'
<1>1. /\ now \in Nat /\ now' \in Nat /\ grants \in Nat /\ grants' \in Nat
      /\ \A i \in Invoices : invoice[i].end \in Nat
      /\ \A c \in Calls : loc[c].end \in Nat
  BY BillingAssumption DEF TypeInv, TypeOK, Invoice, Local
<1>2. IsFiniteSet(paid) /\ \A i : IsFiniteSet(paid \ {i})
  BY FS_Subset, BillingAssumption DEF TypeInv, TypeOK
<1>3. Cardinality(paid) \in Nat /\ \A i \in Invoices : Cardinality(paid \ {i}) \in Nat
  BY <1>2, FS_CardinalityType
<1>4. \A n \in Nat : /\ Bound(now, grants, n) \in Nat /\ Bound(now', grants', n) \in Nat
                     /\ Bound(now, grants, n) <= Bound(now', grants', n)
  <2> SUFFICES ASSUME NEW n \in Nat
               PROVE  /\ Bound(now, grants, n) \in Nat /\ Bound(now', grants', n) \in Nat
                      /\ Bound(now, grants, n) <= Bound(now', grants', n)
    OBVIOUS
  <2>1. n <= n
    OBVIOUS
  <2> QED
    BY <1>1, <2>1, BoundGrows, BillingAssumption
<1>5. \A c \in Calls : pc'[c] = "create" => loc'[c].end <= Bound(now', grants', Cardinality(paid) + 1)
  BY <1>1, <1>3, <1>4 DEF ExtendInv
<1>6. \A i \in Invoices : invoice'[i].status # "none"
        => invoice'[i].end <= Bound(now', grants', Cardinality(paid \ {i}) + 1)
  BY <1>1, <1>3, <1>4 DEF ExtendInv
<1>7. \A c \in Calls : pc'[c] \in Settling => invoice'[loc'[c].ref].status # "none"
  BY DEF TypeInv, Named
<1>8. \A i \in paid : invoice'[i].status # "none"
  BY DEF ExtendInv, TypeInv, TypeOK
<1> QED
  BY <1>5, <1>6, <1>7, <1>8 DEF ExtendInv

LEMMA ExtendInvStep ==
  ASSUME BillingAssumption, TypeInv, TypeInv', ExtendInv, [Next]_vars
  PROVE  ExtendInv'
<1> USE DEF Settling
<1>n. /\ now \in Nat /\ now' \in Nat /\ grants \in Nat /\ grants' \in Nat /\ subscription.end \in Nat
      /\ subscription'.end \in Nat
  BY BillingAssumption DEF TypeInv, TypeOK, Subscription
<1>f. Cardinality(paid) \in Nat
  BY FS_Subset, FS_CardinalityType, BillingAssumption DEF TypeInv, TypeOK
<1>b. /\ Bound(now, grants, Cardinality(paid)) \in Nat
      /\ now <= now' /\ grants <= grants' =>
           /\ Bound(now', grants', Cardinality(paid)) \in Nat
           /\ Bound(now, grants, Cardinality(paid)) <= Bound(now', grants', Cardinality(paid))
  <2> DEFINE n == Cardinality(paid)
  <2>1. n \in Nat /\ n <= n /\ now <= now /\ grants <= grants
    BY <1>n, <1>f
  <2> HIDE DEF n
  <2>2. Bound(now, grants, n) \in Nat
    BY <1>n, <2>1, BoundGrows, BillingAssumption
  <2>3. ASSUME now <= now', grants <= grants'
        PROVE  Bound(now', grants', n) \in Nat /\ Bound(now, grants, n) <= Bound(now', grants', n)
    BY <1>n, <2>1, <2>3, BoundGrows, BillingAssumption
  <2> QED
    BY <2>2, <2>3 DEF n
<1>k. ASSUME now <= now', grants <= grants', paid' = paid, subscription'.end = subscription.end,
             invoice' = invoice,
             \A c \in Calls : /\ pc'[c] = "create" => pc[c] = "create" /\ loc'[c] = loc[c]
                              /\ pc'[c] \in Settling => pc[c] \in Settling /\ loc'[c] = loc[c]
      PROVE  ExtendInv'
  <2>1. subscription'.end <= Bound(now', grants', Cardinality(paid))
    BY <1>k, <1>n, <1>b DEF ExtendInv
  <2>2. \A c \in Calls : pc'[c] \in Settling => invoice[loc'[c].ref].status # "none"
    BY <1>k DEF ExtendInv
  <2> QED
    BY <1>k, <2>1, <2>2, ExtendKept
<1>0. CASE UNCHANGED vars
  BY <1>0, <1>n, <1>k DEF vars
<1>1. CASE \E c \in Calls : CallStart(c)
  <2> PICK c \in Calls : CallStart(c)
    BY <1>1
  <2>1. CASE \E plan \in Plans : StartCheckout(c, plan)
    <3> PICK plan \in Plans : StartCheckout(c, plan)
      BY <2>1
    <3>1. /\ pc' = [pc EXCEPT ![c] = "create"]
          /\ loc' = [loc EXCEPT ![c].plan = plan, ![c].end = PeriodEnd(plan)]
          /\ UNCHANGED <<now, subscription, invoice, grants, paid>>
      BY DEF StartCheckout, Go, books, history
    <3>2. \A d \in Calls \ {c} : pc'[d] = pc[d] /\ loc'[d] = loc[d]
      BY <3>1 DEF TypeInv, TypeOK
    <3>3. pc'[c] = "create" /\ loc'[c].end = PeriodEnd(plan)
      BY <3>1 DEF TypeInv, TypeOK, Local
    <3>4. PeriodEnd(plan) <= Bound(now, grants, Cardinality(paid)) + Period
      <4>1. now <= Bound(now, grants, Cardinality(paid))
        BY <1>n, <1>f, BoundNext, BillingAssumption
      <4> QED
        BY <4>1, <1>n, <1>b, BillingAssumption DEF PeriodEnd, ExtendInv
    <3>5. loc'[c].end <= Bound(now, grants, Cardinality(paid) + 1)
      BY <3>3, <3>4, <1>n, <1>f, BoundNext, BillingAssumption
    <3> QED
      BY <3>1, <3>2, <3>3, <3>5 DEF ExtendInv
  <2>2. CASE \E plan \in Plans : ChangePlan(c, plan)
    <3> PICK plan \in Plans : ChangePlan(c, plan)
      BY <2>2
    <3>1. /\ subscription'.end = now + Period /\ grants' = grants + 1
          /\ pc' = [pc EXCEPT ![c] = "forget"]
          /\ UNCHANGED <<now, invoice, loc, paid>>
      BY DEF ChangePlan, Go
    <3>2. subscription'.end <= Bound(now', grants', Cardinality(paid))
      BY <3>1, <1>n, <1>f, BoundGranted, BillingAssumption
    <3>3. \A d \in Calls : /\ pc'[d] = "create" => pc[d] = "create"
                           /\ pc'[d] \in Settling => pc[d] \in Settling
      BY <3>1 DEF TypeInv, TypeOK
    <3>4. \A d \in Calls : pc'[d] \in Settling => invoice[loc'[d].ref].status # "none"
      BY <3>1, <3>3 DEF ExtendInv
    <3>5. now <= now' /\ grants <= grants'
      BY <3>1, <1>n
    <3> QED
      BY <3>1, <3>2, <3>3, <3>4, <3>5, ExtendKept
  <2>3. CASE \E i \in Invoices : Confirm(c, i, "pay") \/ Confirm(c, i, "fail")
    <3> PICK i \in Invoices : Confirm(c, i, "pay") \/ Confirm(c, i, "fail")
      BY <2>3
    <3>1. /\ invoice[i].status = "PENDING" /\ loc' = [loc EXCEPT ![c].ref = i]
          /\ pc' = [pc EXCEPT ![c] = "pay"] \/ pc' = [pc EXCEPT ![c] = "fail"]
          /\ UNCHANGED <<now, subscription, invoice, grants, paid>>
      BY DEF Confirm, Go, books, Settles
    <3>2. \A d \in Calls \ {c} : pc'[d] = pc[d] /\ loc'[d] = loc[d]
      BY <3>1 DEF TypeInv, TypeOK
    <3>3. pc'[c] # "create" /\ loc'[c].ref = i
      BY <3>1 DEF TypeInv, TypeOK, Local
    <3> QED
      BY <3>1, <3>2, <3>3 DEF ExtendInv
  <2>4. CASE SetOverride(c)
    <3>1. /\ pc' = [pc EXCEPT ![c] = "forget"] /\ grants' = grants + 1
          /\ UNCHANGED <<now, subscription, invoice, loc, paid>>
      BY <2>4 DEF SetOverride, Go, books, history
    <3>2. now <= now' /\ grants <= grants'
      BY <3>1, <1>n
    <3> QED
      BY <3>1, <3>2, <1>k DEF TypeInv, TypeOK
  <2> QED
    BY <2>1, <2>2, <2>3, <2>4 DEF CallStart
<1>2. CASE \E c \in Calls : CallStep(c)
  <2> PICK c \in Calls : CallStep(c)
    BY <1>2
  <2>1. CASE \E i \in Invoices : CreateInvoice(c, i)
    <3> PICK i \in Invoices : CreateInvoice(c, i)
      BY <2>1
    <3>1. /\ pc[c] = "create" /\ invoice[i].status = "none" /\ End(c)
          /\ invoice' = [invoice EXCEPT ![i] =
               [status |-> "PENDING", plan |-> loc[c].plan, end |-> loc[c].end]]
          /\ UNCHANGED <<now, subscription, grants, paid>>
      BY DEF CreateInvoice, At, history
    <3>2. \A d \in Calls : pc'[d] # "idle" => d # c /\ pc'[d] = pc[d] /\ loc'[d] = loc[d]
      BY <3>1, EndTyped DEF TypeInv
    <3>3. \A j \in Invoices : invoice'[j] = IF j = i
            THEN [status |-> "PENDING", plan |-> loc[c].plan, end |-> loc[c].end] ELSE invoice[j]
      BY <3>1 DEF TypeInv, TypeOK
    <3>4. paid \ {i} = paid
      BY <3>1 DEF ExtendInv
    <3>5. loc[c].end <= Bound(now, grants, Cardinality(paid \ {i}) + 1)
      BY <3>1, <3>4 DEF ExtendInv
    <3>6. \A j \in Invoices : invoice'[j].status # "none"
            => invoice'[j].end <= Bound(now, grants, Cardinality(paid \ {j}) + 1)
      <4> SUFFICES ASSUME NEW j \in Invoices, invoice'[j].status # "none"
                   PROVE  invoice'[j].end <= Bound(now, grants, Cardinality(paid \ {j}) + 1)
        OBVIOUS
      <4>1. CASE j = i
        <5>1. invoice'[j].end = loc[c].end
          BY <3>3, <4>1
        <5> QED
          BY <3>5, <4>1, <5>1
      <4>2. CASE j # i
        BY <3>3, <4>2 DEF ExtendInv
      <4> QED
        BY <4>1, <4>2
    <3>7. \A j \in Invoices : invoice[j].status # "none" => invoice'[j].status # "none"
      BY <3>1, <3>3
    <3>8. \A d \in Calls : pc'[d] \in Settling => invoice'[loc'[d].ref].status # "none"
      BY <3>2, <3>7 DEF ExtendInv, TypeInv, Named
    <3>9. \A j \in paid : invoice'[j].status # "none"
      BY <3>7 DEF ExtendInv, TypeInv, TypeOK
    <3> QED
      BY <3>1, <3>2, <3>6, <3>8, <3>9 DEF ExtendInv
  <2>2. CASE Pay(c)
    <3> PICK i \in Invoices : i = loc[c].ref
      BY <2>2 DEF Pay, At, TypeInv, Named
    <3>1. /\ pc[c] = "pay" /\ invoice' = [invoice EXCEPT ![i].status = "PAID"]
          /\ subscription'.end = invoice[i].end /\ paid' = paid \cup {i}
          /\ pc' = [pc EXCEPT ![c] = "forget"] /\ loc' = [loc EXCEPT ![c] = NoLocal]
          /\ UNCHANGED <<now, grants>>
      BY <2>2 DEF Pay, Go, At, PaidUntil
    <3>2. \A j \in Invoices : /\ invoice'[j].end = invoice[j].end
                              /\ invoice[j].status # "none" => invoice'[j].status # "none"
      BY <3>1 DEF TypeInv, TypeOK, Invoice
    <3>3. invoice'[i].status # "none" /\ invoice[i].status # "none"
      BY <3>1 DEF ExtendInv, TypeInv, TypeOK, Invoice
    <3>4. invoice[i].end <= Bound(now, grants, Cardinality(paid'))
      BY <3>1, <3>3, PaidCounted DEF ExtendInv, TypeInv
    <3>5. /\ Cardinality(paid') \in Nat /\ Cardinality(paid) <= Cardinality(paid')
          /\ \A j \in Invoices : /\ Cardinality(paid' \ {j}) \in Nat /\ Cardinality(paid \ {j}) \in Nat
                                 /\ Cardinality(paid \ {j}) <= Cardinality(paid' \ {j})
      <4>1. IsFiniteSet(paid')
        BY FS_Subset, BillingAssumption DEF TypeInv, TypeOK
      <4>2. Cardinality(paid) <= Cardinality(paid')
        BY <3>1, <4>1, FS_Subset
      <4> QED
        BY <3>1, <4>1, <4>2, PaidCounted, FS_CardinalityType DEF TypeInv
    <3>6. \A j \in Invoices :
            /\ Bound(now, grants, Cardinality(paid \ {j}) + 1) \in Nat
            /\ Bound(now, grants, Cardinality(paid' \ {j}) + 1) \in Nat
            /\ Bound(now, grants, Cardinality(paid \ {j}) + 1) <= Bound(now, grants, Cardinality(paid' \ {j}) + 1)
      <4> SUFFICES ASSUME NEW j \in Invoices
                   PROVE  /\ Bound(now, grants, Cardinality(paid \ {j}) + 1) \in Nat
                          /\ Bound(now, grants, Cardinality(paid' \ {j}) + 1) \in Nat
                          /\ Bound(now, grants, Cardinality(paid \ {j}) + 1)
                               <= Bound(now, grants, Cardinality(paid' \ {j}) + 1)
        OBVIOUS
      <4> DEFINE m == Cardinality(paid \ {j})
                 n == Cardinality(paid' \ {j})
      <4>0. m \in Nat /\ n \in Nat /\ m <= n
        BY <3>5
      <4> HIDE DEF m, n
      <4>1. m + 1 \in Nat /\ n + 1 \in Nat /\ m + 1 <= n + 1 /\ now <= now /\ grants <= grants
        BY <4>0, <1>n
      <4>2. /\ Bound(now, grants, m + 1) \in Nat /\ Bound(now, grants, n + 1) \in Nat
            /\ Bound(now, grants, m + 1) <= Bound(now, grants, n + 1)
        BY <4>1, <1>n, BoundGrows, BillingAssumption
      <4> QED
        BY <4>2 DEF m, n
    <3>7. \A j \in Invoices : invoice'[j].status # "none"
            => invoice'[j].end <= Bound(now, grants, Cardinality(paid' \ {j}) + 1)
      <4>1. \A j \in Invoices : invoice[j].end \in Nat
        BY DEF TypeInv, TypeOK, Invoice
      <4>2. \A j \in Invoices : invoice'[j].status # "none" => invoice[j].status # "none"
        BY <3>1, <3>3 DEF TypeInv, TypeOK
      <4> SUFFICES ASSUME NEW j \in Invoices, invoice'[j].status # "none"
                   PROVE  invoice'[j].end <= Bound(now, grants, Cardinality(paid' \ {j}) + 1)
        OBVIOUS
      <4>3. invoice[j].end <= Bound(now, grants, Cardinality(paid \ {j}) + 1)
        BY <4>2 DEF ExtendInv
      <4>4. invoice'[j].end = invoice[j].end /\ invoice[j].end \in Nat
        BY <3>2, <4>1
      <4> DEFINE x == Bound(now, grants, Cardinality(paid \ {j}) + 1)
                 y == Bound(now, grants, Cardinality(paid' \ {j}) + 1)
      <4>5. x \in Nat /\ y \in Nat /\ x <= y
        BY <3>6
      <4> HIDE DEF x, y
      <4>6. invoice'[j].end <= y
        BY <4>3, <4>4, <4>5 DEF x
      <4> QED
        BY <4>6 DEF y
    <3>8. \A d \in Calls : /\ pc'[d] = "create" => pc[d] = "create" /\ loc'[d] = loc[d]
                           /\ pc'[d] \in Settling => pc[d] \in Settling /\ loc'[d] = loc[d]
      BY <3>1 DEF TypeInv, TypeOK
    <3>9. Bound(now, grants, Cardinality(paid) + 1) <= Bound(now, grants, Cardinality(paid') + 1)
          /\ Bound(now, grants, Cardinality(paid) + 1) \in Nat
          /\ Bound(now, grants, Cardinality(paid') + 1) \in Nat
      <4> DEFINE m == Cardinality(paid)
                 n == Cardinality(paid')
      <4>0. m \in Nat /\ n \in Nat /\ m <= n
        BY <3>5, <1>f
      <4> HIDE DEF m, n
      <4>1. m + 1 \in Nat /\ n + 1 \in Nat /\ m + 1 <= n + 1 /\ now <= now /\ grants <= grants
        BY <4>0, <1>n
      <4>2. /\ Bound(now, grants, m + 1) \in Nat /\ Bound(now, grants, n + 1) \in Nat
            /\ Bound(now, grants, m + 1) <= Bound(now, grants, n + 1)
        BY <4>1, <1>n, BoundGrows, BillingAssumption
      <4> QED
        BY <4>2 DEF m, n
    <3>10. \A d \in Calls : pc'[d] = "create" => loc'[d].end <= Bound(now, grants, Cardinality(paid') + 1)
      <4>1. \A d \in Calls : loc[d].end \in Nat
        BY DEF TypeInv, TypeOK, Local
      <4> QED
        BY <3>8, <3>9, <4>1 DEF ExtendInv
    <3>11. \A d \in Calls : pc'[d] \in Settling => invoice'[loc'[d].ref].status # "none"
      BY <3>2, <3>8 DEF ExtendInv, TypeInv, Named
    <3>12. \A j \in paid' : invoice'[j].status # "none"
      BY <3>1, <3>2, <3>3 DEF ExtendInv, TypeInv, TypeOK
    <3> QED
      BY <3>1, <3>4, <3>7, <3>10, <3>11, <3>12 DEF ExtendInv
  <2>3. CASE Fail(c)
    <3> PICK i \in Invoices : i = loc[c].ref
      BY <2>3 DEF Fail, At, TypeInv, Named
    <3>1. /\ pc[c] = "fail" /\ invoice' = [invoice EXCEPT ![i].status = "FAILED"]
          /\ pc' = [pc EXCEPT ![c] = "failRead"]
          /\ UNCHANGED <<now, subscription, grants, paid, loc>>
      BY <2>3 DEF Fail, Go, At, history
    <3>2. invoice[i].status # "none"
      BY <3>1 DEF ExtendInv
    <3>3. \A j \in Invoices : /\ invoice'[j].end = invoice[j].end
                              /\ invoice'[j].status = "none" <=> invoice[j].status = "none"
      BY <3>1, <3>2 DEF TypeInv, TypeOK, Invoice
    <3>4. \A d \in Calls : /\ pc'[d] = "create" => pc[d] = "create" /\ loc'[d] = loc[d]
                           /\ pc'[d] \in Settling => invoice[loc'[d].ref].status # "none"
      BY <3>1 DEF ExtendInv, TypeInv, TypeOK
    <3>5. subscription'.end <= Bound(now', grants', Cardinality(paid)) /\ now <= now' /\ grants <= grants'
      BY <3>1, <1>n DEF ExtendInv
    <3> QED
      BY <3>1, <3>3, <3>4, <3>5, ExtendKept
  <2>4. CASE FailRead(c) \/ (\E lost \in BOOLEAN : Forget(c, lost)) \/ Dies(c)
    <3>1. /\ UNCHANGED <<now, subscription, invoice, grants, paid>>
          /\ End(c) \/ (pc' = [pc EXCEPT ![c] = "failWrite"] /\ loc' = loc)
      BY <2>4 DEF FailRead, Forget, Dies, Go, books, history
    <3>2. \A d \in Calls : pc'[d] \in {"create", "pay", "fail"} => pc'[d] = pc[d] /\ loc'[d] = loc[d]
      BY <3>1, EndTyped DEF TypeInv, TypeOK
    <3> QED
      BY <3>1, <3>2, <1>n, <1>k
  <2>5. CASE FailWrite(c)
    <3>1. /\ UNCHANGED <<now, invoice, loc, grants, paid>> /\ pc' = [pc EXCEPT ![c] = "forget"]
          /\ subscription'.end = subscription.end
      BY <2>5 DEF FailWrite, Go, history, TypeInv, TypeOK, Subscription
    <3> QED
      BY <3>1, <1>n, <1>k DEF TypeInv, TypeOK
  <2> QED
    BY <2>1, <2>2, <2>3, <2>4, <2>5 DEF CallStep
<1>3. CASE PassRead \/ PassStep \/ (\E l \in Loaders : Load(l) \/ Remember(l)) \/ Expires \/ Tick
  <2>1. /\ UNCHANGED <<invoice, pc, loc, grants, paid>> /\ subscription'.end = subscription.end
        /\ now' = now \/ now' = now + 1
    BY <1>3 DEF PassRead, PassStep, PassPastDue, PassExpire, PassWrite, PassForget, Load, Remember,
                Expires, Tick, books, history, TypeInv, TypeOK, Subscription
  <2>2. now <= now' /\ grants <= grants'
    BY <2>1, <1>n
  <2> QED
    BY <2>1, <2>2, <1>k
<1> QED
  BY <1>0, <1>1, <1>2, <1>3 DEF Next

\* confirm extends once per payment, however often it is confirmed: the
\* subscription never runs longer than what was paid for and granted.
THEOREM ExtendedOncePerPayment == ASSUME BillingAssumption PROVE Spec => []NeverOverExtended
<1>1. Init => ExtendInv
  <2> SUFFICES ASSUME Init PROVE ExtendInv
    OBVIOUS
  <2>1. subscription.end = Period /\ now = 0 /\ grants = 0 /\ paid = {}
    BY DEF Init
  <2>2. Cardinality({}) = 0
    BY FS_EmptySet
  <2>3. Period <= Bound(0, 0, 0)
    BY BoundNext, BillingAssumption
  <2> QED
    BY <2>1, <2>2, <2>3 DEF Init, ExtendInv, NoInvoice, Settling
<1>2. TypeInv /\ TypeInv' /\ ExtendInv /\ [Next]_vars => ExtendInv'
  BY BillingAssumption, ExtendInvStep
<1>3. ExtendInv => NeverOverExtended
  BY DEF ExtendInv, NeverOverExtended, Bound, Granted
<1> QED
  BY <1>1, <1>2, <1>3, BillingAssumption, TypeCorrect, PTL DEF Spec
===============================================================================
