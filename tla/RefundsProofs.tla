----------------------------- MODULE RefundsProofs -----------------------------
(***************************************************************************)
(* What the run of Refunds checks on two calls and a small payment, proved *)
(* for every payment, every number of refund requests and dashboard        *)
(* refunds, and every number of calls that die.                            *)
(***************************************************************************)
EXTENDS Refunds, FiniteSetTheorems, TLAPS

-------------------------------------------------------------------------------
\* Types.

\* A call that goes on holds its own row, and a key until the gateway knows it.
Holding == {"insert", "send", "store", "apply", "sum", "write"}
Named ==
  /\ \A p \in Procs : pc[p] \in Holding => loc[p].row \in RowIds
  /\ \A c \in Calls : pc[c] \in Holding => loc[c].row = c
  /\ \A c \in Calls : pc[c] \in {"insert", "send", "store"} => loc[c].key \in Keys

TypeInv == TypeOK /\ Named

LEMMA Constants ==
  ASSUME RefundAssumption
  PROVE  /\ IsFiniteSet(RowIds) /\ IsFiniteSet(Keys)
         /\ Calls \subseteq Procs /\ Hooks \subseteq Procs /\ Calls \cap Hooks = {}
         /\ Calls \subseteq RowIds /\ Gids \subseteq RowIds /\ Calls \cap Gids = {}
         /\ Keys \subseteq Gids /\ None \notin RowIds
         /\ \A d \in Dashboard, a \in 1..Amount : <<d, a>> \in Gids \ Keys
         /\ \A h \in Hooks : h[1] \in Gids /\ h[2] \in Kinds /\ h = <<h[1], h[2]>>
<1>a. IsFiniteSet(1..MaxSequence) /\ IsFiniteSet(1..Amount)
  BY FS_Interval, RefundAssumption
<1>1. IsFiniteSet(Keys) /\ IsFiniteSet(Dashboard \X (1..Amount))
  BY <1>a, FS_Product, RefundAssumption DEF Keys
<1>2. IsFiniteSet(Gids)
  BY <1>1, FS_Union, RefundAssumption DEF Gids
<1>3. IsFiniteSet(RowIds)
  BY <1>2, FS_Union, RefundAssumption DEF RowIds
<1>4. \A h \in Hooks : h[1] \in Gids /\ h[2] \in Kinds /\ h = <<h[1], h[2]>>
  BY DEF Hooks
<1>5. \A d \in Dashboard, a \in 1..Amount : <<d, a>> \in Gids \ Keys
  BY RefundAssumption DEF Gids, Keys
<1>6. Keys \subseteq Gids
  BY DEF Gids
<1> QED
  BY <1>1, <1>3, <1>4, <1>5, <1>6, RefundAssumption DEF Procs, RowIds

LEMMA AcceptedFinite ==
  ASSUME RefundAssumption
  PROVE  IsFiniteSet(Accepted) /\ Cardinality(Accepted) \in Nat
BY Constants, FS_Subset, FS_CardinalityType DEF Accepted

LEMMA Remembered ==
  ASSUME NEW r \in RowIds \cup {None}, NEW k \in Keys \cup {None}, NEW f \in BOOLEAN,
         NEW a \in GatewayStatus
  PROVE  /\ Remember(r, k, f, a) \in Local
         /\ Remember(r, k, f, a).row = r /\ Remember(r, k, f, a).key = k
         /\ Remember(r, k, f, a).answer = a
BY DEF Remember, Local, RowStatus

LEMMA HookRemembers ==
  ASSUME NEW r \in RowIds, NEW a \in GatewayStatus
  PROVE  /\ Remember(r, None, FALSE, a) \in Local /\ Remember(r, None, FALSE, a).row = r
         /\ Remember(r, None, FALSE, a).answer = a
BY DEF Remember, Local, RowStatus

LEMMA NoLocalTyped == NoLocal \in Local
BY Remembered DEF NoLocal, GatewayStatus

LEMMA UnitsFinite ==
  ASSUME RefundAssumption, NEW R, R \subseteq RowIds
  PROVE  IsFiniteSet(Units(R)) /\ Cardinality(Units(R)) \in Nat
<1>1. IsFiniteSet(1..Amount)
  BY FS_Interval, RefundAssumption
<1>2. IsFiniteSet(R \X (1..Amount))
  <2>1. IsFiniteSet(RowIds) /\ R \in SUBSET RowIds
    BY Constants
  <2>2. IsFiniteSet(R)
    BY <2>1, FS_Subset
  <2> QED
    BY <1>1, <2>2, FS_Product
<1>3. Units(R) \in SUBSET (R \X (1..Amount))
  BY DEF Units
<1> QED
  BY <1>2, <1>3, FS_Subset, FS_CardinalityType

LEMMA AcceptedTotalTyped == ASSUME RefundAssumption PROVE AcceptedTotal \in Nat /\ Amount \in Nat
<1>1. Accepted \subseteq RowIds
  BY DEF Accepted
<1> QED
  BY <1>1, UnitsFinite, RefundAssumption DEF AcceptedTotal

LEMMA GoTyped ==
  ASSUME TypeOK, NEW p \in Procs, NEW step \in Steps, Go(p, step)
  PROVE  /\ pc' = [pc EXCEPT ![p] = step] /\ pc' \in [Procs -> Steps] /\ pc'[p] = step
         /\ \A q \in Procs : q # p => pc'[q] = pc[q]
BY DEF Go, TypeOK

LEMMA EndTyped ==
  ASSUME TypeOK, NEW p \in Procs, NEW step \in Steps, End(p, step)
  PROVE  /\ Go(p, step) /\ loc' = [loc EXCEPT ![p] = NoLocal] /\ loc' \in [Procs -> Local]
         /\ \A q \in Procs : q # p => loc'[q] = loc[q]
BY NoLocalTyped DEF End, TypeOK

LEMMA StepNames ==
  {"idle", "insert", "send", "store", "catch", "close", "refused", "none", "sent", "create", "fail",
   "failSum", "failWrite", "ignored", "apply", "sum", "write", "done", "dead"} = Steps
BY DEF Steps, CallSteps, HookSteps, ApplySteps

\* A call ends: nothing it holds matters any more.
LEMMA NamedEnd ==
  ASSUME TypeInv, NEW p \in Procs, NEW step \in Steps \ Holding, End(p, step)
  PROVE  Named' /\ pc' \in [Procs -> Steps] /\ loc' \in [Procs -> Local]
<1>1. \A q \in Procs : pc'[q] \in Holding => q # p
  BY GoTyped, EndTyped DEF TypeInv
<1>2. \A q \in Procs : q # p => pc'[q] = pc[q] /\ loc'[q] = loc[q]
  BY GoTyped, EndTyped DEF TypeInv
<1>3. pc' \in [Procs -> Steps] /\ loc' \in [Procs -> Local]
  BY GoTyped, EndTyped DEF TypeInv
<1> QED
  BY <1>1, <1>2, <1>3 DEF TypeInv, Named, Holding, Procs

\* A call goes on with what it holds.
LEMMA NamedGo ==
  ASSUME TypeInv, NEW p \in Procs, NEW step \in Steps, Go(p, step),
         step \in Holding => pc[p] \in Holding /\ step # "insert",
         step \in {"send", "store"} => pc[p] \in {"insert", "send", "store"},
         loc' \in [Procs -> Local], loc'[p].row = loc[p].row, loc'[p].key = loc[p].key,
         \A q \in Procs : q # p => loc'[q] = loc[q]
  PROVE  Named' /\ pc' \in [Procs -> Steps]
<1>1. pc'[p] = step /\ pc' \in [Procs -> Steps] /\ \A q \in Procs : q # p => pc'[q] = pc[q]
  BY GoTyped DEF TypeInv
<1> QED
  BY <1>1 DEF TypeInv, Named, Holding, Procs

\* The row a call remembers is there to be read and written.
LEMMA RowTyped ==
  ASSUME TypeOK, NEW r \in RowIds
  PROVE  /\ row[r].status \in RowStatus /\ row[r].key \in Keys \cup {None}
         /\ row[r].provider \in Gids \cup {None}
         /\ \A s \in RowStatus : [row EXCEPT ![r].status = s] \in [RowIds -> RefundRow]
BY DEF TypeOK, RefundRow

LEMMA TypeInvInit == ASSUME RefundAssumption, Init PROVE TypeInv
<1>1. row \in [RowIds -> RefundRow]
  BY DEF Init, NoRow, RefundRow, RowStatus
<1>2. pc \in [Procs -> Steps] /\ \A p \in Procs : pc[p] \in {"idle", "none"}
  BY StepNames DEF Init
<1>3. loc \in [Procs -> Local]
  BY NoLocalTyped DEF Init
<1>4. gw \in [Gids -> GatewayStatus] /\ order \in OrderState /\ refunded \in Int /\ aborts \in 0..MaxAborts
  BY RefundAssumption DEF Init, GatewayStatus, OrderState
<1>5. Named
  BY <1>2 DEF Named, Holding, Procs
<1> QED
  BY <1>1, <1>2, <1>3, <1>4, <1>5 DEF Init, TypeInv, TypeOK

LEMMA CallTyped ==
  ASSUME RefundAssumption, TypeInv, NEW c \in Calls, CallNext(c)
  PROVE  TypeInv'
<1> c \in Procs
  BY Constants
<1>1. CASE \E amount \in 1..Amount : Ask(c, amount)
  <2> PICK a \in 1..Amount : Ask(c, a)
    BY <1>1
  <2> DEFINE f == a = Refundable /\ Accepted = {} /\ refunded = 0
             l == Remember(c, <<Sequence, a>>, f, "none")
  <2>1. l \in Local /\ l.row = c /\ l.key \in Keys
    <3> PICK k \in Keys : k = <<Sequence, a>>
      BY DEF Ask
    <3>1. c \in RowIds /\ f \in BOOLEAN /\ "none" \in GatewayStatus
      BY Constants DEF GatewayStatus
    <3> HIDE DEF f
    <3> QED
      BY <3>1, Remembered
  <2>2. loc' = [loc EXCEPT ![c] = l] /\ Go(c, "insert") /\ UNCHANGED <<method, bookVars, gw, aborts>>
    BY DEF Ask
  <2> HIDE DEF l
  <2>3. loc' \in [Procs -> Local] /\ loc'[c] = l /\ \A q \in Procs : q # c => loc'[q] = loc[q]
    BY <2>1, <2>2 DEF TypeInv, TypeOK
  <2>4. pc' \in [Procs -> Steps] /\ \A q \in Procs : q # c => pc'[q] = pc[q]
    BY <2>2, GoTyped, StepNames DEF TypeInv
  <2>5. Named'
    BY <2>1, <2>3, <2>4, Constants DEF TypeInv, Named, Procs
  <2> QED
    BY <2>2, <2>3, <2>4, <2>5 DEF TypeInv, TypeOK, bookVars
<1>2. CASE Insert(c)
  <2>1. loc[c].key \in Keys
    BY <1>2 DEF Insert, At, TypeInv, Named
  <2>2. row' \in [RowIds -> RefundRow]
    <3> PICK k \in Keys : k = loc[c].key
      BY <2>1
    <3>1. k[2] \in 0..Amount
      BY RefundAssumption DEF Keys
    <3> QED
      BY <1>2, <3>1 DEF Insert, TypeInv, TypeOK, RefundRow, RowStatus
  <2>3. CASE method = "COD"
    <3>1. loc' = [loc EXCEPT ![c].answer = "processed"] /\ Go(c, "apply") /\ pc[c] = "insert"
      BY <1>2, <2>3 DEF Insert, At
    <3>2. /\ loc' \in [Procs -> Local] /\ loc'[c].row = loc[c].row /\ loc'[c].key = loc[c].key
          /\ \A q \in Procs : q # c => loc'[q] = loc[q]
      BY <3>1 DEF TypeInv, TypeOK, Local, GatewayStatus
    <3>3. Named' /\ pc' \in [Procs -> Steps]
      BY <3>1, <3>2, NamedGo, StepNames DEF Holding
    <3> QED
      BY <1>2, <2>2, <3>2, <3>3 DEF Insert, TypeInv, TypeOK
  <2>4. CASE method # "COD"
    <3>1. loc' = loc /\ Go(c, "send") /\ pc[c] = "insert"
      BY <1>2, <2>4 DEF Insert, At
    <3>2. Named' /\ pc' \in [Procs -> Steps]
      BY <3>1, NamedGo, StepNames DEF Holding, TypeInv, TypeOK
    <3> QED
      BY <1>2, <2>2, <3>1, <3>2 DEF Insert, TypeInv, TypeOK
  <2> QED
    BY <2>3, <2>4
<1>3. CASE InsertRefused(c)
  BY <1>3, NamedEnd, StepNames DEF InsertRefused, Holding, bookVars, TypeInv, TypeOK
<1>4. CASE SendFails(c)
  <2>1. Named' /\ pc' \in [Procs -> Steps]
    BY <1>4, NamedGo, StepNames DEF SendFails, Holding, TypeInv, TypeOK
  <2> QED
    BY <1>4, <2>1 DEF SendFails, bookVars, TypeInv, TypeOK
<1>5. CASE \E status \in GatewayStatus \ {"none"}, lost \in BOOLEAN : Send(c, status, lost)
  <2> PICK status \in GatewayStatus \ {"none"}, lost \in BOOLEAN : Send(c, status, lost)
    BY <1>5
  <2>1. /\ pc[c] = "send" /\ gw' = [gw EXCEPT ![loc[c].key] = status]
        /\ loc' = [loc EXCEPT ![c].answer = IF lost THEN "none" ELSE status]
        /\ UNCHANGED <<method, row, refunded, order, aborts>>
    BY DEF Send, At, bookVars
  <2>2. gw' \in [Gids -> GatewayStatus]
    BY <2>1 DEF TypeInv, TypeOK
  <2>3. /\ loc' \in [Procs -> Local] /\ loc'[c].row = loc[c].row /\ loc'[c].key = loc[c].key
        /\ \A q \in Procs : q # c => loc'[q] = loc[q]
    BY <2>1 DEF TypeInv, TypeOK, Local, GatewayStatus
  <2>4. /\ pc' \in [Procs -> Steps] /\ pc'[c] \in {"catch", "store"}
        /\ \A q \in Procs : q # c => pc'[q] = pc[q] \/ pc'[q] = "sent"
    <3> PICK k \in Keys : k = loc[c].key
      BY <2>1 DEF TypeInv, Named
    <3>1. pc' = [p \in Procs |->
            CASE p = c -> IF lost THEN "catch" ELSE "store"
              [] gw[k] = "none" /\ p \in Emit(k, status) -> "sent"
              [] OTHER -> pc[p]]
      BY DEF Send
    <3>2. c \notin Emit(k, status)
      BY Constants DEF Emit, Hooks
    <3>3. pc'[c] = IF lost THEN "catch" ELSE "store"
      BY <3>1, <3>2
    <3>4. \A q \in Procs : q # c => pc'[q] = pc[q] \/ pc'[q] = "sent"
      BY <3>1
    <3>5. \A q \in Procs : pc[q] \in Steps
      BY DEF TypeInv, TypeOK
    <3>6. pc' \in [Procs -> Steps]
      BY <3>1, <3>3, <3>4, <3>5, StepNames
    <3> QED
      BY <3>3, <3>4, <3>6
  <2>5. Named'
    BY <2>1, <2>3, <2>4 DEF TypeInv, Named, Holding, Procs
  <2> QED
    BY <2>1, <2>2, <2>3, <2>4, <2>5 DEF TypeInv, TypeOK
<1>6. CASE Store(c)
  <2>1. loc[c].key \in Keys /\ pc[c] = "store"
    BY <1>6 DEF Store, At, TypeInv, Named
  <2>2. row' \in [RowIds -> RefundRow]
    BY <1>6, <2>1, Constants DEF Store, TypeInv, TypeOK, RefundRow
  <2>3. Go(c, "close") \/ Go(c, "apply")
    BY <1>6 DEF Store
  <2>4. Named' /\ pc' \in [Procs -> Steps]
    BY <1>6, <2>1, <2>3, NamedGo, StepNames DEF Store, Holding, TypeInv, TypeOK
  <2> QED
    BY <1>6, <2>2, <2>4 DEF Store, TypeInv, TypeOK
<1>7. CASE StoreRefused(c)
  <2>1. Named' /\ pc' \in [Procs -> Steps]
    BY <1>7, NamedGo, StepNames DEF StoreRefused, Holding, TypeInv, TypeOK
  <2> QED
    BY <1>7, <2>1 DEF StoreRefused, bookVars, TypeInv, TypeOK
<1>8. CASE Catch(c)
  <2>1. row' \in [RowIds -> RefundRow]
    BY <1>8, RowTyped, Constants DEF Catch, TypeInv, RowStatus
  <2> QED
    BY <1>8, <2>1, NamedEnd, StepNames DEF Catch, Holding, TypeInv, TypeOK
<1>9. CASE Close(c)
  <2>1. order' \in OrderState
    BY <1>9 DEF Close, TypeInv, TypeOK, OrderState
  <2> QED
    BY <1>9, <2>1, NamedEnd, StepNames DEF Close, Holding, TypeInv, TypeOK
<1>10. CASE Abort(c)
  <2>1. aborts' \in 0..MaxAborts
    BY <1>10, RefundAssumption DEF Abort, TypeInv, TypeOK
  <2> QED
    BY <1>10, <2>1, NamedEnd, StepNames DEF Abort, Holding, bookVars, TypeInv, TypeOK
<1> QED
  BY <1>1, <1>2, <1>3, <1>4, <1>5, <1>6, <1>7, <1>8, <1>9, <1>10 DEF CallNext

LEMMA ApplyTyped ==
  ASSUME RefundAssumption, TypeInv, NEW p \in Procs, ApplyNext(p)
  PROVE  TypeInv'
<1>a. ASSUME AfterApply(p)
      PROVE  Named' /\ pc' \in [Procs -> Steps] /\ loc' \in [Procs -> Local]
  <2>1. CASE p \in Calls
    BY <1>a, <2>1, NamedGo, StepNames DEF AfterApply, Holding, TypeInv, TypeOK
  <2>2. CASE p \notin Calls
    BY <1>a, <2>2, NamedEnd, StepNames DEF AfterApply, Holding
  <2> QED
    BY <2>1, <2>2
<1>t. AcceptedTotal \in Int /\ Amount \in Int
  BY AcceptedTotalTyped
<1>1. CASE ApplyRead(p)
  <2>1. row[loc[p].row].status \in RowStatus /\ pc[p] = "apply"
    BY <1>1, RowTyped DEF ApplyRead, At, TypeInv, Named, Holding
  <2>2. /\ loc' \in [Procs -> Local] /\ loc'[p].row = loc[p].row /\ loc'[p].key = loc[p].key
        /\ \A q \in Procs : q # p => loc'[q] = loc[q]
    BY <1>1, <2>1 DEF ApplyRead, TypeInv, TypeOK, Local
  <2>3. Named' /\ pc' \in [Procs -> Steps]
    BY <1>1, <2>1, <2>2, NamedGo, StepNames DEF ApplyRead, Holding
  <2> QED
    BY <1>1, <2>2, <2>3 DEF ApplyRead, bookVars, TypeInv, TypeOK
<1>2. CASE ApplySum(p)
  <2>1. Smaller(AcceptedTotal, Amount) \in Int /\ pc[p] = "sum"
    BY <1>2, <1>t DEF Smaller, ApplySum, At
  <2>2. /\ loc' \in [Procs -> Local] /\ loc'[p].row = loc[p].row /\ loc'[p].key = loc[p].key
        /\ \A q \in Procs : q # p => loc'[q] = loc[q]
    BY <1>2, <2>1 DEF ApplySum, TypeInv, TypeOK, Local
  <2>3. Named' /\ pc' \in [Procs -> Steps]
    BY <1>2, <2>1, <2>2, NamedGo, StepNames DEF ApplySum, Holding
  <2> QED
    BY <1>2, <2>2, <2>3 DEF ApplySum, bookVars, TypeInv, TypeOK
<1>3. CASE AlreadySettled(p)
  BY <1>3, <1>a DEF AlreadySettled, bookVars, TypeInv, TypeOK
<1>4. CASE ApplyWrite(p)
  <2>1. loc[p].row \in RowIds /\ loc[p].total \in Int
    BY <1>4 DEF ApplyWrite, At, TypeInv, TypeOK, Named, Holding, Local
  <2>2. row' \in [RowIds -> RefundRow]
    BY <1>4, <2>1, RowTyped DEF ApplyWrite, TypeInv, TypeOK, RowStatus
  <2>3. order' \in OrderState
    BY <1>4 DEF ApplyWrite, StatusOf, TypeInv, TypeOK, OrderState
  <2> QED
    BY <1>4, <1>a, <2>1, <2>2, <2>3 DEF ApplyWrite, TypeInv, TypeOK
<1> QED
  BY <1>1, <1>2, <1>3, <1>4 DEF ApplyNext

LEMMA HookTyped ==
  ASSUME RefundAssumption, TypeInv, NEW h \in Hooks, HookNext(h)
  PROVE  TypeInv'
<1> h \in Procs /\ h \notin Calls /\ h[1] \in Gids /\ h[2] \in Kinds
  BY Constants
<1>n. ASSUME NEW l \in Local, l.row \in RowIds, NEW step \in Steps, Go(h, step),
             loc' = [loc EXCEPT ![h] = l]
      PROVE  Named' /\ pc' \in [Procs -> Steps] /\ loc' \in [Procs -> Local]
  <2>1. loc' \in [Procs -> Local] /\ loc'[h] = l /\ \A q \in Procs : q # h => loc'[q] = loc[q]
    BY <1>n DEF TypeInv, TypeOK
  <2>2. pc' \in [Procs -> Steps] /\ \A q \in Procs : q # h => pc'[q] = pc[q]
    BY <1>n, GoTyped DEF TypeInv
  <2> QED
    BY <1>n, <2>1, <2>2 DEF TypeInv, Named, Procs
<1>1. CASE HookFind(h)
  <2> DEFINE l == Remember(CHOOSE r \in Known(h) : TRUE, None, FALSE, h[2])
  <2>1. (CHOOSE r \in Known(h) : TRUE) \in RowIds
    BY <1>1 DEF HookFind, Known
  <2>2. l \in Local /\ l.row \in RowIds
    <3> PICK r \in RowIds : r = CHOOSE s \in Known(h) : TRUE
      BY <2>1
    <3> PICK a \in GatewayStatus : a = h[2]
      BY DEF Kinds, GatewayStatus
    <3>1. l = Remember(r, None, FALSE, a)
      OBVIOUS
    <3>2. Remember(r, None, FALSE, a) \in Local /\ Remember(r, None, FALSE, a).row = r
      BY DEF Remember, Local, RowStatus
    <3>3. l \in Local
      BY <3>1, <3>2
    <3>4. l.row = r
      BY <3>1, <3>2
    <3> QED
      BY <3>3, <3>4
  <2>3. loc' = [loc EXCEPT ![h] = l] /\ (Go(h, "apply") \/ Go(h, "fail"))
    BY <1>1 DEF HookFind
  <2> HIDE DEF l
  <2>4. Named' /\ pc' \in [Procs -> Steps] /\ loc' \in [Procs -> Local]
    BY <1>n, <2>2, <2>3, StepNames
  <2> QED
    BY <1>1, <2>4 DEF HookFind, bookVars, TypeInv, TypeOK
<1>2. CASE HookUnknown(h)
  <2>1. loc' = loc /\ (Go(h, "create") \/ Go(h, "ignored"))
    BY <1>2 DEF HookUnknown
  <2>2. Named' /\ pc' \in [Procs -> Steps]
    BY <2>1, NamedGo, StepNames DEF Holding, TypeInv, TypeOK
  <2> QED
    BY <1>2, <2>2 DEF HookUnknown, bookVars, TypeInv, TypeOK
<1>3. CASE HookCreate(h)
  <2> DEFINE l == Remember(h[1], None, FALSE, "processed")
  <2>1. l \in Local /\ l.row \in RowIds
    BY Constants, HookRemembers DEF GatewayStatus
  <2>2. loc' = [loc EXCEPT ![h] = l] /\ Go(h, "apply")
    BY <1>3 DEF HookCreate
  <2> HIDE DEF l
  <2>3. Named' /\ pc' \in [Procs -> Steps] /\ loc' \in [Procs -> Local]
    BY <1>n, <2>1, <2>2, StepNames
  <2>4. row' \in [RowIds -> RefundRow]
    <3> PICK g \in Gids : g = h[1]
      OBVIOUS
    <3>1. g[2] \in 0..Amount
      BY RefundAssumption DEF Gids, Keys
    <3> QED
      BY <1>3, <3>1 DEF HookCreate, TypeInv, TypeOK, RefundRow, RowStatus
  <2> QED
    BY <1>3, <2>3, <2>4 DEF HookCreate, TypeInv, TypeOK
<1>4. CASE HookCreateRefused(h)
  BY <1>4, NamedEnd, StepNames DEF HookCreateRefused, Holding, bookVars, TypeInv, TypeOK
<1>5. CASE HookFail(h)
  <2>1. row' \in [RowIds -> RefundRow]
    BY <1>5 DEF HookFail, TypeInv, TypeOK, RefundRow, RowStatus
  <2>2. End(h, "done") \/ (Go(h, "failSum") /\ loc' = loc)
    BY <1>5 DEF HookFail
  <2>3. Named' /\ pc' \in [Procs -> Steps] /\ loc' \in [Procs -> Local]
    BY <2>2, NamedEnd, NamedGo, StepNames DEF Holding, TypeInv, TypeOK
  <2> QED
    BY <1>5, <2>1, <2>3 DEF HookFail, TypeInv, TypeOK
<1>6. CASE FailSum(h)
  <2> PICK t \in Int : t = AcceptedTotal
    BY AcceptedTotalTyped
  <2>2. /\ loc' \in [Procs -> Local] /\ loc'[h].row = loc[h].row /\ loc'[h].key = loc[h].key
        /\ \A q \in Procs : q # h => loc'[q] = loc[q]
    BY <1>6 DEF FailSum, TypeInv, TypeOK, Local
  <2>3. Named' /\ pc' \in [Procs -> Steps]
    BY <1>6, <2>2, NamedGo, StepNames DEF FailSum, Holding
  <2> QED
    BY <1>6, <2>2, <2>3 DEF FailSum, bookVars, TypeInv, TypeOK
<1>7. CASE FailWrite(h)
  <2>1. loc[h].total \in Int
    BY DEF TypeInv, TypeOK, Local
  <2> QED
    BY <1>7, <2>1, NamedEnd, StepNames DEF FailWrite, Holding, TypeInv, TypeOK
<1> QED
  BY <1>1, <1>2, <1>3, <1>4, <1>5, <1>6, <1>7 DEF HookNext

\* A refund at the gateway moves on, and may send a webhook.
LEMMA MovingTyped ==
  ASSUME RefundAssumption, TypeInv, NEW g \in Gids, NEW status \in GatewayStatus, Moving(g, status)
  PROVE  TypeInv'
<1>1. gw' \in [Gids -> GatewayStatus] /\ UNCHANGED <<method, row, refunded, order, loc, aborts>>
  BY DEF Moving, bookVars, TypeInv, TypeOK
<1>2. pc' \in [Procs -> Steps] /\ \A q \in Procs : pc'[q] = pc[q] \/ pc'[q] = "sent"
  BY StepNames DEF Moving, TypeInv, TypeOK
<1>3. Named'
  BY <1>1, <1>2 DEF TypeInv, Named, Holding, Procs
<1> QED
  BY <1>1, <1>2, <1>3 DEF TypeInv, TypeOK

LEMMA GatewayMoves ==
  ASSUME RefundAssumption, GatewayNext
  PROVE  \E g \in Gids, status \in GatewayStatus \ {"none"} :
           /\ Moving(g, status) /\ gw[g] # "failed"
           /\ gw[g] = "none" => status = "pending" /\ g \notin Keys
           /\ gw[g] = "processed" => status = "failed"
           /\ status \in {"pending", "processed", "failed"}
<1>1. CASE \E g \in Gids, status \in Kinds : GatewayMove(g, status)
  BY <1>1 DEF GatewayMove, Kinds, GatewayStatus
<1>2. CASE \E d \in Dashboard, amount \in 1..Amount : DashboardRefund(d, amount)
  <2> PICK d \in Dashboard, a \in 1..Amount : DashboardRefund(d, a)
    BY <1>2
  <2> PICK g \in Gids \ Keys : g = <<d, a>>
    BY Constants
  <2>1. Moving(g, "pending") /\ gw[g] = "none"
    BY DEF DashboardRefund
  <2> QED
    BY <2>1 DEF GatewayStatus
<1> QED
  BY <1>1, <1>2 DEF GatewayNext

LEMMA TypeInvStep ==
  ASSUME RefundAssumption, TypeInv, [Next]_vars
  PROVE  TypeInv'
<1>1. CASE UNCHANGED vars
  BY <1>1 DEF vars, bookVars, TypeInv, TypeOK, Named
<1>2. CASE GatewayNext
  BY <1>2, GatewayMoves, MovingTyped
<1> QED
  BY <1>1, <1>2, CallTyped, ApplyTyped, HookTyped DEF Next

\* Every variable keeps its type, and a refund under way holds its own row and,
\* until the gateway has answered, its idempotency key.
THEOREM TypeCorrect == ASSUME RefundAssumption PROVE Spec => []TypeInv
BY RefundAssumption, TypeInvInit, TypeInvStep, PTL DEF Spec

-------------------------------------------------------------------------------
\* What was sent back in equal refunds never exceeds what was captured.

\* A key stands for its amount and as many refunds of it before, as long as
\* every refund on record is of this amount.
Fitting == {k \in Keys : OneAmount(k[2]) => k[2] * k[1] <= Amount}
Used == {k \in Keys : \/ gw[k] # "none"
                      \/ \E c \in Calls : row[c].key = k
                      \/ \E c \in Calls : pc[c] \in {"insert", "send", "store"} /\ loc[c].key = k}

KeyInv ==
  /\ Used \subseteq Fitting
  /\ \A c \in Calls : row[c].status # "none" => row[c].key \in Keys /\ row[c].amount = row[c].key[2]
  /\ \A c, d \in Calls : row[c].key \in Keys /\ row[c].key = row[d].key => c = d
  /\ \A c \in Calls : pc[c] \in {"send", "store"} => row[c].key = loc[c].key
  /\ \A k \in Keys : gw[k] # "none" =>
       \E c \in Calls : row[c].status # "none" /\ row[c].amount = k[2]

\* A request that passes the check asks for a key that fits.
LEMMA KeyFits ==
  ASSUME NEW a \in Nat, NEW s \in 1..a, NEW n \in Nat, NEW r \in Int, s <= a - r, r >= s * n
  PROVE  s * (n + 1) <= a
<1>1. s * (n + 1) = s * n + s
  OBVIOUS
<1>2. s * n \in Int
  OBVIOUS
<1> DEFINE m == s * n
<1> HIDE DEF m
<1>3. m + s <= a
  BY <1>2 DEF m
<1> QED
  BY <1>1, <1>3 DEF m

\* The sum of equal amounts.
LEMMA EqualSum ==
  ASSUME RefundAssumption, NEW a \in 1..Amount, OneAmount(a)
  PROVE  AcceptedTotal = a * Cardinality(Accepted)
<1>1. Units(Accepted) = Accepted \X (1..a)
  BY RefundAssumption DEF Units, Accepted, OneAmount
<1>2. IsFiniteSet(1..a) /\ Cardinality(1..a) = a /\ a \in Nat
  BY FS_Interval, RefundAssumption
<1>3. Cardinality(Accepted \X (1..a)) = Cardinality(Accepted) * Cardinality(1..a)
  BY <1>2, AcceptedFinite, FS_Product
<1> PICK n \in Nat : n = Cardinality(Accepted)
  BY AcceptedFinite
<1>4. n * a = a * n
  BY <1>2
<1> QED
  BY <1>1, <1>2, <1>3, <1>4 DEF AcceptedTotal

LEMMA AskFits ==
  ASSUME RefundAssumption, TypeInv, NEW c \in Calls, NEW a \in 1..Amount, Ask(c, a)
  PROVE  <<Sequence, a>> \in Fitting
<1> SUFFICES ASSUME OneAmount(a) PROVE a * Sequence <= Amount
  BY DEF Ask, Fitting
<1>1. Amount \in Nat /\ AcceptedTotal \in Int
  BY AcceptedTotalTyped
<1> PICK n \in Nat : n = Cardinality(Accepted)
  BY AcceptedFinite
<1>2. AcceptedTotal = a * n
  BY EqualSum
<1> DEFINE r == Larger(AcceptedTotal, refunded)
<1>3. r \in Int /\ r >= AcceptedTotal
  BY <1>1 DEF Larger, TypeInv, TypeOK
<1>4. a <= Amount - r
  BY DEF Ask, Refundable
<1> HIDE DEF r
<1>5. a * (n + 1) <= Amount
  BY <1>1, <1>2, <1>3, <1>4, KeyFits
<1> QED
  BY <1>5 DEF Sequence

LEMMA KeyInvInit == ASSUME RefundAssumption, Init PROVE KeyInv
<1>1. \A c \in Calls : row[c].key = None /\ row[c].status = "none" /\ pc[c] = "idle"
  BY Constants DEF Init, NoRow
<1>2. \A k \in Keys : gw[k] = "none" /\ k # None
  BY Constants DEF Init
<1> QED
  BY <1>1, <1>2 DEF KeyInv, Used

\* Rows stay, with their amounts: a key that fits goes on to fit.
LEMMA FittingKept ==
  ASSUME \A r \in RowIds : row[r].status # "none" =>
           row'[r].status # "none" /\ row'[r].amount = row[r].amount
  PROVE  Fitting \subseteq Fitting'
<1>1. \A a : OneAmount(a)' => OneAmount(a)
  BY DEF OneAmount
<1> QED
  BY <1>1 DEF Fitting

\* A step that inserts no row of a call, and takes and makes known no new key.
LEMMA KeysKept ==
  ASSUME KeyInv, Fitting \subseteq Fitting',
         \A c \in Calls : /\ row'[c].key = row[c].key /\ row'[c].amount = row[c].amount
                          /\ row'[c].status = "none" <=> row[c].status = "none",
         \A c \in Calls : pc'[c] \in {"insert", "send", "store"} =>
           \/ loc'[c].key \in Fitting /\ pc'[c] = "insert"
           \/ pc[c] \in {"insert", "send", "store"} /\ loc'[c].key = loc[c].key,
         \A c \in Calls : pc'[c] \in {"send", "store"} => pc[c] \in {"send", "store"},
         \A k \in Keys : gw'[k] # "none" =>
           gw[k] # "none" \/ \E c \in Calls : pc[c] = "send" /\ loc[c].key = k /\ row[c].status # "none"
  PROVE  KeyInv'
<1>1. \A k \in Keys : gw'[k] # "none" => k \in Used
  BY DEF Used
<1>2. Used' \subseteq Used \cup Fitting
  BY <1>1 DEF Used
<1>3. \A k \in Keys : gw'[k] # "none" => \E c \in Calls : row[c].status # "none" /\ row[c].amount = k[2]
  BY DEF KeyInv
<1>4. \A c \in Calls : pc'[c] \in {"send", "store"} => loc'[c].key = loc[c].key
  OBVIOUS
<1>5. (Used \subseteq Fitting)'
  BY <1>2 DEF KeyInv
<1>6. \A c \in Calls : pc'[c] \in {"send", "store"} => row'[c].key = loc'[c].key
  BY <1>4 DEF KeyInv
<1>7. \A k \in Keys : gw'[k] # "none" => \E c \in Calls : row'[c].status # "none" /\ row'[c].amount = k[2]
  BY <1>3
<1> QED
  BY <1>5, <1>6, <1>7 DEF KeyInv

-------------------------------------------------------------------------------
\* The rows, the gateway and the webhooks agree.

\* A call's row before its refund has left, and while it is leaving.
CallRow(c) ==
  /\ pc[c] \in {"idle", "insert"} => row[c].status = "none"
  /\ pc[c] \in {"idle", "insert", "send", "store", "catch"} => row[c].provider = None
  /\ pc[c] \in {"send", "store", "catch"} => row[c].status = "PENDING"

\* A row made by a webhook is about its refund.
HookMade(g) == row[g].provider = IF row[g].status = "none" THEN None ELSE g

\* What a webhook that was sent says, and the row it is working on.
HookRow(h) ==
  /\ pc[h] \in {"apply", "sum", "write", "fail"} => row[loc[h].row].provider = h[1]
  /\ pc[h] = "fail" => loc[h].row \in RowIds
  /\ pc[h] \in {"fail", "failSum", "failWrite"} => h[2] = "failed"
  /\ h[2] = "failed" /\ pc[h] # "none" => gw[h[1]] = "failed"
  /\ h[2] = "processed" /\ pc[h] = "done" => \E r \in RowIds : row[r].provider = h[1]

\* A row counts as long as the refund it is about has not failed.
Stands(r) ==
  row[r].provider # None /\ gw[row[r].provider] # "failed" => row[r].status \in {"PENDING", "PROCESSED"}

Books ==
  /\ \A c \in Calls : CallRow(c)
  /\ \A g \in Gids : HookMade(g)
  /\ \A h \in Hooks : HookRow(h)
  /\ \A r \in RowIds : Stands(r)

LEMMA BooksInit == ASSUME RefundAssumption, Init PROVE Books
<1>1. \A r \in RowIds : row[r].status = "none" /\ row[r].provider = None
  BY DEF Init, NoRow
<1>2. \A h \in Hooks : pc[h] = "none"
  BY Constants DEF Init
<1>3. \A c \in Calls : CallRow(c)
  <2>1. \A c \in Calls : pc[c] = "idle"
    BY Constants DEF Init
  <2> QED
    BY <1>1, <2>1, Constants DEF CallRow
<1>4. \A g \in Gids : HookMade(g)
  BY <1>1, Constants DEF HookMade
<1>5. \A h \in Hooks : HookRow(h)
  BY <1>2 DEF HookRow
<1> QED
  BY <1>1, <1>3, <1>4, <1>5 DEF Books, Stands

\* One process moves and writes at most one row, whose refund id, once known,
\* stays.
LEMMA BooksKept ==
  ASSUME RefundAssumption, TypeInv, Books, NEW p \in Procs, NEW r \in RowIds,
         gw' = gw,
         \A s \in RowIds : s # r => row'[s] = row[s],
         row[r].provider \in {None, row'[r].provider},
         \A q \in Procs : q # p => pc'[q] = pc[q] /\ loc'[q] = loc[q],
         p \in Calls => CallRow(p)',
         p \in Hooks => HookRow(p)',
         r \in Calls \ {p} => CallRow(r)',
         r \in Gids => HookMade(r)',
         Stands(r)'
  PROVE  Books'
<1>1. \A c \in Calls : CallRow(c)'
  <2> TAKE c \in Calls
  <2>1. CASE c # p /\ c # r
    <3>1. row'[c] = row[c] /\ pc'[c] = pc[c] /\ CallRow(c)
      BY <2>1, Constants DEF Books
    <3> QED
      BY <3>1 DEF CallRow
  <2> QED
    BY <2>1
<1>2. \A g \in Gids : HookMade(g)'
  <2> TAKE g \in Gids
  <2>1. CASE g # r
    <3>1. row'[g] = row[g] /\ HookMade(g)
      BY <2>1, Constants DEF Books
    <3> QED
      BY <3>1 DEF HookMade
  <2> QED
    BY <2>1
<1>3. \A s \in RowIds : row[s].provider # None => row'[s].provider = row[s].provider
  OBVIOUS
<1>4. \A h \in Hooks : HookRow(h)'
  <2> TAKE h \in Hooks
  <2>1. CASE h # p
    <3>1. pc'[h] = pc[h] /\ loc'[h] = loc[h] /\ HookRow(h) /\ h[1] # None
      BY <2>1, Constants DEF Books
    <3>2. pc[h] \in {"apply", "sum", "write", "fail"} => loc[h].row \in RowIds
      BY <3>1, Constants DEF HookRow, TypeInv, Named, Holding
    <3> QED
      BY <1>3, <3>1, <3>2 DEF HookRow
  <2> QED
    BY <2>1
<1>5. \A s \in RowIds : Stands(s)'
  <2> TAKE s \in RowIds
  <2>1. CASE s # r
    <3>1. row'[s] = row[s] /\ Stands(s)
      BY <2>1 DEF Books
    <3> QED
      BY <3>1 DEF Stands
  <2> QED
    BY <2>1
<1> QED
  BY <1>1, <1>2, <1>4, <1>5 DEF Books

\* One process moves and no row is written.
LEMMA BooksSame ==
  ASSUME RefundAssumption, TypeInv, Books, NEW p \in Procs, gw' = gw, row' = row,
         \A q \in Procs : q # p => pc'[q] = pc[q] /\ loc'[q] = loc[q],
         p \in Calls => CallRow(p)',
         p \in Hooks => HookRow(p)'
  PROVE  Books'
<1>1. \A c \in Calls : CallRow(c)'
  BY Constants DEF Books, CallRow
<1>2. (\A g \in Gids : HookMade(g)') /\ \A s \in RowIds : Stands(s)'
  BY DEF Books, HookMade, Stands
<1>3. \A h \in Hooks : HookRow(h)'
  BY Constants DEF Books, HookRow
<1> QED
  BY <1>1, <1>2, <1>3 DEF Books

\* A refund reaches a state at the gateway, and its webhook may be sent.
LEMMA BooksGateway ==
  ASSUME RefundAssumption, TypeInv, Books, NEW g \in Gids,
         NEW status \in GatewayStatus \ {"none"},
         gw' = [gw EXCEPT ![g] = status], row' = row, gw[g] # "failed" \/ status = "failed",
         \A h \in Hooks : loc'[h] = loc[h],
         \A h \in Hooks : \/ pc'[h] = pc[h]
                          \/ h[1] = g /\ h[2] = status /\ pc'[h] = "sent",
         (\A c \in Calls : CallRow(c))'
  PROVE  Books'
<1>1. \A c \in Calls : CallRow(c)'
  OBVIOUS
<1>2. \A h \in Hooks : HookMade(h[1])' /\ HookRow(h)'
  <2> TAKE h \in Hooks
  <2>1. HookRow(h) /\ h[1] \in Gids /\ HookMade(h[1])
    BY Constants DEF Books
  <2>2. gw[h[1]] = "failed" => gw'[h[1]] = "failed"
    BY <2>1 DEF TypeInv, TypeOK
  <2>3. h[1] = g /\ h[2] = "failed" /\ pc'[h] = "sent" /\ h[2] = status => gw'[h[1]] = "failed"
    BY <2>1 DEF TypeInv, TypeOK
  <2> QED
    BY <2>1, <2>2, <2>3 DEF HookRow, HookMade
<1>3. \A r \in RowIds : Stands(r)'
  <2> TAKE r \in RowIds
  <2>1. Stands(r) /\ row[r].provider \in Gids \cup {None}
    BY RowTyped DEF Books, TypeInv
  <2>2. \A k \in Gids : gw[k] = "failed" => gw'[k] = "failed"
    BY DEF TypeInv, TypeOK
  <2> QED
    BY <2>1, <2>2 DEF Stands
<1>4. \A k \in Gids : HookMade(k)'
  BY DEF Books, HookMade
<1> QED
  BY <1>1, <1>2, <1>3, <1>4 DEF Books

LEMMA Emitted ==
  ASSUME NEW g \in Gids, NEW status
  PROVE  \A q \in Emit(g, status) : q \in Hooks /\ q[1] = g /\ q[2] = status
BY DEF Emit, Hooks

LEMMA BooksMoving ==
  ASSUME RefundAssumption, TypeInv, Books, GatewayNext
  PROVE  Books'
<1> PICK g \in Gids, status \in GatewayStatus \ {"none"} : Moving(g, status) /\ gw[g] # "failed"
  BY GatewayMoves
<1>1. /\ gw' = [gw EXCEPT ![g] = status] /\ row' = row /\ loc' = loc
      /\ \A q \in Procs : pc'[q] = IF q \in Emit(g, status) THEN "sent" ELSE pc[q]
  BY DEF Moving, bookVars, TypeInv, TypeOK
<1>2. \A q \in Emit(g, status) : q \in Hooks /\ q[1] = g /\ q[2] = status
  BY Emitted
<1>3. \A h \in Hooks : pc'[h] = pc[h] \/ (h[1] = g /\ h[2] = status /\ pc'[h] = "sent")
  BY <1>1, <1>2, Constants
<1>4. (\A c \in Calls : CallRow(c))'
  <2>1. \A c \in Calls : pc'[c] = pc[c]
    BY <1>1, <1>2, Constants
  <2> QED
    BY <1>1, <2>1 DEF Books, CallRow
<1> QED
  BY <1>1, <1>3, <1>4, BooksGateway

LEMMA BooksSend ==
  ASSUME RefundAssumption, TypeInv, Books, NEW c \in Calls,
         NEW status \in GatewayStatus \ {"none"}, NEW lost \in BOOLEAN, Send(c, status, lost)
  PROVE  Books'
<1> PICK k \in Gids : k = loc[c].key
  BY Constants DEF Send, At, TypeInv, Named
<1>1. /\ gw' = [gw EXCEPT ![k] = status] /\ row' = row
      /\ gw[k] # "none" => status = gw[k]
      /\ pc[c] = "send" /\ loc' = [loc EXCEPT ![c].answer = IF lost THEN "none" ELSE status]
  BY DEF Send, At, bookVars
<1>p. pc' = [p \in Procs |->
           CASE p = c -> IF lost THEN "catch" ELSE "store"
             [] gw[k] = "none" /\ p \in Emit(k, status) -> "sent"
             [] OTHER -> pc[p]]
  BY DEF Send
<1>2. \A q \in Emit(k, status) : q \in Hooks /\ q[1] = k /\ q[2] = status
  BY Emitted, Constants
<1>3. c \in Procs /\ c \notin Hooks /\ Hooks \subseteq Procs /\ Calls \subseteq Procs
  BY Constants
<1>4. pc'[c] \in {"catch", "store"}
  <2>1. c \notin Emit(k, status)
    BY <1>2, <1>3
  <2>2. pc'[c] = IF lost THEN "catch" ELSE "store"
    BY <1>p, <1>3, <2>1
  <2> QED
    BY <2>2
<1>5. \A q \in Procs : q # c => pc'[q] = pc[q] \/ (q \in Emit(k, status) /\ pc'[q] = "sent")
  BY <1>p
<1>6. \A h \in Hooks : pc'[h] = pc[h] \/ (h[1] = k /\ h[2] = status /\ pc'[h] = "sent")
  BY <1>2, <1>3, <1>5
<1>7. \A h \in Hooks : loc'[h] = loc[h]
  BY <1>1, <1>3 DEF TypeInv, TypeOK
<1>8. CallRow(c)'
  BY <1>1, <1>4 DEF Books, CallRow
<1>9. (\A d \in Calls : CallRow(d))'
  <2> SUFFICES ASSUME NEW d \in Calls PROVE CallRow(d)'
    OBVIOUS
  <2>1. CASE d = c
    BY <1>8, <2>1
  <2>2. CASE d # c
    <3>1. pc'[d] = pc[d] /\ row'[d] = row[d] /\ CallRow(d)
      BY <1>1, <1>2, <1>3, <1>5, <2>2, Constants DEF Books
    <3> QED
      BY <3>1 DEF CallRow
  <2> QED
    BY <2>1, <2>2
<1>10. gw[k] # "failed" \/ status = "failed"
  BY <1>1
<1>11. gw' = [gw EXCEPT ![k] = status] /\ row' = row
  BY <1>1
<1> QED
  BY ONLY RefundAssumption, TypeInv, Books, <1>3, <1>6, <1>7, <1>9, <1>10, <1>11, BooksGateway

LEMMA BooksCall ==
  ASSUME RefundAssumption, TypeInv, Books, NEW c \in Calls, CallNext(c)
  PROVE  Books'
<1>c. c \in Procs /\ c \in RowIds /\ c \notin Hooks /\ c \notin Gids /\ TypeOK
  BY Constants DEF TypeInv
<1>r. CallRow(c) /\ row \in [RowIds -> RefundRow]
  BY DEF Books, TypeInv, TypeOK
<1>g. ASSUME NEW step \in Steps, Go(c, step)
      PROVE  pc'[c] = step /\ \A q \in Procs : q # c => pc'[q] = pc[q]
  BY <1>c, <1>g, GoTyped
<1>e. ASSUME NEW step \in Steps, End(c, step)
      PROVE  pc'[c] = step /\ \A q \in Procs : q # c => pc'[q] = pc[q] /\ loc'[q] = loc[q]
  BY <1>c, <1>e, <1>g, EndTyped
<1>l. ASSUME NEW x, loc' = [loc EXCEPT ![c] = x]
      PROVE  \A q \in Procs : q # c => loc'[q] = loc[q]
  BY <1>l DEF TypeInv, TypeOK
\* The call moves, no row is written.
<1>s. ASSUME row' = row, gw' = gw, CallRow(c)',
             \A q \in Procs : q # c => pc'[q] = pc[q] /\ loc'[q] = loc[q]
      PROVE  Books'
  BY <1>c, <1>s, BooksSame
\* The call writes its own row.
<1>w. ASSUME NEW x \in RefundRow, row' = [row EXCEPT ![c] = x], gw' = gw, CallRow(c)',
             row[c].provider = None,
             x.provider # None => x.status = "PENDING",
             \A q \in Procs : q # c => pc'[q] = pc[q] /\ loc'[q] = loc[q]
      PROVE  Books'
  <2>1. row'[c] = x /\ \A s \in RowIds : s # c => row'[s] = row[s]
    BY <1>c, <1>r, <1>w
  <2>2. Stands(c)'
    BY <1>w, <2>1 DEF Stands
  <2> QED
    BY <1>c, <1>w, <2>1, <2>2, BooksKept
<1>1. CASE \E amount \in 1..Amount : Ask(c, amount)
  <2>1. row' = row /\ gw' = gw /\ pc[c] = "idle" /\ Go(c, "insert") /\ (\E x : loc' = [loc EXCEPT ![c] = x])
    BY <1>1 DEF Ask, At, bookVars
  <2>2. CallRow(c)'
    BY <1>r, <1>g, <2>1, StepNames DEF CallRow
  <2> QED
    BY <1>g, <1>l, <1>s, <2>1, <2>2, StepNames
<1>2. CASE Insert(c)
  <2> DEFINE x == [status |-> "PENDING", amount |-> loc[c].key[2], key |-> loc[c].key, provider |-> None]
  <2>1. pc[c] = "insert" /\ row' = [row EXCEPT ![c] = x] /\ gw' = gw
    BY <1>2 DEF Insert, At
  <2>2. x \in RefundRow /\ x.provider = None /\ x.status = "PENDING"
    <3> PICK k \in Keys : k = loc[c].key
      BY <2>1 DEF TypeInv, Named
    <3>1. k[2] \in 0..Amount
      BY RefundAssumption DEF Keys
    <3> QED
      BY <3>1 DEF RefundRow, RowStatus
  <2> HIDE DEF x
  <2>3. (Go(c, "apply") /\ loc' = [loc EXCEPT ![c].answer = "processed"]) \/ (Go(c, "send") /\ loc' = loc)
    BY <1>2 DEF Insert
  <2>4. /\ pc'[c] \in {"apply", "send"}
        /\ \A q \in Procs : q # c => pc'[q] = pc[q] /\ loc'[q] = loc[q]
    BY <1>g, <2>3, StepNames DEF TypeInv, TypeOK
  <2>5. CallRow(c)'
    BY <1>c, <1>r, <2>1, <2>2, <2>4 DEF CallRow
  <2>6. row[c].provider = None
    BY <1>r, <2>1 DEF CallRow
  <2> QED
    BY <1>w, <2>1, <2>2, <2>4, <2>5, <2>6
<1>3. CASE InsertRefused(c)
  <2>1. row' = row /\ gw' = gw /\ End(c, "refused")
    BY <1>3 DEF InsertRefused, bookVars
  <2>2. CallRow(c)'
    BY <1>e, <2>1, StepNames DEF CallRow
  <2> QED
    BY <1>e, <1>s, <2>1, <2>2, StepNames
<1>4. CASE SendFails(c) \/ StoreRefused(c)
  <2>1. row' = row /\ gw' = gw /\ loc' = loc /\ Go(c, "catch") /\ pc[c] \in {"send", "store"}
    BY <1>4 DEF SendFails, StoreRefused, At, bookVars
  <2>2. CallRow(c)'
    BY <1>r, <1>g, <2>1, StepNames DEF CallRow
  <2> QED
    BY <1>g, <1>s, <2>1, <2>2, StepNames
<1>5. CASE \E status \in GatewayStatus \ {"none"}, lost \in BOOLEAN : Send(c, status, lost)
  BY <1>5, BooksSend
<1>6. CASE Store(c)
  <2> PICK g \in Gids : g = loc[c].key
    BY <1>6, Constants DEF Store, At, TypeInv, Named
  <2> DEFINE x == [row[c] EXCEPT !.provider = g]
  <2>1. pc[c] = "store" /\ row' = [row EXCEPT ![c] = x] /\ gw' = gw /\ loc' = loc
    BY <1>6 DEF Store, At
  <2>2. x \in RefundRow /\ x.status = row[c].status
    BY <1>c, <1>r DEF RefundRow
  <2> HIDE DEF x
  <2>3. Go(c, "close") \/ Go(c, "apply")
    BY <1>6 DEF Store
  <2>4. pc'[c] \in {"close", "apply"} /\ \A q \in Procs : q # c => pc'[q] = pc[q] /\ loc'[q] = loc[q]
    BY <1>g, <2>1, <2>3, StepNames
  <2>5. CallRow(c)'
    BY <2>4 DEF CallRow
  <2>6. row[c].provider = None /\ row[c].status = "PENDING"
    BY <1>r, <2>1 DEF CallRow
  <2> QED
    BY <1>w, <2>1, <2>2, <2>4, <2>5, <2>6
<1>7. CASE Catch(c)
  <2> DEFINE x == [row[c] EXCEPT !.status = "FAILED"]
  <2>1. pc[c] = "catch" /\ row' = [row EXCEPT ![c] = x] /\ gw' = gw /\ End(c, "done")
    BY <1>7 DEF Catch, At
  <2>2. x \in RefundRow /\ x.provider = row[c].provider
    BY <1>c, <1>r DEF RefundRow, RowStatus
  <2> HIDE DEF x
  <2>3. CallRow(c)'
    BY <1>e, <2>1, StepNames DEF CallRow
  <2>4. row[c].provider = None
    BY <1>r, <2>1 DEF CallRow
  <2> QED
    BY <1>w, <1>e, <2>1, <2>2, <2>3, <2>4, StepNames
<1>8. CASE Close(c) \/ Abort(c)
  <2>1. row' = row /\ gw' = gw /\ (End(c, "done") \/ End(c, "dead"))
    BY <1>8 DEF Close, Abort, bookVars
  <2>2. CallRow(c)'
    BY <1>e, <2>1, StepNames DEF CallRow
  <2> QED
    BY <1>e, <1>s, <2>1, <2>2, StepNames
<1> QED
  BY <1>1, <1>2, <1>3, <1>4, <1>5, <1>6, <1>7, <1>8 DEF CallNext

LEMMA BooksApply ==
  ASSUME RefundAssumption, TypeInv, Books, NEW p \in Procs, ApplyNext(p)
  PROVE  Books'
<1>o. TypeOK /\ row \in [RowIds -> RefundRow] /\ Calls \cap Hooks = {} /\ Procs = Calls \cup Hooks
  BY Constants DEF TypeInv, TypeOK, Procs
<1>h. p \in Hooks => HookRow(p) /\ p[1] \in Gids /\ p[1] # None
  BY Constants DEF Books
\* Where applyRefund ends.
<1>a. ASSUME pc[p] \in {"sum", "write"}, AfterApply(p)
      PROVE  /\ \A q \in Procs : q # p => pc'[q] = pc[q] /\ loc'[q] = loc[q]
             /\ p \in Calls => pc'[p] = "close"
             /\ p \in Hooks => pc'[p] = "done"
  <2>1. CASE p \in Calls
    BY <1>a, <1>o, <2>1, GoTyped, StepNames DEF AfterApply
  <2>2. CASE p \notin Calls
    BY <1>a, <1>o, <2>2, GoTyped, EndTyped, StepNames DEF AfterApply
  <2> QED
    BY <2>1, <2>2
<1>1. CASE ApplyRead(p) \/ ApplySum(p)
  <2>1. row' = row /\ gw' = gw /\ pc[p] \in {"apply", "sum"} /\ (Go(p, "sum") \/ Go(p, "write"))
    BY <1>1 DEF ApplyRead, ApplySum, At, bookVars
  <2>2. pc'[p] \in {"sum", "write"} /\ \A q \in Procs : q # p => pc'[q] = pc[q]
    BY <1>o, <2>1, GoTyped, StepNames
  <2>3. loc'[p].row = loc[p].row /\ \A q \in Procs : q # p => loc'[q] = loc[q]
    BY <1>1 DEF ApplyRead, ApplySum, TypeInv, TypeOK, Local
  <2>4. p \in Calls => CallRow(p)'
    BY <2>2 DEF CallRow
  <2>5. p \in Hooks => HookRow(p)'
    BY <1>h, <2>1, <2>2, <2>3 DEF HookRow
  <2> QED
    BY <2>1, <2>2, <2>3, <2>4, <2>5, BooksSame
<1>2. CASE AlreadySettled(p)
  <2>1. row' = row /\ gw' = gw /\ pc[p] = "sum" /\ AfterApply(p)
    BY <1>2 DEF AlreadySettled, At, bookVars
  <2>2. p \in Calls => CallRow(p)'
    BY <1>a, <2>1 DEF CallRow
  <2>3. p \in Hooks => HookRow(p)'
    <3>1. loc[p].row \in RowIds
      BY <2>1 DEF TypeInv, Named, Holding
    <3> QED
      BY <1>a, <1>h, <2>1, <3>1 DEF HookRow
  <2> QED
    BY <1>a, <2>1, <2>2, <2>3, BooksSame
<1>3. CASE ApplyWrite(p)
  <2>1. gw' = gw /\ pc[p] = "write" /\ AfterApply(p) /\ loc[p].row \in RowIds
    BY <1>3 DEF ApplyWrite, At, TypeInv, Named, Holding
  <2> PICK r \in RowIds : r = loc[p].row
    BY <2>1
  <2>2. /\ row'[r].provider = row[r].provider
        /\ row'[r] = row[r] \/ (row[r].status = "PENDING" /\ row'[r].status = "PROCESSED")
        /\ \A s \in RowIds : s # r => row'[s] = row[s]
    BY <1>3, <1>o DEF ApplyWrite, Moves, RefundRow
  <2>3. p \in Calls => CallRow(p)'
    BY <1>a, <2>1 DEF CallRow
  <2>4. p \in Hooks => HookRow(p)' /\ row[r].provider # None
    BY <1>a, <1>h, <2>1, <2>2 DEF HookRow
  <2>5. ASSUME r \in Calls \ {p} PROVE CallRow(r)'
    <3>1. p \in Hooks
      BY <1>o, <2>1, <2>5 DEF TypeInv, Named, Holding
    <3>2. pc'[r] = pc[r] /\ CallRow(r)
      BY <1>a, <1>o, <2>1, <2>5 DEF Books
    <3> QED
      BY <2>4, <3>1, <3>2 DEF CallRow
  <2>6. ASSUME r \in Gids PROVE HookMade(r)'
    BY <2>2, <2>6 DEF Books, HookMade
  <2>7. Stands(r)'
    BY <2>1, <2>2 DEF Books, Stands
  <2> QED
    BY <1>a, <2>1, <2>2, <2>3, <2>4, <2>5, <2>6, <2>7, BooksKept
<1> QED
  BY <1>1, <1>2, <1>3 DEF ApplyNext

LEMMA BooksHook ==
  ASSUME RefundAssumption, TypeInv, Books, NEW h \in Hooks, HookNext(h)
  PROVE  Books'
<1>h. /\ h \in Procs /\ h \notin Calls /\ h[1] \in Gids /\ h[1] # None /\ h[1] \in RowIds
      /\ h[1] \notin Calls /\ h[2] \in {"processed", "failed"} /\ TypeOK
  BY Constants DEF Kinds, TypeInv
<1>r. HookRow(h) /\ row \in [RowIds -> RefundRow]
  BY DEF Books, TypeInv, TypeOK
<1>g. ASSUME NEW step \in Steps, Go(h, step)
      PROVE  pc'[h] = step /\ \A q \in Procs : q # h => pc'[q] = pc[q]
  BY <1>h, <1>g, GoTyped
<1>e. ASSUME NEW step \in Steps, End(h, step)
      PROVE  pc'[h] = step /\ \A q \in Procs : q # h => pc'[q] = pc[q] /\ loc'[q] = loc[q]
  BY <1>h, <1>e, <1>g, EndTyped
<1>l. ASSUME NEW x, loc' = [loc EXCEPT ![h] = x]
      PROVE  loc'[h] = x /\ \A q \in Procs : q # h => loc'[q] = loc[q]
  BY <1>h, <1>l DEF TypeInv, TypeOK
<1>s. ASSUME row' = row, gw' = gw, HookRow(h)',
             \A q \in Procs : q # h => pc'[q] = pc[q] /\ loc'[q] = loc[q]
      PROVE  Books'
  BY <1>h, <1>s, BooksSame
<1>1. CASE HookFind(h)
  <2>0. Known(h) # {} /\ pc[h] = "sent" /\ row' = row /\ gw' = gw
    BY <1>1 DEF HookFind, At, bookVars
  <2> PICK r \in RowIds : r = (CHOOSE x \in Known(h) : TRUE) /\ row[r].provider = h[1]
    BY <2>0 DEF Known
  <2> DEFINE x == Remember(r, None, FALSE, h[2])
  <2>1. loc' = [loc EXCEPT ![h] = x] /\ Go(h, IF h[2] = "processed" THEN "apply" ELSE "fail")
    BY ONLY <1>1, r = (CHOOSE s \in Known(h) : TRUE) DEF HookFind
  <2>2. x.row = r
    BY DEF Remember
  <2> HIDE DEF x
  <2>3. \/ pc'[h] = "apply" /\ h[2] = "processed"
        \/ pc'[h] = "fail" /\ h[2] = "failed"
    <3>1. CASE h[2] = "processed"
      BY <1>g, <2>1, <3>1, StepNames
    <3>2. CASE h[2] = "failed"
      BY <1>g, <2>1, <3>2, StepNames
    <3> QED
      BY <1>h, <3>1, <3>2
  <2>4. \A q \in Procs : q # h => pc'[q] = pc[q]
    BY <2>1 DEF Go, TypeInv, TypeOK
  <2>5. loc'[h].row = r /\ \A q \in Procs : q # h => loc'[q] = loc[q]
    BY <1>l, <2>1, <2>2
  <2>6. HookRow(h)'
    BY <1>r, <2>0, <2>3, <2>5 DEF HookRow
  <2> QED
    BY <1>s, <2>0, <2>4, <2>5, <2>6
<1>2. CASE HookUnknown(h)
  <2>1. row' = row /\ gw' = gw /\ loc' = loc /\ pc[h] = "sent" /\ (Go(h, "create") \/ Go(h, "ignored"))
    BY <1>2 DEF HookUnknown, At, bookVars
  <2>2. pc'[h] \in {"create", "ignored"} /\ \A q \in Procs : q # h => pc'[q] = pc[q]
    BY <1>g, <2>1, StepNames
  <2>3. HookRow(h)'
    BY <1>r, <2>1, <2>2 DEF HookRow
  <2> QED
    BY <1>s, <2>1, <2>2, <2>3
<1>3. CASE HookCreate(h)
  <2> PICK g \in Gids : g = h[1]
    BY <1>h
  <2> DEFINE x == [status |-> "PENDING", amount |-> g[2], key |-> None, provider |-> g]
             y == Remember(g, None, FALSE, "processed")
  <2>1. /\ pc[h] = "create" /\ row' = [row EXCEPT ![g] = x] /\ gw' = gw
        /\ loc' = [loc EXCEPT ![h] = y] /\ Go(h, "apply") /\ ~ProviderTaken(g)
    BY <1>3 DEF HookCreate, At
  <2>2. x.status = "PENDING" /\ x.provider = g /\ y.row = g
    BY DEF Remember
  <2> HIDE DEF x, y
  <2>3. row'[g] = x /\ \A s \in RowIds : s # g => row'[s] = row[s]
    BY <1>h, <1>r, <2>1
  <2>4. row[g].provider = None
    BY <1>h, <2>1 DEF Books, HookMade, ProviderTaken
  <2>5. pc'[h] = "apply" /\ loc'[h] = y /\ \A q \in Procs : q # h => pc'[q] = pc[q] /\ loc'[q] = loc[q]
    BY <1>g, <1>l, <2>1, StepNames
  <2>6. HookRow(h)'
    BY <1>r, <2>1, <2>2, <2>3, <2>5 DEF HookRow
  <2>7. HookMade(g)' /\ Stands(g)'
    BY <2>2, <2>3 DEF HookMade, Stands
  <2>8. g \in RowIds /\ g \notin Calls
    BY <1>h
  <2> QED
    BY ONLY RefundAssumption, TypeInv, Books, <1>h, <2>1, <2>3, <2>4, <2>5, <2>6, <2>7, <2>8, BooksKept
<1>4. CASE HookCreateRefused(h)
  <2>1. row' = row /\ gw' = gw /\ End(h, "done") /\ pc[h] = "create" /\ ProviderTaken(h[1])
    BY <1>4 DEF HookCreateRefused, At, bookVars
  <2>2. HookRow(h)'
    BY <1>e, <1>r, <2>1, StepNames DEF HookRow, ProviderTaken
  <2> QED
    BY <1>e, <1>s, <2>1, <2>2, StepNames
<1>5. CASE HookFail(h)
  <2>1. pc[h] = "fail" /\ gw' = gw /\ loc[h].row \in RowIds /\ h[2] = "failed" /\ gw[h[1]] = "failed"
    BY <1>5, <1>r DEF HookFail, At, HookRow
  <2> PICK r \in RowIds : r = loc[h].row
    BY <2>1
  <2>2. row[r].provider = h[1]
    BY <1>r, <2>1 DEF HookRow
  <2>3. /\ row'[r].provider = row[r].provider
        /\ row'[r] = row[r] \/ (row[r].status # "none" /\ row'[r].status = "FAILED")
        /\ \A s \in RowIds : s # r => row'[s] = row[s]
    BY <1>5, <1>r DEF HookFail, RefundRow
  <2>4. End(h, "done") \/ (Go(h, "failSum") /\ loc' = loc)
    BY <1>5 DEF HookFail
  <2>5. pc'[h] \in {"done", "failSum"} /\ \A q \in Procs : q # h => pc'[q] = pc[q] /\ loc'[q] = loc[q]
    BY <1>e, <1>g, <2>4, StepNames
  <2>6. HookRow(h)'
    BY <2>1, <2>5 DEF HookRow
  <2>7. ASSUME r \in Calls \ {h} PROVE CallRow(r)'
    <3>1. pc'[r] = pc[r] /\ CallRow(r)
      BY <2>5, <2>7, Constants DEF Books
    <3> QED
      BY <1>h, <2>2, <3>1 DEF CallRow
  <2>8. ASSUME r \in Gids PROVE HookMade(r)'
    BY <2>3, <2>8 DEF Books, HookMade
  <2>9. Stands(r)'
    BY <2>1, <2>2, <2>3 DEF Stands
  <2> QED
    BY <1>h, <2>1, <2>3, <2>5, <2>6, <2>7, <2>8, <2>9, BooksKept
<1>6. CASE FailSum(h)
  <2>1. row' = row /\ gw' = gw /\ pc[h] = "failSum" /\ Go(h, "failWrite")
    BY <1>6 DEF FailSum, At, bookVars
  <2>2. \A q \in Procs : q # h => loc'[q] = loc[q]
    BY <1>6 DEF FailSum, TypeInv, TypeOK
  <2>3. HookRow(h)'
    BY <1>g, <1>r, <2>1, StepNames DEF HookRow
  <2> QED
    BY <1>g, <1>s, <2>1, <2>2, <2>3, StepNames
<1>7. CASE FailWrite(h)
  <2>1. row' = row /\ gw' = gw /\ pc[h] = "failWrite" /\ End(h, "done")
    BY <1>7 DEF FailWrite, At
  <2>2. HookRow(h)'
    BY <1>e, <1>r, <2>1, StepNames DEF HookRow
  <2> QED
    BY <1>e, <1>s, <2>1, <2>2, StepNames
<1> QED
  BY <1>1, <1>2, <1>3, <1>4, <1>5, <1>6, <1>7 DEF HookNext

LEMMA BooksStep ==
  ASSUME RefundAssumption, TypeInv, Books, [Next]_vars
  PROVE  Books'
<1>1. CASE UNCHANGED vars
  BY <1>1 DEF vars, bookVars, Books, CallRow, HookMade, HookRow, Stands
<1> QED
  BY <1>1, BooksCall, BooksApply, BooksHook, BooksMoving DEF Next

\* What a step does to a row: it keeps its key and a failure, or makes it.
LEMMA RowsMove ==
  ASSUME RefundAssumption, TypeInv, Books, [Next]_vars, NEW r \in RowIds
  PROVE  \/ /\ row'[r].key = row[r].key /\ row'[r].amount = row[r].amount
            /\ row[r].status = "none" <=> row'[r].status = "none"
            /\ row[r].status = "FAILED" => row'[r].status = "FAILED"
         \/ r \in Calls /\ Insert(r)
         \/ r \in Gids /\ row[r].status = "none"
<1>r. row \in [RowIds -> RefundRow] /\ Calls \subseteq RowIds /\ Gids \subseteq RowIds
  BY Constants DEF TypeInv, TypeOK
<1>1. ASSUME NEW c \in Calls, CallNext(c), r # c \/ ~Insert(c)
      PROVE  /\ row'[r].key = row[r].key /\ row'[r].amount = row[r].amount
             /\ row[r].status = "none" <=> row'[r].status = "none"
             /\ row[r].status = "FAILED" => row'[r].status = "FAILED"
  <2>1. CASE Insert(c) \/ Store(c)
    BY <1>1, <1>r, <2>1 DEF Insert, Store, RefundRow
  <2>2. CASE Catch(c)
    <3>1. row[c].status = "PENDING"
      BY <2>2 DEF Catch, At, Books, CallRow
    <3> QED
      BY <1>r, <2>2, <3>1 DEF Catch, RefundRow
  <2>3. CASE \E status \in GatewayStatus \ {"none"}, lost \in BOOLEAN : Send(c, status, lost)
    BY <2>3 DEF Send, bookVars
  <2> QED
    BY <1>1, <2>1, <2>2, <2>3
       DEF CallNext, Ask, InsertRefused, SendFails, StoreRefused, Close, Abort, bookVars
<1>2. ASSUME NEW p \in Procs, ApplyNext(p)
      PROVE  /\ row'[r].key = row[r].key /\ row'[r].amount = row[r].amount
             /\ row[r].status = "none" <=> row'[r].status = "none"
             /\ row[r].status = "FAILED" => row'[r].status = "FAILED"
  BY <1>2, <1>r DEF ApplyNext, ApplyRead, ApplySum, AlreadySettled, ApplyWrite, Moves, bookVars, RefundRow
<1>3. ASSUME NEW h \in Hooks, HookNext(h), ~HookCreate(h)
      PROVE  /\ row'[r].key = row[r].key /\ row'[r].amount = row[r].amount
             /\ row[r].status = "none" <=> row'[r].status = "none"
             /\ row[r].status = "FAILED" => row'[r].status = "FAILED"
  <2>1. CASE HookFail(h)
    <3>1. \/ row' = row
          \/ /\ row' = [row EXCEPT ![loc[h].row].status = "FAILED"]
             /\ row[loc[h].row].status \in {"PENDING", "PROCESSED"}
      BY <2>1 DEF HookFail
    <3> QED
      BY <1>r, <3>1 DEF RefundRow
  <2>2. CASE ~HookFail(h)
    BY <1>3, <2>2 DEF HookNext, HookFind, HookUnknown, HookCreateRefused, FailSum, FailWrite, bookVars
  <2> QED
    BY <2>1, <2>2
<1>4. ASSUME NEW h \in Hooks, HookCreate(h)
      PROVE  (r = h[1] /\ r \in Gids /\ row[r].status = "none") \/ row'[r] = row[r]
  <2> PICK g \in Gids : g = h[1]
    BY Constants
  <2>1. row[g].status = "none"
    BY <1>4, <1>r DEF HookCreate, ProviderTaken, Books, HookMade
  <2> QED
    BY <1>4, <1>r, <2>1 DEF HookCreate
<1>5. CASE GatewayNext \/ UNCHANGED vars
  <2>1. row' = row
    BY <1>5 DEF GatewayNext, GatewayMove, DashboardRefund, Moving, bookVars, vars
  <2> QED
    BY <2>1
<1> QED
  BY <1>1, <1>2, <1>3, <1>4, <1>5 DEF Next

LEMMA FailedStep ==
  ASSUME RefundAssumption, TypeInv, Books, [Next]_vars
  PROVE  \A r \in RowIds : row[r].status = "FAILED" => row'[r].status = "FAILED"
<1> TAKE r \in RowIds
<1> HAVE row[r].status = "FAILED"
<1>1. ~(r \in Calls /\ Insert(r))
  BY DEF Insert, At, Books, CallRow
<1> QED
  BY <1>1, RowsMove

\* The key a call holds is the one it held, or one that fits.
LEMMA KeysHeld ==
  ASSUME RefundAssumption, TypeInv, [Next]_vars, NEW c \in Calls,
         pc'[c] \in {"insert", "send", "store"}
  PROVE  \/ loc'[c].key \in Fitting /\ pc'[c] = "insert"
         \/ /\ pc[c] \in {"insert", "send", "store"} /\ loc'[c].key = loc[c].key
            /\ pc'[c] \in {"send", "store"} => pc[c] \in {"send", "store"} \/ Insert(c)
<1>o. TypeOK /\ c \in Procs /\ c \notin Hooks
  BY Constants DEF TypeInv
<1>m. \A p \in Procs, step \in Steps : Go(p, step) => pc'[p] = step /\ \A q \in Procs : q # p => pc'[q] = pc[q]
  BY <1>o, GoTyped
<1>e. \A p \in Procs, step \in Steps : End(p, step) =>
        pc'[p] = step /\ \A q \in Procs : q # p => pc'[q] = pc[q] /\ loc'[q] = loc[q]
  BY <1>o, <1>m, EndTyped
<1>l. \A p \in Procs : \A x : loc' = [loc EXCEPT ![p] = x] => \A q \in Procs : q # p => loc'[q] = loc[q]
  BY <1>o DEF TypeOK
<1>1. ASSUME NEW d \in Calls, CallNext(d), d # c PROVE pc'[c] \in {pc[c], "sent"} /\ loc'[c] = loc[c]
  <2>0. d \in Procs
    BY Constants
  <2>1. CASE \E status \in GatewayStatus \ {"none"}, lost \in BOOLEAN : Send(d, status, lost)
    <3> PICK s \in GatewayStatus \ {"none"}, b \in BOOLEAN : Send(d, s, b)
      BY <2>1
    <3>1. pc' = [p \in Procs |->
             CASE p = d -> IF b THEN "catch" ELSE "store"
               [] gw[loc[d].key] = "none" /\ p \in Emit(loc[d].key, s) -> "sent"
               [] OTHER -> pc[p]]
      BY DEF Send
    <3>2. pc'[c] = pc[c] \/ pc'[c] = "sent"
      BY <1>1, <1>o, <3>1
    <3>3. loc' = [loc EXCEPT ![d].answer = IF b THEN "none" ELSE s]
      BY DEF Send
    <3>4. loc'[c] = loc[c]
      BY <1>1, <1>o, <3>3 DEF TypeOK
    <3> QED
      BY <3>2, <3>4
  <2>2. CASE \E amount \in 1..Amount : Ask(d, amount)
    BY <1>1, <1>m, <1>l, <1>o, <2>0, <2>2, StepNames DEF Ask
  <2>3. CASE Insert(d)
    BY <1>1, <1>m, <1>o, <2>0, <2>3, StepNames DEF Insert, TypeOK
  <2>4. CASE SendFails(d) \/ StoreRefused(d) \/ Store(d)
    BY <1>1, <1>m, <1>o, <2>0, <2>4, StepNames DEF SendFails, StoreRefused, Store
  <2>5. CASE InsertRefused(d) \/ Catch(d) \/ Close(d) \/ Abort(d)
    BY <1>1, <1>e, <1>o, <2>0, <2>5, StepNames DEF InsertRefused, Catch, Close, Abort
  <2> QED
    BY <1>1, <2>1, <2>2, <2>3, <2>4, <2>5 DEF CallNext
<1>2. ASSUME CallNext(c)
      PROVE  \/ loc'[c].key \in Fitting /\ pc'[c] = "insert"
             \/ /\ pc[c] \in {"insert", "send", "store"} /\ loc'[c].key = loc[c].key
                /\ pc'[c] \in {"send", "store"} => pc[c] \in {"send", "store"} \/ Insert(c)
  <2>1. CASE \E amount \in 1..Amount : Ask(c, amount)
    <3> PICK a \in 1..Amount : Ask(c, a)
      BY <2>1
    <3> PICK k \in Fitting : k = <<Sequence, a>>
      BY AskFits
    <3> DEFINE f == a = Refundable /\ Accepted = {} /\ refunded = 0
    <3>1. loc' = [loc EXCEPT ![c] = Remember(c, k, f, "none")] /\ Go(c, "insert")
      BY DEF Ask
    <3> HIDE DEF f
    <3>2. pc'[c] = "insert"
      BY <1>m, <1>o, <3>1, StepNames
    <3> QED
      BY <1>o, <3>1, <3>2 DEF Remember, TypeOK
  <2>2. CASE Insert(c)
    BY <1>o, <2>2 DEF Insert, At, TypeOK, Local
  <2>3. CASE \E s \in GatewayStatus \ {"none"}, b \in BOOLEAN : Send(c, s, b)
    <3> PICK s \in GatewayStatus \ {"none"}, b \in BOOLEAN : Send(c, s, b)
      BY <2>3
    <3>1. pc[c] = "send" /\ loc' = [loc EXCEPT ![c].answer = IF b THEN "none" ELSE s]
      BY DEF Send, At
    <3>2. loc[c] \in Local
      BY <1>o DEF TypeOK
    <3> QED
      BY ONLY <1>o, <3>1, <3>2 DEF TypeOK, Local
  <2>4. CASE SendFails(c) \/ StoreRefused(c) \/ Store(c)
    BY <1>m, <1>o, <2>4, StepNames DEF SendFails, StoreRefused, Store
  <2>5. CASE InsertRefused(c) \/ Catch(c) \/ Close(c) \/ Abort(c)
    BY <1>e, <1>o, <2>5, StepNames DEF InsertRefused, Catch, Close, Abort
  <2> QED
    BY <1>2, <2>1, <2>2, <2>3, <2>4, <2>5 DEF CallNext
<1>3. ASSUME NEW p \in Procs, ApplyNext(p) PROVE p # c /\ pc'[c] = pc[c] /\ loc'[c] = loc[c]
  <2>a. AfterApply(p) =>
          /\ \A q \in Procs : q # p => pc'[q] = pc[q] /\ loc'[q] = loc[q]
          /\ pc'[p] \in {"close", "done"}
    <3>1. CASE p \in Calls
      BY <1>m, <3>1, StepNames DEF AfterApply
    <3>2. CASE p \notin Calls
      BY <1>e, <3>2, StepNames DEF AfterApply
    <3> QED
      BY <3>1, <3>2
  <2>1. /\ \A q \in Procs : q # p => pc'[q] = pc[q] /\ loc'[q] = loc[q]
        /\ pc'[p] \in {"sum", "write", "close", "done"}
    <3>1. CASE ApplyRead(p)
      BY <1>m, <1>o, <3>1, StepNames DEF ApplyRead, TypeOK
    <3>2. CASE ApplySum(p)
      BY <1>m, <1>o, <3>2, StepNames DEF ApplySum, TypeOK
    <3>3. CASE AlreadySettled(p) \/ ApplyWrite(p)
      BY <2>a, <3>3 DEF AlreadySettled, ApplyWrite
    <3> QED
      BY <1>3, <3>1, <3>2, <3>3 DEF ApplyNext
  <2> QED
    BY <1>o, <2>1
<1>4. ASSUME NEW h \in Hooks, HookNext(h) PROVE pc'[c] = pc[c] /\ loc'[c] = loc[c]
  <2>0. h \in Procs /\ h # c
    BY <1>o, Constants
  <2>1. CASE HookFind(h)
    <3>1. /\ \E step \in Steps : Go(h, step)
          /\ \E x : loc' = [loc EXCEPT ![h] = x]
      BY <2>1, StepNames DEF HookFind
    <3> QED
      BY <1>m, <1>l, <1>o, <2>0, <3>1
  <2>2. CASE HookUnknown(h)
    BY <1>m, <1>o, <2>0, <2>2, StepNames DEF HookUnknown
  <2>3. CASE HookCreate(h)
    BY <1>m, <1>l, <1>o, <2>0, <2>3, StepNames DEF HookCreate
  <2>4. CASE HookFail(h)
    BY <1>m, <1>e, <1>o, <2>0, <2>4, StepNames DEF HookFail
  <2>5. CASE FailSum(h)
    BY <1>m, <1>o, <2>0, <2>5, StepNames DEF FailSum, TypeOK
  <2>6. CASE HookCreateRefused(h) \/ FailWrite(h)
    BY <1>e, <1>o, <2>0, <2>6, StepNames DEF HookCreateRefused, FailWrite
  <2> QED
    BY <1>4, <2>1, <2>2, <2>3, <2>4, <2>5, <2>6 DEF HookNext
<1>5. CASE GatewayNext
  <2>1. loc' = loc /\ \A q \in Procs : pc'[q] \in {pc[q], "sent"}
    BY <1>5, GatewayMoves DEF Moving
  <2> QED
    BY <1>o, <2>1
<1>6. CASE UNCHANGED vars
  BY <1>6 DEF vars
<1> QED
  <2>1. ASSUME NEW d \in Calls, CallNext(d)
        PROVE  \/ loc'[c].key \in Fitting /\ pc'[c] = "insert"
               \/ /\ pc[c] \in {"insert", "send", "store"} /\ loc'[c].key = loc[c].key
                  /\ pc'[c] \in {"send", "store"} => pc[c] \in {"send", "store"} \/ Insert(c)
    BY <1>1, <1>2, <2>1
  <2> QED
    BY <1>3, <1>4, <1>5, <1>6, <2>1 DEF Next

\* The keys the gateway has seen were held by a call before.
LEMMA KeysSent ==
  ASSUME RefundAssumption, TypeInv, [Next]_vars, NEW k \in Keys, gw'[k] # "none"
  PROVE  gw[k] # "none" \/ \E c \in Calls : pc[c] = "send" /\ loc[c].key = k
<1> DEFINE Seen == gw[k] # "none" \/ \E c \in Calls : pc[c] = "send" /\ loc[c].key = k
<1>1. CASE gw'[k] = gw[k]
  BY <1>1
<1>2. ASSUME NEW c \in Calls, NEW status \in GatewayStatus \ {"none"}, NEW lost \in BOOLEAN,
             Send(c, status, lost)
      PROVE  Seen
  <2>1. pc[c] = "send" /\ gw' = [gw EXCEPT ![loc[c].key] = status]
    BY <1>2 DEF Send, At
  <2>2. gw \in [Gids -> GatewayStatus] /\ k \in Gids
    BY Constants DEF TypeInv, TypeOK
  <2>3. loc[c].key = k \/ gw'[k] = gw[k]
    BY ONLY <2>1, <2>2
  <2> QED
    BY <1>1, <1>2, <2>1, <2>3
<1>3. CASE GatewayNext
  <2> PICK g \in Gids, status \in GatewayStatus \ {"none"} :
             Moving(g, status) /\ (gw[g] = "none" => g \notin Keys)
    BY <1>3, GatewayMoves
  <2> QED
    BY Constants DEF Moving, TypeInv, TypeOK
<1> QED
  <2>1. ASSUME NEW c \in Calls, CallNext(c) PROVE Seen
    BY <1>1, <1>2, <2>1
       DEF CallNext, Ask, Insert, InsertRefused, SendFails, Store, StoreRefused, Catch, Close, Abort
  <2>2. ASSUME NEW p \in Procs, ApplyNext(p) PROVE Seen
    BY <1>1, <2>2 DEF ApplyNext, ApplyRead, ApplySum, AlreadySettled, ApplyWrite
  <2>3. ASSUME NEW h \in Hooks, HookNext(h) PROVE Seen
    BY <1>1, <2>3
       DEF HookNext, HookFind, HookUnknown, HookCreate, HookCreateRefused, HookFail, FailSum, FailWrite
  <2>4. CASE UNCHANGED vars
    BY <1>1, <2>4 DEF vars
  <2> QED
    BY <1>3, <2>1, <2>2, <2>3, <2>4 DEF Next

LEMMA MethodKept == ASSUME [Next]_vars PROVE method' = method
BY DEF Next, CallNext, Ask, Insert, InsertRefused, Send, SendFails, Store, StoreRefused, Catch, Close, Abort,
       ApplyNext, ApplyRead, ApplySum, AlreadySettled, ApplyWrite,
       HookNext, HookFind, HookUnknown, HookCreate, HookCreateRefused, HookFail, FailSum, FailWrite,
       GatewayNext, GatewayMove, DashboardRefund, Moving, vars

LEMMA KeyInvStep ==
  ASSUME RefundAssumption, TypeInv, Books, KeyInv, [Next]_vars
  PROVE  KeyInv'
<1>0. \A c \in Calls : pc[c] = "insert" => row[c].status = "none"
  BY DEF Books, CallRow
<1>1. \A c \in Calls : pc'[c] \in {"insert", "send", "store"} =>
        \/ loc'[c].key \in Fitting /\ pc'[c] = "insert"
        \/ /\ pc[c] \in {"insert", "send", "store"} /\ loc'[c].key = loc[c].key
           /\ pc'[c] \in {"send", "store"} => pc[c] \in {"send", "store"} \/ Insert(c)
  BY KeysHeld
<1>2. \A k \in Keys : gw'[k] # "none" =>
        gw[k] # "none" \/ \E c \in Calls : pc[c] = "send" /\ loc[c].key = k /\ row[c].status # "none"
  BY KeysSent DEF Books, CallRow
<1>f. Fitting \subseteq Fitting'
  <2>1. \A r \in RowIds : row[r].status # "none" =>
          row'[r].status # "none" /\ row'[r].amount = row[r].amount
    BY <1>0, RowsMove DEF Insert, At
  <2> QED
    BY <2>1, FittingKept
<1>3. CASE \E c \in Calls : Insert(c)
  <2> PICK c \in Calls : Insert(c)
    BY <1>3
  <2> PICK k \in Keys : k = loc[c].key
    BY DEF Insert, At, TypeInv, Named
  <2>1. k \in Used /\ k \in Fitting
    BY DEF Insert, At, Used, KeyInv
  <2>2. /\ row'[c].key = k /\ row'[c].amount = k[2] /\ row'[c].status = "PENDING"
        /\ \A r \in RowIds : row[r].key # k /\ (r # c => row'[r] = row[r])
    BY Constants DEF Insert, KeyTaken, TypeInv, TypeOK
  <2>3. \A d \in Calls : row'[d] = row[d] \/ (d = c /\ row'[d].key = k)
    BY <2>2, Constants
  <2>4. gw' = gw
    BY DEF Insert
  <2>5. Used' \subseteq Used \cup Fitting
    BY <1>1, <2>1, <2>3, <2>4 DEF Used
  <2>6. (Used \subseteq Fitting)'
    BY <1>f, <2>5 DEF KeyInv
  <2>7. row[c].status = "none"
    BY <1>0 DEF Insert, At
  <2>8. \A x \in Keys : gw'[x] # "none" => \E d \in Calls : row'[d].status # "none" /\ row'[d].amount = x[2]
    BY <2>2, <2>4, <2>7, Constants DEF KeyInv
  <2>9. \A d \in Calls : pc'[d] \in {"send", "store"} => row'[d].key = loc'[d].key
    <3> TAKE d \in Calls
    <3>1. CASE d = c
      BY <1>1, <2>2, <3>1
    <3>2. CASE d # c
      <4>1. ~Insert(d) \/ pc'[d] = pc[d]
        BY <3>2, GoTyped, Constants, StepNames DEF Insert, TypeInv
      <4>2. row'[d] = row[d]
        BY <2>3, <3>2
      <4> QED
        BY <1>1, <4>1, <4>2 DEF KeyInv
    <3> QED
      BY <3>1, <3>2
  <2>10. \A d \in Calls : row'[d].status # "none" => row'[d].key \in Keys /\ row'[d].amount = row'[d].key[2]
    BY <2>2, <2>3 DEF KeyInv
  <2>11. \A d, e \in Calls : row'[d].key \in Keys /\ row'[d].key = row'[e].key => d = e
    BY <2>2, <2>3, Constants DEF KeyInv
  <2> QED
    BY <2>6, <2>8, <2>9, <2>10, <2>11 DEF KeyInv
<1>4. CASE ~\E c \in Calls : Insert(c)
  <2>1. \A c \in Calls : /\ row'[c].key = row[c].key /\ row'[c].amount = row[c].amount
                         /\ row'[c].status = "none" <=> row[c].status = "none"
    BY <1>4, RowsMove, Constants
  <2>2. \A c \in Calls : pc'[c] \in {"insert", "send", "store"} =>
          \/ loc'[c].key \in Fitting /\ pc'[c] = "insert"
          \/ pc[c] \in {"insert", "send", "store"} /\ loc'[c].key = loc[c].key
    BY <1>1
  <2>3. \A c \in Calls : pc'[c] \in {"send", "store"} => pc[c] \in {"send", "store"}
    BY <1>1, <1>4
  <2> QED
    BY <1>2, <1>f, <2>1, <2>2, <2>3, KeysKept
<1> QED
  BY <1>3, <1>4

\* As many fitting keys as there are shares in the amount.
LEMMA SharesInAmount ==
  ASSUME NEW a \in Nat, NEW s \in 1..a
  PROVE  /\ (a \div s) \in Nat /\ s * (a \div s) <= a
         /\ \A k \in Nat : s * k <= a => k <= a \div s
         /\ \A k \in Nat : k <= a \div s => s * k <= a
OBVIOUS

LEMMA UpTo == ASSUME NEW m \in Nat PROVE IsFiniteSet(1..m) /\ Cardinality(1..m) = m
BY FS_Interval

LEMMA FittingCount ==
  ASSUME RefundAssumption, NEW a \in 1..Amount, NEW S, S \subseteq Keys,
         \A k \in S : k[2] = a /\ a * k[1] <= Amount
  PROVE  IsFiniteSet(S) /\ a * Cardinality(S) <= Amount
<1> PICK m \in Nat : m = Amount \div a
  BY SharesInAmount, RefundAssumption
<1>1. S \subseteq (1..m) \X {a}
  BY SharesInAmount, RefundAssumption DEF Keys
<1>2. IsFiniteSet(1..m) /\ Cardinality(1..m) = m /\ IsFiniteSet({a}) /\ Cardinality({a}) = 1
  <2>1. IsFiniteSet(1..m) /\ Cardinality(1..m) = m
    BY UpTo
  <2>2. IsFiniteSet({a}) /\ Cardinality({a}) = 1
    BY FS_Singleton
  <2> QED
    BY <2>1, <2>2
<1> DEFINE U == (1..m) \X {a}
<1>3. IsFiniteSet(U) /\ Cardinality(U) = m
  <2>1. IsFiniteSet(U) /\ Cardinality(U) = Cardinality(1..m) * Cardinality({a})
    BY <1>2, FS_Product
  <2> QED
    BY <1>2, <2>1
<1>4. S \in SUBSET U
  BY <1>1
<1> HIDE DEF U
<1>5. IsFiniteSet(S) /\ Cardinality(S) <= Cardinality(U)
  BY <1>3, <1>4, FS_Subset
<1>6. Cardinality(S) \in Nat /\ Cardinality(S) <= m
  BY <1>3, <1>5, FS_CardinalityType
<1> QED
  BY <1>5, <1>6, SharesInAmount, RefundAssumption

LEMMA ReturnedFits ==
  ASSUME RefundAssumption, TypeInv, KeyInv
  PROVE  EqualRefundsFit
<1> SUFFICES ASSUME NEW a \in 1..Amount, OneAmount(a) PROVE a * Cardinality(Returned) <= Amount
  BY DEF EqualRefundsFit
<1>c. Calls \subseteq RowIds
  BY Constants
<1>1. CASE method = "COD"
  <2> DEFINE S == {c \in Calls : row[c].status = "PROCESSED"}
             f == [c \in S |-> row[c].key]
             T == {row[c].key : c \in S}
  <2>1. T \subseteq Keys /\ \A k \in T : k[2] = a /\ a * k[1] <= Amount
    BY <1>c DEF KeyInv, Used, Fitting, OneAmount
  <2>2. IsFiniteSet(T) /\ a * Cardinality(T) <= Amount
    BY <2>1, FittingCount
  <2>3. f \in Bijection(S, T)
    BY DEF KeyInv, Bijection, Injection, Surjection, IsInjective
  <2>4. IsFiniteSet(S)
    BY RefundAssumption, FS_Subset
  <2>5. Cardinality(S) = Cardinality(T)
    <3>1. ExistsBijection(S, T)
      BY <2>3 DEF ExistsBijection
    <3> HIDE DEF S, T, f
    <3> QED
      BY <2>4, <3>1, FS_Bijection
  <2>6. Returned = S
    BY <1>1 DEF Returned
  <2> HIDE DEF S, T, f
  <2> QED
    BY <2>2, <2>5, <2>6
<1>2. CASE method # "COD"
  <2>1. Returned \subseteq Keys /\ \A k \in Returned : gw[k] # "none"
    BY <1>2 DEF Returned
  <2>2. \A k \in Returned : k[2] = a
    BY <1>c, <2>1 DEF KeyInv, OneAmount
  <2>3. \A k \in Returned : a * k[1] <= Amount
    BY <2>1, <2>2 DEF KeyInv, Used, Fitting
  <2> QED
    BY <2>1, <2>2, <2>3, FittingCount
<1> QED
  BY <1>1, <1>2

LEMMA BooksRecord ==
  ASSUME RefundAssumption, Books
  PROVE  MovedIsRecorded
<1> SUFFICES ASSUME NEW g \in Gids, gw[g] = "processed", pc[<<g, "processed">>] = "done"
             PROVE  \E r \in RowIds : row[r].provider = g /\ r \in Accepted
  BY DEF MovedIsRecorded
<1> DEFINE h == <<g, "processed">>
<1>1. h \in Hooks /\ h[1] = g /\ h[2] = "processed"
  BY DEF Hooks, Kinds
<1> HIDE DEF h
<1>2. HookRow(h) /\ pc[h] = "done"
  BY <1>1 DEF Books, h
<1> PICK r \in RowIds : row[r].provider = g
  BY <1>1, <1>2 DEF HookRow
<1>3. Stands(r) /\ g # None
  BY Constants DEF Books
<1> QED
  BY <1>3 DEF Stands, Accepted

\* Equal refunds never send back more than was captured, however many requests,
\* retries, timeouts and webhooks there are: a key stands for its refund and the
\* refunds before it, only keys that fit are ever asked for, and rows stay with
\* their amounts.
THEOREM RefundsFit == ASSUME RefundAssumption PROVE Spec => []EqualRefundsFit
<1>1. Init => TypeInv /\ Books /\ KeyInv
  BY RefundAssumption, TypeInvInit, BooksInit, KeyInvInit
<1>2. TypeInv /\ Books /\ KeyInv /\ [Next]_vars => (TypeInv /\ Books /\ KeyInv)'
  BY RefundAssumption, TypeInvStep, BooksStep, KeyInvStep
<1>3. TypeInv /\ KeyInv => EqualRefundsFit
  BY RefundAssumption, ReturnedFits
<1> QED
  BY <1>1, <1>2, <1>3, PTL DEF Spec

\* Once the webhook of a processed refund was handled a row that counts stands
\* for the money that left.
THEOREM MovedMoneyRecorded == ASSUME RefundAssumption PROVE Spec => []MovedIsRecorded
<1>1. Init => TypeInv /\ Books
  BY RefundAssumption, TypeInvInit, BooksInit
<1>2. TypeInv /\ Books /\ [Next]_vars => (TypeInv /\ Books)'
  BY RefundAssumption, TypeInvStep, BooksStep
<1>3. Books => MovedIsRecorded
  BY RefundAssumption, BooksRecord
<1> QED
  BY <1>1, <1>2, <1>3, PTL DEF Spec

\* A refund that failed stays failed, in whichever order the webhooks and the
\* gateway's answer are applied.
THEOREM FailedStaysFailed == ASSUME RefundAssumption PROVE Spec => FailedIsFinal
<1>1. Init => TypeInv /\ Books
  BY RefundAssumption, TypeInvInit, BooksInit
<1>2. TypeInv /\ Books /\ [Next]_vars => (TypeInv /\ Books)'
  BY RefundAssumption, TypeInvStep, BooksStep
<1>3. TypeInv /\ Books /\ [Next]_vars
        => [\A r \in RowIds : row[r].status = "FAILED" => row'[r].status = "FAILED"]_vars
  BY RefundAssumption, FailedStep
<1> QED
  BY <1>1, <1>2, <1>3, PTL DEF Spec, FailedIsFinal

-------------------------------------------------------------------------------
\* No refund is counted twice.

\* A call's row carries its key from the insert on, and the gateway's refund of
\* that key once it is stored; a call that came past the gateway has stored it
\* or has failed its row.
CallOnce(c) ==
  /\ pc[c] \in CallSteps \cup ApplySteps \cup {"done", "dead"}
  /\ pc[c] \in {"idle", "insert", "refused"} => row[c] = NoRow
  /\ pc[c] \in {"send", "store"} => row[c].key = loc[c].key
  /\ pc[c] = "store" => gw[loc[c].key] # "none"
  /\ row[c].provider \in {None, row[c].key}
  /\ row[c].provider # None => row[c].status # "none"
  /\ method = "ONLINE" /\ pc[c] \in ApplySteps \cup {"close", "done"} =>
       row[c].provider # None \/ row[c].status = "FAILED"
  /\ pc[c] = "dead" => aborts > 0

\* A webhook was sent for a refund there is; the one of a failure has failed the
\* row that knew the refund, once it is past it.
HookOnce(h) ==
  /\ pc[h] \in HookSteps \cup ApplySteps \cup {"done"}
  /\ pc[h] # "none" => gw[h[1]] # "none"
  /\ pc[h] \in ApplySteps \cup {"create"} => h[2] = "processed"
  /\ h[2] = "failed" /\ pc[h] \in {"failSum", "failWrite", "done"} =>
       \E r \in RowIds : row[r].provider = h[1] /\ row[r].status = "FAILED"
  /\ h[2] = "failed" /\ gw[h[1]] = "failed" => pc[h] # "none"

\* Rows are about refunds there are, and no two about the same.
Apart ==
  /\ \A r \in RowIds : row[r].provider # None => gw[row[r].provider] # "none"
  /\ \A r, s \in RowIds : row[r].provider # None /\ row[r].provider = row[s].provider => r = s

Once == (\A c \in Calls : CallOnce(c)) /\ (\A h \in Hooks : HookOnce(h)) /\ Apart

LEMMA OnceInit == ASSUME RefundAssumption, Init PROVE Once
<1>1. \A r \in RowIds : row[r] = NoRow /\ row[r].provider = None
  BY DEF Init, NoRow
<1>2. (\A c \in Calls : pc[c] = "idle") /\ (\A h \in Hooks : pc[h] = "none" /\ gw[h[1]] = "none")
  BY Constants DEF Init
<1>3. \A c \in Calls : CallOnce(c)
  BY <1>1, <1>2, Constants DEF CallOnce, CallSteps, ApplySteps
<1>4. \A h \in Hooks : HookOnce(h)
  BY <1>2 DEF HookOnce, HookSteps, ApplySteps
<1> QED
  BY <1>1, <1>3, <1>4 DEF Once, Apart

\* A row that another process writes, once its refund is known.
LEMMA CallOnceKept ==
  ASSUME RefundAssumption, TypeInv, Books, Once, NEW c \in Calls,
         pc'[c] = pc[c], loc'[c] = loc[c], gw' = gw, method' = method, aborts' = aborts,
         row[c].provider # None, row'[c].provider = row[c].provider, row'[c].key = row[c].key,
         row[c].status = "FAILED" => row'[c].status = "FAILED", row'[c].status # "none"
  PROVE  CallOnce(c)'
<1>1. CallOnce(c) /\ CallRow(c)
  BY DEF Once, Books
<1>2. row[c] # NoRow
  BY DEF NoRow
<1>3. pc[c] \notin {"idle", "insert", "refused"}
  BY <1>1, <1>2 DEF CallOnce
<1> QED
  BY <1>1, <1>3 DEF CallOnce

\* One process moves and writes at most one row; a failure stays, and so does the
\* refund a row is about.
LEMMA OnceKept ==
  ASSUME RefundAssumption, TypeInv, Books, Once, NEW p \in Procs, NEW r \in RowIds,
         gw' = gw, method' = method,
         \A s \in RowIds : s # r => row'[s] = row[s],
         row[r].provider \in {None, row'[r].provider},
         row[r].status = "FAILED" => row'[r].status = "FAILED",
         aborts' = aborts \/ (aborts' > 0 /\ aborts' \in Nat),
         \A q \in Procs : q # p => pc'[q] = pc[q] /\ loc'[q] = loc[q],
         p \in Calls => CallOnce(p)',
         p \in Hooks => HookOnce(p)',
         r \in Calls \ {p} => CallOnce(r)',
         row'[r].provider # None =>
           /\ gw[row'[r].provider] # "none"
           /\ \A s \in RowIds : s # r => row[s].provider # row'[r].provider
  PROVE  Once'
<1>1. ASSUME NEW c \in Calls, c # p, c # r PROVE CallOnce(c)'
  <2>1. row'[c] = row[c] /\ pc'[c] = pc[c] /\ loc'[c] = loc[c] /\ CallOnce(c)
    BY <1>1, Constants DEF Once
  <2> QED
    BY <2>1 DEF CallOnce
<1>2. ASSUME NEW h \in Hooks, h # p PROVE HookOnce(h)'
  <2>1. pc'[h] = pc[h] /\ HookOnce(h) /\ h[1] # None
    BY <1>2, Constants DEF Once
  <2>2. ASSUME NEW s \in RowIds, row[s].provider = h[1], row[s].status = "FAILED"
        PROVE  row'[s].provider = h[1] /\ row'[s].status = "FAILED"
    BY <2>1, <2>2
  <2> QED
    BY <2>1, <2>2 DEF HookOnce
<1>3. Apart'
  BY DEF Once, Apart
<1> QED
  BY <1>1, <1>2, <1>3 DEF Once

\* One process moves and no row is written.
LEMMA OnceSame ==
  ASSUME RefundAssumption, TypeInv, Books, Once, NEW p \in Procs,
         gw' = gw, method' = method, row' = row,
         aborts' = aborts \/ (aborts' > 0 /\ aborts' \in Nat),
         \A q \in Procs : q # p => pc'[q] = pc[q] /\ loc'[q] = loc[q],
         p \in Calls => CallOnce(p)',
         p \in Hooks => HookOnce(p)'
  PROVE  Once'
<1>1. ASSUME NEW c \in Calls, c # p PROVE CallOnce(c)'
  <2>1. pc'[c] = pc[c] /\ loc'[c] = loc[c] /\ CallOnce(c)
    BY <1>1, Constants DEF Once
  <2> QED
    BY <2>1 DEF CallOnce
<1>2. ASSUME NEW h \in Hooks, h # p PROVE HookOnce(h)'
  <2>1. pc'[h] = pc[h] /\ HookOnce(h)
    BY <1>2, Constants DEF Once
  <2> QED
    BY <2>1 DEF HookOnce
<1>3. Apart'
  BY DEF Once, Apart
<1> QED
  BY <1>1, <1>2, <1>3 DEF Once

\* A refund reaches a state at the gateway, and its webhook is sent.
LEMMA OnceGateway ==
  ASSUME RefundAssumption, TypeInv, Books, Once, NEW g \in Gids,
         NEW status \in GatewayStatus \ {"none"},
         gw' = [gw EXCEPT ![g] = status], row' = row,
         \A h \in Hooks : \/ pc'[h] = pc[h]
                          \/ h[1] = g /\ h[2] = status /\ pc'[h] = "sent",
         gw[g] # "failed" /\ status = "failed" => pc'[<<g, "failed">>] = "sent",
         gw[g] = "failed" => status = "failed",
         (\A c \in Calls : CallOnce(c))'
  PROVE  Once'
<1>1. gw \in [Gids -> GatewayStatus]
  BY DEF TypeInv, TypeOK
<1>2. ASSUME NEW h \in Hooks PROVE HookOnce(h)'
  <2>1. HookOnce(h) /\ h[1] \in Gids /\ h = <<h[1], h[2]>>
    BY Constants DEF Once
  <2>2. gw[h[1]] # "none" => gw'[h[1]] # "none"
    BY <1>1, <2>1
  <2>3. CASE pc'[h] = pc[h]
    <3>1. gw'[h[1]] = "failed" => gw[h[1]] = "failed" \/ (h[1] = g /\ gw[g] # "failed" /\ status = "failed")
      BY <1>1, <2>1
    <3>2. h[2] = "failed" /\ gw'[h[1]] = "failed" => pc'[h] # "none"
      BY <2>1, <2>3, <3>1 DEF HookOnce
    <3> QED
      BY <2>1, <2>2, <2>3, <3>2 DEF HookOnce
  <2>4. CASE pc'[h] # pc[h]
    <3>1. h[1] = g /\ pc'[h] = "sent" /\ gw'[h[1]] # "none"
      BY <1>1, <2>1, <2>4
    <3> QED
      BY <3>1 DEF HookOnce, HookSteps, ApplySteps
  <2> QED
    BY <2>3, <2>4
<1>3. Apart'
  <2>1. \A k \in Gids : gw[k] # "none" => gw'[k] # "none"
    BY <1>1
  <2>2. \A r \in RowIds : row[r].provider \in Gids \cup {None}
    BY RowTyped DEF TypeInv
  <2> QED
    BY <2>1, <2>2 DEF Once, Apart
<1> QED
  BY <1>2, <1>3 DEF Once

LEMMA OnceSend ==
  ASSUME RefundAssumption, TypeInv, Books, Once, NEW c \in Calls,
         NEW status \in GatewayStatus \ {"none"}, NEW lost \in BOOLEAN, Send(c, status, lost)
  PROVE  Once'
<1> PICK k \in Gids : k = loc[c].key
  BY Constants DEF Send, At, TypeInv, Named
<1>1. /\ gw' = [gw EXCEPT ![k] = status] /\ row' = row /\ method' = method /\ aborts' = aborts
      /\ gw[k] # "none" => status = gw[k]
      /\ pc[c] = "send" /\ loc' = [loc EXCEPT ![c].answer = IF lost THEN "none" ELSE status]
  BY DEF Send, At, bookVars
<1>p. pc' = [p \in Procs |->
           CASE p = c -> IF lost THEN "catch" ELSE "store"
             [] gw[k] = "none" /\ p \in Emit(k, status) -> "sent"
             [] OTHER -> pc[p]]
  BY DEF Send
<1>2. \A q \in Emit(k, status) : q \in Hooks /\ q[1] = k /\ q[2] = status
  BY Emitted, Constants
<1>3. c \in Procs /\ c \notin Hooks /\ Hooks \subseteq Procs /\ Calls \subseteq Procs
  BY Constants
<1>4. pc'[c] \in {"catch", "store"}
  <2>1. c \notin Emit(k, status)
    BY <1>2, <1>3
  <2>2. pc'[c] = IF lost THEN "catch" ELSE "store"
    BY <1>p, <1>3, <2>1
  <2> QED
    BY <2>2
<1>5. \A q \in Procs : q # c => pc'[q] = pc[q] \/ (q \in Emit(k, status) /\ pc'[q] = "sent")
  BY <1>p
<1>6. \A h \in Hooks : pc'[h] = pc[h] \/ (h[1] = k /\ h[2] = status /\ pc'[h] = "sent")
  BY <1>2, <1>3, <1>5
<1>7. gw[k] # "failed" /\ status = "failed" => pc'[<<k, "failed">>] = "sent"
  <2> SUFFICES ASSUME gw[k] # "failed", status = "failed" PROVE pc'[<<k, "failed">>] = "sent"
    OBVIOUS
  <2> DEFINE h == <<k, "failed">>
  <2>1. h \in Hooks /\ h \in Emit(k, status)
    BY DEF Hooks, Kinds, Emit
  <2>2. gw[k] = "none"
    BY <1>1
  <2>3. h # c /\ h \in Procs
    BY <1>3, <2>1
  <2> HIDE DEF h
  <2>4. pc'[h] = "sent"
    BY <1>p, <2>1, <2>2, <2>3
  <2> QED
    BY <2>4 DEF h
<1>8. gw'[k] = status /\ gw \in [Gids -> GatewayStatus] /\ \A g \in Gids : gw[g] # "none" => gw'[g] # "none"
  BY <1>1 DEF TypeInv, TypeOK
<1>9. loc'[c].key = k /\ \A d \in Calls : d # c => loc'[d] = loc[d]
  BY <1>1, <1>3 DEF TypeInv, TypeOK, Local
<1>10. CallOnce(c)'
  <2>1. CallOnce(c) /\ row'[c] = row[c]
    BY <1>1 DEF Once
  <2> QED
    BY <1>1, <1>4, <1>8, <1>9, <2>1 DEF CallOnce, CallSteps, ApplySteps
<1>11. (\A d \in Calls : CallOnce(d))'
  <2> SUFFICES ASSUME NEW d \in Calls PROVE CallOnce(d)'
    OBVIOUS
  <2>1. CASE d = c
    BY <1>10, <2>1
  <2>2. CASE d # c
    <3>1. pc'[d] = pc[d] /\ row'[d] = row[d] /\ loc'[d] = loc[d] /\ CallOnce(d)
      BY <1>1, <1>2, <1>3, <1>5, <1>9, <2>2, Constants DEF Once
    <3>2. pc[d] = "store" => loc[d].key \in Gids
      BY Constants DEF TypeInv, Named
    <3> QED
      BY <1>1, <1>8, <3>1, <3>2 DEF CallOnce
  <2> QED
    BY <2>1, <2>2
<1>12. gw' = [gw EXCEPT ![k] = status] /\ row' = row /\ (gw[k] = "failed" => status = "failed")
  BY <1>1
<1> QED
  BY ONLY RefundAssumption, TypeInv, Books, Once, <1>6, <1>7, <1>11, <1>12, OnceGateway

LEMMA OnceMoving ==
  ASSUME RefundAssumption, TypeInv, Books, Once, GatewayNext
  PROVE  Once'
<1> PICK g \in Gids, status \in GatewayStatus \ {"none"} : Moving(g, status) /\ gw[g] # "failed"
  BY GatewayMoves
<1>1. /\ gw' = [gw EXCEPT ![g] = status] /\ row' = row /\ loc' = loc /\ method' = method /\ aborts' = aborts
      /\ \A q \in Procs : pc'[q] = IF q \in Emit(g, status) THEN "sent" ELSE pc[q]
  BY DEF Moving, bookVars, TypeInv, TypeOK
<1>2. \A q \in Emit(g, status) : q \in Hooks /\ q[1] = g /\ q[2] = status
  BY Emitted
<1>3. \A h \in Hooks : pc'[h] = pc[h] \/ (h[1] = g /\ h[2] = status /\ pc'[h] = "sent")
  BY <1>1, <1>2, Constants
<1>4. status = "failed" => pc'[<<g, "failed">>] = "sent"
  <2> SUFFICES ASSUME status = "failed" PROVE pc'[<<g, "failed">>] = "sent"
    OBVIOUS
  <2>1. <<g, "failed">> \in Hooks /\ <<g, "failed">> \in Emit(g, status)
    BY DEF Hooks, Kinds, Emit
  <2> QED
    BY <1>1, <2>1, Constants
<1>5. \A k \in Gids : gw[k] # "none" => gw'[k] # "none"
  BY <1>1 DEF TypeInv, TypeOK
<1>6. (\A c \in Calls : CallOnce(c))'
  <2> SUFFICES ASSUME NEW c \in Calls PROVE CallOnce(c)'
    OBVIOUS
  <2>1. pc'[c] = pc[c] /\ CallOnce(c)
    BY <1>1, <1>2, Constants DEF Once
  <2>2. pc[c] = "store" => loc[c].key \in Gids
    BY Constants DEF TypeInv, Named
  <2> QED
    BY <1>1, <1>5, <2>1, <2>2 DEF CallOnce
<1> QED
  BY <1>1, <1>3, <1>4, <1>6, OnceGateway

LEMMA OnceCall ==
  ASSUME RefundAssumption, TypeInv, Books, Once, NEW c \in Calls, CallNext(c)
  PROVE  Once'
<1>c. c \in Procs /\ c \in RowIds /\ c \notin Hooks /\ c \notin Gids /\ TypeOK
  BY Constants DEF TypeInv
<1>r. CallRow(c) /\ CallOnce(c) /\ row \in [RowIds -> RefundRow]
  BY DEF Books, Once, TypeInv, TypeOK
<1>d. method' = method
  <2>1. Next
    BY DEF Next
  <2> QED
    BY <2>1, MethodKept
<1>g. ASSUME NEW step \in Steps, Go(c, step)
      PROVE  pc'[c] = step /\ \A q \in Procs : q # c => pc'[q] = pc[q]
  BY <1>c, <1>g, GoTyped
<1>e. ASSUME NEW step \in Steps, End(c, step)
      PROVE  pc'[c] = step /\ \A q \in Procs : q # c => pc'[q] = pc[q] /\ loc'[q] = loc[q]
  BY <1>c, <1>e, <1>g, EndTyped
<1>l. ASSUME NEW x, loc' = [loc EXCEPT ![c] = x]
      PROVE  \A q \in Procs : q # c => loc'[q] = loc[q]
  BY <1>l DEF TypeInv, TypeOK
\* The call moves, no row is written.
<1>s. ASSUME row' = row, gw' = gw, aborts' = aborts, CallOnce(c)',
             \A q \in Procs : q # c => pc'[q] = pc[q] /\ loc'[q] = loc[q]
      PROVE  Once'
  BY <1>c, <1>d, <1>s, OnceSame
\* The call writes its own row.
<1>w. ASSUME NEW x \in RefundRow, row' = [row EXCEPT ![c] = x], gw' = gw, aborts' = aborts, CallOnce(c)',
             row[c].provider = None, row[c].status # "FAILED",
             x.provider # None => gw[x.provider] # "none" /\ ~ProviderTaken(x.provider),
             \A q \in Procs : q # c => pc'[q] = pc[q] /\ loc'[q] = loc[q]
      PROVE  Once'
  <2>1. row'[c] = x /\ \A s \in RowIds : s # c => row'[s] = row[s]
    BY <1>c, <1>r, <1>w
  <2>2. x.provider # None => \A s \in RowIds : s # c => row[s].provider # x.provider
    BY <1>w DEF ProviderTaken
  <2> QED
    BY <1>c, <1>d, <1>w, <2>1, <2>2, OnceKept
<1>1. CASE \E amount \in 1..Amount : Ask(c, amount)
  <2>1. /\ row' = row /\ gw' = gw /\ aborts' = aborts /\ pc[c] = "idle" /\ Go(c, "insert")
        /\ \E x : loc' = [loc EXCEPT ![c] = x]
    BY <1>1 DEF Ask, At, bookVars
  <2>2. CallOnce(c)'
    BY <1>r, <1>g, <2>1, StepNames DEF CallOnce, CallSteps, ApplySteps
  <2> QED
    BY <1>g, <1>l, <1>s, <2>1, <2>2, StepNames
<1>2. CASE Insert(c)
  <2> DEFINE x == [status |-> "PENDING", amount |-> loc[c].key[2], key |-> loc[c].key, provider |-> None]
  <2>1. pc[c] = "insert" /\ row' = [row EXCEPT ![c] = x] /\ gw' = gw /\ aborts' = aborts
    BY <1>2 DEF Insert, At
  <2>2. x \in RefundRow /\ x.provider = None /\ x.status = "PENDING" /\ x.key = loc[c].key
    <3> PICK k \in Keys : k = loc[c].key
      BY <2>1 DEF TypeInv, Named
    <3>1. k[2] \in 0..Amount
      BY RefundAssumption DEF Keys
    <3> QED
      BY <3>1 DEF RefundRow, RowStatus
  <2> HIDE DEF x
  <2>3. \/ Go(c, "apply") /\ loc' = [loc EXCEPT ![c].answer = "processed"] /\ method = "COD"
        \/ Go(c, "send") /\ loc' = loc
    BY <1>2 DEF Insert
  <2>4. /\ pc'[c] = "send" \/ (pc'[c] = "apply" /\ method = "COD")
        /\ \A q \in Procs : q # c => pc'[q] = pc[q] /\ loc'[q] = loc[q]
    BY <1>g, <2>3, StepNames DEF TypeInv, TypeOK
  <2>5. loc'[c].key = loc[c].key
    BY <1>c, <2>3 DEF TypeOK, Local
  <2>6. row'[c] = x
    BY <1>c, <1>r, <2>1
  <2>7. CallOnce(c)'
    BY <1>d, <2>2, <2>4, <2>5, <2>6 DEF CallOnce, CallSteps, ApplySteps
  <2>8. row[c].provider = None /\ row[c].status # "FAILED"
    BY <1>r, <2>1 DEF CallRow
  <2> QED
    BY <1>w, <2>1, <2>2, <2>4, <2>7, <2>8
<1>3. CASE InsertRefused(c)
  <2>1. row' = row /\ gw' = gw /\ aborts' = aborts /\ End(c, "refused") /\ pc[c] = "insert"
    BY <1>3 DEF InsertRefused, At, bookVars
  <2>2. CallOnce(c)'
    BY <1>e, <1>r, <2>1, StepNames DEF CallOnce, CallSteps, ApplySteps
  <2> QED
    BY <1>e, <1>s, <2>1, <2>2, StepNames
<1>4. CASE SendFails(c) \/ StoreRefused(c)
  <2>1. /\ row' = row /\ gw' = gw /\ aborts' = aborts /\ loc' = loc /\ Go(c, "catch")
        /\ pc[c] \in {"send", "store"}
    BY <1>4 DEF SendFails, StoreRefused, At, bookVars
  <2>2. CallOnce(c)'
    BY <1>r, <1>g, <2>1, StepNames DEF CallOnce, CallSteps, ApplySteps
  <2> QED
    BY <1>g, <1>s, <2>1, <2>2, StepNames
<1>5. CASE \E status \in GatewayStatus \ {"none"}, lost \in BOOLEAN : Send(c, status, lost)
  BY <1>5, OnceSend
<1>6. CASE Store(c)
  <2> PICK g \in Gids : g = loc[c].key
    BY <1>6, Constants DEF Store, At, TypeInv, Named
  <2> DEFINE x == [row[c] EXCEPT !.provider = g]
  <2>1. /\ pc[c] = "store" /\ row' = [row EXCEPT ![c] = x] /\ gw' = gw /\ aborts' = aborts /\ loc' = loc
        /\ ~ProviderTaken(g)
    BY <1>6 DEF Store, At
  <2>2. x \in RefundRow /\ x.status = row[c].status /\ x.key = row[c].key /\ x.provider = g /\ g # None
    BY <1>c, <1>r, Constants DEF RefundRow
  <2> HIDE DEF x
  <2>3. Go(c, "close") \/ Go(c, "apply")
    BY <1>6 DEF Store
  <2>4. pc'[c] \in {"close", "apply"} /\ \A q \in Procs : q # c => pc'[q] = pc[q] /\ loc'[q] = loc[q]
    BY <1>g, <2>1, <2>3, StepNames
  <2>5. gw[g] # "none" /\ row[c].key = g
    BY <1>r, <2>1 DEF CallOnce
  <2>6. row'[c] = x
    BY <1>c, <1>r, <2>1
  <2>8. row[c].provider = None /\ row[c].status = "PENDING"
    BY <1>r, <2>1 DEF CallRow
  <2>7. CallOnce(c)'
    BY <2>2, <2>4, <2>5, <2>6, <2>8 DEF CallOnce, CallSteps, ApplySteps
  <2> QED
    BY <1>w, <2>1, <2>2, <2>4, <2>5, <2>7, <2>8
<1>7. CASE Catch(c)
  <2> DEFINE x == [row[c] EXCEPT !.status = "FAILED"]
  <2>1. pc[c] = "catch" /\ row' = [row EXCEPT ![c] = x] /\ gw' = gw /\ aborts' = aborts /\ End(c, "done")
    BY <1>7 DEF Catch, At
  <2>2. x \in RefundRow /\ x.provider = row[c].provider /\ x.status = "FAILED"
    BY <1>c, <1>r DEF RefundRow, RowStatus
  <2> HIDE DEF x
  <2>3. row'[c] = x
    BY <1>c, <1>r, <2>1
  <2>4. row[c].provider = None /\ row[c].status = "PENDING"
    BY <1>r, <2>1 DEF CallRow
  <2>5. CallOnce(c)'
    BY <1>e, <2>1, <2>2, <2>3, <2>4, StepNames DEF CallOnce, CallSteps, ApplySteps
  <2> QED
    BY <1>w, <1>e, <2>1, <2>2, <2>4, <2>5, StepNames
<1>8. CASE Close(c)
  <2>1. row' = row /\ gw' = gw /\ aborts' = aborts /\ End(c, "done") /\ pc[c] = "close"
    BY <1>8 DEF Close, At
  <2>2. CallOnce(c)'
    BY <1>d, <1>e, <1>r, <2>1, StepNames DEF CallOnce, CallSteps, ApplySteps
  <2> QED
    BY <1>e, <1>s, <2>1, <2>2, StepNames
<1>9. CASE Abort(c)
  <2>1. row' = row /\ gw' = gw /\ aborts' = aborts + 1 /\ End(c, "dead")
    BY <1>9 DEF Abort, bookVars
  <2>2. aborts' \in Nat /\ aborts' > 0
    BY <1>c, <2>1 DEF TypeOK
  <2>3. CallOnce(c)'
    BY <1>e, <1>r, <2>1, <2>2, StepNames DEF CallOnce, CallSteps, ApplySteps
  <2>4. \A q \in Procs : q # c => pc'[q] = pc[q] /\ loc'[q] = loc[q]
    BY <1>e, <2>1, StepNames
  <2> QED
    BY <1>c, <1>d, <2>1, <2>2, <2>3, <2>4, OnceSame
<1> QED
  BY <1>1, <1>2, <1>3, <1>4, <1>5, <1>6, <1>7, <1>8, <1>9 DEF CallNext

LEMMA OnceApply ==
  ASSUME RefundAssumption, TypeInv, Books, Once, NEW p \in Procs, ApplyNext(p)
  PROVE  Once'
<1>o. TypeOK /\ row \in [RowIds -> RefundRow] /\ Calls \cap Hooks = {} /\ Procs = Calls \cup Hooks
      /\ Calls \subseteq RowIds
  BY Constants DEF TypeInv, TypeOK, Procs
<1>d. method' = method
  <2>1. Next
    BY DEF Next
  <2> QED
    BY <2>1, MethodKept
<1>h. p \in Hooks => HookRow(p) /\ HookOnce(p) /\ p[1] \in Gids /\ p[1] # None
  BY Constants DEF Books, Once
<1>k. p \in Calls => CallRow(p) /\ CallOnce(p) /\ NoRow.provider = None
  BY DEF Books, Once, NoRow
\* Where applyRefund ends.
<1>a. ASSUME pc[p] \in {"sum", "write"}, AfterApply(p)
      PROVE  /\ \A q \in Procs : q # p => pc'[q] = pc[q] /\ loc'[q] = loc[q]
             /\ p \in Calls => pc'[p] = "close"
             /\ p \in Hooks => pc'[p] = "done"
  <2>1. CASE p \in Calls
    BY <1>a, <1>o, <2>1, GoTyped, StepNames DEF AfterApply
  <2>2. CASE p \notin Calls
    BY <1>a, <1>o, <2>2, GoTyped, EndTyped, StepNames DEF AfterApply
  <2> QED
    BY <2>1, <2>2
<1>1. CASE ApplyRead(p) \/ ApplySum(p)
  <2>1. /\ row' = row /\ gw' = gw /\ aborts' = aborts /\ pc[p] \in {"apply", "sum"}
        /\ Go(p, "sum") \/ Go(p, "write")
    BY <1>1 DEF ApplyRead, ApplySum, At, bookVars
  <2>2. pc'[p] \in {"sum", "write"} /\ \A q \in Procs : q # p => pc'[q] = pc[q]
    BY <1>o, <2>1, GoTyped, StepNames
  <2>3. \A q \in Procs : q # p => loc'[q] = loc[q]
    BY <1>1 DEF ApplyRead, ApplySum, TypeInv, TypeOK, Local
  <2>4. p \in Calls => CallOnce(p)'
    BY <1>d, <1>k, <2>1, <2>2 DEF CallOnce, ApplySteps
  <2>5. p \in Hooks => HookOnce(p)'
    BY <1>h, <2>1, <2>2 DEF HookOnce, ApplySteps
  <2> QED
    BY <1>d, <2>1, <2>2, <2>3, <2>4, <2>5, OnceSame
<1>2. CASE AlreadySettled(p)
  <2>1. row' = row /\ gw' = gw /\ aborts' = aborts /\ pc[p] = "sum" /\ AfterApply(p)
    BY <1>2 DEF AlreadySettled, At, bookVars
  <2>2. p \in Calls => CallOnce(p)'
    BY <1>a, <1>d, <1>k, <2>1 DEF CallOnce, CallSteps, ApplySteps
  <2>3. p \in Hooks => HookOnce(p)'
    BY <1>a, <1>h, <2>1 DEF HookOnce, ApplySteps
  <2> QED
    BY <1>a, <1>d, <2>1, <2>2, <2>3, OnceSame
<1>3. CASE ApplyWrite(p)
  <2>1. gw' = gw /\ aborts' = aborts /\ pc[p] = "write" /\ AfterApply(p) /\ loc[p].row \in RowIds
    BY <1>3 DEF ApplyWrite, At, TypeInv, Named, Holding
  <2> PICK r \in RowIds : r = loc[p].row
    BY <2>1
  <2>2. /\ row'[r].provider = row[r].provider /\ row'[r].key = row[r].key
        /\ row'[r] = row[r] \/ (row[r].status = "PENDING" /\ row'[r].status = "PROCESSED")
        /\ \A s \in RowIds : s # r => row'[s] = row[s]
    BY <1>3, <1>o DEF ApplyWrite, Moves, RefundRow
  <2>3. p \in Calls => r = p
    BY <2>1 DEF TypeInv, Named, Holding
  <2>4. p \in Calls => CallOnce(p)'
    BY <1>a, <1>d, <1>k, <2>1, <2>2, <2>3 DEF CallOnce, CallSteps, ApplySteps
  <2>5. p \in Hooks => HookOnce(p)' /\ row[r].provider = p[1]
    BY <1>a, <1>h, <2>1 DEF HookOnce, HookRow, ApplySteps
  <2>6. ASSUME r \in Calls \ {p} PROVE CallOnce(r)'
    <3>1. p \in Hooks
      BY <1>o, <2>3, <2>6
    <3>2. pc'[r] = pc[r] /\ loc'[r] = loc[r]
      BY <1>a, <1>o, <2>1, <2>6
    <3>3. row[r].provider # None /\ CallOnce(r)
      BY <1>h, <2>5, <2>6, <3>1 DEF Once
    <3>4. row[r].status # "none"
      BY <3>3 DEF CallOnce
    <3> QED
      BY <1>d, <2>1, <2>2, <2>6, <3>2, <3>3, <3>4, CallOnceKept
  <2>7. row'[r].provider # None =>
          /\ gw[row'[r].provider] # "none"
          /\ \A s \in RowIds : s # r => row[s].provider # row'[r].provider
    BY <2>2 DEF Once, Apart
  <2> QED
    BY <1>a, <1>d, <2>1, <2>2, <2>4, <2>5, <2>6, <2>7, OnceKept
<1> QED
  BY <1>1, <1>2, <1>3 DEF ApplyNext

LEMMA OnceHook ==
  ASSUME RefundAssumption, TypeInv, Books, Once, NEW h \in Hooks, HookNext(h)
  PROVE  Once'
<1>h. /\ h \in Procs /\ h \notin Calls /\ h[1] \in Gids /\ h[1] # None /\ h[1] \in RowIds
      /\ h[1] \notin Calls /\ h[2] \in {"processed", "failed"} /\ TypeOK
  BY Constants DEF Kinds, TypeInv
<1>r. HookRow(h) /\ HookOnce(h) /\ row \in [RowIds -> RefundRow]
  BY DEF Books, Once, TypeInv, TypeOK
<1>d. method' = method /\ aborts' = aborts
  BY DEF HookNext, HookFind, HookUnknown, HookCreate, HookCreateRefused, HookFail, FailSum, FailWrite
<1>g. ASSUME NEW step \in Steps, Go(h, step)
      PROVE  pc'[h] = step /\ \A q \in Procs : q # h => pc'[q] = pc[q]
  BY <1>h, <1>g, GoTyped
<1>e. ASSUME NEW step \in Steps, End(h, step)
      PROVE  pc'[h] = step /\ \A q \in Procs : q # h => pc'[q] = pc[q] /\ loc'[q] = loc[q]
  BY <1>h, <1>e, <1>g, EndTyped
<1>l. ASSUME NEW x, loc' = [loc EXCEPT ![h] = x]
      PROVE  \A q \in Procs : q # h => loc'[q] = loc[q]
  BY <1>h, <1>l DEF TypeInv, TypeOK
<1>s. ASSUME row' = row, gw' = gw, HookOnce(h)',
             \A q \in Procs : q # h => pc'[q] = pc[q] /\ loc'[q] = loc[q]
      PROVE  Once'
  BY <1>d, <1>h, <1>s, OnceSame
<1>1. CASE HookFind(h)
  <2>0. pc[h] = "sent" /\ row' = row /\ gw' = gw /\ (\E x : loc' = [loc EXCEPT ![h] = x])
    BY <1>1 DEF HookFind, At, bookVars
  <2>1. Go(h, IF h[2] = "processed" THEN "apply" ELSE "fail")
    BY <1>1 DEF HookFind
  <2>2. \/ pc'[h] = "apply" /\ h[2] = "processed"
        \/ pc'[h] = "fail" /\ h[2] = "failed"
    <3>1. CASE h[2] = "processed"
      BY <1>g, <2>1, <3>1, StepNames
    <3>2. CASE h[2] = "failed"
      BY <1>g, <2>1, <3>2, StepNames
    <3> QED
      BY <1>h, <3>1, <3>2
  <2>3. \A q \in Procs : q # h => pc'[q] = pc[q] /\ loc'[q] = loc[q]
    BY <1>l, <2>0, <2>1 DEF Go, TypeInv, TypeOK
  <2>4. HookOnce(h)'
    BY <1>r, <2>0, <2>2 DEF HookOnce, HookSteps, ApplySteps
  <2> QED
    BY <1>s, <2>0, <2>3, <2>4
<1>2. CASE HookUnknown(h)
  <2>1. /\ row' = row /\ gw' = gw /\ loc' = loc /\ pc[h] = "sent"
        /\ (Go(h, "create") /\ h[2] = "processed") \/ Go(h, "ignored")
    BY <1>2 DEF HookUnknown, At, bookVars
  <2>2. /\ (pc'[h] = "create" /\ h[2] = "processed") \/ pc'[h] = "ignored"
        /\ \A q \in Procs : q # h => pc'[q] = pc[q]
    BY <1>g, <2>1, StepNames
  <2>3. HookOnce(h)'
    BY <1>r, <2>1, <2>2 DEF HookOnce, HookSteps, ApplySteps
  <2> QED
    BY <1>s, <2>1, <2>2, <2>3
<1>3. CASE HookCreate(h)
  <2> PICK g \in Gids : g = h[1]
    BY <1>h
  <2> DEFINE x == [status |-> "PENDING", amount |-> g[2], key |-> None, provider |-> g]
  <2>1. /\ pc[h] = "create" /\ row' = [row EXCEPT ![g] = x] /\ gw' = gw
        /\ (\E y : loc' = [loc EXCEPT ![h] = y]) /\ Go(h, "apply") /\ ~ProviderTaken(g)
    BY <1>3 DEF HookCreate, At
  <2>2. x.status = "PENDING" /\ x.provider = g
    OBVIOUS
  <2> HIDE DEF x
  <2>3. row'[g] = x /\ \A s \in RowIds : s # g => row'[s] = row[s]
    BY <1>h, <1>r, <2>1
  <2>4. row[g].provider = None /\ row[g].status = "none"
    BY <1>h, <1>r, <2>1 DEF Books, HookMade, ProviderTaken
  <2>5. pc'[h] = "apply" /\ \A q \in Procs : q # h => pc'[q] = pc[q] /\ loc'[q] = loc[q]
    BY <1>g, <1>l, <2>1, StepNames
  <2>6. HookOnce(h)'
    BY <1>r, <2>1, <2>5 DEF HookOnce, ApplySteps
  <2>7. gw[g] # "none" /\ \A s \in RowIds : s # g => row[s].provider # g
    BY <1>r, <2>1 DEF HookOnce, ProviderTaken
  <2>8. g \in RowIds /\ g \notin Calls
    BY <1>h
  <2> QED
    BY ONLY RefundAssumption, TypeInv, Books, Once, <1>d, <1>h, <2>1, <2>2, <2>3, <2>4, <2>5, <2>6, <2>7,
            <2>8, OnceKept
<1>4. CASE HookCreateRefused(h)
  <2>1. row' = row /\ gw' = gw /\ End(h, "done") /\ pc[h] = "create"
    BY <1>4 DEF HookCreateRefused, At, bookVars
  <2>2. HookOnce(h)'
    BY <1>e, <1>r, <2>1, StepNames DEF HookOnce, ApplySteps
  <2> QED
    BY <1>e, <1>s, <2>1, <2>2, StepNames
<1>5. CASE HookFail(h)
  <2>1. pc[h] = "fail" /\ gw' = gw /\ loc[h].row \in RowIds /\ h[2] = "failed"
    BY <1>5, <1>r DEF HookFail, At, HookRow
  <2> PICK r \in RowIds : r = loc[h].row
    BY <2>1
  <2>2. row[r].provider = h[1]
    BY <1>r, <2>1 DEF HookRow
  <2>3. /\ row'[r].provider = row[r].provider /\ row'[r].key = row[r].key
        /\ row[r].status \in {"PENDING", "PROCESSED"} => row'[r].status = "FAILED"
        /\ row[r].status \notin {"PENDING", "PROCESSED"} => row'[r] = row[r]
        /\ \A s \in RowIds : s # r => row'[s] = row[s]
    BY <1>5, <1>r DEF HookFail, RefundRow
  <2>4. End(h, "done") \/ (Go(h, "failSum") /\ loc' = loc)
    BY <1>5 DEF HookFail
  <2>5. pc'[h] \in {"done", "failSum"} /\ \A q \in Procs : q # h => pc'[q] = pc[q] /\ loc'[q] = loc[q]
    BY <1>e, <1>g, <2>4, StepNames
  <2>6. row[r].status # "none"
    <3>1. CASE r \in Calls
      <4>1. CallOnce(r)
        BY <3>1 DEF Once
      <4> QED
        BY <1>h, <2>2, <4>1 DEF CallOnce
    <3>2. CASE r \in Gids
      BY <1>h, <2>2, <3>2 DEF Books, HookMade
    <3> QED
      BY <3>1, <3>2 DEF RowIds
  <2>7. row'[r].status = "FAILED"
    BY <1>r, <2>3, <2>6 DEF RefundRow, RowStatus
  <2>8. HookOnce(h)'
    <3>1. row'[r].provider = h[1]
      BY <2>2, <2>3
    <3> QED
      BY <1>r, <2>1, <2>5, <2>7, <3>1 DEF HookOnce, HookSteps, ApplySteps
  <2>9. ASSUME r \in Calls \ {h} PROVE CallOnce(r)'
    <3>1. pc'[r] = pc[r] /\ loc'[r] = loc[r]
      BY <2>5, <2>9, Constants
    <3> QED
      BY <1>d, <1>h, <2>1, <2>2, <2>3, <2>7, <2>9, <3>1, CallOnceKept
  <2>10. /\ gw[row'[r].provider] # "none"
         /\ \A s \in RowIds : s # r => row[s].provider # row'[r].provider
    BY <1>h, <2>2, <2>3 DEF Once, Apart
  <2> QED
    BY <1>d, <1>h, <2>1, <2>3, <2>5, <2>7, <2>8, <2>9, <2>10, OnceKept
<1>6. CASE FailSum(h)
  <2>1. row' = row /\ gw' = gw /\ pc[h] = "failSum" /\ Go(h, "failWrite")
    BY <1>6 DEF FailSum, At, bookVars
  <2>2. \A q \in Procs : q # h => loc'[q] = loc[q]
    BY <1>6 DEF FailSum, TypeInv, TypeOK
  <2>3. HookOnce(h)'
    BY <1>g, <1>r, <2>1, StepNames DEF HookOnce, HookSteps, ApplySteps
  <2> QED
    BY <1>g, <1>s, <2>1, <2>2, <2>3, StepNames
<1>7. CASE FailWrite(h)
  <2>1. row' = row /\ gw' = gw /\ pc[h] = "failWrite" /\ End(h, "done")
    BY <1>7 DEF FailWrite, At
  <2>2. HookOnce(h)'
    BY <1>e, <1>r, <2>1, StepNames DEF HookOnce, ApplySteps
  <2> QED
    BY <1>e, <1>s, <2>1, <2>2, StepNames
<1> QED
  BY <1>1, <1>2, <1>3, <1>4, <1>5, <1>6, <1>7 DEF HookNext

LEMMA OnceStep ==
  ASSUME RefundAssumption, TypeInv, Books, Once, [Next]_vars
  PROVE  Once'
<1>1. CASE UNCHANGED vars
  BY <1>1 DEF vars, bookVars, Once, CallOnce, HookOnce, Apart
<1> QED
  BY <1>1, OnceCall, OnceApply, OnceHook, OnceMoving DEF Next

\* A row that counts when all is quiet knows its refund.
LEMMA QuietRows ==
  ASSUME RefundAssumption, TypeInv, Books, Once, Quiet, method = "ONLINE", NEW r \in Accepted
  PROVE  /\ row[r].provider = About(r) /\ About(r) \in Gids
         /\ row[r].status # "FAILED" /\ r \in RowIds
<1>0. r \in RowIds /\ row[r].status \in {"PENDING", "PROCESSED"}
  BY DEF Accepted
<1>1. CASE r \in Calls
  <2>1. CallOnce(r) /\ r \in Procs
    BY <1>1, Constants DEF Once
  <2>2. pc[r] \in Ended \ {"sent"} /\ pc[r] # "dead"
    BY <2>1, Constants DEF Quiet, CallOnce
  <2>3. pc[r] \notin {"idle", "refused"}
    BY <1>0, <2>1 DEF CallOnce, NoRow
  <2>4. pc[r] = "done"
    BY <2>1, <2>2, <2>3 DEF CallOnce, Ended, CallSteps, ApplySteps
  <2>5. row[r].provider # None /\ row[r].provider = row[r].key
    BY <1>0, <2>1, <2>4 DEF CallOnce
  <2>6. row[r].provider \in Gids
    BY <1>0, <2>5, RowTyped DEF TypeInv
  <2> QED
    BY <1>0, <1>1, <2>5, <2>6 DEF About
<1>2. CASE r \in Gids
  BY <1>0, <1>2, Constants DEF Books, HookMade, About
<1> QED
  BY <1>0, <1>1, <1>2 DEF RowIds

LEMMA OnceCounted ==
  ASSUME RefundAssumption, TypeInv, Books, Once
  PROVE  CountedOnce
<1> SUFFICES ASSUME Quiet, method = "ONLINE"
             PROVE  /\ \A r, s \in Accepted : About(r) = About(s) => r = s
                    /\ \A r \in Accepted : gw[About(r)] = "processed" \/ At(<<About(r), "failed">>, "ignored")
  BY DEF CountedOnce
<1>1. ASSUME NEW r \in Accepted, NEW s \in Accepted, About(r) = About(s) PROVE r = s
  <2>1. row[r].provider = row[s].provider /\ row[r].provider # None /\ r \in RowIds /\ s \in RowIds
    BY <1>1, QuietRows, Constants
  <2> QED
    BY <2>1 DEF Once, Apart
<1>2. ASSUME NEW r \in Accepted, gw[About(r)] # "processed"
      PROVE  At(<<About(r), "failed">>, "ignored")
  <2> PICK g \in Gids : g = About(r) /\ row[r].provider = g /\ row[r].status # "FAILED" /\ r \in RowIds
    BY QuietRows
  <2>1. g # None /\ gw[g] \in GatewayStatus
    BY Constants DEF TypeInv, TypeOK
  <2>2. gw[g] # "none" /\ gw[g] # "pending"
    BY <2>1 DEF Once, Apart, Quiet
  <2>3. gw[g] = "failed"
    BY <1>2, <2>1, <2>2 DEF GatewayStatus
  <2> DEFINE h == <<g, "failed">>
  <2>4. h \in Hooks /\ h \in Procs /\ h[1] = g /\ h[2] = "failed"
    BY Constants DEF Hooks, Kinds
  <2> HIDE DEF h
  <2>5. HookOnce(h) /\ pc[h] \in Ended \ {"sent"}
    BY <2>4 DEF Once, Quiet
  <2>6. pc[h] # "none"
    BY <2>3, <2>4, <2>5 DEF HookOnce
  <2>7. pc[h] # "done"
    <3> SUFFICES ASSUME pc[h] = "done" PROVE FALSE
      OBVIOUS
    <3>1. PICK s \in RowIds : row[s].provider = g /\ row[s].status = "FAILED"
      BY <2>4, <2>5 DEF HookOnce
    <3>2. s = r
      BY <2>1, <3>1 DEF Once, Apart
    <3> QED
      BY <3>1, <3>2
  <2>8. pc[h] = "ignored"
    BY <2>5, <2>6, <2>7 DEF HookOnce, Ended, HookSteps, ApplySteps
  <2> QED
    BY <2>8 DEF At, h
<1> QED
  BY <1>1, <1>2

\* No refund is counted twice or for nothing: when no call died or is under way
\* and all webhooks were handled, the rows that count stand for different
\* refunds of the gateway, none of them failed but for one whose failure came
\* before its row knew it.
THEOREM RefundsCountedOnce == ASSUME RefundAssumption PROVE Spec => []CountedOnce
<1>1. Init => TypeInv /\ Books /\ Once
  BY RefundAssumption, TypeInvInit, BooksInit, OnceInit
<1>2. TypeInv /\ Books /\ Once /\ [Next]_vars => (TypeInv /\ Books /\ Once)'
  BY RefundAssumption, TypeInvStep, BooksStep, OnceStep
<1>3. TypeInv /\ Books /\ Once => CountedOnce
  BY RefundAssumption, OnceCounted
<1> QED
  BY <1>1, <1>2, <1>3, PTL DEF Spec
===============================================================================
