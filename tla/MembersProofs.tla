---------------------------- MODULE MembersProofs ----------------------------
(***************************************************************************)
(* What the run of Members checks on two people, two calls and one         *)
(* request, proved for every number of them and every plan.                *)
(***************************************************************************)
EXTENDS Members, FiniteSetTheorems, TLAPS

-------------------------------------------------------------------------------
\* Types.

Nobodys == {"idle", "forgetStore", "forgetAll"}

\* What a call carries at each place it can be in.
CallRow(c) ==
  /\ call[c].user = None <=> call[c].pc \in Nobodys
  /\ call[c].pc \in {"find", "upsert"} => call[c].to \in Roles
  /\ call[c].pc \in {"update", "sync", "forget"} => call[c].to # "none"

\* What a request in the guards carries.
ReqRow(q) ==
  /\ req[q].pc # "idle" => req[q].user \in Users
  /\ req[q].pc \in {"member", "grants"} => req[q].load \in Grants \cup {None}
  /\ req[q].pc = "store" => req[q].load \in Status \cup {None}

Rows == (\A c \in Calls : CallRow(c)) /\ (\A q \in Requests : ReqRow(q))

TypeInv == TypeOK /\ Rows

\* Whose membership a call changes, outside the store's own steps.
LEMMA UserKnown ==
  ASSUME TypeInv, NEW c \in Calls, call[c].pc \notin Nobodys
  PROVE  call[c].user \in Users
BY DEF TypeInv, Rows, CallRow, TypeOK, Call

\* The seats are counted over finite sets.
LEMMA SeatsFinite ==
  ASSUME MembersAssumption, NEW S \in SUBSET Users, NEW D \in SUBSET Calls
  PROVE  /\ IsFiniteSet(S) /\ Cardinality(S) \in Nat
         /\ IsFiniteSet(D) /\ Cardinality(D) \in Nat
BY MembersAssumption, FS_Subset, FS_CardinalityType DEF MembersAssumption

LEMMA LargerTyped ==
  ASSUME NEW a \in Nat, NEW b \in Nat
  PROVE  Larger(a, b) \in Nat /\ Larger(a, b) >= a /\ Larger(a, b) >= b
BY DEF Larger

LEMMA GrantTyped ==
  ASSUME NEW m \in Membership
  PROVE  Grant(m) \in Grants
BY DEF Grant, Grants, Membership

LEMMA CallsMove ==
  ASSUME TypeInv, NEW c \in Calls, NEW k \in Call, call' = [call EXCEPT ![c] = k],
         k.user = None <=> k.pc \in Nobodys,
         k.pc \in {"find", "upsert"} => k.to \in Roles,
         k.pc \in {"update", "sync", "forget"} => k.to # "none"
  PROVE  call' \in [Calls -> Call] /\ \A d \in Calls : CallRow(d)'
BY DEF TypeInv, TypeOK, Rows, CallRow

LEMMA EndTyped ==
  ASSUME MembersAssumption, TypeInv, NEW c \in Calls, End(c)
  PROVE  call' \in [Calls -> Call] /\ \A d \in Calls : CallRow(d)'
<1>1. NoCall \in Call /\ NoCall.user = None /\ NoCall.pc = "idle"
  BY DEF NoCall, Call, Steps, Membership
<1> QED
  BY <1>1, CallsMove DEF End, Nobodys

LEMMA GoTyped ==
  ASSUME TypeInv, NEW c \in Calls, NEW step \in Steps, Go(c, step),
         call[c].user = None <=> step \in Nobodys,
         step \in {"find", "upsert"} => call[c].to \in Roles,
         step \in {"update", "sync", "forget"} => call[c].to # "none"
  PROVE  call' \in [Calls -> Call] /\ \A d \in Calls : CallRow(d)'
<1> DEFINE k == [call[c] EXCEPT !.pc = step]
<1>1. call[c] \in Call
  BY DEF TypeInv, TypeOK
<1>2. k \in Call /\ k.pc = step /\ k.user = call[c].user /\ k.to = call[c].to
  BY <1>1 DEF Call
<1>3. call' = [call EXCEPT ![c] = k]
  BY DEF Go, TypeInv, TypeOK
<1> QED
  BY <1>2, <1>3, CallsMove

LEMMA BeginTyped ==
  ASSUME TypeInv, NEW c \in Calls, NEW u \in Users \cup {None}, NEW step \in Steps,
         NEW to \in Membership, Begin(c, u, step, to),
         u = None <=> step \in Nobodys,
         step \in {"find", "upsert"} => to \in Roles,
         step \in {"update", "sync", "forget"} => to # "none"
  PROVE  call' \in [Calls -> Call] /\ \A d \in Calls : CallRow(d)'
<1> DEFINE k == [pc |-> step, user |-> u, to |-> to]
<1>1. k \in Call
  BY DEF Call
<1> QED
  BY <1>1, CallsMove DEF Begin

LEMMA RequestsMove ==
  ASSUME TypeInv, NEW q \in Requests, NEW r \in Request, req' = [req EXCEPT ![q] = r],
         r.pc # "idle" => r.user \in Users,
         r.pc \in {"member", "grants"} => r.load \in Grants \cup {None},
         r.pc = "store" => r.load \in Status \cup {None}
  PROVE  req' \in [Requests -> Request] /\ \A p \in Requests : ReqRow(p)'
BY DEF TypeInv, TypeOK, Rows, ReqRow

LEMMA TypeInvInit == ASSUME MembersAssumption, Init PROVE TypeInv
<1>1. NoCall \in Call /\ NoCall.user = None /\ NoCall.pc = "idle"
  BY DEF NoCall, Call, Steps, Membership
<1>2. NoRequest \in Request /\ NoRequest.pc = "idle"
  BY DEF NoRequest, Request
<1>3. Initially \in [Users -> Membership]
  BY MembersAssumption DEF MembersAssumption, Membership
<1>4. TypeOK
  BY <1>1, <1>2, <1>3, MembersAssumption DEF Init, TypeOK, MembersAssumption, Status
<1>5. Rows
  BY <1>1, <1>2 DEF Init, Rows, CallRow, ReqRow, Nobodys
<1> QED
  BY <1>4, <1>5 DEF TypeInv

LEMMA TypeInvStart ==
  ASSUME MembersAssumption, TypeInv, NEW c \in Calls, Start(c)
  PROVE  TypeInv'
<1>1. CASE \E u \in Users, role \in Roles : InviteCount(c, u, role)
  <2> PICK u \in Users, role \in Roles : InviteCount(c, u, role)
    BY <1>1
  <2>1. call' \in [Calls -> Call] /\ \A d \in Calls : CallRow(d)'
    BY BeginTyped, MembersAssumption
    DEF InviteCount, Steps, Roles, Membership, Nobodys, MembersAssumption
  <2>2. inviting' \in Nat
    <3>1. Cardinality(Invitations \cup {c}) \in Nat
      BY SeatsFinite DEF Invitations
    <3> QED
      BY <3>1, LargerTyped DEF InviteCount, TypeInv, TypeOK
  <2> QED
    BY <2>1, <2>2 DEF InviteCount, Overlap, cached, TypeInv, TypeOK, Rows, ReqRow
<1>2. CASE \E u \in Users, to \in Roles \cup {"off"} : UpdateRead(c, u, to)
  <2> PICK u \in Users, to \in Roles \cup {"off"} : UpdateRead(c, u, to)
    BY <1>2
  <2>1. call' \in [Calls -> Call] /\ \A d \in Calls : CallRow(d)'
    BY BeginTyped, MembersAssumption
    DEF UpdateRead, Steps, Roles, Membership, Nobodys, MembersAssumption
  <2> QED
    BY <2>1 DEF UpdateRead, Overlap, cached, TypeInv, TypeOK, Rows, ReqRow
<1>3. CASE \E u \in Users : RemoveRead(c, u)
  <2> PICK u \in Users : RemoveRead(c, u)
    BY <1>3
  <2>1. call' \in [Calls -> Call] /\ \A d \in Calls : CallRow(d)'
    BY BeginTyped, MembersAssumption
    DEF RemoveRead, Steps, Roles, Membership, Nobodys, MembersAssumption
  <2> QED
    BY <2>1 DEF RemoveRead, Overlap, cached, TypeInv, TypeOK, Rows, ReqRow
<1>4. CASE SetStatus(c)
  <2>1. call' \in [Calls -> Call] /\ \A d \in Calls : CallRow(d)'
    BY <1>4, BeginTyped, MembersAssumption
    DEF SetStatus, Steps, Roles, Membership, Nobodys, MembersAssumption
  <2>2. status' \in Status /\ changes' \in 0..MaxChanges
    BY <1>4, MembersAssumption
    DEF SetStatus, Idle, Status, TypeInv, TypeOK, MembersAssumption
  <2> QED
    BY <1>4, <2>1, <2>2 DEF SetStatus, history, cached, TypeInv, TypeOK, Rows, ReqRow
<1> QED
  BY <1>1, <1>2, <1>3, <1>4 DEF Start

LEMMA ChangeTyped ==
  ASSUME MembersAssumption, TypeInv, NEW u \in Users, NEW to \in Membership, Change(u, to),
         changes < MaxChanges
  PROVE  row' \in [Users -> Membership] /\ changes' \in 0..MaxChanges
BY MembersAssumption DEF Change, TypeInv, TypeOK, MembersAssumption

LEMMA MarkTyped ==
  ASSUME TypeInv, NEW key \in Users \cup {Store}, NEW is \in BOOLEAN, Mark(key, is)
  PROVE  raced' \subseteq Users \cup {Store}
BY DEF Mark, TypeInv, TypeOK

LEMMA TypeInvContinue ==
  ASSUME MembersAssumption, TypeInv, NEW c \in Calls, Continue(c) \/ Dies(c)
  PROVE  TypeInv'
<1> DEFINE u == call[c].user
<1>0. call[c] \in Call /\ CallRow(c)
  BY DEF TypeInv, TypeOK, Rows
<1>1. CASE InviteFind(c)
  <2>1. call[c].user # None /\ call[c].to \in Roles
    BY <1>0, <1>1 DEF CallRow, InviteFind, Nobodys
  <2>2. call' \in [Calls -> Call] /\ \A d \in Calls : CallRow(d)'
    BY <1>1, <2>1, EndTyped, GoTyped DEF InviteFind, Steps, Nobodys
  <2> QED
    BY <1>1, <2>2 DEF InviteFind, history, cached, TypeInv, TypeOK, Rows, ReqRow
<1>2. CASE InviteUpsert(c)
  <2>1. u \in Users /\ call[c].to \in Roles /\ call[c].to \in Membership /\ call[c].to # "none" /\ u # None
    BY <1>0, <1>2, UserKnown, MembersAssumption
    DEF CallRow, InviteUpsert, Nobodys, Roles, Membership, MembersAssumption
  <2>2. call' \in [Calls -> Call] /\ \A d \in Calls : CallRow(d)'
    BY <1>2, <2>1, GoTyped DEF InviteUpsert, Steps, Nobodys
  <2>3. row' \in [Users -> Membership] /\ changes' \in 0..MaxChanges
    BY <1>2, <2>1, ChangeTyped DEF InviteUpsert
  <2> QED
    BY <1>2, <2>2, <2>3 DEF InviteUpsert, cached, TypeInv, TypeOK, Rows, ReqRow
<1>3. CASE UpdateWrite(c)
  <2>1. u \in Users /\ call[c].to # "none" /\ call[c].to \in Membership /\ u # None
    BY <1>0, <1>3, UserKnown, MembersAssumption
    DEF CallRow, UpdateWrite, Nobodys, Call, MembersAssumption
  <2>2. call' \in [Calls -> Call] /\ \A d \in Calls : CallRow(d)'
    BY <1>3, <2>1, EndTyped, GoTyped DEF UpdateWrite, Steps, Nobodys
  <2>3. row' \in [Users -> Membership] /\ changes' \in 0..MaxChanges
    BY <1>3, <2>1, ChangeTyped DEF UpdateWrite, TypeInv, TypeOK
  <2>4. reopened' \subseteq Users
    BY <1>3, <2>1 DEF UpdateWrite, TypeInv, TypeOK
  <2> QED
    BY <1>3, <2>2, <2>3, <2>4 DEF UpdateWrite, cached, TypeInv, TypeOK, Rows, ReqRow
<1>4. CASE RemoveDelete(c)
  <2>1. u \in Users /\ u # None
    BY <1>0, <1>4, UserKnown, MembersAssumption
    DEF CallRow, RemoveDelete, Nobodys, MembersAssumption
  <2>2. call' \in [Calls -> Call] /\ \A d \in Calls : CallRow(d)'
    BY <1>4, <2>1, EndTyped, GoTyped DEF RemoveDelete, Steps, Nobodys
  <2>3. row' \in [Users -> Membership] /\ changes' \in 0..MaxChanges
    BY <1>4, <2>1, ChangeTyped DEF RemoveDelete, TypeInv, TypeOK, Membership
  <2>4. reopened' \subseteq Users
    BY <1>4, <2>1 DEF RemoveDelete, TypeInv, TypeOK
  <2> QED
    BY <1>4, <2>2, <2>3, <2>4 DEF RemoveDelete, cached, TypeInv, TypeOK, Rows, ReqRow
<1>5. CASE \E fails \in BOOLEAN : Unmirror(c, fails)
  <2> PICK fails \in BOOLEAN : Unmirror(c, fails)
    BY <1>5
  <2>1. u \in Users
    BY UserKnown DEF Unmirror, Nobodys
  <2>2. call' \in [Calls -> Call] /\ \A d \in Calls : CallRow(d)'
    BY EndTyped DEF Unmirror
  <2>3. profile' \in [Users -> Membership] /\ torn' \subseteq Users
    BY <2>1 DEF Unmirror, Unmirrored, TypeInv, TypeOK, Membership
  <2> QED
    BY <2>2, <2>3 DEF Unmirror, cached, TypeInv, TypeOK, Rows, ReqRow
<1>6. CASE \E fails \in BOOLEAN : Sync(c, fails)
  <2> PICK fails \in BOOLEAN : Sync(c, fails)
    BY <1>6
  <2>1. u \in Users /\ call[c].to # "none" /\ call[c].to \in Membership /\ u # None
    BY <1>0, UserKnown, MembersAssumption DEF CallRow, Sync, Nobodys, Call, MembersAssumption
  <2>2. call' \in [Calls -> Call] /\ \A d \in Calls : CallRow(d)'
    BY <2>1, GoTyped DEF Sync, Steps, Nobodys
  <2>3. profile' \in [Users -> Membership] /\ torn' \subseteq Users
    BY <2>1 DEF Sync, TypeInv, TypeOK
  <2> QED
    BY <2>2, <2>3 DEF Sync, cached, TypeInv, TypeOK, Rows, ReqRow
<1>7. CASE \E lost \in BOOLEAN : Forget(c, lost)
  <2> PICK lost \in BOOLEAN : Forget(c, lost)
    BY <1>7
  <2>1. u \in Users /\ u # None
    BY UserKnown, MembersAssumption DEF Forget, Nobodys, MembersAssumption
  <2>2. call' \in [Calls -> Call] /\ \A d \in Calls : CallRow(d)'
    BY <1>0, <2>1, EndTyped, GoTyped DEF Forget, Steps, Nobodys
  <2>3. seen' \in [Users -> Grants \cup {None}]
    BY <2>1 DEF Forget, Forgotten, TypeInv, TypeOK
  <2>4. raced' \subseteq Users \cup {Store}
    BY <2>1 DEF Forget, Mark, TypeInv, TypeOK
  <2> QED
    BY <2>2, <2>3, <2>4 DEF Forget, history, TypeInv, TypeOK, Rows, ReqRow
<1>8. CASE \E lost \in BOOLEAN : ForgetStore(c, lost)
  <2> PICK lost \in BOOLEAN : ForgetStore(c, lost)
    BY <1>8
  <2>1. call' \in [Calls -> Call] /\ \A d \in Calls : CallRow(d)'
    BY <1>0, GoTyped DEF ForgetStore, Steps, Nobodys, CallRow
  <2>2. raced' \subseteq Users \cup {Store} /\ resolved' \in Status \cup {None}
    BY DEF ForgetStore, Mark, TypeInv, TypeOK
  <2> QED
    BY <2>1, <2>2 DEF ForgetStore, history, TypeInv, TypeOK, Rows, ReqRow
<1>9. CASE \E lost \in BOOLEAN : ForgetAll(c, lost)
  <2> PICK lost \in BOOLEAN : ForgetAll(c, lost)
    BY <1>9
  <2>1. call' \in [Calls -> Call] /\ \A d \in Calls : CallRow(d)'
    BY EndTyped DEF ForgetAll
  <2>2. seen' \in [Users -> Grants \cup {None}]
    BY DEF ForgetAll, TypeInv, TypeOK
  <2> QED
    BY <2>1, <2>2 DEF ForgetAll, history, TypeInv, TypeOK, Rows, ReqRow
<1>10. CASE Dies(c)
  <2>1. call' \in [Calls -> Call] /\ \A d \in Calls : CallRow(d)'
    BY <1>10, EndTyped DEF Dies
  <2>2. raced' \subseteq Users \cup {Store} /\ torn' \subseteq Users
    BY <1>10, UserKnown DEF Dies, Nobodys, TypeInv, TypeOK
  <2> QED
    BY <1>10, <2>1, <2>2 DEF Dies, cached, TypeInv, TypeOK, Rows, ReqRow
<1> QED
  BY <1>1, <1>2, <1>3, <1>4, <1>5, <1>6, <1>7, <1>8, <1>9, <1>10 DEF Continue

LEMMA JudgeTyped ==
  ASSUME TypeInv, NEW q \in Requests, req[q].pc # "idle", NEW grant \in Grants
  PROVE  LET r == Judge(q, grant) IN
         r \in Request /\ r.pc \in {"idle", "store"} /\ r.load = None /\ (r.pc # "idle" => r.user \in Users)
BY DEF Judge, NoRequest, TypeInv, TypeOK, Rows, ReqRow, Request

LEMMA UsableTyped ==
  ASSUME TypeInv, NEW q \in Requests, req[q].pc # "idle", NEW is
  PROVE  LET r == Usable(q, is) IN
         r \in Request /\ r.pc \in {"idle", "grants"} /\ r.load = None /\ (r.pc # "idle" => r.user \in Users)
BY DEF Usable, NoRequest, TypeInv, TypeOK, Rows, ReqRow, Request

LEMMA TypeInvGuards ==
  ASSUME MembersAssumption, TypeInv, NEW q \in Requests,
         Guards(q) \/ \E u \in Users : Arrive(q, u)
  PROVE  TypeInv'
<1> DEFINE u == req[q].user
<1>0. req[q] \in Request /\ ReqRow(q)
  BY DEF TypeInv, TypeOK, Rows
<1>1. SUFFICES
             /\ req' \in [Requests -> Request] /\ \A p \in Requests : ReqRow(p)'
             /\ seen' \in [Users -> Grants \cup {None}] /\ resolved' \in Status \cup {None}
             /\ UNCHANGED <<row, profile, status, call, changes, raced, history>>
  BY DEF TypeInv, TypeOK, Rows, CallRow, history
<1>2. CASE FindHit(q)
  <2>1. u \in Users /\ seen[u] \in Grants
    BY <1>0, <1>2 DEF FindHit, ReqRow, TypeInv, TypeOK
  <2>2. req' \in [Requests -> Request] /\ \A p \in Requests : ReqRow(p)'
    BY <1>2, <2>1, JudgeTyped, RequestsMove DEF FindHit
  <2> QED
    BY <1>2, <2>2 DEF FindHit, cached, TypeInv, TypeOK
<1>3. CASE FindLoad(q)
  <2>1. u \in Users /\ Grant(row[u]) \in Grants
    BY <1>0, <1>3, GrantTyped DEF FindLoad, ReqRow, TypeInv, TypeOK
  <2> DEFINE r == [req[q] EXCEPT !.load = Grant(row[u])]
  <2>2. r \in Request /\ r.pc = req[q].pc /\ r.user = u /\ r.load = Grant(row[u])
    BY <1>0, <2>1 DEF Request
  <2>3. req' = [req EXCEPT ![q] = r]
    BY <1>3 DEF FindLoad, TypeInv, TypeOK
  <2>4. req' \in [Requests -> Request] /\ \A p \in Requests : ReqRow(p)'
    BY <1>3, <2>1, <2>2, <2>3, RequestsMove DEF FindLoad
  <2> QED
    BY <1>3, <2>4 DEF FindLoad, cached, TypeInv, TypeOK
<1>4. CASE FindStore(q)
  <2>1. u \in Users /\ req[q].load \in Grants
    BY <1>0, <1>4 DEF FindStore, ReqRow, TypeInv, TypeOK
  <2>2. req' \in [Requests -> Request] /\ \A p \in Requests : ReqRow(p)'
    BY <1>4, <2>1, JudgeTyped, RequestsMove DEF FindStore
  <2> QED
    BY <1>4, <2>1, <2>2 DEF FindStore, TypeInv, TypeOK
<1>5. CASE ResolveHit(q)
  <2>2. req' \in [Requests -> Request] /\ \A p \in Requests : ReqRow(p)'
    BY <1>5, UsableTyped, RequestsMove DEF ResolveHit
  <2> QED
    BY <1>5, <2>2 DEF ResolveHit, cached, TypeInv, TypeOK
<1>6. CASE ResolveLoad(q)
  <2> DEFINE r == [req[q] EXCEPT !.load = status]
  <2>2. r \in Request /\ r.pc = "store" /\ r.user = u /\ r.load = status /\ status \in Status
    BY <1>0, <1>6 DEF Request, ResolveLoad, TypeInv, TypeOK
  <2>3. req' = [req EXCEPT ![q] = r]
    BY <1>6 DEF ResolveLoad, TypeInv, TypeOK
  <2>4. req' \in [Requests -> Request] /\ \A p \in Requests : ReqRow(p)'
    <3>1. u \in Users
      BY <1>0, <1>6 DEF ResolveLoad, ReqRow
    <3> HIDE DEF r
    <3> QED
      BY <2>2, <2>3, <3>1, RequestsMove
  <2> QED
    BY <1>6, <2>4 DEF ResolveLoad, cached, TypeInv, TypeOK
<1>7. CASE ResolveStore(q)
  <2>2. req' \in [Requests -> Request] /\ \A p \in Requests : ReqRow(p)'
    BY <1>7, UsableTyped, RequestsMove DEF ResolveStore
  <2>3. req[q].load \in Status
    BY <1>0, <1>7 DEF ResolveStore, ReqRow
  <2> QED
    BY <1>7, <2>2, <2>3 DEF ResolveStore, TypeInv, TypeOK
<1>8. CASE \E w \in Users : Arrive(q, w)
  <2> PICK w \in Users : Arrive(q, w)
    BY <1>8
  <2> DEFINE r == [NoRequest EXCEPT !.pc = "member", !.user = w]
  <2>1. r \in Request /\ r.pc = "member" /\ r.user = w /\ r.load = None
    BY DEF NoRequest, Request
  <2>2. req' \in [Requests -> Request] /\ \A p \in Requests : ReqRow(p)'
    BY <2>1, RequestsMove DEF Arrive
  <2> QED
    BY <2>2 DEF Arrive, cached, TypeInv, TypeOK
<1> QED
  BY <1>2, <1>3, <1>4, <1>5, <1>6, <1>7, <1>8 DEF Guards

LEMMA TypeInvExpiry ==
  ASSUME MembersAssumption, TypeInv, ExpiresStore \/ \E u \in Users : Expires(u)
  PROVE  TypeInv'
<1>1. CASE ExpiresStore
  BY <1>1 DEF ExpiresStore, Mark, history, TypeInv, TypeOK, Rows, CallRow, ReqRow
<1>2. CASE \E u \in Users : Expires(u)
  BY <1>2 DEF Expires, Expired, Mark, history, TypeInv, TypeOK, Rows, CallRow, ReqRow
<1> QED
  BY <1>1, <1>2

LEMMA TypeInvariant == ASSUME MembersAssumption PROVE Spec => []TypeInv
<1>1. Init => TypeInv
  BY TypeInvInit
<1>2. TypeInv /\ [Next]_vars => TypeInv'
  <2> SUFFICES ASSUME TypeInv, [Next]_vars PROVE TypeInv'
    OBVIOUS
  <2>1. CASE UNCHANGED vars
    BY <2>1 DEF vars, cached, history, TypeInv, TypeOK, Rows, CallRow, ReqRow
  <2> QED
    BY <2>1, TypeInvStart, TypeInvContinue, TypeInvGuards, TypeInvExpiry DEF Next
<1> QED
  BY <1>1, <1>2, PTL DEF Spec

\* Type correctness.
THEOREM TypeCorrect == ASSUME MembersAssumption PROVE Spec => []TypeOK
<1>1. TypeInv => TypeOK
  BY DEF TypeInv
<1> QED
  BY <1>1, TypeInvariant, PTL

-------------------------------------------------------------------------------
\* Cached memberships and the cached status.

\* Nothing stale is cached, and no request holds anything stale that it could
\* still store.
Fresh(u) ==
  u \notin raced /\ ~Announcing(u) => seen[u] \in {None, Grant(row[u])} /\ ~Outdated(u)

FreshStore ==
  Store \notin raced /\ ~AnnouncingStore => resolved \in {None, status} /\ ~OutdatedStore

FreshInv == (\A u \in Users : Fresh(u)) /\ FreshStore

LEMMA FreshInit == ASSUME MembersAssumption, Init PROVE FreshInv
BY DEF Init, FreshInv, Fresh, FreshStore, Outdated, OutdatedStore, NoRequest

\* A call that moves between places where nothing is to be announced.
LEMMA QuietMove ==
  ASSUME TypeInv, NEW c \in Calls, NEW k \in Call, call' = [call EXCEPT ![c] = k],
         k.pc \notin {"forgetStore", "forget", "forgetRemoved", "sync"},
         call[c].pc \notin {"forgetStore", "forget", "forgetRemoved", "sync"}
  PROVE  /\ \A u \in Users : Announcing(u)' = Announcing(u)
         /\ AnnouncingStore' = AnnouncingStore
<1>1. \A d \in Calls : d # c => call'[d] = call[d]
  BY DEF TypeInv, TypeOK
<1>2. call'[c] = k
  BY DEF TypeInv, TypeOK
<1>3. AnnouncingStore' = AnnouncingStore
  BY <1>1, <1>2 DEF AnnouncingStore
<1>4. ASSUME NEW u \in Users PROVE Announcing(u)' = Announcing(u)
  BY <1>1, <1>2 DEF Announcing
<1> QED
  BY <1>3, <1>4

\* What reads nothing and writes nothing of an entry leaves it as it is.
LEMMA EntriesStay ==
  ASSUME FreshInv, UNCHANGED <<row, status, seen, resolved, req, raced>>,
         \A u \in Users : Announcing(u) => Announcing(u)', AnnouncingStore => AnnouncingStore'
  PROVE  FreshInv'
<1>1. \A u \in Users : Outdated(u)' = Outdated(u)
  BY DEF Outdated
<1>2. OutdatedStore' = OutdatedStore
  BY DEF OutdatedStore
<1>3. ASSUME NEW u \in Users PROVE Fresh(u)'
  BY <1>1, <1>3 DEF FreshInv, Fresh
<1>4. FreshStore'
  BY <1>2 DEF FreshInv, FreshStore
<1> QED
  BY <1>3, <1>4 DEF FreshInv

LEMMA FreshStart ==
  ASSUME MembersAssumption, TypeInv, TypeInv', FreshInv, NEW c \in Calls, Start(c)
  PROVE  FreshInv'
<1>0. call[c].pc = "idle"
  BY DEF Start, InviteCount, UpdateRead, RemoveRead, SetStatus, Idle
<1>1. CASE SetStatus(c)
  <2>1. call'[c].pc = "forgetStore" /\ \A d \in Calls : d # c => call'[d] = call[d]
    BY <1>1 DEF SetStatus, Begin, TypeInv, TypeOK
  <2>2. AnnouncingStore'
    BY <2>1 DEF AnnouncingStore
  <2>3. ASSUME NEW u \in Users PROVE Fresh(u)'
    <3>1. Announcing(u) => Announcing(u)'
      BY <1>0, <2>1 DEF Announcing
    <3>2. Outdated(u)' = Outdated(u)
      BY <1>1 DEF SetStatus, Outdated
    <3> QED
      BY <1>1, <3>1, <3>2 DEF SetStatus, FreshInv, Fresh, cached
  <2> QED
    BY <2>2, <2>3 DEF FreshInv, FreshStore
<1>2. CASE ~SetStatus(c)
  <2>1. PICK k \in [pc: {"find", "update", "delete"}, user: Users, to: Membership] :
          call' = [call EXCEPT ![c] = k]
    BY <1>2 DEF Start, InviteCount, UpdateRead, RemoveRead, Begin, Roles, Membership
  <2>2. k \in Call /\ k.pc \in {"find", "update", "delete"}
    BY DEF Call, Steps
  <2>3. UNCHANGED <<row, status, seen, resolved, req, raced>>
    BY <1>2 DEF Start, InviteCount, UpdateRead, RemoveRead, cached
  <2> QED
    BY <1>0, <2>1, <2>2, <2>3, QuietMove, EntriesStay
<1> QED
  BY <1>1, <1>2

\* A change that is yet to be announced.
LEMMA ChangeFresh ==
  ASSUME TypeInv, FreshInv, NEW c \in Calls, NEW u \in Users, u = call[c].user, NEW to,
         NEW step \in {"sync", "forgetRemoved"}, Go(c, step), Change(u, to),
         call[c].pc \notin Nobodys \cup {"sync", "forget", "forgetRemoved"},
         UNCHANGED <<status, seen, resolved, req, raced>>
  PROVE  FreshInv'
<1>1. /\ call'[c].pc = step /\ call'[c].user = u
      /\ \A d \in Calls : d # c => call'[d] = call[d]
  BY DEF Go, TypeInv, TypeOK, Call
<1>2. Announcing(u)'
  BY <1>1 DEF Announcing
<1>3. ASSUME NEW v \in Users PROVE Fresh(v)'
  <2>1. CASE v = u
    BY <1>2, <2>1 DEF Fresh
  <2>2. CASE v # u
    <3>1. Announcing(v) => Announcing(v)'
      BY <1>1, <2>2 DEF Announcing
    <3>2. row'[v] = row[v]
      BY <2>2 DEF Change, TypeInv, TypeOK
    <3>3. Outdated(v)' = Outdated(v)
      BY <3>2 DEF Outdated
    <3> QED
      BY <3>1, <3>2, <3>3 DEF FreshInv, Fresh
  <2> QED
    BY <2>1, <2>2
<1>4. FreshStore'
  <2>1. AnnouncingStore => AnnouncingStore'
    BY <1>1 DEF AnnouncingStore, Nobodys
  <2>2. OutdatedStore' = OutdatedStore
    BY DEF OutdatedStore
  <2> QED
    BY <2>1, <2>2 DEF FreshInv, FreshStore
<1> QED
  BY <1>3, <1>4 DEF FreshInv

LEMMA FreshContinue ==
  ASSUME MembersAssumption, TypeInv, TypeInv', FreshInv, NEW c \in Calls, Continue(c) \/ Dies(c)
  PROVE  FreshInv'
<1> DEFINE u == call[c].user
<1>a. NoCall \in Call /\ NoCall.pc = "idle" /\ call[c] \in Call
  BY DEF NoCall, Call, Steps, Membership, TypeInv, TypeOK
<1>b. \A step \in Steps : [call[c] EXCEPT !.pc = step] \in Call
                          /\ [call[c] EXCEPT !.pc = step].pc = step
  BY <1>a DEF Call
<1>1. CASE InviteFind(c)
  <2>1. PICK k \in Call : k.pc \in {"idle", "upsert"} /\ call' = [call EXCEPT ![c] = k]
    BY <1>a, <1>b, <1>1 DEF InviteFind, End, Go, Steps, TypeInv, TypeOK
  <2>2. UNCHANGED <<row, status, seen, resolved, req, raced>>
    BY <1>1 DEF InviteFind, cached
  <2> QED
    BY <1>1, <2>1, <2>2, QuietMove, EntriesStay DEF InviteFind
<1>2. CASE InviteUpsert(c)
  BY <1>2, UserKnown, ChangeFresh DEF InviteUpsert, Nobodys, cached
<1>3. CASE UpdateWrite(c)
  <2>1. CASE row[u] = "none"
    <3>1. End(c) /\ UNCHANGED <<row, status, seen, resolved, req, raced>> /\ call[c].pc = "update"
      BY <1>3, <2>1 DEF UpdateWrite, cached
    <3> QED
      BY <1>a, <3>1, QuietMove, EntriesStay DEF End
  <2>2. CASE row[u] # "none"
    BY <1>3, <2>2, UserKnown, ChangeFresh DEF UpdateWrite, Nobodys, cached
  <2> QED
    BY <2>1, <2>2
<1>4. CASE RemoveDelete(c)
  <2>1. CASE row[u] = "none"
    <3>1. End(c) /\ UNCHANGED <<row, status, seen, resolved, req, raced>> /\ call[c].pc = "delete"
      BY <1>4, <2>1 DEF RemoveDelete, cached
    <3> QED
      BY <1>a, <3>1, QuietMove, EntriesStay DEF End
  <2>2. CASE row[u] # "none"
    BY <1>4, <2>2, UserKnown, ChangeFresh DEF RemoveDelete, Nobodys, cached
  <2> QED
    BY <2>1, <2>2
<1>5. CASE \E fails \in BOOLEAN : Unmirror(c, fails)
  <2>1. End(c) /\ UNCHANGED <<row, status, seen, resolved, req, raced>> /\ call[c].pc = "unmirror"
    BY <1>5 DEF Unmirror, cached
  <2> QED
    BY <1>a, <2>1, QuietMove, EntriesStay DEF End
<1>6. CASE \E fails \in BOOLEAN : Sync(c, fails)
  <2>1. Go(c, "forget") /\ UNCHANGED <<row, status, seen, resolved, req, raced>> /\ call[c].pc = "sync"
    BY <1>6 DEF Sync, cached
  <2>2. /\ call'[c].pc = "forget" /\ call'[c].user = u
        /\ \A d \in Calls : d # c => call'[d] = call[d]
    BY <1>a, <2>1 DEF Go, TypeInv, TypeOK, Call
  <2>3. ASSUME NEW v \in Users, Announcing(v) PROVE Announcing(v)'
    BY <2>1, <2>2, <2>3 DEF Announcing
  <2>4. AnnouncingStore => AnnouncingStore'
    BY <2>1, <2>2 DEF AnnouncingStore
  <2> QED
    BY <2>1, <2>3, <2>4, EntriesStay
<1>7. CASE \E lost \in BOOLEAN : Forget(c, lost)
  <2> PICK lost \in BOOLEAN : Forget(c, lost)
    BY <1>7
  <2>1. u \in Users /\ call[c].pc \in {"forget", "forgetRemoved"}
    BY UserKnown DEF Forget, Nobodys
  <2>2. \A d \in Calls : d # c => call'[d] = call[d]
    BY DEF Forget, End, Go, TypeInv, TypeOK
  <2>3. \A v \in Users : Outdated(v)' = Outdated(v)
    BY DEF Forget, Outdated
  <2>4. ASSUME NEW v \in Users PROVE Fresh(v)'
    <3>1. CASE v = u
      <4>1. u \notin raced' => ~lost /\ ~Outdated(u)
        BY DEF Forget, Mark
      <4>2. ~lost => seen'[u] = None
        BY <2>1 DEF Forget, Forgotten, TypeInv, TypeOK
      <4> QED
        BY <2>3, <3>1, <4>1, <4>2 DEF Fresh
    <3>2. CASE v # u
      <4>1. Announcing(v) => Announcing(v)'
        BY <2>2, <3>2 DEF Announcing
      <4>2. seen'[v] = seen[v] /\ row' = row /\ (v \in raced' <=> v \in raced)
        BY <3>2 DEF Forget, Mark, TypeInv, TypeOK
      <4> QED
        BY <2>3, <4>1, <4>2 DEF FreshInv, Fresh
    <3> QED
      BY <3>1, <3>2
  <2>5. FreshStore'
    <3>1. AnnouncingStore => AnnouncingStore'
      BY <2>1, <2>2 DEF AnnouncingStore
    <3>2. OutdatedStore' = OutdatedStore
      BY DEF Forget, OutdatedStore
    <3>3. u # Store
      BY <2>1, MembersAssumption DEF MembersAssumption
    <3>4. Store \in raced' <=> Store \in raced
      BY <3>3 DEF Forget, Mark
    <3> QED
      BY <3>1, <3>2, <3>4 DEF Forget, FreshInv, FreshStore
  <2> QED
    BY <2>4, <2>5 DEF FreshInv
<1>8. CASE \E lost \in BOOLEAN : ForgetStore(c, lost)
  <2> PICK lost \in BOOLEAN : ForgetStore(c, lost)
    BY <1>8
  <2>1. call[c].pc = "forgetStore" /\ \A d \in Calls : d # c => call'[d] = call[d]
    BY DEF ForgetStore, Go, TypeInv, TypeOK
  <2>2. ASSUME NEW v \in Users PROVE Fresh(v)'
    <3>1. Announcing(v) => Announcing(v)'
      BY <2>1 DEF Announcing
    <3>2. Outdated(v)' = Outdated(v)
      BY DEF ForgetStore, Outdated
    <3>3. v # Store
      BY MembersAssumption DEF MembersAssumption
    <3>4. v \in raced' <=> v \in raced
      BY <3>3 DEF ForgetStore, Mark
    <3> QED
      BY <3>1, <3>2, <3>4 DEF ForgetStore, FreshInv, Fresh
  <2>3. FreshStore'
    <3>1. Store \notin raced' => ~lost /\ ~OutdatedStore
      BY DEF ForgetStore, Mark
    <3>2. OutdatedStore' = OutdatedStore
      BY DEF ForgetStore, OutdatedStore
    <3> QED
      BY <3>1, <3>2 DEF ForgetStore, FreshStore
  <2> QED
    BY <2>2, <2>3 DEF FreshInv
<1>9. CASE \E lost \in BOOLEAN : ForgetAll(c, lost)
  <2> PICK lost \in BOOLEAN : ForgetAll(c, lost)
    BY <1>9
  <2>1. \A v \in Users : Announcing(v)' = Announcing(v)
    BY <1>a, QuietMove DEF ForgetAll, End
  <2>2. AnnouncingStore' = AnnouncingStore
    BY <1>a, QuietMove DEF ForgetAll, End
  <2>3. ASSUME NEW v \in Users PROVE Fresh(v)'
    <3>1. Outdated(v)' = Outdated(v)
      BY DEF ForgetAll, Outdated
    <3>2. seen'[v] \in {seen[v], None}
      BY DEF ForgetAll
    <3> QED
      BY <2>1, <3>1, <3>2 DEF ForgetAll, FreshInv, Fresh
  <2>4. FreshStore'
    <3>1. OutdatedStore' = OutdatedStore
      BY DEF ForgetAll, OutdatedStore
    <3> QED
      BY <2>2, <3>1 DEF ForgetAll, FreshInv, FreshStore
  <2> QED
    BY <2>3, <2>4 DEF FreshInv
<1>10. CASE Dies(c)
  <2>1. \A d \in Calls : d # c => call'[d] = call[d]
    BY <1>10 DEF Dies, End, TypeInv, TypeOK
  <2>2. ASSUME NEW v \in Users PROVE Fresh(v)'
    <3>1. Outdated(v)' = Outdated(v)
      BY <1>10 DEF Dies, Outdated
    <3>2. v \notin raced' => v \notin raced /\ (Announcing(v) => Announcing(v)')
      BY <1>10, <2>1 DEF Dies, Announcing
    <3> QED
      BY <1>10, <3>1, <3>2 DEF Dies, FreshInv, Fresh, cached
  <2>3. FreshStore'
    <3>1. OutdatedStore' = OutdatedStore
      BY <1>10 DEF Dies, OutdatedStore
    <3>2. Store \notin raced' => Store \notin raced /\ (AnnouncingStore => AnnouncingStore')
      BY <1>10, <2>1 DEF Dies, AnnouncingStore
    <3> QED
      BY <1>10, <3>1, <3>2 DEF Dies, FreshInv, FreshStore, cached
  <2> QED
    BY <2>2, <2>3 DEF FreshInv
<1> QED
  BY <1>1, <1>2, <1>3, <1>4, <1>5, <1>6, <1>7, <1>8, <1>9, <1>10 DEF Continue

\* A request that moves to where it holds nothing stale.
LEMMA RequestFresh ==
  ASSUME TypeInv, FreshInv, NEW q \in Requests, NEW r, req' = [req EXCEPT ![q] = r],
         UNCHANGED <<row, status, call, raced>>,
         r.pc \in {"member", "grants"} => r.load \in {None, Grant(row[r.user])},
         r.pc = "store" => r.load \in {None, status},
         \A u \in Users : seen'[u] = seen[u] \/ seen'[u] \in {None, Grant(row[u])} \/ Outdated(u),
         resolved' = resolved \/ resolved' \in {None, status} \/ OutdatedStore
  PROVE  FreshInv'
<1>1. req'[q] = r /\ \A p \in Requests : p # q => req'[p] = req[p]
  BY DEF TypeInv, TypeOK
<1>2. ASSUME NEW u \in Users PROVE Fresh(u)'
  <2>1. Outdated(u)' => Outdated(u)
    BY <1>1 DEF Outdated
  <2>2. Announcing(u)' = Announcing(u)
    BY DEF Announcing
  <2> QED
    BY <2>1, <2>2 DEF FreshInv, Fresh
<1>3. FreshStore'
  <2>1. OutdatedStore' => OutdatedStore
    BY <1>1 DEF OutdatedStore
  <2>2. AnnouncingStore' = AnnouncingStore
    BY DEF AnnouncingStore
  <2> QED
    BY <2>1, <2>2 DEF FreshInv, FreshStore
<1> QED
  BY <1>2, <1>3 DEF FreshInv

LEMMA FreshGuards ==
  ASSUME MembersAssumption, TypeInv, FreshInv, NEW q \in Requests,
         Guards(q) \/ \E u \in Users : Arrive(q, u)
  PROVE  FreshInv'
<1> DEFINE u == req[q].user
<1>0. req[q] \in Request /\ ReqRow(q) /\ (req[q].pc # "idle" => u \in Users)
  BY DEF TypeInv, TypeOK, Rows, ReqRow
<1>1. CASE FindHit(q)
  <2>1. Judge(q, seen[u]).pc \in {"idle", "store"} /\ Judge(q, seen[u]).load = None
    BY <1>0, <1>1, JudgeTyped DEF FindHit, TypeInv, TypeOK
  <2> QED
    BY <1>1, <2>1, RequestFresh DEF FindHit, cached
<1>2. CASE FindLoad(q)
  <2> DEFINE r == [req[q] EXCEPT !.load = Grant(row[u])]
  <2>1. r.pc = req[q].pc /\ r.user = u /\ r.load = Grant(row[u]) /\ r.pc \in {"member", "grants"}
    BY <1>0, <1>2 DEF Request, FindLoad
  <2>2. req' = [req EXCEPT ![q] = r]
    BY <1>2 DEF FindLoad, TypeInv, TypeOK
  <2> HIDE DEF r
  <2> QED
    BY <1>2, <2>1, <2>2, RequestFresh DEF FindLoad, cached
<1>3. CASE FindStore(q)
  <2>1. u \in Users /\ req[q].load \in Grants
    BY <1>0, <1>3 DEF FindStore, ReqRow
  <2>2. Judge(q, req[q].load).pc \in {"idle", "store"} /\ Judge(q, req[q].load).load = None
    BY <1>3, <2>1, JudgeTyped DEF FindStore
  <2>3. req[q].load = Grant(row[u]) \/ Outdated(u)
    BY <1>3 DEF FindStore, Outdated
  <2>4. \A v \in Users : seen'[v] = seen[v] \/ seen'[v] \in {None, Grant(row[v])} \/ Outdated(v)
    BY <1>3, <2>1, <2>3 DEF FindStore, TypeInv, TypeOK
  <2> QED
    BY <1>3, <2>2, <2>4, RequestFresh DEF FindStore
<1>4. CASE ResolveHit(q)
  <2>1. Usable(q, resolved).pc \in {"idle", "grants"} /\ Usable(q, resolved).load = None
    BY <1>4, UsableTyped DEF ResolveHit
  <2> QED
    BY <1>4, <2>1, RequestFresh DEF ResolveHit, cached
<1>5. CASE ResolveLoad(q)
  <2> DEFINE r == [req[q] EXCEPT !.load = status]
  <2>1. r.pc = "store" /\ r.load = status
    BY <1>0, <1>5 DEF Request, ResolveLoad
  <2>2. req' = [req EXCEPT ![q] = r]
    BY <1>5 DEF ResolveLoad, TypeInv, TypeOK
  <2> HIDE DEF r
  <2> QED
    BY <1>5, <2>1, <2>2, RequestFresh DEF ResolveLoad, cached
<1>6. CASE ResolveStore(q)
  <2>1. Usable(q, req[q].load).pc \in {"idle", "grants"} /\ Usable(q, req[q].load).load = None
    BY <1>6, UsableTyped DEF ResolveStore
  <2>2. req[q].load = status \/ OutdatedStore
    BY <1>6 DEF ResolveStore, OutdatedStore
  <2>3. resolved' = resolved \/ resolved' \in {None, status} \/ OutdatedStore
    BY <1>6, <2>2 DEF ResolveStore
  <2> QED
    BY <1>6, <2>1, <2>3, RequestFresh DEF ResolveStore
<1>7. CASE \E w \in Users : Arrive(q, w)
  <2> PICK w \in Users : Arrive(q, w)
    BY <1>7
  <2> DEFINE r == [NoRequest EXCEPT !.pc = "member", !.user = w]
  <2>1. r.pc = "member" /\ r.load = None
    BY DEF NoRequest
  <2>2. req' = [req EXCEPT ![q] = r]
    BY DEF Arrive
  <2> HIDE DEF r
  <2> QED
    BY <2>1, <2>2, RequestFresh DEF Arrive, cached
<1> QED
  BY <1>1, <1>2, <1>3, <1>4, <1>5, <1>6, <1>7 DEF Guards

LEMMA FreshExpiry ==
  ASSUME MembersAssumption, TypeInv, FreshInv, ExpiresStore \/ \E u \in Users : Expires(u)
  PROVE  FreshInv'
<1>1. CASE ExpiresStore
  <2>1. ASSUME NEW v \in Users PROVE Fresh(v)'
    <3>1. v # Store
      BY MembersAssumption DEF MembersAssumption
    <3>2. v \in raced' <=> v \in raced
      BY <1>1, <3>1 DEF ExpiresStore, Mark
    <3> QED
      BY <1>1, <3>2 DEF ExpiresStore, FreshInv, Fresh, Announcing, Outdated
  <2>2. FreshStore'
    BY <1>1 DEF ExpiresStore, Mark, FreshStore, OutdatedStore
  <2> QED
    BY <2>1, <2>2 DEF FreshInv
<1>2. CASE \E u \in Users : Expires(u)
  <2> PICK u \in Users : Expires(u)
    BY <1>2
  <2>1. ASSUME NEW v \in Users PROVE Fresh(v)'
    <3>1. Announcing(v)' = Announcing(v) /\ Outdated(v)' = Outdated(v)
      BY DEF Expires, Announcing, Outdated
    <3>2. CASE v = u
      BY <3>1, <3>2 DEF Expires, Expired, Mark, Fresh, TypeInv, TypeOK
    <3>3. CASE v # u
      BY <3>1, <3>3 DEF Expires, Mark, FreshInv, Fresh, TypeInv, TypeOK
    <3> QED
      BY <3>2, <3>3
  <2>2. FreshStore'
    <3>1. u # Store
      BY MembersAssumption DEF MembersAssumption
    <3>2. Store \in raced' <=> Store \in raced
      BY <3>1 DEF Expires, Mark
    <3> QED
      BY <3>2 DEF Expires, FreshInv, FreshStore, AnnouncingStore, OutdatedStore
  <2> QED
    BY <2>1, <2>2 DEF FreshInv
<1> QED
  BY <1>1, <1>2

\* What is cached of a membership and of the store is what the master database
\* says, but for what is about to be announced and what was read before a change
\* and stored after it.
THEOREM CacheIsFresh == ASSUME MembersAssumption PROVE Spec => []GuardsFresh
<1>1. Init => FreshInv
  BY FreshInit
<1>2. TypeInv /\ TypeInv' /\ FreshInv /\ [Next]_vars => FreshInv'
  <2> SUFFICES ASSUME TypeInv, TypeInv', FreshInv, [Next]_vars PROVE FreshInv'
    OBVIOUS
  <2>1. CASE UNCHANGED vars
    BY <2>1, EntriesStay DEF vars, cached, history, Announcing, AnnouncingStore
  <2> QED
    BY <2>1, FreshStart, FreshContinue, FreshGuards, FreshExpiry DEF Next
<1>3. FreshInv => GuardsFresh
  BY DEF FreshInv, Fresh, FreshStore, GuardsFresh
<1> QED
  BY <1>1, <1>2, <1>3, TypeInvariant, PTL DEF Spec

-------------------------------------------------------------------------------
\* The plan's seats.

Seated == Active \ reopened

\* Counted from the count on: an invitation holds its seat before it is written.
Seats ==
  /\ inviting >= 1
  /\ Cardinality(Seated) + Cardinality(Invitations) <= MaxStaff + inviting - 1

LEMMA SeatsInit == ASSUME MembersAssumption, Init PROVE Seats
<1>1. Seated = {u \in Users : Initially[u] \in Roles} /\ Invitations = {}
  BY DEF Init, Seated, Active, Invitations, NoCall
<1>2. Cardinality(Seated) \in Nat
  BY <1>1, SeatsFinite
<1>3. Cardinality(Invitations) = 0
  BY <1>1, FS_EmptySet
<1> QED
  BY <1>1, <1>2, <1>3, MembersAssumption DEF Init, Seats, MembersAssumption

\* What seats nobody and lets nobody past the quota keeps the bound.
LEMMA SeatsShrink ==
  ASSUME MembersAssumption, TypeInv, Seats, Seated' \subseteq Seated,
         Invitations' \subseteq Invitations, inviting' = inviting
  PROVE  Seats'
<1>1. Seated \in SUBSET Users /\ Invitations \in SUBSET Calls
  BY DEF Seated, Active, Invitations
<1>2. /\ IsFiniteSet(Seated) /\ Cardinality(Seated) \in Nat
      /\ IsFiniteSet(Invitations) /\ Cardinality(Invitations) \in Nat
  BY <1>1, SeatsFinite
<1>3. Cardinality(Seated') <= Cardinality(Seated) /\ Cardinality(Seated') \in Nat
  BY <1>2, FS_Subset, FS_CardinalityType
<1>4. Cardinality(Invitations') <= Cardinality(Invitations) /\ Cardinality(Invitations') \in Nat
  BY <1>2, FS_Subset, FS_CardinalityType
<1> QED
  BY <1>2, <1>3, <1>4, MembersAssumption DEF Seats, TypeInv, TypeOK, MembersAssumption

\* A call that moves to where it is no invitation.
LEMMA InvitationsStay ==
  ASSUME TypeInv, NEW c \in Calls,
         \A d \in Calls : d # c => call'[d] = call[d],
         call'[c].pc \notin {"find", "upsert"} \/ call[c].pc \in {"find", "upsert"}
  PROVE  Invitations' \subseteq Invitations
BY DEF Invitations

LEMMA SeatsInvited ==
  ASSUME MembersAssumption, TypeInv, TypeInv', Seats, NEW c \in Calls, NEW u \in Users,
         NEW role \in Roles, InviteCount(c, u, role)
  PROVE  Seats'
<1> DEFINE D == Invitations \cup {c}
<1>1. Seated' = Seated /\ Invitations' \subseteq D
  BY DEF InviteCount, Begin, Seated, Active, Invitations, TypeInv, TypeOK
<1>2. Seated \in SUBSET Active /\ Active \in SUBSET Users /\ D \in SUBSET Calls
  BY DEF Seated, Active, Invitations
<1>3. /\ IsFiniteSet(Active) /\ Cardinality(Active) \in Nat
      /\ IsFiniteSet(D) /\ Cardinality(D) \in Nat
  BY <1>2, SeatsFinite
<1>4. Cardinality(Seated) <= Cardinality(Active) /\ Cardinality(Seated) \in Nat
  BY <1>2, <1>3, FS_Subset, FS_CardinalityType
<1>5. Cardinality(Invitations') <= Cardinality(D) /\ Cardinality(Invitations') \in Nat
  BY <1>1, <1>3, FS_Subset, FS_CardinalityType
<1>6. inviting' = Larger(inviting, Cardinality(D)) /\ Cardinality(Active) + 1 <= MaxStaff
  BY DEF InviteCount, WithinLimit
<1>7. inviting' \in Nat /\ inviting' >= inviting /\ inviting' >= Cardinality(D)
  BY <1>3, <1>6, LargerTyped DEF TypeInv, TypeOK
<1> HIDE DEF D
<1> QED
  BY <1>1, <1>3, <1>4, <1>5, <1>6, <1>7, MembersAssumption
  DEF Seats, TypeInv, TypeOK, MembersAssumption

LEMMA SeatsWritten ==
  ASSUME MembersAssumption, TypeInv, TypeInv', Seats, NEW c \in Calls, InviteUpsert(c)
  PROVE  Seats'
<1> DEFINE u == call[c].user
<1>1. Seated \in SUBSET Users /\ Invitations \in SUBSET Calls
  BY DEF Seated, Active, Invitations
<1>2. /\ IsFiniteSet(Seated) /\ Cardinality(Seated) \in Nat
      /\ IsFiniteSet(Invitations) /\ Cardinality(Invitations) \in Nat
  BY <1>1, SeatsFinite
<1>3. Seated' \subseteq Seated \cup {u}
  BY DEF InviteUpsert, Change, Seated, Active, TypeInv, TypeOK
<1>4. Cardinality(Seated') <= Cardinality(Seated) + 1 /\ Cardinality(Seated') \in Nat
  <2>0. /\ IsFiniteSet(Seated \cup {u})
        /\ Cardinality(Seated \cup {u}) =
             IF u \in Seated THEN Cardinality(Seated) ELSE Cardinality(Seated) + 1
    BY <1>2, FS_AddElement
  <2>1. IsFiniteSet(Seated \cup {u}) /\ Cardinality(Seated \cup {u}) <= Cardinality(Seated) + 1
    BY <1>2, <2>0
  <2>2. Cardinality(Seated \cup {u}) \in Nat
    BY <2>1, FS_CardinalityType
  <2>3. /\ Cardinality(Seated') <= Cardinality(Seated \cup {u})
        /\ Cardinality(Seated') \in Nat
    BY <1>3, <2>1, FS_Subset, FS_CardinalityType
  <2> QED
    BY <1>2, <2>1, <2>2, <2>3
<1>5. c \in Invitations /\ Invitations' = Invitations \ {c}
  BY DEF InviteUpsert, Go, Invitations, TypeInv, TypeOK, Call
<1>6. Cardinality(Invitations') = Cardinality(Invitations) - 1
  BY <1>2, <1>5, FS_RemoveElement
<1>7. inviting' = inviting
  BY DEF InviteUpsert
<1> QED
  BY <1>2, <1>4, <1>6, <1>7, MembersAssumption DEF Seats, TypeInv, TypeOK, MembersAssumption

LEMMA SeatsCalls ==
  ASSUME MembersAssumption, TypeInv, TypeInv', Seats, NEW c \in Calls,
         Start(c) \/ Continue(c) \/ Dies(c)
  PROVE  Seats'
<1>1. CASE \E u \in Users, role \in Roles : InviteCount(c, u, role)
  BY <1>1, SeatsInvited
<1>2. CASE InviteUpsert(c)
  BY <1>2, SeatsWritten
<1>3. CASE InviteFind(c)
  <2>1. Invitations' \subseteq Invitations
    BY <1>3, InvitationsStay DEF InviteFind, End, Go, TypeInv, TypeOK
  <2>2. Seated' = Seated
    BY <1>3 DEF InviteFind, history, Seated, Active
  <2> QED
    BY <1>3, <2>1, <2>2, SeatsShrink DEF InviteFind, history
<1>4. CASE UpdateWrite(c)
  <2>1. Invitations' \subseteq Invitations
    BY <1>4, InvitationsStay DEF UpdateWrite, End, Go, NoCall, TypeInv, TypeOK, Call
  <2>2. call[c].user \in Users
    BY <1>4, UserKnown DEF UpdateWrite, Nobodys
  <2>3. Seated' \subseteq Seated
    <3>1. CASE row[call[c].user] = "none"
      BY <1>4, <3>1 DEF UpdateWrite, Seated, Active
    <3>2. CASE row[call[c].user] # "none"
      <4>1. /\ row' = [row EXCEPT ![call[c].user] = call[c].to]
            /\ reopened' = IF row[call[c].user] = "off" /\ call[c].to \in Roles
                           THEN reopened \cup {call[c].user}
                           ELSE IF call[c].to = "off" THEN reopened \ {call[c].user} ELSE reopened
        BY <1>4, <3>2 DEF UpdateWrite, Change
      <4>2. row[call[c].user] \in Roles \cup {"off"}
        BY <2>2, <3>2 DEF TypeInv, TypeOK, Membership
      <4> QED
        BY <2>2, <4>1, <4>2 DEF Seated, Active, Roles, TypeInv, TypeOK
    <3> QED
      BY <3>1, <3>2
  <2> QED
    BY <1>4, <2>1, <2>3, SeatsShrink DEF UpdateWrite
<1>5. CASE RemoveDelete(c)
  <2>1. Invitations' \subseteq Invitations
    BY <1>5, InvitationsStay DEF RemoveDelete, End, Go, NoCall, TypeInv, TypeOK, Call
  <2>2. call[c].user \in Users
    BY <1>5, UserKnown DEF RemoveDelete, Nobodys
  <2>3. Seated' \subseteq Seated
    BY <1>5, <2>2 DEF RemoveDelete, Change, Seated, Active, Roles, TypeInv, TypeOK
  <2> QED
    BY <1>5, <2>1, <2>3, SeatsShrink DEF RemoveDelete
<1>6. CASE \/ \E u \in Users, to \in Roles \cup {"off"} : UpdateRead(c, u, to)
           \/ \E u \in Users : RemoveRead(c, u)
           \/ SetStatus(c)
  <2>1. /\ call'[c].pc \in {"update", "delete", "forgetStore"}
        /\ \A d \in Calls : d # c => call'[d] = call[d]
    BY <1>6 DEF UpdateRead, RemoveRead, SetStatus, Begin, TypeInv, TypeOK
  <2>2. Invitations' \subseteq Invitations
    BY <2>1, InvitationsStay
  <2>3. Seated' = Seated /\ inviting' = inviting
    BY <1>6 DEF UpdateRead, RemoveRead, SetStatus, history, Seated, Active
  <2> QED
    BY <2>2, <2>3, SeatsShrink
<1>7. CASE \/ \E f \in BOOLEAN : Unmirror(c, f) \/ Sync(c, f) \/ Forget(c, f) \/ ForgetStore(c, f) \/ ForgetAll(c, f)
           \/ Dies(c)
  <2>1. /\ call'[c].pc \notin {"find", "upsert"}
        /\ \A d \in Calls : d # c => call'[d] = call[d]
    BY <1>7 DEF Unmirror, Sync, Forget, ForgetStore, ForgetAll, Dies, End, Go, NoCall, TypeInv, TypeOK, Call
  <2>2. Invitations' \subseteq Invitations
    BY <2>1, InvitationsStay
  <2>3. Seated' = Seated /\ inviting' = inviting
    BY <1>7 DEF Unmirror, Sync, Forget, ForgetStore, ForgetAll, Dies, history, Seated, Active
  <2> QED
    BY <2>2, <2>3, SeatsShrink
<1> QED
  BY <1>1, <1>2, <1>3, <1>4, <1>5, <1>6, <1>7 DEF Start, Continue

\* The plan's seats are overrun by no more than the invitations that were counted
\* together, and the members update has reactivated.
THEOREM SeatsHeld == ASSUME MembersAssumption PROVE Spec => []SeatsBounded
<1>1. Init => Seats
  BY SeatsInit
<1>2. TypeInv /\ TypeInv' /\ Seats /\ [Next]_vars => Seats'
  <2> SUFFICES ASSUME TypeInv, TypeInv', Seats, [Next]_vars PROVE Seats'
    OBVIOUS
  <2>1. CASE \E c \in Calls : Start(c) \/ Continue(c) \/ Dies(c)
    BY <2>1, SeatsCalls
  <2>2. CASE \/ UNCHANGED vars
             \/ \E q \in Requests : Guards(q) \/ \E u \in Users : Arrive(q, u)
             \/ \E u \in Users : Expires(u)
             \/ ExpiresStore
    <3>1. UNCHANGED <<row, call, inviting, reopened>>
      BY <2>2
      DEF vars, Guards, FindHit, FindLoad, FindStore, ResolveHit, ResolveLoad, ResolveStore,
          Arrive, Expires, ExpiresStore, history
    <3>2. Seated' = Seated /\ Invitations' = Invitations
      BY <3>1 DEF Seated, Active, Invitations
    <3> QED
      BY <3>1, <3>2, SeatsShrink
  <2> QED
    BY <2>1, <2>2 DEF Next
<1>3. TypeInv /\ Seats => SeatsBounded
  <2> SUFFICES ASSUME TypeInv, Seats PROVE SeatsBounded
    OBVIOUS
  <2> DEFINE D == {c \in Calls : call[c].pc = "upsert"}
  <2>1. Invitations \in SUBSET Calls /\ D \in SUBSET Invitations /\ Seated \in SUBSET Users
    BY DEF Invitations, Seated, Active
  <2>2. IsFiniteSet(Invitations) /\ Cardinality(Invitations) \in Nat /\ Cardinality(Seated) \in Nat
    BY <2>1, SeatsFinite
  <2>3. Cardinality(D) <= Cardinality(Invitations) /\ Cardinality(D) \in Nat
    BY <2>1, <2>2, FS_Subset, FS_CardinalityType
  <2> QED
    BY <2>2, <2>3, MembersAssumption
    DEF Seats, SeatsBounded, Seated, TypeInv, TypeOK, MembersAssumption
<1> QED
  BY <1>1, <1>2, <1>3, TypeInvariant, PTL DEF Spec

-------------------------------------------------------------------------------
\* The mirror in the store's database.

Mirrored(u) == Grant(profile[u]) = Grant(row[u])

\* A call on a member whose calls take turns: what it still has to mirror.
Mirroring(c) ==
  LET u == call[c].user IN
  u \in Users \ torn =>
    /\ \A d \in Calls : call[d].user = u => d = c
    /\ call[c].pc \in {"find", "upsert", "update", "delete", "forget"} => Mirrored(u)
    /\ call[c].pc = "sync" => row[u] = call[c].to
    /\ call[c].pc \in {"forgetRemoved", "unmirror"} => row[u] = "none"

Mirror == MirrorAgrees /\ \A c \in Calls : Mirroring(c)

LEMMA MirrorInit == ASSUME MembersAssumption, Init PROVE Mirror
BY MembersAssumption
DEF Init, Mirror, MirrorAgrees, Mirroring, Mirrored, NoCall, MembersAssumption

\* A call that begins on a member nobody else is changing.
LEMMA MirrorBegin ==
  ASSUME MembersAssumption, TypeInv, Mirror, NEW c \in Calls, call[c].pc = "idle",
         NEW u \in Users \cup {None}, NEW step \in {"find", "update", "delete", "forgetStore"}, NEW to,
         Begin(c, u, step, to), u = None \/ Overlap(u), u = None => torn' = torn,
         UNCHANGED <<row, profile>>
  PROVE  Mirror'
<1>1. /\ call'[c].pc = step /\ call'[c].user = u
      /\ \A d \in Calls : d # c => call'[d] = call[d]
  BY DEF Begin, TypeInv, TypeOK
<1>2. call[c].user = None
  BY DEF TypeInv, Rows, CallRow, Nobodys
<1>3. torn \subseteq torn' /\ (u \in Users \ torn' => Settled(u))
  BY MembersAssumption DEF Overlap, MembersAssumption
<1>4. \A v \in Users : Mirrored(v)' = Mirrored(v)
  BY DEF Mirrored
<1>5. ASSUME NEW v \in Users \ torn', Settled(v)' PROVE Mirrored(v)'
  <2>1. Settled(v)
    BY <1>1, <1>2, <1>5, MembersAssumption DEF Settled, MembersAssumption
  <2> QED
    BY <1>3, <1>4, <1>5, <2>1 DEF Mirror, MirrorAgrees, Mirrored
<1>6. ASSUME NEW d \in Calls PROVE Mirroring(d)'
  <2>1. CASE d = c
    <3> SUFFICES ASSUME u \in Users \ torn'
                 PROVE  (\A e \in Calls : call'[e].user = u => e = c) /\ Mirrored(u)'
      BY <1>1, <2>1 DEF Mirroring
    <3>1. Settled(u) /\ u \in Users \ torn
      BY <1>3
    <3> QED
      BY <1>1, <1>4, <3>1 DEF Settled, Mirror, MirrorAgrees, Mirrored
  <2>2. CASE d # c
    <3> PICK v : v = call[d].user
      OBVIOUS
    <3> SUFFICES ASSUME v \in Users \ torn' PROVE Mirroring(d)'
      BY <1>1, <2>2 DEF Mirroring
    <3>1. v # u
      BY <1>3 DEF Settled
    <3>2. Mirroring(d) /\ v \in Users \ torn
      BY <1>3 DEF Mirror
    <3>3. call'[d] = call[d]
      BY <1>1, <2>2
    <3>4. \A e \in Calls : call'[e].user = v => e = d
      BY <1>1, <3>1, <3>2 DEF Mirroring
    <3>5. row'[v] = row[v] /\ Mirrored(v)' = Mirrored(v)
      BY <1>4, <3>2
    <3> QED
      BY <3>2, <3>3, <3>4, <3>5 DEF Mirroring
  <2> QED
    BY <2>1, <2>2
<1>7. MirrorAgrees'
  BY <1>5 DEF MirrorAgrees, Mirrored
<1> QED
  BY <1>6, <1>7 DEF Mirror

\* A call that goes on, leaving the other members alone: what it has reached
\* itself is all there is to show.
LEMMA MirrorGoes ==
  ASSUME MembersAssumption, TypeInv, Mirror, NEW c \in Calls, NEW u, u = call[c].user,
         \A d \in Calls : d # c => call'[d] = call[d],
         call'[c].user \in {u, None}, torn \subseteq torn',
         \A v \in Users : v # u => row'[v] = row[v] /\ profile'[v] = profile[v],
         u \in Users \ torn' =>
           IF call'[c].user = None THEN Mirrored(u)'
           ELSE /\ call'[c].pc \in {"find", "upsert", "update", "delete", "forget"} => Mirrored(u)'
                /\ call'[c].pc = "sync" => row'[u] = call'[c].to
                /\ call'[c].pc \in {"forgetRemoved", "unmirror"} => row'[u] = "none"
  PROVE  Mirror'
<1>1. ASSUME NEW v \in Users, v # u PROVE Mirrored(v)' = Mirrored(v)
  BY <1>1 DEF Mirrored
<1>2. None \notin Users
  BY MembersAssumption DEF MembersAssumption
<1>3. \A v \in Users \ torn' : call'[c].user = v => v = u
  BY <1>2
<1>4. ASSUME NEW v \in Users \ torn', Settled(v)' PROVE Mirrored(v)'
  <2>1. CASE v = u
    BY <1>4, <2>1 DEF Settled
  <2>2. CASE v # u
    <3>1. Settled(v)
      BY <1>4, <2>2 DEF Settled
    <3> QED
      BY <1>1, <1>4, <2>2, <3>1 DEF Mirror, MirrorAgrees, Mirrored
  <2> QED
    BY <2>1, <2>2
<1>5. Mirroring(c)'
  <2> SUFFICES ASSUME call'[c].user \in Users \ torn' PROVE Mirroring(c)'
    BY DEF Mirroring
  <2>1. call'[c].user = u /\ u \in Users \ torn /\ u # None
    BY <1>2
  <2>2. \A d \in Calls : call[d].user = u => d = c
    BY <2>1 DEF Mirror, Mirroring
  <2> QED
    BY <2>1, <2>2 DEF Mirroring
<1>6. ASSUME NEW d \in Calls, d # c PROVE Mirroring(d)'
  <2> PICK v : v = call[d].user
    OBVIOUS
  <2>0. call'[d] = call[d]
    BY <1>6
  <2> SUFFICES ASSUME v \in Users \ torn' PROVE Mirroring(d)'
    BY <2>0 DEF Mirroring
  <2>1. v \in Users \ torn /\ Mirroring(d)
    BY DEF Mirror
  <2>2. v # u
    BY <1>6, <2>1 DEF Mirroring
  <2>3. row'[v] = row[v] /\ Mirrored(v)' = Mirrored(v)
    BY <1>1, <2>1, <2>2
  <2>4. \A e \in Calls : call'[e].user = v => e = d
    BY <1>2, <2>1, <2>2 DEF Mirroring
  <2> QED
    BY <2>0, <2>1, <2>3, <2>4 DEF Mirroring
<1> QED
  BY <1>4, <1>5, <1>6 DEF Mirror, MirrorAgrees, Mirrored

LEMMA MirrorCalls ==
  ASSUME MembersAssumption, TypeInv, TypeInv', Mirror, NEW c \in Calls,
         Start(c) \/ Continue(c) \/ Dies(c)
  PROVE  Mirror'
<1> PICK u : u = call[c].user
  OBVIOUS
<1>a. NoCall.user = None
  BY DEF NoCall
<1>b. call[c] \in Call /\ CallRow(c) /\ Mirroring(c) /\ None \notin Users
  BY MembersAssumption DEF TypeInv, TypeOK, Rows, Mirror, MembersAssumption
<1>c. End(c) => /\ call'[c].user = None /\ \A d \in Calls : d # c => call'[d] = call[d]
  BY <1>a DEF End, TypeInv, TypeOK
<1>d. \A step : Go(c, step) => /\ call'[c].user = u /\ call'[c].pc = step /\ call'[c].to = call[c].to
                               /\ \A d \in Calls : d # c => call'[d] = call[d]
  BY <1>b DEF Go, TypeInv, TypeOK, Call
<1>1. CASE Start(c)
  <2>1. CASE \E v \in Users, role \in Roles : InviteCount(c, v, role)
    BY <2>1, <1>b, MirrorBegin DEF InviteCount, Idle
  <2>2. CASE \E v \in Users, to \in Roles \cup {"off"} : UpdateRead(c, v, to)
    BY <2>2, <1>b, MirrorBegin DEF UpdateRead, Idle
  <2>3. CASE \E v \in Users : RemoveRead(c, v)
    BY <2>3, <1>b, MirrorBegin DEF RemoveRead, Idle
  <2>4. CASE SetStatus(c)
    BY <2>4, MirrorBegin DEF SetStatus, Idle, history
  <2> QED
    BY <1>1, <2>1, <2>2, <2>3, <2>4 DEF Start
<1>2. CASE InviteFind(c)
  <2>1. torn' = torn /\ row' = row /\ profile' = profile /\ call[c].pc = "find"
    BY <1>2 DEF InviteFind, history
  <2>2. u \in Users \ torn' => Mirrored(u)'
    BY <1>b, <2>1 DEF Mirroring, Mirrored
  <2> QED
    BY <1>2, <1>b, <1>c, <1>d, <2>1, <2>2, MirrorGoes DEF InviteFind
<1>3. CASE InviteUpsert(c)
  <2>1. torn' = torn /\ profile' = profile /\ Go(c, "sync") /\ Change(u, call[c].to) /\ call[c].pc = "upsert"
    BY <1>3 DEF InviteUpsert
  <2>2. u \in Users
    BY <2>1, UserKnown DEF Nobodys
  <2>3. row'[u] = call[c].to /\ \A v \in Users : v # u => row'[v] = row[v]
    BY <2>1, <2>2 DEF Change, TypeInv, TypeOK
  <2> QED
    BY <1>b, <1>d, <2>1, <2>2, <2>3, MirrorGoes
<1>4. CASE UpdateWrite(c) /\ row[u] = "none"
  <2>1. torn' = torn /\ row' = row /\ profile' = profile /\ End(c) /\ call[c].pc = "update"
    BY <1>4 DEF UpdateWrite
  <2>2. u \in Users \ torn' => Mirrored(u)'
    BY <1>b, <2>1 DEF Mirroring, Mirrored
  <2> QED
    BY <1>c, <2>1, <2>2, MirrorGoes
<1>5. CASE UpdateWrite(c) /\ row[u] # "none"
  <2>1. torn' = torn /\ profile' = profile /\ Go(c, "sync") /\ Change(u, call[c].to) /\ call[c].pc = "update"
    BY <1>5 DEF UpdateWrite
  <2>2. u \in Users
    BY <2>1, UserKnown DEF Nobodys
  <2>3. row'[u] = call[c].to /\ \A v \in Users : v # u => row'[v] = row[v]
    BY <2>1, <2>2 DEF Change, TypeInv, TypeOK
  <2> QED
    BY <1>b, <1>d, <2>1, <2>2, <2>3, MirrorGoes
<1>6. CASE RemoveDelete(c) /\ row[u] = "none"
  <2>1. torn' = torn /\ row' = row /\ profile' = profile /\ End(c) /\ call[c].pc = "delete"
    BY <1>6 DEF RemoveDelete
  <2>2. u \in Users \ torn' => Mirrored(u)'
    BY <1>b, <2>1 DEF Mirroring, Mirrored
  <2> QED
    BY <1>c, <2>1, <2>2, MirrorGoes
<1>7. CASE RemoveDelete(c) /\ row[u] # "none"
  <2>1. torn' = torn /\ profile' = profile /\ Go(c, "forgetRemoved") /\ Change(u, "none") /\ call[c].pc = "delete"
    BY <1>7 DEF RemoveDelete
  <2>2. u \in Users
    BY <2>1, UserKnown DEF Nobodys
  <2>3. row'[u] = "none" /\ \A v \in Users : v # u => row'[v] = row[v]
    BY <2>1, <2>2 DEF Change, TypeInv, TypeOK
  <2> QED
    BY <1>b, <1>d, <2>1, <2>2, <2>3, MirrorGoes
<1>8. CASE \E fails \in BOOLEAN : Unmirror(c, fails)
  <2> PICK fails \in BOOLEAN : Unmirror(c, fails)
    BY <1>8
  <2>1. row' = row /\ End(c) /\ call[c].pc = "unmirror" /\ torn \subseteq torn'
    BY DEF Unmirror
  <2>2. u \in Users
    BY <2>1, UserKnown DEF Nobodys
  <2>3. \A v \in Users : v # u => profile'[v] = profile[v]
    BY DEF Unmirror, TypeInv, TypeOK
  <2>4. u \notin torn' => ~fails
    BY DEF Unmirror
  <2>5. ~fails => profile'[u] \in {"none", "off"}
    BY <2>2 DEF Unmirror, Unmirrored, TypeInv, TypeOK
  <2>6. u \in Users \ torn' => Mirrored(u)'
    BY <1>b, <2>1, <2>4, <2>5 DEF Mirroring, Mirrored, Grant, Roles
  <2> QED
    BY <1>c, <2>1, <2>3, <2>6, MirrorGoes
<1>9. CASE \E fails \in BOOLEAN : Sync(c, fails)
  <2> PICK fails \in BOOLEAN : Sync(c, fails)
    BY <1>9
  <2>1. row' = row /\ Go(c, "forget") /\ call[c].pc = "sync" /\ torn \subseteq torn'
    BY DEF Sync
  <2>2. u \in Users
    BY <2>1, UserKnown DEF Nobodys
  <2>3. \A v \in Users : v # u => profile'[v] = profile[v]
    BY DEF Sync, TypeInv, TypeOK
  <2>4. u \notin torn' => profile'[u] = call[c].to
    BY <2>2 DEF Sync, TypeInv, TypeOK
  <2>5. u \in Users \ torn' => Mirrored(u)'
    BY <1>b, <2>1, <2>4 DEF Mirroring, Mirrored
  <2> QED
    BY <1>b, <1>d, <2>1, <2>2, <2>3, <2>5, MirrorGoes
<1>10. CASE \E lost \in BOOLEAN : Forget(c, lost)
  <2> PICK lost \in BOOLEAN : Forget(c, lost)
    BY <1>10
  <2>1. torn' = torn /\ row' = row /\ profile' = profile /\ call[c].pc \in {"forget", "forgetRemoved"}
    BY DEF Forget, history
  <2>2. u \in Users
    BY <2>1, UserKnown DEF Nobodys
  <2>3. CASE call[c].pc = "forget"
    <3>1. u \in Users \ torn' => Mirrored(u)'
      BY <1>b, <2>1, <2>3 DEF Mirroring, Mirrored
    <3> QED
      BY <1>c, <2>1, <2>3, <3>1, MirrorGoes DEF Forget
  <2>4. CASE call[c].pc = "forgetRemoved"
    <3>1. Go(c, "unmirror")
      BY <2>4 DEF Forget
    <3> QED
      BY <1>b, <1>d, <2>1, <2>2, <2>4, <3>1, MirrorGoes DEF Mirroring
  <2> QED
    BY <2>1, <2>3, <2>4
<1>11. CASE \E lost \in BOOLEAN : ForgetStore(c, lost) \/ ForgetAll(c, lost)
  <2>1. /\ UNCHANGED <<torn, row, profile>> /\ call[c].pc \in Nobodys
        /\ Go(c, "forgetAll") \/ End(c)
    BY <1>11 DEF ForgetStore, ForgetAll, history, Nobodys
  <2>2. u \notin Users
    BY <1>b, <2>1 DEF CallRow
  <2> QED
    BY <1>c, <1>d, <2>1, <2>2, MirrorGoes
<1>12. CASE Dies(c)
  <2>1. row' = row /\ profile' = profile /\ End(c) /\ torn \subseteq torn'
    BY <1>12 DEF Dies
  <2>2. u \in Users \ torn' => call[c].pc \in {"find", "upsert", "update", "delete", "forget"}
    BY <1>12, <1>b DEF Dies, Call, Steps, CallRow, Nobodys
  <2>3. u \in Users \ torn' => Mirrored(u)'
    BY <1>b, <2>1, <2>2 DEF Mirroring, Mirrored
  <2> QED
    BY <1>c, <2>1, <2>3, MirrorGoes
<1> QED
  BY <1>1, <1>2, <1>3, <1>4, <1>5, <1>6, <1>7, <1>8, <1>9, <1>10, <1>11, <1>12 DEF Continue

\* The profile in the store's database says of a member what the master says, of
\* everybody whose calls took turns and ran to their end.
THEOREM MirrorKept == ASSUME MembersAssumption PROVE Spec => []MirrorAgrees
<1>1. Init => Mirror
  BY MirrorInit
<1>2. TypeInv /\ TypeInv' /\ Mirror /\ [Next]_vars => Mirror'
  <2> SUFFICES ASSUME TypeInv, TypeInv', Mirror, [Next]_vars PROVE Mirror'
    OBVIOUS
  <2>1. CASE \E c \in Calls : Start(c) \/ Continue(c) \/ Dies(c)
    BY <2>1, MirrorCalls
  <2>2. CASE \/ UNCHANGED vars
             \/ \E q \in Requests : Guards(q) \/ \E u \in Users : Arrive(q, u)
             \/ \E u \in Users : Expires(u)
             \/ ExpiresStore
    <3>1. UNCHANGED <<row, profile, call, torn>>
      BY <2>2
      DEF vars, Guards, FindHit, FindLoad, FindStore, ResolveHit, ResolveLoad, ResolveStore,
          Arrive, Expires, ExpiresStore, history
    <3> QED
      BY <3>1 DEF Mirror, MirrorAgrees, Mirroring, Mirrored, Settled
  <2> QED
    BY <2>1, <2>2 DEF Next
<1>3. Mirror => MirrorAgrees
  BY DEF Mirror
<1> QED
  BY <1>1, <1>2, <1>3, TypeInvariant, PTL DEF Spec
===============================================================================
