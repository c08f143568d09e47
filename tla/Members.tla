-------------------------------- MODULE Members --------------------------------
(***************************************************************************)
(* Who may act in one store: StaffService's memberships and their mirror   *)
(* in the store's own database, and what the guards of a request believe:  *)
(* MembershipService and TenantResolverService over Redis.                 *)
(*                                                                         *)
(* Every statement committed on its own is a step.  A membership is its    *)
(* role, or "off" when it is inactive; the owner's never changes.          *)
(***************************************************************************)
EXTENDS Naturals, FiniteSets

CONSTANTS
  Users,         \* people who are, or may become, staff
  Calls,         \* requests that change a membership or the store's status
  Requests,      \* requests of those people that pass the guards
  Initially,     \* who is, or was, staff at first
  MaxStaff,      \* MAX_STAFF of the plan, without the owner
  MaxChanges,    \* bound on changes
  Faults,        \* statements outside the master database may fail, calls may die
  None

Roles == {"MANAGER", "STAFF"}
Store == "store"          \* the store's own entry in the cache

\* The store starts within its plan.
ASSUME MembersAssumption ==
  /\ IsFiniteSet(Users) /\ IsFiniteSet(Calls)
  /\ Initially \in [Users -> Roles \cup {"none", "off"}]
  /\ MaxStaff \in Nat /\ MaxChanges \in Nat
  /\ Cardinality({u \in Users : Initially[u] \in Roles}) <= MaxStaff
  /\ Faults \in BOOLEAN
  /\ None \notin Users /\ Store \notin Users

VARIABLES
  row,           \* tenant_users
  profile,       \* staff_profiles, in the store's database
  status,        \* tenants.status
  seen,          \* the cached membership of each user (30 seconds)
  resolved,      \* the cached status of the store (300 seconds)
  call,          \* a change under way: where it is, whose, and what it writes
  req,           \* a request in the guards
  changes,
  \* History, for the properties:
  raced,         \* entries that may have been read before a change and stored after it
  torn,          \* members two calls have handled at once, or one only half way
  inviting,      \* the most invitations that were past the quota at once
  reopened       \* memberships reactivated by update, which checks no quota

cached == <<seen, resolved>>
history == <<torn, inviting, reopened>>
vars == <<row, profile, status, seen, resolved, call, req, changes, raced, torn, inviting, reopened>>

Membership == Roles \cup {"none", "off"}
Grants == Roles \cup {"none"}
Status == {"ACTIVE", "SUSPENDED"}
Steps == {"idle", "find", "upsert", "update", "delete", "sync", "forget", "forgetRemoved",
          "unmirror", "forgetStore", "forgetAll"}
Call == [pc: Steps, user: Users \cup {None}, to: Membership]
NoCall == [pc |-> "idle", user |-> None, to |-> "none"]
Request == [pc: {"idle", "member", "store", "grants"}, user: Users \cup {None},
            load: Grants \cup Status \cup {None}]
NoRequest == [pc |-> "idle", user |-> None, load |-> None]

TypeOK ==
  /\ row \in [Users -> Membership]
  /\ profile \in [Users -> Membership]
  /\ status \in Status
  /\ seen \in [Users -> Grants \cup {None}]
  /\ resolved \in Status \cup {None}
  /\ call \in [Calls -> Call]
  /\ req \in [Requests -> Request]
  /\ changes \in 0..MaxChanges
  /\ raced \subseteq Users \cup {Store}
  /\ torn \subseteq Users
  /\ inviting \in Nat
  /\ reopened \subseteq Users

Init ==
  /\ row = [u \in Users |-> Initially[u]]
  /\ profile = row
  /\ status = "ACTIVE"
  /\ seen = [u \in Users |-> None]
  /\ resolved = None
  /\ call = [c \in Calls |-> NoCall]
  /\ req = [q \in Requests |-> NoRequest]
  /\ changes = 0
  /\ raced = {}
  /\ torn = {}
  /\ inviting = 1
  /\ reopened = {}

-------------------------------------------------------------------------------
\* Helpers

Grant(m) == IF m \in Roles THEN m ELSE "none"
Active == {u \in Users : row[u] \in Roles}
Larger(a, b) == IF a >= b THEN a ELSE b

Idle(c) == call[c].pc = "idle" /\ changes < MaxChanges
Begin(c, u, step, to) == call' = [call EXCEPT ![c] = [pc |-> step, user |-> u, to |-> to]]

\* Nothing is under way that changes u.
Settled(u) == \A c \in Calls : call[c].user # u
Overlap(u) == torn' = IF Settled(u) THEN torn ELSE torn \cup {u}
Go(c, step) == call' = [call EXCEPT ![c].pc = step]
End(c) == call' = [call EXCEPT ![c] = NoCall]

\* A request whose load was read before the last change of the entry.
Outdated(u) == \E q \in Requests :
  req[q].pc \in {"member", "grants"} /\ req[q].user = u /\ req[q].load \notin {None, Grant(row[u])}
OutdatedStore == \E q \in Requests : req[q].pc = "store" /\ req[q].load \notin {None, status}

Change(u, to) == row' = [row EXCEPT ![u] = to] /\ changes' = changes + 1

Mark(key, is) == raced' = IF is THEN raced \cup {key} ELSE raced \ {key}

-------------------------------------------------------------------------------
\* StaffService.invite

\* Mutant of WithinLimit: one too many.
WithinLimitLate == Cardinality(Active) <= MaxStaff

\* EntitlementsService.assertWithinLimit
WithinLimit == Cardinality(Active) + 1 <= MaxStaff

Invitations == {c \in Calls : call[c].pc \in {"find", "upsert"}}

InviteCount(c, u, role) ==
  /\ Idle(c) /\ WithinLimit
  /\ Begin(c, u, "find", role)
  /\ inviting' = Larger(inviting, Cardinality(Invitations \cup {c}))
  /\ Overlap(u)
  /\ UNCHANGED <<row, profile, status, cached, req, changes, raced, reopened>>

\* An active member is a duplicate.
InviteFind(c) ==
  /\ call[c].pc = "find"
  /\ IF row[call[c].user] \in Roles THEN End(c) ELSE Go(c, "upsert")
  /\ UNCHANGED <<row, profile, status, cached, req, changes, raced, history>>

InviteUpsert(c) ==
  LET u == call[c].user IN
  /\ call[c].pc = "upsert" /\ changes < MaxChanges
  /\ Change(u, call[c].to)
  /\ Go(c, "sync")
  /\ reopened' = reopened \ {u}
  /\ UNCHANGED <<profile, status, cached, req, raced, torn, inviting>>

-------------------------------------------------------------------------------
\* StaffService.update, remove

UpdateRead(c, u, to) ==
  /\ Idle(c) /\ row[u] # "none"
  /\ Begin(c, u, "update", to)
  /\ Overlap(u)
  /\ UNCHANGED <<row, profile, status, cached, req, changes, raced, inviting, reopened>>

\* The UPDATE of a row that is gone throws.
UpdateWrite(c) ==
  LET u == call[c].user IN
  /\ call[c].pc = "update" /\ changes < MaxChanges
  /\ IF row[u] = "none"
     THEN End(c) /\ UNCHANGED <<row, changes, reopened>>
     ELSE /\ Change(u, call[c].to)
          /\ Go(c, "sync")
          /\ reopened' = IF row[u] = "off" /\ call[c].to \in Roles THEN reopened \cup {u}
                         ELSE IF call[c].to = "off" THEN reopened \ {u} ELSE reopened
  /\ UNCHANGED <<profile, status, cached, req, raced, torn, inviting>>

RemoveRead(c, u) ==
  /\ Idle(c) /\ row[u] # "none"
  /\ Begin(c, u, "delete", "none")
  /\ Overlap(u)
  /\ UNCHANGED <<row, profile, status, cached, req, changes, raced, inviting, reopened>>

RemoveDelete(c) ==
  LET u == call[c].user IN
  /\ call[c].pc = "delete" /\ changes < MaxChanges
  /\ IF row[u] = "none"
     THEN End(c) /\ UNCHANGED <<row, changes, reopened>>
     ELSE Change(u, "none") /\ Go(c, "forgetRemoved") /\ reopened' = reopened \ {u}
  /\ UNCHANGED <<profile, status, cached, req, raced, torn, inviting>>

\* Mutant of Unmirrored: the profile of somebody who was removed stays as it is.
UnmirroredNot(m) == m

Unmirrored(m) == IF m = "none" THEN m ELSE "off"

\* The updateMany of remove, whose errors are swallowed.
Unmirror(c, fails) ==
  LET u == call[c].user IN
  /\ call[c].pc = "unmirror" /\ (fails => Faults)
  /\ profile' = IF fails THEN profile ELSE [profile EXCEPT ![u] = Unmirrored(@)]
  /\ torn' = IF fails THEN torn \cup {u} ELSE torn
  /\ End(c)
  /\ UNCHANGED <<row, status, cached, req, changes, raced, inviting, reopened>>

\* syncProfile: what the call wrote into the master database; errors are logged.
Sync(c, fails) ==
  LET u == call[c].user IN
  /\ call[c].pc = "sync" /\ (fails => Faults)
  /\ profile' = IF fails THEN profile ELSE [profile EXCEPT ![u] = call[c].to]
  /\ torn' = IF fails THEN torn \cup {u} ELSE torn
  /\ Go(c, "forget")
  /\ UNCHANGED <<row, status, cached, req, changes, raced, inviting, reopened>>

\* Mutant of Forgotten: the entry is left to its 30 seconds.
ForgottenNot(u) == seen[u]

Forgotten(u) == None

\* MembershipService.invalidate; a Redis error is swallowed.
Forget(c, lost) ==
  LET u == call[c].user IN
  /\ call[c].pc \in {"forget", "forgetRemoved"} /\ (lost => Faults)
  /\ seen' = IF lost THEN seen ELSE [seen EXCEPT ![u] = Forgotten(u)]
  /\ Mark(u, lost \/ Outdated(u))
  /\ IF call[c].pc = "forget" THEN End(c) ELSE Go(c, "unmirror")
  /\ UNCHANGED <<row, profile, status, resolved, req, changes, history>>

-------------------------------------------------------------------------------
\* TenantsService.updateStatus

SetStatus(c) ==
  /\ Idle(c)
  /\ status' = IF status = "ACTIVE" THEN "SUSPENDED" ELSE "ACTIVE"
  /\ changes' = changes + 1
  /\ Begin(c, None, "forgetStore", "none")
  /\ UNCHANGED <<row, profile, cached, req, raced, history>>

ForgetStore(c, lost) ==
  /\ call[c].pc = "forgetStore" /\ (lost => Faults)
  /\ resolved' = IF lost THEN resolved ELSE None
  /\ Mark(Store, lost \/ OutdatedStore)
  /\ Go(c, "forgetAll")
  /\ UNCHANGED <<row, profile, status, seen, req, changes, history>>

ForgetAll(c, lost) ==
  /\ call[c].pc = "forgetAll" /\ (lost => Faults)
  /\ seen' = IF lost THEN seen ELSE [u \in Users |-> None]
  /\ End(c)
  /\ UNCHANGED <<row, profile, status, resolved, req, changes, raced, history>>

\* The process dies; what was committed stays, what is cached too.
Dies(c) ==
  /\ Faults /\ call[c].pc # "idle"
  /\ raced' = raced \cup (IF call[c].pc \in {"sync", "forget", "forgetRemoved"} THEN {call[c].user} ELSE {})
                    \cup (IF call[c].pc = "forgetStore" THEN {Store} ELSE {})
  /\ torn' = torn \cup (IF call[c].pc \in {"sync", "forgetRemoved", "unmirror"} THEN {call[c].user} ELSE {})
  /\ End(c)
  /\ UNCHANGED <<row, profile, status, cached, req, changes, inviting, reopened>>

-------------------------------------------------------------------------------
\* TenantGuard and PermissionsGuard: MembershipService.find, the store by its
\* id, and MembershipService.find again

Arrive(q, u) ==
  /\ req[q].pc = "idle"
  /\ req' = [req EXCEPT ![q] = [NoRequest EXCEPT !.pc = "member", !.user = u]]
  /\ UNCHANGED <<row, profile, status, cached, call, changes, raced, history>>

\* What the membership found means at this stage: after the second one the
\* request is judged and leaves the guards.
Judge(q, grant) ==
  IF grant = "none" \/ req[q].pc = "grants" THEN NoRequest
  ELSE [req[q] EXCEPT !.pc = "store", !.load = None]

FindHit(q) ==
  LET u == req[q].user IN
  /\ req[q].pc \in {"member", "grants"} /\ req[q].load = None /\ seen[u] # None
  /\ req' = [req EXCEPT ![q] = Judge(q, seen[u])]
  /\ UNCHANGED <<row, profile, status, cached, call, changes, raced, history>>

FindLoad(q) ==
  LET u == req[q].user IN
  /\ req[q].pc \in {"member", "grants"} /\ req[q].load = None /\ seen[u] = None
  /\ req' = [req EXCEPT ![q].load = Grant(row[u])]
  /\ UNCHANGED <<row, profile, status, cached, call, changes, raced, history>>

FindStore(q) ==
  LET u == req[q].user IN
  /\ req[q].pc \in {"member", "grants"} /\ req[q].load # None
  /\ seen' = [seen EXCEPT ![u] = req[q].load]
  /\ req' = [req EXCEPT ![q] = Judge(q, req[q].load)]
  /\ UNCHANGED <<row, profile, status, resolved, call, changes, raced, history>>

\* TenantResolverService.resolveById, assertUsable
Usable(q, is) == IF is = "ACTIVE" THEN [req[q] EXCEPT !.pc = "grants", !.load = None] ELSE NoRequest

ResolveHit(q) ==
  /\ req[q].pc = "store" /\ req[q].load = None /\ resolved # None
  /\ req' = [req EXCEPT ![q] = Usable(q, resolved)]
  /\ UNCHANGED <<row, profile, status, cached, call, changes, raced, history>>

ResolveLoad(q) ==
  /\ req[q].pc = "store" /\ req[q].load = None /\ resolved = None
  /\ req' = [req EXCEPT ![q].load = status]
  /\ UNCHANGED <<row, profile, status, cached, call, changes, raced, history>>

ResolveStore(q) ==
  /\ req[q].pc = "store" /\ req[q].load # None
  /\ resolved' = req[q].load
  /\ req' = [req EXCEPT ![q] = Usable(q, req[q].load)]
  /\ UNCHANGED <<row, profile, status, seen, call, changes, raced, history>>

Expired(u) == None

\* The TTLs.
Expires(u) ==
  /\ seen[u] # None
  /\ seen' = [seen EXCEPT ![u] = Expired(u)]
  /\ Mark(u, Outdated(u))
  /\ UNCHANGED <<row, profile, status, resolved, call, req, changes, history>>

ExpiresStore ==
  /\ resolved # None
  /\ resolved' = None
  /\ Mark(Store, OutdatedStore)
  /\ UNCHANGED <<row, profile, status, seen, call, req, changes, history>>

-------------------------------------------------------------------------------

Start(c) ==
  \/ \E u \in Users, role \in Roles : InviteCount(c, u, role) \/ UpdateRead(c, u, role)
  \/ \E u \in Users : UpdateRead(c, u, "off") \/ RemoveRead(c, u)
  \/ SetStatus(c)

Continue(c) ==
  \/ InviteFind(c) \/ InviteUpsert(c) \/ UpdateWrite(c) \/ RemoveDelete(c)
  \/ \E failed \in BOOLEAN : Unmirror(c, failed) \/ Sync(c, failed) \/ Forget(c, failed)
                             \/ ForgetStore(c, failed) \/ ForgetAll(c, failed)

Guards(q) == FindHit(q) \/ FindLoad(q) \/ FindStore(q) \/ ResolveHit(q) \/ ResolveLoad(q) \/ ResolveStore(q)

Next ==
  \/ \E c \in Calls : Start(c) \/ Continue(c) \/ Dies(c)
  \/ \E q \in Requests : Guards(q) \/ \E u \in Users : Arrive(q, u)
  \/ \E u \in Users : Expires(u)
  \/ ExpiresStore

Spec == Init /\ [][Next]_vars

-------------------------------------------------------------------------------
\* Properties

\* What is cached of a membership and of the store is what the master database
\* says, unless a change is about to be announced, or the entry was read before
\* one and stored after it.
Announcing(u) == \E c \in Calls : call[c].user = u /\ call[c].pc \in {"sync", "forget", "forgetRemoved"}
AnnouncingStore == \E c \in Calls : call[c].pc = "forgetStore"
GuardsFresh ==
  /\ \A u \in Users \ raced : ~Announcing(u) => seen[u] \in {None, Grant(row[u])}
  /\ Store \notin raced /\ ~AnnouncingStore => resolved \in {None, status}

\* The plan's seats are overrun by no more than the invitations that were counted
\* together, and the members update has reactivated.
SeatsBounded ==
  Cardinality(Active \ reopened) + Cardinality({c \in Calls : call[c].pc = "upsert"})
    <= MaxStaff + inviting - 1

\* The profile in the store's database says of a member what the master says, of
\* everybody whose calls took turns and ran to their end.
MirrorAgrees == \A u \in Users \ torn : Settled(u) => Grant(profile[u]) = Grant(row[u])
===============================================================================
