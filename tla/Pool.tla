---------------------------------- MODULE Pool ----------------------------------
(***************************************************************************)
(* TenantConnectionManager: one process's clients of the stores' databases. *)
(*                                                                         *)
(* A step is what runs between two awaits.  A client is the name of the    *)
(* connect that opens it, so `connecting` and `pool` map a store to one;   *)
(* names are used again once nobody knows them.  Which of the idle clients *)
(* was used least recently is left open.                                   *)
(***************************************************************************)
EXTENDS Naturals, FiniteSets

CONSTANTS
  Tenants,       \* stores
  Calls,         \* requests and jobs
  Clients,       \* connects, and the clients they open
  MaxPool,       \* TENANT_POOL_MAX_CONNECTIONS
  Suspects,      \* stores whose status the console changes
  None

ASSUME PoolAssumption ==
  /\ IsFiniteSet(Tenants) /\ IsFiniteSet(Calls) /\ IsFiniteSet(Clients)
  /\ MaxPool \in Nat \ {0} /\ Suspects \subseteq Tenants
  /\ None \notin Tenants /\ None \notin Clients

VARIABLES
  pool,          \* the pooled client of each store
  connecting,    \* the connect under way for each store
  attempt,       \* a connect: where it is, for which store, whose close it awaits
  link,          \* the client's connections
  busy,          \* activeOperations of the client's entry
  call,          \* a run: where it is, its client, the entry it counts on
  suspended,     \* stores that are not ACTIVE
  destroyed,
  \* History, for the properties:
  closedBusy,    \* clients closed by evict or shutdown, which look at no counter
  peak           \* the most connects that were past the limit at the same time

vars == <<pool, connecting, attempt, link, busy, call, suspended, destroyed, closedBusy, peak>>

Attempt == [pc: {"none", "resolve", "room", "open", "done", "failed"},
            tenant: Tenants \cup {None}, victim: Clients \cup {None}]
NoAttempt == [pc |-> "none", tenant |-> None, victim |-> None]
Call == [pc: {"idle", "admitted", "wait", "got", "work"}, tenant: Tenants \cup {None},
         client: Clients \cup {None}, counted: Clients \cup {None}]
NoCall == [pc |-> "idle", tenant |-> None, client |-> None, counted |-> None]

TypeOK ==
  /\ pool \in [Tenants -> Clients \cup {None}]
  /\ connecting \in [Tenants -> Clients \cup {None}]
  /\ attempt \in [Clients -> Attempt]
  /\ link \in [Clients -> {"none", "open", "closing", "closed"}]
  /\ busy \in [Clients -> Nat]
  /\ call \in [Calls -> Call]
  /\ suspended \subseteq Tenants
  /\ destroyed \in BOOLEAN
  /\ closedBusy \subseteq Clients
  /\ peak \in Nat

Init ==
  /\ pool = [t \in Tenants |-> None]
  /\ connecting = [t \in Tenants |-> None]
  /\ attempt = [k \in Clients |-> NoAttempt]
  /\ link = [k \in Clients |-> "none"]
  /\ busy = [k \in Clients |-> 0]
  /\ call = [c \in Calls |-> NoCall]
  /\ suspended = {}
  /\ destroyed = FALSE
  /\ closedBusy = {}
  /\ peak = 1

-------------------------------------------------------------------------------
\* Helpers

Pooled == {t \in Tenants : pool[t] # None}
\* Past the limit check, and not in the pool yet.
Opening == {k \in Clients : attempt[k].pc \in {"room", "open"}}

\* Nobody knows the name any more.
Unused(k) ==
  /\ attempt[k].pc \in {"none", "done", "failed"}
  /\ link[k] \in {"none", "closed"}
  /\ \A t \in Tenants : connecting[t] # k
  /\ \A c \in Calls : k \notin {call[c].client, call[c].counted}
  /\ \A j \in Clients : attempt[j].pc = "room" => attempt[j].victim # k

Larger(a, b) == IF a >= b THEN a ELSE b

\* Mutant of Idle: the counter is not looked at.
IdleAny(t) == pool[t] # None

Idle(t) == pool[t] # None /\ busy[pool[t]] = 0

\* The synchronous half of evict: the entry is gone and the client is closing.
Drop(ts) ==
  /\ pool' = [t \in Tenants |-> IF t \in ts THEN None ELSE pool[t]]
  /\ link' = [k \in Clients |-> IF \E t \in ts : pool[t] = k THEN "closing" ELSE link[k]]

-------------------------------------------------------------------------------
\* run, getClient

\* The guard saw an ACTIVE store.
Admit(c, t) ==
  /\ call[c].pc = "idle" /\ t \notin suspended
  /\ call' = [call EXCEPT ![c] = [@ EXCEPT !.pc = "admitted", !.tenant = t]]
  /\ UNCHANGED <<pool, connecting, attempt, link, busy, suspended, destroyed, closedBusy, peak>>

GetPooled(c) ==
  LET t == call[c].tenant IN
  /\ call[c].pc = "admitted" /\ ~destroyed /\ pool[t] # None
  /\ call' = [call EXCEPT ![c] = [@ EXCEPT !.pc = "got", !.client = pool[t]]]
  /\ UNCHANGED <<pool, connecting, attempt, link, busy, suspended, destroyed, closedBusy, peak>>

\* Mutant of Pending: every call connects on its own.
PendingNever(t) == FALSE

Pending(t) == connecting[t] # None

Join(c) ==
  LET t == call[c].tenant IN
  /\ call[c].pc = "admitted" /\ ~destroyed /\ pool[t] = None /\ Pending(t)
  /\ call' = [call EXCEPT ![c] = [@ EXCEPT !.pc = "wait", !.client = connecting[t]]]
  /\ UNCHANGED <<pool, connecting, attempt, link, busy, suspended, destroyed, closedBusy, peak>>

StartConnect(c, k) ==
  LET t == call[c].tenant IN
  /\ call[c].pc = "admitted" /\ ~destroyed /\ pool[t] = None /\ ~Pending(t) /\ Unused(k)
  /\ call' = [call EXCEPT ![c] = [@ EXCEPT !.pc = "wait", !.client = k]]
  /\ connecting' = [connecting EXCEPT ![t] = k]
  /\ attempt' = [attempt EXCEPT ![k] = [pc |-> "resolve", tenant |-> t, victim |-> None]]
  /\ link' = [link EXCEPT ![k] = "none"]
  /\ busy' = [busy EXCEPT ![k] = 0]
  /\ closedBusy' = closedBusy \ {k}
  /\ UNCHANGED <<pool, suspended, destroyed, peak>>

Refuse(c) ==
  /\ call[c].pc = "admitted" /\ destroyed
  /\ call' = [call EXCEPT ![c] = NoCall]
  /\ UNCHANGED <<pool, connecting, attempt, link, busy, suspended, destroyed, closedBusy, peak>>

\* The promise a call awaits settles once its entry in connecting is gone.
Resume(c) ==
  LET t == call[c].tenant
      k == call[c].client
  IN  /\ call[c].pc = "wait" /\ connecting[t] # k
      /\ call' = [call EXCEPT ![c] =
           IF attempt[k].pc = "done" THEN [@ EXCEPT !.pc = "got"] ELSE NoCall]
      /\ UNCHANGED <<pool, connecting, attempt, link, busy, suspended, destroyed, closedBusy, peak>>

\* The entry that is in the pool now, which may be none, or another client's.
Mark(c) ==
  LET k == pool[call[c].tenant] IN
  /\ call[c].pc = "got"
  /\ call' = [call EXCEPT ![c] = [@ EXCEPT !.pc = "work", !.counted = k]]
  /\ busy' = IF k = None THEN busy ELSE [busy EXCEPT ![k] = @ + 1]
  /\ UNCHANGED <<pool, connecting, attempt, link, suspended, destroyed, closedBusy, peak>>

\* Mutant of Marked: the counter of the entry that is in the pool at the end.
MarkedNow(c) == pool[call[c].tenant]

Marked(c) == call[c].counted

\* fn returned or threw.
End(c) ==
  LET k == Marked(c) IN
  /\ call[c].pc = "work"
  /\ busy' = IF k = None THEN busy ELSE [busy EXCEPT ![k] = IF @ = 0 THEN 0 ELSE @ - 1]
  /\ call' = [call EXCEPT ![c] = NoCall]
  /\ UNCHANGED <<pool, connecting, attempt, link, suspended, destroyed, closedBusy, peak>>

-------------------------------------------------------------------------------
\* connect

\* Mutant of Full: off by one.
FullLate == Cardinality(Pooled) > MaxPool

Full == Cardinality(Pooled) >= MaxPool

Pass(k, step, victim) ==
  /\ attempt' = [attempt EXCEPT ![k] = [@ EXCEPT !.pc = step, !.victim = victim]]
  /\ peak' = Larger(peak, Cardinality(Opening \cup {k}))

Room(k) ==
  /\ attempt[k].pc = "resolve" /\ ~Full
  /\ Pass(k, "open", None)
  /\ UNCHANGED <<pool, connecting, link, busy, call, suspended, destroyed, closedBusy>>

MakeRoom(k, t) ==
  /\ attempt[k].pc = "resolve" /\ Full /\ Idle(t)
  /\ Drop({t})
  /\ Pass(k, "room", pool[t])
  /\ UNCHANGED <<connecting, busy, call, suspended, destroyed, closedBusy>>

RoomMade(k) ==
  /\ attempt[k].pc = "room" /\ link[attempt[k].victim] = "closed"
  /\ attempt' = [attempt EXCEPT ![k] = [@ EXCEPT !.pc = "open", !.victim = None]]
  /\ UNCHANGED <<pool, connecting, link, busy, call, suspended, destroyed, closedBusy, peak>>

Opened(k) ==
  /\ attempt[k].pc = "open"
  /\ pool' = [pool EXCEPT ![attempt[k].tenant] = k]
  /\ link' = [link EXCEPT ![k] = "open"]
  /\ attempt' = [attempt EXCEPT ![k].pc = "done"]
  /\ UNCHANGED <<connecting, busy, call, suspended, destroyed, closedBusy, peak>>

\* The registry has no READY row, the pool is full and busy, or the database
\* refuses.
ConnectFails(k) ==
  /\ attempt[k].pc \in {"resolve", "open"}
  /\ attempt' = [attempt EXCEPT ![k].pc = "failed"]
  /\ UNCHANGED <<pool, connecting, link, busy, call, suspended, destroyed, closedBusy, peak>>

\* Mutant of Settled: the entry is deleted only when the connect succeeded.
SettledWell(k) == attempt[k].pc = "done"

Settled(k) == attempt[k].pc \in {"done", "failed"}

Forget(t) ==
  /\ connecting[t] # None /\ Settled(connecting[t])
  /\ connecting' = [connecting EXCEPT ![t] = None]
  /\ UNCHANGED <<pool, attempt, link, busy, call, suspended, destroyed, closedBusy, peak>>

-------------------------------------------------------------------------------
\* Closing

\* Called on suspension, deletion, DDL and migrations.
Evict(t) ==
  /\ pool[t] # None
  /\ Drop({t})
  /\ closedBusy' = closedBusy \cup {pool[t]}
  /\ UNCHANGED <<connecting, attempt, busy, call, suspended, destroyed, peak>>

\* The sweeper; its clients have been idle for TENANT_POOL_IDLE_TIMEOUT_MS.
Sweep(t) ==
  /\ ~destroyed /\ Idle(t)
  /\ Drop({t})
  /\ UNCHANGED <<connecting, attempt, busy, call, suspended, destroyed, closedBusy, peak>>

\* $disconnect returned, or failed and was logged.
Closed(k) ==
  /\ link[k] = "closing"
  /\ link' = [link EXCEPT ![k] = "closed"]
  /\ UNCHANGED <<pool, connecting, attempt, busy, call, suspended, destroyed, closedBusy, peak>>

\* onModuleDestroy
Destroy ==
  /\ ~destroyed
  /\ destroyed' = TRUE
  /\ Drop(Pooled)
  /\ closedBusy' = closedBusy \cup {pool[t] : t \in Pooled}
  /\ UNCHANGED <<connecting, attempt, busy, call, suspended, peak>>

\* PlatformService.updateTenantStatus, whose eviction is an Evict.
SetStatus(t) ==
  /\ t \in Suspects
  /\ suspended' = IF t \in suspended THEN suspended \ {t} ELSE suspended \cup {t}
  /\ UNCHANGED <<pool, connecting, attempt, link, busy, call, destroyed, closedBusy, peak>>

-------------------------------------------------------------------------------

ConnectStep(k) ==
  Room(k) \/ (\E t \in Tenants : MakeRoom(k, t)) \/ RoomMade(k) \/ Opened(k) \/ ConnectFails(k)

CallStep(c) ==
  \/ \E t \in Tenants : Admit(c, t)
  \/ GetPooled(c) \/ Join(c) \/ (\E k \in Clients : StartConnect(c, k)) \/ Refuse(c)
  \/ Resume(c) \/ Mark(c) \/ End(c)

Next ==
  \/ \E c \in Calls : CallStep(c)
  \/ \E k \in Clients : ConnectStep(k) \/ Closed(k)
  \/ \E t \in Tenants : Forget(t) \/ Evict(t) \/ Sweep(t) \/ SetStatus(t)
  \/ Destroy

Spec == Init /\ [][Next]_vars

\* Databases answer, $disconnect returns, and the event loop runs what is ready.
\* No caller owes a step.
Fairness ==
  /\ \A k \in Clients : WF_vars(ConnectStep(k)) /\ WF_vars(Closed(k))
  /\ \A t \in Tenants : WF_vars(Forget(t))

FairSpec == Spec /\ Fairness

-------------------------------------------------------------------------------
\* Properties

\* A store has one client: no client is open outside the pool, where nobody would
\* ever close it, and no store is connected to twice at once.  And a call only
\* ever holds a client of its own store.
OneClientPerTenant ==
  /\ \A k \in Clients : link[k] = "open" => pool[attempt[k].tenant] = k
  /\ \A k \in Clients :
       attempt[k].pc \in {"resolve", "room", "open"} => connecting[attempt[k].tenant] = k
  /\ \A c \in Calls :
       call[c].client # None => attempt[call[c].client].tenant = call[c].tenant

\* The busy counter of a client is the number of calls counted on it, through
\* evictions and reconnects in the middle of a call; the clamp is never needed.
CountedRight ==
  \A k \in Clients :
    busy[k] = Cardinality({c \in Calls : call[c].pc = "work" /\ call[c].counted = k})

\* A call that is counted on its client works on open connections: neither the
\* limit nor the sweeper takes them away, only evict and the shutdown do.
HeldOpen ==
  \A c \in Calls :
    call[c].pc = "work" /\ call[c].counted = call[c].client
      => link[call[c].client] = "open" \/ call[c].client \in closedBusy

\* The limit is overrun by no more than the connects that passed it together.
OverrunBounded == Cardinality(Pooled) + Cardinality(Opening) <= MaxPool + peak - 1

\* A store can always be connected to again: a connect that fails leaves nothing.
Reconnects == \A t \in Tenants : connecting[t] # None ~> connecting[t] = None
===============================================================================
