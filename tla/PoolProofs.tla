------------------------------- MODULE PoolProofs -------------------------------
(***************************************************************************)
(* Proofs about Pool: for any number of stores, calls and clients, and any *)
(* limit.                                                                  *)
(***************************************************************************)
EXTENDS Pool, FiniteSetTheorems, TLAPS

\* A connect that is under way.
Running(k) == attempt[k].pc \in {"resolve", "room", "open"}

\* A pooled client is open, and was opened for the store it is pooled for.
PoolLive ==
  \A t \in Tenants : pool[t] # None =>
    /\ attempt[pool[t]].pc = "done"
    /\ attempt[pool[t]].tenant = t
    /\ link[pool[t]] = "open"

\* An open client is in the pool.
LinkPooled ==
  \A k \in Clients : link[k] = "open" =>
    /\ attempt[k].pc = "done"
    /\ attempt[k].tenant \in Tenants
    /\ pool[attempt[k].tenant] = k

\* A connect under way is the one registered for its store, which has no client.
ConnectAlone ==
  \A k \in Clients : Running(k) =>
    /\ attempt[k].tenant \in Tenants
    /\ connecting[attempt[k].tenant] = k
    /\ pool[attempt[k].tenant] = None
    /\ link[k] = "none"
    /\ attempt[k].pc = "room" => attempt[k].victim \in Clients

\* What is registered is a connect to that store.
Registered ==
  \A t \in Tenants : connecting[t] # None =>
    /\ attempt[connecting[t]].tenant = t
    /\ attempt[connecting[t]].pc # "none"

\* What a call carries at each of its steps.
Known(x) ==
  /\ x.pc # "idle" => x.tenant \in Tenants
  /\ x.pc \in {"idle", "admitted"} => x.client = None
  /\ x.pc \in {"wait", "got", "work"} =>
       /\ x.client \in Clients
       /\ attempt[x.client].tenant = x.tenant
       /\ attempt[x.client].pc # "none"
  /\ x.pc \in {"got", "work"} => attempt[x.client].pc = "done"
  /\ x.pc # "work" => x.counted = None

CallsKnown == \A c \in Calls : Known(call[c])

Links == PoolLive /\ LinkPooled /\ ConnectAlone /\ Registered /\ CallsKnown
TypeInv == TypeOK /\ Links

-------------------------------------------------------------------------------
\* Types

LEMMA InitType == Init => TypeInv
<1> SUFFICES ASSUME Init PROVE TypeInv
  OBVIOUS
<1>1. NoAttempt \in Attempt /\ NoCall \in Call
  BY DEF Attempt, NoAttempt, Call, NoCall
<1>2. TypeOK
  BY <1>1 DEF Init, TypeOK
<1>3. PoolLive /\ LinkPooled /\ Registered
  BY DEF Init, PoolLive, LinkPooled, Registered
<1>4. ConnectAlone
  BY DEF Init, ConnectAlone, Running, NoAttempt
<1>5. CallsKnown
  BY DEF Init, CallsKnown, Known, NoCall
<1>6. QED
  BY <1>2, <1>3, <1>4, <1>5 DEF TypeInv, Links

LEMMA DropType ==
  ASSUME TypeOK, NEW ts \in SUBSET Tenants, Drop(ts)
  PROVE  /\ pool' \in [Tenants -> Clients \cup {None}]
         /\ link' \in [Clients -> {"none", "open", "closing", "closed"}]
BY DEF TypeOK, Drop

LEMMA OpeningCard ==
  ASSUME NEW S \in SUBSET Clients
  PROVE  IsFiniteSet(S) /\ Cardinality(S) \in Nat
BY PoolAssumption, FS_Subset, FS_CardinalityType

LEMMA TypeStep == TypeOK /\ Links /\ [Next]_vars => TypeOK'
<1> SUFFICES ASSUME TypeOK, Links, [Next]_vars PROVE TypeOK'
  OBVIOUS
<1> USE PoolAssumption
<1>1. ASSUME NEW c \in Calls, CallStep(c) PROVE TypeOK'
  <2> DEFINE t0 == call[c].tenant
  <2>0. /\ call[c] \in Call /\ NoCall \in Call
        /\ call[c].pc # "idle" => t0 \in Tenants
    BY DEF TypeOK, Links, CallsKnown, Known, Call, NoCall
  <2>1. ASSUME NEW t \in Tenants, Admit(c, t) PROVE TypeOK'
    <3>1. [call[c] EXCEPT !.pc = "admitted", !.tenant = t] \in Call
      BY <2>0 DEF Call
    <3>2. QED
      BY <2>1, <3>1 DEF Admit, TypeOK
  <2>2. CASE GetPooled(c)
    <3>1. pool[t0] \in Clients
      BY <2>0, <2>2 DEF GetPooled, TypeOK
    <3>2. [call[c] EXCEPT !.pc = "got", !.client = pool[t0]] \in Call
      BY <2>0, <3>1 DEF Call
    <3>3. QED
      BY <2>2, <3>2 DEF GetPooled, TypeOK
  <2>3. CASE Join(c)
    <3>1. connecting[t0] \in Clients \cup {None}
      BY <2>0, <2>3 DEF Join, TypeOK
    <3>2. [call[c] EXCEPT !.pc = "wait", !.client = connecting[t0]] \in Call
      BY <2>0, <3>1 DEF Call
    <3>3. QED
      BY <2>3, <3>2 DEF Join, TypeOK
  <2>4. ASSUME NEW k \in Clients, StartConnect(c, k) PROVE TypeOK'
    <3>1. t0 \in Tenants
      BY <2>0, <2>4 DEF StartConnect
    <3>2. [pc |-> "resolve", tenant |-> t0, victim |-> None] \in Attempt
      BY <3>1 DEF Attempt
    <3>3. attempt' \in [Clients -> Attempt]
      BY <2>4, <3>2 DEF StartConnect, TypeOK
    <3>6. [call[c] EXCEPT !.pc = "wait", !.client = k] \in Call
      BY <2>0 DEF Call
    <3>4. call' \in [Calls -> Call]
      BY <2>4, <3>6 DEF StartConnect, TypeOK
    <3>5. QED
      BY <2>4, <3>1, <3>3, <3>4 DEF StartConnect, TypeOK
  <2>5. CASE Refuse(c)
    BY <2>5 DEF Refuse, TypeOK, Call, NoCall
  <2>6. CASE Resume(c)
    <3>1. call[c] \in Call /\ NoCall \in Call
      BY DEF TypeOK, Call, NoCall
    <3>2. [call[c] EXCEPT !.pc = "got"] \in Call
      BY <3>1 DEF Call
    <3>3. call' \in [Calls -> Call]
      BY <2>6, <3>1, <3>2 DEF Resume, TypeOK
    <3>4. QED
      BY <2>6, <3>3 DEF Resume, TypeOK
  <2>7. CASE Mark(c)
    <3>1. pool[t0] \in Clients \cup {None}
      BY <2>0, <2>7 DEF Mark, TypeOK
    <3>2. [call[c] EXCEPT !.pc = "work", !.counted = pool[t0]] \in Call
      BY <2>0, <3>1 DEF Call
    <3>3. busy' \in [Clients -> Nat]
      BY <2>7, <3>1 DEF Mark, TypeOK
    <3>4. QED
      BY <2>7, <3>2, <3>3 DEF Mark, TypeOK
  <2>8. CASE End(c)
    <3>1. call' \in [Calls -> Call]
      BY <2>8 DEF End, TypeOK, Call, NoCall
    <3>2. \A n \in Nat : (IF n = 0 THEN 0 ELSE n - 1) \in Nat
      OBVIOUS
    <3>3. busy' \in [Clients -> Nat]
      BY <2>8, <3>2 DEF End, Marked, TypeOK, Call
    <3>4. QED
      BY <2>8, <3>1, <3>3 DEF End, TypeOK
  <2>9. QED
    BY <1>1, <2>1, <2>2, <2>3, <2>4, <2>5, <2>6, <2>7, <2>8 DEF CallStep
<1>2. ASSUME NEW k \in Clients, ConnectStep(k) \/ Closed(k) PROVE TypeOK'
  <2>1. Cardinality(Opening \cup {k}) \in Nat
    BY OpeningCard DEF Opening
  <2>2. Larger(peak, Cardinality(Opening \cup {k})) \in Nat
    BY <2>1 DEF Larger, TypeOK
  <2>0. attempt[k] \in Attempt
    BY DEF TypeOK
  <2>3. CASE Room(k)
    <3>1. [attempt[k] EXCEPT !.pc = "open", !.victim = None] \in Attempt
      BY <2>0 DEF Attempt
    <3>2. QED
      BY <2>2, <2>3, <3>1 DEF Room, Pass, TypeOK
  <2>4. ASSUME NEW t \in Tenants, MakeRoom(k, t) PROVE TypeOK'
    <3>1. /\ pool' \in [Tenants -> Clients \cup {None}]
          /\ link' \in [Clients -> {"none", "open", "closing", "closed"}]
      BY <2>4, DropType DEF MakeRoom
    <3>2. QED
      <4>1. attempt[k] \in Attempt /\ pool[t] \in Clients \cup {None}
        BY DEF TypeOK
      <4>2. [attempt[k] EXCEPT !.pc = "room", !.victim = pool[t]] \in Attempt
        BY <4>1 DEF Attempt
      <4>3. QED
        BY <2>2, <2>4, <3>1, <4>2 DEF MakeRoom, Pass, TypeOK
  <2>5. CASE RoomMade(k)
    <3>1. [attempt[k] EXCEPT !.pc = "open", !.victim = None] \in Attempt
      BY <2>0 DEF Attempt
    <3>2. QED
      BY <2>5, <3>1 DEF RoomMade, TypeOK
  <2>6. CASE Opened(k)
    <3>1. [attempt[k] EXCEPT !.pc = "done"] \in Attempt
      BY <2>0 DEF Attempt
    <3>2. attempt' \in [Clients -> Attempt]
      BY <2>6, <3>1 DEF Opened, TypeOK
    <3>3. pool' \in [Tenants -> Clients \cup {None}] /\ link' \in [Clients -> {"none", "open", "closing", "closed"}]
      BY <2>6 DEF Opened, TypeOK
    <3>4. QED
      BY <2>6, <3>2, <3>3 DEF Opened, TypeOK
  <2>7. CASE ConnectFails(k)
    <3>1. [attempt[k] EXCEPT !.pc = "failed"] \in Attempt
      BY <2>0 DEF Attempt
    <3>2. QED
      BY <2>7, <3>1 DEF ConnectFails, TypeOK
  <2>8. CASE Closed(k)
    BY <2>8 DEF Closed, TypeOK
  <2>9. QED
    BY <1>2, <2>3, <2>4, <2>5, <2>6, <2>7, <2>8 DEF ConnectStep
<1>3. ASSUME NEW t \in Tenants, Forget(t) \/ Evict(t) \/ Sweep(t) \/ SetStatus(t) PROVE TypeOK'
  <2>1. Drop({t}) => /\ pool' \in [Tenants -> Clients \cup {None}]
                     /\ link' \in [Clients -> {"none", "open", "closing", "closed"}]
    BY DropType
  <2>2. QED
    BY <1>3, <2>1 DEF Forget, Evict, Sweep, SetStatus, TypeOK
<1>4. CASE Destroy
  <2>1. /\ pool' \in [Tenants -> Clients \cup {None}]
        /\ link' \in [Clients -> {"none", "open", "closing", "closed"}]
    BY <1>4, DropType DEF Destroy, Pooled
  <2>2. {pool[t] : t \in Pooled} \subseteq Clients
    BY DEF TypeOK, Pooled
  <2>3. QED
    BY <1>4, <2>1, <2>2 DEF Destroy, TypeOK
<1>5. CASE UNCHANGED vars
  BY <1>5 DEF vars, TypeOK
<1>6. QED
  BY <1>1, <1>2, <1>3, <1>4, <1>5 DEF Next

-------------------------------------------------------------------------------
\* Links: what a name stands for

\* Closing the clients of some stores.
LEMMA DropLinks ==
  ASSUME TypeInv, NEW ts \in SUBSET Tenants, Drop(ts)
  PROVE  /\ \A t \in Tenants : pool'[t] # None => pool'[t] = pool[t] /\ t \notin ts
         /\ \A t \in Tenants : pool[t] = None => pool'[t] = None
         /\ \A k \in Clients : link'[k] = "open" => link[k] = "open"
         /\ \A k \in Clients : link[k] = "none" => link'[k] = "none"
         /\ \A t \in Tenants : t \notin ts /\ pool[t] # None => link'[pool[t]] = "open"
         /\ \A k \in Clients : link'[k] = "open" => pool'[attempt[k].tenant] = k
<1> USE PoolAssumption DEF TypeInv, Links
<1>1. \A t \in Tenants : pool'[t] = IF t \in ts THEN None ELSE pool[t]
  BY DEF Drop
<1>2. \A k \in Clients : link'[k] = IF \E t \in ts : pool[t] = k THEN "closing" ELSE link[k]
  BY DEF Drop
<1>3. \A k \in Clients : link[k] = "none" => \A t \in Tenants : pool[t] # k
  BY DEF PoolLive
<1>4. \A t, u \in Tenants : pool[t] # None /\ pool[t] = pool[u] => t = u
  BY DEF PoolLive
<1>5. \A t \in Tenants : pool[t] \in Clients \cup {None}
  BY DEF TypeOK
<1>6. ASSUME NEW t \in Tenants, t \notin ts, pool[t] # None PROVE link'[pool[t]] = "open"
  <2>1. pool[t] \in Clients /\ link[pool[t]] = "open"
    BY <1>5, <1>6 DEF PoolLive
  <2>2. ~ \E u \in ts : pool[u] = pool[t]
    BY <1>4, <1>6
  <2>3. QED
    BY <1>2, <2>1, <2>2
<1>7. ASSUME NEW k \in Clients, link'[k] = "open" PROVE link[k] = "open" /\ pool'[attempt[k].tenant] = k
  <2>1. link[k] = "open" /\ ~ \E t \in ts : pool[t] = k
    BY <1>2, <1>7
  <2>2. attempt[k].tenant \in Tenants /\ pool[attempt[k].tenant] = k
    BY <2>1 DEF LinkPooled
  <2>3. QED
    BY <1>1, <2>1, <2>2
<1>8. QED
  BY <1>1, <1>2, <1>3, <1>6, <1>7

\* A step of one call that touches no client.
LEMMA CallOnly ==
  ASSUME TypeInv, NEW c \in Calls, UNCHANGED <<pool, connecting, attempt, link>>,
         NEW x, Known(x), call' = [call EXCEPT ![c] = x]
  PROVE  Links'
<1>1. (PoolLive /\ LinkPooled /\ ConnectAlone /\ Registered)'
  BY DEF TypeInv, Links, PoolLive, LinkPooled, ConnectAlone, Registered, Running
<1>2. \A d \in Calls : call'[d] = x \/ call'[d] = call[d]
  BY DEF TypeInv, TypeOK
<1>3. \A d \in Calls : Known(call'[d])
  BY <1>2 DEF TypeInv, Links, CallsKnown
<1>4. CallsKnown'
  BY <1>3 DEF CallsKnown, Known
<1>5. QED
  BY <1>1, <1>4 DEF Links

LEMMA CallLinks ==
  ASSUME TypeInv, NEW c \in Calls,
         \/ \E t \in Tenants : Admit(c, t)
         \/ GetPooled(c) \/ Join(c) \/ Refuse(c) \/ Resume(c) \/ Mark(c) \/ End(c)
  PROVE  Links'
<1> DEFINE t0 == call[c].tenant
<1> USE PoolAssumption
<1>0. call[c] \in Call /\ Known(call[c]) /\ Known(NoCall)
  BY DEF TypeInv, TypeOK, Links, CallsKnown, Known, NoCall
<1>1. ASSUME NEW t \in Tenants, Admit(c, t) PROVE Links'
  <2>1. Known([call[c] EXCEPT !.pc = "admitted", !.tenant = t])
    BY <1>0, <1>1 DEF Admit, Known, Call
  <2>2. QED
    BY <1>1, <2>1, CallOnly DEF Admit
<1>2. CASE GetPooled(c)
  <2>1. pool[t0] \in Clients /\ t0 \in Tenants /\ pool[t0] # None
    BY <1>0, <1>2 DEF GetPooled, Known, TypeInv, TypeOK
  <2>2. attempt[pool[t0]].pc = "done" /\ attempt[pool[t0]].tenant = t0
    BY <2>1 DEF TypeInv, Links, PoolLive
  <2>3. Known([call[c] EXCEPT !.pc = "got", !.client = pool[t0]])
    BY <1>0, <1>2, <2>1, <2>2 DEF GetPooled, Known, Call
  <2>4. QED
    BY <1>2, <2>3, CallOnly DEF GetPooled
<1>3. CASE Join(c)
  <2>1. t0 \in Tenants /\ connecting[t0] \in Clients
    BY <1>0, <1>3 DEF Join, Pending, Known, TypeInv, TypeOK
  <2>2. attempt[connecting[t0]].tenant = t0 /\ attempt[connecting[t0]].pc # "none"
    BY <2>1 DEF TypeInv, Links, Registered
  <2>3. Known([call[c] EXCEPT !.pc = "wait", !.client = connecting[t0]])
    BY <1>0, <1>3, <2>1, <2>2 DEF Join, Known, Call
  <2>4. QED
    BY <1>3, <2>3, CallOnly DEF Join
<1>4. CASE Refuse(c)
  BY <1>0, <1>4, CallOnly DEF Refuse
<1>5. CASE Resume(c)
  <2> DEFINE x == IF attempt[call[c].client].pc = "done"
                  THEN [call[c] EXCEPT !.pc = "got"] ELSE NoCall
  <2>1. Known(x)
    BY <1>0, <1>5 DEF Resume, Known, Call
  <2>2. call' = [call EXCEPT ![c] = x]
    BY <1>5 DEF Resume
  <2>3. UNCHANGED <<pool, connecting, attempt, link>>
    BY <1>5 DEF Resume
  <2> HIDE DEF x
  <2>4. QED
    BY <2>1, <2>2, <2>3, CallOnly
<1>6. CASE Mark(c)
  <2>1. Known([call[c] EXCEPT !.pc = "work", !.counted = pool[t0]])
    BY <1>0, <1>6 DEF Mark, Known, Call
  <2>2. QED
    BY <1>6, <2>1, CallOnly DEF Mark
<1>7. CASE End(c)
  BY <1>0, <1>7, CallOnly DEF End
<1>8. QED
  BY <1>1, <1>2, <1>3, <1>4, <1>5, <1>6, <1>7

LEMMA StartLinks ==
  ASSUME TypeInv, NEW c \in Calls, NEW k \in Clients, StartConnect(c, k)
  PROVE  Links'
<1> USE PoolAssumption
<1> DEFINE t0 == call[c].tenant
           a == [pc |-> "resolve", tenant |-> t0, victim |-> None]
           x == [call[c] EXCEPT !.pc = "wait", !.client = k]
<1>1. call[c] \in Call /\ Known(call[c]) /\ call[c].pc = "admitted"
  BY DEF TypeInv, TypeOK, Links, CallsKnown, StartConnect
<1>2. t0 \in Tenants /\ pool[t0] = None /\ connecting[t0] = None
  BY <1>1 DEF Known, StartConnect, Pending
<1>3. Unused(k) /\ pool' = pool
  BY DEF StartConnect
<1>4. /\ \A j \in Clients : attempt'[j] = IF j = k THEN a ELSE attempt[j]
      /\ \A j \in Clients : link'[j] = IF j = k THEN "none" ELSE link[j]
      /\ \A t \in Tenants : connecting'[t] = IF t = t0 THEN k ELSE connecting[t]
      /\ \A d \in Calls : call'[d] = IF d = c THEN x ELSE call[d]
  BY DEF StartConnect, TypeInv, TypeOK
<1>5. \A t \in Tenants : pool[t] # k /\ pool[t] \in Clients \cup {None}
                         /\ connecting[t] \in Clients \cup {None}
  BY <1>3 DEF TypeInv, TypeOK, Links, PoolLive, Unused
<1>6. PoolLive'
  BY <1>3, <1>4, <1>5 DEF TypeInv, Links, PoolLive
<1>7. LinkPooled'
  BY <1>3, <1>4, <1>5 DEF TypeInv, Links, LinkPooled
<1>8. ConnectAlone'
  <2> SUFFICES ASSUME NEW j \in Clients, Running(j)'
      PROVE /\ attempt'[j].tenant \in Tenants
            /\ connecting'[attempt'[j].tenant] = j
            /\ pool'[attempt'[j].tenant] = None
            /\ link'[j] = "none"
            /\ attempt'[j].pc = "room" => attempt'[j].victim \in Clients
    BY DEF ConnectAlone
  <2>1. CASE j = k
    BY <1>2, <1>3, <1>4, <2>1
  <2>2. CASE j # k
    <3>1. Running(j) /\ attempt'[j] = attempt[j] /\ link'[j] = link[j]
      BY <1>4, <2>2 DEF Running
    <3>2. attempt[j].tenant # t0
      BY <1>2, <3>1 DEF TypeInv, Links, ConnectAlone
    <3>3. QED
      BY <1>3, <1>4, <3>1, <3>2 DEF TypeInv, Links, ConnectAlone
  <2>3. QED
    BY <2>1, <2>2
<1>9. Registered'
  <2> SUFFICES ASSUME NEW t \in Tenants, connecting'[t] # None
      PROVE attempt'[connecting'[t]].tenant = t /\ attempt'[connecting'[t]].pc # "none"
    BY DEF Registered
  <2>1. CASE t = t0
    BY <1>4, <2>1
  <2>2. CASE t # t0
    <3>1. connecting'[t] = connecting[t] /\ connecting[t] # k /\ connecting[t] \in Clients
      BY <1>3, <1>4, <1>5, <2>2 DEF Unused
    <3>2. QED
      BY <1>4, <3>1 DEF TypeInv, Links, Registered
  <2>3. QED
    BY <2>1, <2>2
<1>10. CallsKnown'
  <2> SUFFICES ASSUME NEW d \in Calls PROVE Known(call[d])'
    BY DEF CallsKnown
  <2>1. CASE d = c
    <3>1. call'[d] = x /\ x.pc = "wait" /\ x.client = k /\ x.tenant = t0 /\ x.counted = None
      BY <1>1, <1>4, <2>1 DEF Call, Known
    <3>2. attempt'[k].pc = "resolve" /\ attempt'[k].tenant = t0
      BY <1>4
    <3> HIDE DEF x, a
    <3>3. QED
      BY <1>2, <3>1, <3>2 DEF Known
  <2>2. CASE d # c
    <3>1. call'[d] = call[d] /\ call[d].client # k /\ Known(call[d])
      BY <1>3, <1>4, <2>2 DEF Unused, TypeInv, Links, CallsKnown
    <3>2. call[d].client \in Clients => attempt'[call[d].client] = attempt[call[d].client]
      BY <1>4, <3>1
    <3>3. QED
      BY <3>1, <3>2 DEF Known
  <2>3. QED
    BY <2>1, <2>2
<1>11. QED
  BY <1>6, <1>7, <1>8, <1>9, <1>10 DEF Links

\* A connect that goes on without touching the pool keeps what is known of it.
LEMMA ConnectLinks ==
  ASSUME TypeInv, NEW k \in Clients,
         UNCHANGED <<pool, connecting, call, link>>,
         NEW a, attempt' = [attempt EXCEPT ![k] = a],
         Running(k), a.tenant = attempt[k].tenant, a.pc \in {"open", "failed"}
  PROVE  Links'
<1> USE PoolAssumption
<1>1. \A j \in Clients : attempt'[j] = IF j = k THEN a ELSE attempt[j]
  BY DEF TypeInv, TypeOK
<1>2. \A t \in Tenants : pool[t] # k /\ pool[t] \in Clients \cup {None}
                         /\ connecting[t] \in Clients \cup {None}
  BY DEF TypeInv, TypeOK, Links, PoolLive, Running
<1>3. PoolLive'
  BY <1>1, <1>2 DEF TypeInv, Links, PoolLive
<1>4. link[k] = "none"
  BY DEF TypeInv, Links, ConnectAlone
<1>5. LinkPooled'
  BY <1>1, <1>4 DEF TypeInv, Links, LinkPooled
<1>6. ConnectAlone'
  BY <1>1 DEF TypeInv, Links, ConnectAlone, Running
<1>7. Registered'
  BY <1>1, <1>2 DEF TypeInv, Links, Registered
<1>8. CallsKnown'
  <2> SUFFICES ASSUME NEW d \in Calls PROVE Known(call[d])'
    BY DEF CallsKnown
  <2>1. Known(call[d]) /\ call'[d] = call[d]
    BY DEF TypeInv, Links, CallsKnown
  <2>2. QED
    BY <1>1, <2>1 DEF Known, Running
<1>9. QED
  BY <1>3, <1>5, <1>6, <1>7, <1>8 DEF Links

\* Closing clients changes nothing that is known of connects and calls.
LEMMA ClosingLinks ==
  ASSUME TypeInv, NEW ts \in SUBSET Tenants, Drop(ts), UNCHANGED <<connecting, attempt, call>>
  PROVE  Links'
<1>1. /\ \A t \in Tenants : pool'[t] # None => pool'[t] = pool[t] /\ t \notin ts
      /\ \A t \in Tenants : pool[t] = None => pool'[t] = None
      /\ \A k \in Clients : link'[k] = "open" => link[k] = "open"
      /\ \A k \in Clients : link[k] = "none" => link'[k] = "none"
      /\ \A t \in Tenants : t \notin ts /\ pool[t] # None => link'[pool[t]] = "open"
      /\ \A k \in Clients : link'[k] = "open" => pool'[attempt[k].tenant] = k
  BY DropLinks
<1>2. PoolLive'
  BY <1>1 DEF TypeInv, Links, PoolLive
<1>3. LinkPooled'
  BY <1>1 DEF TypeInv, Links, LinkPooled
<1>4. ConnectAlone'
  BY <1>1 DEF TypeInv, Links, ConnectAlone, Running
<1>5. Registered' /\ CallsKnown'
  BY DEF TypeInv, Links, Registered, CallsKnown, Known
<1>6. QED
  BY <1>2, <1>3, <1>4, <1>5 DEF Links

LEMMA MakeRoomLinks ==
  ASSUME TypeInv, NEW k \in Clients, NEW u \in Tenants, MakeRoom(k, u)
  PROVE  Links'
<1> USE PoolAssumption
<1> DEFINE a == [attempt[k] EXCEPT !.pc = "room", !.victim = pool[u]]
<1>1. Running(k) /\ pool[u] \in Clients
  BY DEF MakeRoom, Idle, Running, TypeInv, TypeOK
<1>2. \A j \in Clients : attempt'[j] = IF j = k THEN a ELSE attempt[j]
  <2>1. attempt \in [Clients -> Attempt]
    BY DEF TypeInv, TypeOK
  <2>2. attempt' = [attempt EXCEPT ![k] = a]
    BY DEF MakeRoom, Pass
  <2>3. QED
    BY <2>1, <2>2
<1>3. a.pc = "room" /\ a.victim = pool[u] /\ a.tenant = attempt[k].tenant
  BY DEF TypeInv, TypeOK, Attempt
<1>4. connecting' = connecting /\ call' = call
  BY DEF MakeRoom
<1> HIDE DEF a
<1>5. /\ \A t \in Tenants : pool'[t] # None => pool'[t] = pool[t] /\ t \notin {u}
      /\ \A t \in Tenants : pool[t] = None => pool'[t] = None
      /\ \A j \in Clients : link'[j] = "open" => link[j] = "open"
      /\ \A j \in Clients : link[j] = "none" => link'[j] = "none"
      /\ \A t \in Tenants : t \notin {u} /\ pool[t] # None => link'[pool[t]] = "open"
      /\ \A j \in Clients : link'[j] = "open" => pool'[attempt[j].tenant] = j
  BY DropLinks DEF MakeRoom
<1>6. \A t \in Tenants : pool[t] # k /\ pool[t] \in Clients \cup {None}
                         /\ connecting[t] \in Clients \cup {None}
  BY <1>1 DEF TypeInv, TypeOK, Links, PoolLive, Running
<1>7. PoolLive'
  BY <1>2, <1>5, <1>6 DEF TypeInv, Links, PoolLive
<1>8. LinkPooled'
  BY <1>1, <1>2, <1>5 DEF TypeInv, Links, LinkPooled, Running
<1>9. ConnectAlone'
  BY <1>1, <1>2, <1>3, <1>4, <1>5 DEF TypeInv, Links, ConnectAlone, Running
<1>10. Registered'
  BY <1>2, <1>3, <1>4, <1>6 DEF TypeInv, Links, Registered
<1>11. CallsKnown'
  <2> SUFFICES ASSUME NEW d \in Calls PROVE Known(call[d])'
    BY DEF CallsKnown
  <2>1. Known(call[d])
    BY DEF TypeInv, Links, CallsKnown
  <2>2. QED
    BY <1>1, <1>2, <1>3, <1>4, <2>1 DEF Known, Running
<1>12. QED
  BY <1>7, <1>8, <1>9, <1>10, <1>11 DEF Links

LEMMA OpenedLinks ==
  ASSUME TypeInv, NEW k \in Clients, Opened(k)
  PROVE  Links'
<1> USE PoolAssumption
<1> DEFINE t0 == attempt[k].tenant
<1>1. Running(k) /\ t0 \in Tenants /\ connecting[t0] = k /\ pool[t0] = None
  BY DEF Opened, Running, TypeInv, Links, ConnectAlone
<1>2. /\ \A j \in Clients : attempt'[j].tenant = attempt[j].tenant
      /\ \A j \in Clients : attempt'[j].victim = attempt[j].victim
      /\ \A j \in Clients : attempt'[j].pc = IF j = k THEN "done" ELSE attempt[j].pc
      /\ \A j \in Clients : link'[j] = IF j = k THEN "open" ELSE link[j]
      /\ \A t \in Tenants : pool'[t] = IF t = t0 THEN k ELSE pool[t]
      /\ connecting' = connecting /\ call' = call
  BY DEF Opened, TypeInv, TypeOK, Attempt
<1>3. \A t \in Tenants : pool[t] # k /\ pool[t] \in Clients \cup {None}
                         /\ connecting[t] \in Clients \cup {None}
  BY <1>1 DEF TypeInv, TypeOK, Links, PoolLive, Running
<1>4. PoolLive'
  BY <1>2, <1>3 DEF TypeInv, Links, PoolLive
<1>5. LinkPooled'
  BY <1>1, <1>2, <1>3 DEF TypeInv, Links, LinkPooled
<1>6. ConnectAlone'
  <2> SUFFICES ASSUME NEW j \in Clients, Running(j)'
      PROVE /\ attempt'[j].tenant \in Tenants
            /\ connecting'[attempt'[j].tenant] = j
            /\ pool'[attempt'[j].tenant] = None
            /\ link'[j] = "none"
            /\ attempt'[j].pc = "room" => attempt'[j].victim \in Clients
    BY DEF ConnectAlone
  <2>1. j # k /\ Running(j)
    BY <1>2 DEF Running
  <2>2. attempt[j].tenant \in Tenants /\ connecting[attempt[j].tenant] = j
        /\ pool[attempt[j].tenant] = None /\ link[j] = "none"
        /\ (attempt[j].pc = "room" => attempt[j].victim \in Clients)
    BY <2>1 DEF TypeInv, Links, ConnectAlone
  <2>3. attempt[j].tenant # t0
    BY <1>1, <2>1, <2>2
  <2>4. QED
    BY <1>2, <2>1, <2>2, <2>3
<1>7. Registered'
  BY <1>2, <1>3 DEF TypeInv, Links, Registered
<1>8. CallsKnown'
  <2> SUFFICES ASSUME NEW d \in Calls PROVE Known(call[d])'
    BY DEF CallsKnown
  <2>1. Known(call[d])
    BY DEF TypeInv, Links, CallsKnown
  <2>2. QED
    BY <1>2, <2>1 DEF Known
<1>9. QED
  BY <1>4, <1>5, <1>6, <1>7, <1>8 DEF Links

LEMMA ForgetLinks ==
  ASSUME TypeInv, NEW t \in Tenants, Forget(t)
  PROVE  Links'
<1> USE PoolAssumption
<1>1. /\ \A u \in Tenants : connecting'[u] = IF u = t THEN None ELSE connecting[u]
      /\ UNCHANGED <<pool, attempt, link, call>>
  BY DEF Forget, TypeInv, TypeOK
<1>2. attempt[connecting[t]].pc \in {"done", "failed"}
  BY DEF Forget, Settled
<1>3. ConnectAlone'
  BY <1>1, <1>2 DEF TypeInv, Links, ConnectAlone, Running
<1>4. (PoolLive /\ LinkPooled /\ Registered /\ CallsKnown)'
  BY <1>1 DEF TypeInv, Links, PoolLive, LinkPooled, Registered, CallsKnown, Known
<1>5. QED
  BY <1>3, <1>4 DEF Links

LEMMA ClosedLinks ==
  ASSUME TypeInv, NEW k \in Clients, Closed(k)
  PROVE  Links'
<1>1. /\ \A j \in Clients : link'[j] = IF j = k THEN "closed" ELSE link[j]
      /\ link[k] = "closing"
      /\ UNCHANGED <<pool, connecting, attempt, call>>
  BY DEF Closed, TypeInv, TypeOK
<1>2. \A t \in Tenants : pool[t] \in Clients \cup {None}
  BY DEF TypeInv, TypeOK
<1>3. PoolLive' /\ LinkPooled'
  BY <1>1, <1>2, PoolAssumption DEF TypeInv, Links, PoolLive, LinkPooled
<1>4. ConnectAlone' /\ Registered' /\ CallsKnown'
  BY <1>1 DEF TypeInv, Links, ConnectAlone, Running, Registered, CallsKnown, Known
<1>5. QED
  BY <1>3, <1>4 DEF Links

LEMMA LinksStep == TypeInv /\ [Next]_vars => Links'
<1> SUFFICES ASSUME TypeInv, [Next]_vars PROVE Links'
  OBVIOUS
<1>1. ASSUME NEW c \in Calls, CallStep(c) PROVE Links'
  BY <1>1, CallLinks, StartLinks DEF CallStep
<1>2. ASSUME NEW k \in Clients, ConnectStep(k) \/ Closed(k) PROVE Links'
  <2>1. attempt[k] \in Attempt
    BY DEF TypeInv, TypeOK
  <2>2. CASE Room(k)
    <3> DEFINE a == [attempt[k] EXCEPT !.pc = "open", !.victim = None]
    <3>1. a.pc = "open" /\ a.tenant = attempt[k].tenant /\ Running(k)
      BY <2>1, <2>2 DEF Attempt, Room, Running
    <3>2. attempt' = [attempt EXCEPT ![k] = a]
      BY <2>2 DEF Room, Pass
    <3>3. UNCHANGED <<pool, connecting, call, link>>
      BY <2>2 DEF Room
    <3> HIDE DEF a
    <3>4. QED
      BY <3>1, <3>2, <3>3, ConnectLinks
  <2>3. CASE RoomMade(k)
    <3> DEFINE a == [attempt[k] EXCEPT !.pc = "open", !.victim = None]
    <3>1. a.pc = "open" /\ a.tenant = attempt[k].tenant /\ Running(k)
      BY <2>1, <2>3 DEF Attempt, RoomMade, Running
    <3>2. attempt' = [attempt EXCEPT ![k] = a]
      BY <2>3 DEF RoomMade
    <3>3. UNCHANGED <<pool, connecting, call, link>>
      BY <2>3 DEF RoomMade
    <3> HIDE DEF a
    <3>4. QED
      BY <3>1, <3>2, <3>3, ConnectLinks
  <2>4. CASE ConnectFails(k)
    <3> DEFINE a == [attempt[k] EXCEPT !.pc = "failed"]
    <3>1. a.pc = "failed" /\ a.tenant = attempt[k].tenant /\ Running(k)
      BY <2>1, <2>4 DEF Attempt, ConnectFails, Running
    <3>2. attempt' = [attempt EXCEPT ![k] = a]
      BY <2>4 DEF ConnectFails
    <3>3. UNCHANGED <<pool, connecting, call, link>>
      BY <2>4 DEF ConnectFails
    <3> HIDE DEF a
    <3>4. QED
      BY <3>1, <3>2, <3>3, ConnectLinks
  <2>5. QED
    BY <1>2, <2>2, <2>3, <2>4, MakeRoomLinks, OpenedLinks, ClosedLinks DEF ConnectStep
<1>3. ASSUME NEW t \in Tenants, Forget(t) \/ Evict(t) \/ Sweep(t) \/ SetStatus(t) PROVE Links'
  <2>1. CASE Evict(t)
    BY <2>1, ClosingLinks DEF Evict
  <2>2. CASE Sweep(t)
    BY <2>2, ClosingLinks DEF Sweep
  <2>3. CASE SetStatus(t)
    BY <2>3 DEF SetStatus, TypeInv, Links, PoolLive, LinkPooled, ConnectAlone, Running, Registered,
         CallsKnown, Known
  <2>4. QED
    BY <1>3, <2>1, <2>2, <2>3, ForgetLinks
<1>4. CASE Destroy
  <2>1. Pooled \in SUBSET Tenants
    BY DEF Pooled
  <2>2. QED
    BY <1>4, <2>1, ClosingLinks DEF Destroy
<1>5. CASE UNCHANGED vars
  BY <1>5 DEF vars, TypeInv, Links, PoolLive, LinkPooled, ConnectAlone, Running, Registered,
       CallsKnown, Known
<1>6. QED
  BY <1>1, <1>2, <1>3, <1>4, <1>5 DEF Next

\* Every variable has its type, and every name stands for what the pool, the map
\* of connects and the calls take it for.
THEOREM TypeCorrect == Spec => []TypeInv
<1>1. TypeInv /\ [Next]_vars => TypeInv'
  BY TypeStep, LinksStep DEF TypeInv
<1>2. QED
  BY <1>1, InitType, PTL DEF Spec

\* A store has one client, a call a client of its own store.
THEOREM OneClient == Spec => []OneClientPerTenant
<1>1. TypeInv => OneClientPerTenant
  <2> SUFFICES ASSUME TypeInv PROVE OneClientPerTenant
    OBVIOUS
  <2>1. \A c \in Calls : call[c] \in Call
    BY DEF TypeInv, TypeOK
  <2>2. \A c \in Calls : call[c].client # None => attempt[call[c].client].tenant = call[c].tenant
    BY <2>1 DEF TypeInv, Links, CallsKnown, Known, Call
  <2>3. QED
    BY <2>2 DEF TypeInv, Links, LinkPooled, ConnectAlone, Running, OneClientPerTenant
<1>2. QED
  BY <1>1, TypeCorrect, PTL

-------------------------------------------------------------------------------
\* The busy counters

On(k) == {c \in Calls : call[c].pc = "work" /\ call[c].counted = k}

LEMMA OnFinite ==
  ASSUME NEW S \in SUBSET Calls
  PROVE  IsFiniteSet(S) /\ Cardinality(S) \in Nat
BY PoolAssumption, FS_Subset, FS_CardinalityType

LEMMA CountStep == TypeInv /\ CountedRight /\ [Next]_vars => CountedRight'
<1> SUFFICES ASSUME TypeInv, CountedRight, [Next]_vars, NEW k \in Clients
             PROVE  busy'[k] = Cardinality(On(k)')
  BY DEF CountedRight, On
<1> USE PoolAssumption
<1>0. busy[k] = Cardinality(On(k)) /\ busy[k] \in Nat /\ IsFiniteSet(On(k))
  BY OnFinite DEF CountedRight, On, TypeInv, TypeOK
<1>1. ASSUME NEW c \in Calls, CallStep(c) PROVE busy'[k] = Cardinality(On(k)')
  <2>0. call[c] \in Call /\ (call[c].pc # "work" => call[c].counted = None)
    BY DEF TypeInv, TypeOK, Links, CallsKnown, Known
  <2>1. ASSUME call[c].pc # "work", call'[c].pc # "work", busy'[k] = busy[k],
               \A d \in Calls : d # c => call'[d] = call[d]
        PROVE  busy'[k] = Cardinality(On(k)')
    <3>1. On(k)' = On(k)
      BY <2>1 DEF On
    <3>2. QED
      BY <1>0, <2>1, <3>1
  <2>2. ASSUME NEW t \in Tenants, Admit(c, t) PROVE busy'[k] = Cardinality(On(k)')
    <3>1. call'[c].pc = "admitted" /\ call[c].pc = "idle" /\ busy'[k] = busy[k]
          /\ \A d \in Calls : d # c => call'[d] = call[d]
      BY <2>0, <2>2 DEF Admit, TypeInv, TypeOK, Call
    <3>2. QED
      BY <2>1, <3>1
  <2>3. CASE GetPooled(c)
    <3>1. call'[c].pc = "got" /\ call[c].pc = "admitted" /\ busy'[k] = busy[k]
          /\ \A d \in Calls : d # c => call'[d] = call[d]
      BY <2>0, <2>3 DEF GetPooled, TypeInv, TypeOK, Call
    <3>2. QED
      BY <2>1, <3>1
  <2>4. CASE Join(c)
    <3>1. call'[c].pc = "wait" /\ call[c].pc = "admitted" /\ busy'[k] = busy[k]
          /\ \A d \in Calls : d # c => call'[d] = call[d]
      BY <2>0, <2>4 DEF Join, TypeInv, TypeOK, Call
    <3>2. QED
      BY <2>1, <3>1
  <2>5. ASSUME NEW j \in Clients, StartConnect(c, j) PROVE busy'[k] = Cardinality(On(k)')
    <3>1. call'[c].pc = "wait" /\ call[c].pc = "admitted"
          /\ \A d \in Calls : d # c => call'[d] = call[d]
      BY <2>0, <2>5 DEF StartConnect, TypeInv, TypeOK, Call
    <3>2. CASE k # j
      <4>1. busy'[k] = busy[k]
        BY <2>5, <3>2 DEF StartConnect, TypeInv, TypeOK
      <4>2. QED
        BY <2>1, <3>1, <4>1
    <3>3. CASE k = j
      <4>1. On(k)' = {}
        BY <2>5, <3>1, <3>3 DEF StartConnect, Unused, On
      <4>2. busy'[k] = 0
        BY <2>5, <3>3 DEF StartConnect, TypeInv, TypeOK
      <4>3. QED
        BY <4>1, <4>2, FS_EmptySet
    <3>4. QED
      BY <3>2, <3>3
  <2>6. CASE Refuse(c)
    <3>1. call'[c].pc = "idle" /\ call[c].pc = "admitted" /\ busy'[k] = busy[k]
          /\ \A d \in Calls : d # c => call'[d] = call[d]
      BY <2>0, <2>6 DEF Refuse, TypeInv, TypeOK, Call, NoCall
    <3>2. QED
      BY <2>1, <3>1
  <2>7. CASE Resume(c)
    <3>1. call'[c].pc \in {"got", "idle"} /\ call[c].pc = "wait" /\ busy'[k] = busy[k]
          /\ \A d \in Calls : d # c => call'[d] = call[d]
      BY <2>0, <2>7 DEF Resume, TypeInv, TypeOK, Call, NoCall
    <3>2. QED
      BY <2>1, <3>1
  <2>8. CASE Mark(c)
    <3> DEFINE p == pool[call[c].tenant]
    <3>1. call'[c].pc = "work" /\ call'[c].counted = p /\ call[c].pc = "got"
          /\ \A d \in Calls : d # c => call'[d] = call[d]
      BY <2>0, <2>8 DEF Mark, TypeInv, TypeOK, Call
    <3>2. CASE p = k
      <4>1. On(k)' = On(k) \cup {c} /\ c \notin On(k)
        BY <3>1, <3>2 DEF On
      <4>2. busy'[k] = busy[k] + 1
        BY <2>8, <3>2 DEF Mark, TypeInv, TypeOK
      <4>3. QED
        BY <1>0, <4>1, <4>2, FS_AddElement
    <3>3. CASE p # k
      <4>1. On(k)' = On(k)
        BY <3>1, <3>3 DEF On
      <4>2. busy'[k] = busy[k]
        BY <2>8, <3>3 DEF Mark, TypeInv, TypeOK
      <4>3. QED
        BY <1>0, <4>1, <4>2
    <3>4. QED
      BY <3>2, <3>3
  <2>9. CASE End(c)
    <3>1. call'[c].pc = "idle" /\ call[c].pc = "work"
          /\ \A d \in Calls : d # c => call'[d] = call[d]
      BY <2>0, <2>9 DEF End, TypeInv, TypeOK, Call, NoCall
    <3>2. CASE call[c].counted = k
      <4>1. On(k)' = On(k) \ {c} /\ c \in On(k)
        BY <3>1, <3>2 DEF On
      <4>2. Cardinality(On(k)') = busy[k] - 1
        <5>1. Cardinality(On(k)) = busy[k] /\ IsFiniteSet(On(k))
          BY <1>0
        <5>2. Cardinality(On(k) \ {c}) = Cardinality(On(k)) - 1
          BY <4>1, <5>1, FS_RemoveElement
        <5>3. QED
          BY <4>1, <5>1, <5>2
      <4>3. Cardinality(On(k)') \in Nat
        BY OnFinite DEF On
      <4>4. busy[k] # 0
        BY <1>0, <4>2, <4>3
      <4>5. busy'[k] = busy[k] - 1
        <5>1. busy \in [Clients -> Nat]
          BY DEF TypeInv, TypeOK
        <5>2. k # None => busy' = [busy EXCEPT ![k] = IF busy[k] = 0 THEN 0 ELSE busy[k] - 1]
          BY <2>9, <3>2 DEF End, Marked
        <5>3. k # None
          BY PoolAssumption
        <5>4. QED
          BY <4>4, <5>1, <5>2, <5>3
      <4>6. QED
        BY <4>2, <4>5
    <3>3. CASE call[c].counted # k
      <4>1. On(k)' = On(k)
        BY <3>1, <3>3 DEF On
      <4>2. busy'[k] = busy[k]
        BY <2>9, <3>3 DEF End, Marked, TypeInv, TypeOK
      <4>3. QED
        BY <1>0, <4>1, <4>2
    <3>4. QED
      BY <3>2, <3>3
  <2>10. QED
    BY <1>1, <2>2, <2>3, <2>4, <2>5, <2>6, <2>7, <2>8, <2>9 DEF CallStep
<1>2. ASSUME UNCHANGED <<busy, call>> PROVE busy'[k] = Cardinality(On(k)')
  BY <1>0, <1>2 DEF On
<1>3. ASSUME NEW j \in Clients, ConnectStep(j) \/ Closed(j) PROVE UNCHANGED <<busy, call>>
  BY <1>3 DEF ConnectStep, Room, MakeRoom, RoomMade, Opened, ConnectFails, Closed
<1>4. ASSUME NEW t \in Tenants, Forget(t) \/ Evict(t) \/ Sweep(t) \/ SetStatus(t)
      PROVE UNCHANGED <<busy, call>>
  BY <1>4 DEF Forget, Evict, Sweep, SetStatus
<1>5. Destroy \/ UNCHANGED vars => UNCHANGED <<busy, call>>
  BY DEF Destroy, vars
<1>6. QED
  BY <1>1, <1>2, <1>3, <1>4, <1>5 DEF Next

\* The counter of a client is the number of calls counted on it.
THEOREM CountersRight == Spec => []CountedRight
<1>1. Init => CountedRight
  <2>1. Init => \A k \in Clients : On(k) = {}
    BY DEF Init, On, NoCall
  <2>2. QED
    BY <2>1, FS_EmptySet DEF Init, CountedRight, On
<1>2. QED
  BY <1>1, CountStep, TypeCorrect, PTL DEF Spec

-------------------------------------------------------------------------------
\* A client that is counted on stays open

\* Nobody is counted on an idle client.
LEMMA IdleUncounted ==
  ASSUME TypeInv, CountedRight, NEW t \in Tenants, Idle(t), NEW c \in Calls, call[c].pc = "work"
  PROVE  call[c].counted # pool[t]
<1>1. pool[t] \in Clients /\ Cardinality(On(pool[t])) = 0
  BY DEF Idle, CountedRight, On, TypeInv, TypeOK
<1>2. On(pool[t]) = {}
  BY <1>1, OnFinite, FS_EmptySet DEF On
<1>3. QED
  BY <1>2 DEF On

Held(c) ==
  call[c].pc = "work" /\ call[c].counted = call[c].client
    => link[call[c].client] = "open" \/ call[c].client \in closedBusy

\* Closing clients that no call is counted on, or that closedBusy records.
LEMMA DropHeld ==
  ASSUME TypeInv, NEW c \in Calls, Held(c), NEW ts \in SUBSET Tenants, Drop(ts), call' = call,
         closedBusy \subseteq closedBusy',
         \A t \in ts : pool[t] = call[c].client /\ call[c].counted = pool[t]
                         /\ call[c].pc = "work" /\ pool[t] # None => pool[t] \in closedBusy'
  PROVE  Held(c)'
<1> SUFFICES ASSUME call[c].pc = "work", call[c].counted = call[c].client
             PROVE  link'[call[c].client] = "open" \/ call[c].client \in closedBusy'
  BY DEF Held
<1>1. call[c].client \in Clients
  BY DEF TypeInv, Links, CallsKnown, Known
<1>2. link[call[c].client] = "open" \/ call[c].client \in closedBusy
  BY DEF Held
<1>3. CASE \E t \in ts : pool[t] = call[c].client
  BY <1>1, <1>3, PoolAssumption
<1>4. CASE ~ \E t \in ts : pool[t] = call[c].client
  BY <1>1, <1>2, <1>4 DEF Drop
<1>5. QED
  BY <1>3, <1>4

LEMMA HeldStep == TypeInv /\ CountedRight /\ HeldOpen /\ [Next]_vars => HeldOpen'
<1> SUFFICES ASSUME TypeInv, CountedRight, HeldOpen, [Next]_vars, NEW c \in Calls
             PROVE  Held(c)'
  BY DEF HeldOpen, Held
<1> USE PoolAssumption
<1>0. Held(c) /\ call[c] \in Call /\ Known(call[c])
  BY DEF HeldOpen, Held, TypeInv, TypeOK, Links, CallsKnown
<1>1. ASSUME call'[c] = call[c], UNCHANGED <<link, closedBusy>> PROVE Held(c)'
  BY <1>0, <1>1 DEF Held
<1>2. ASSUME call'[c].pc # "work" PROVE Held(c)'
  BY <1>2 DEF Held
<1>3. ASSUME NEW d \in Calls, CallStep(d) PROVE Held(c)'
  <2>1. ASSUME NEW t \in Tenants, Admit(d, t) PROVE Held(c)'
    <3>1. UNCHANGED <<link, closedBusy>> /\ (c # d => call'[c] = call[c])
          /\ (c = d => call'[c].pc = "admitted")
      BY <1>0, <2>1 DEF Admit, TypeInv, TypeOK, Call
    <3>2. QED
      BY <1>1, <1>2, <3>1
  <2>2. CASE GetPooled(d)
    <3>1. UNCHANGED <<link, closedBusy>> /\ (c # d => call'[c] = call[c])
          /\ (c = d => call'[c].pc = "got")
      BY <1>0, <2>2 DEF GetPooled, TypeInv, TypeOK, Call
    <3>2. QED
      BY <1>1, <1>2, <3>1
  <2>3. CASE Join(d)
    <3>1. UNCHANGED <<link, closedBusy>> /\ (c # d => call'[c] = call[c])
          /\ (c = d => call'[c].pc = "wait")
      BY <1>0, <2>3 DEF Join, TypeInv, TypeOK, Call
    <3>2. QED
      BY <1>1, <1>2, <3>1
  <2>4. ASSUME NEW k \in Clients, StartConnect(d, k) PROVE Held(c)'
    <3>1. /\ c # d => call'[c] = call[c]
          /\ c = d => call'[c].pc = "wait"
          /\ \A j \in Clients : j # k => link'[j] = link[j]
          /\ closedBusy' = closedBusy \ {k}
      BY <1>0, <2>4 DEF StartConnect, TypeInv, TypeOK, Call
    <3>2. call[c].client # k
      BY <2>4 DEF StartConnect, Unused
    <3>3. CASE c = d
      BY <1>2, <3>1, <3>3
    <3>4. CASE c # d
      <4>1. call[c].pc = "work" => call[c].client \in Clients
        BY <1>0 DEF Known
      <4>2. QED
        BY <1>0, <3>1, <3>2, <3>4, <4>1 DEF Held
    <3>5. QED
      BY <3>3, <3>4
  <2>5. CASE Refuse(d)
    <3>1. UNCHANGED <<link, closedBusy>> /\ (c # d => call'[c] = call[c])
          /\ (c = d => call'[c].pc = "idle")
      BY <1>0, <2>5 DEF Refuse, TypeInv, TypeOK, Call, NoCall
    <3>2. QED
      BY <1>1, <1>2, <3>1
  <2>6. CASE Resume(d)
    <3>1. UNCHANGED <<link, closedBusy>> /\ (c # d => call'[c] = call[c])
          /\ (c = d => call'[c].pc \in {"got", "idle"})
      BY <1>0, <2>6 DEF Resume, TypeInv, TypeOK, Call, NoCall
    <3>2. QED
      BY <1>1, <1>2, <3>1
  <2>7. CASE Mark(d)
    <3>1. UNCHANGED <<link, closedBusy>> /\ (c # d => call'[c] = call[c])
      BY <2>7 DEF Mark, TypeInv, TypeOK
    <3>2. CASE c # d
      BY <1>1, <3>1, <3>2
    <3>3. CASE c = d
      <4>1. call'[c].counted = pool[call[c].tenant] /\ call'[c].client = call[c].client
            /\ call[c].tenant \in Tenants /\ call[c].client \in Clients
        BY <1>0, <2>7, <3>3 DEF Mark, TypeInv, TypeOK, Call, Known
      <4>2. call'[c].counted = call'[c].client => link[call[c].client] = "open"
        <5>1. pool[call[c].tenant] # None => link[pool[call[c].tenant]] = "open"
          BY <4>1 DEF TypeInv, Links, PoolLive
        <5>2. QED
          BY <4>1, <5>1
      <4>3. QED
        BY <3>1, <4>1, <4>2 DEF Held
    <3>4. QED
      BY <3>2, <3>3
  <2>8. CASE End(d)
    <3>1. UNCHANGED <<link, closedBusy>> /\ (c # d => call'[c] = call[c])
          /\ (c = d => call'[c].pc = "idle")
      BY <1>0, <2>8 DEF End, TypeInv, TypeOK, Call, NoCall
    <3>2. QED
      BY <1>1, <1>2, <3>1
  <2>9. QED
    BY <1>3, <2>1, <2>2, <2>3, <2>4, <2>5, <2>6, <2>7, <2>8 DEF CallStep
<1>4. ASSUME NEW k \in Clients, ConnectStep(k) \/ Closed(k) PROVE Held(c)'
  <2>1. CASE Room(k) \/ RoomMade(k) \/ ConnectFails(k)
    BY <1>1, <2>1 DEF Room, RoomMade, ConnectFails
  <2>2. ASSUME NEW t \in Tenants, MakeRoom(k, t) PROVE Held(c)'
    <3>1. call[c].pc = "work" => call[c].counted # pool[t]
      BY <2>2, IdleUncounted DEF MakeRoom
    <3>2. QED
      BY <1>0, <2>2, <3>1, DropHeld DEF MakeRoom
  <2>3. CASE Opened(k)
    BY <1>0, <2>3 DEF Opened, Held, TypeInv, TypeOK
  <2>4. CASE Closed(k)
    BY <1>0, <2>4 DEF Closed, Held, TypeInv, TypeOK
  <2>5. QED
    BY <1>4, <2>1, <2>2, <2>3, <2>4 DEF ConnectStep
<1>5. ASSUME NEW t \in Tenants, Forget(t) \/ Evict(t) \/ Sweep(t) \/ SetStatus(t) PROVE Held(c)'
  <2>1. CASE Forget(t) \/ SetStatus(t)
    BY <1>1, <2>1 DEF Forget, SetStatus
  <2>2. CASE Evict(t)
    BY <1>0, <2>2, DropHeld DEF Evict
  <2>3. CASE Sweep(t)
    <3>1. call[c].pc = "work" => call[c].counted # pool[t]
      BY <2>3, IdleUncounted DEF Sweep
    <3>2. QED
      BY <1>0, <2>3, <3>1, DropHeld DEF Sweep
  <2>4. QED
    BY <1>5, <2>1, <2>2, <2>3
<1>6. CASE Destroy
  <2>1. Pooled \in SUBSET Tenants /\ Drop(Pooled) /\ call' = call
        /\ closedBusy' = closedBusy \cup {pool[t] : t \in Pooled}
    BY <1>6 DEF Destroy, Pooled
  <2>2. QED
    BY <1>0, <2>1, DropHeld
<1>7. CASE UNCHANGED vars
  BY <1>1, <1>7 DEF vars
<1>8. QED
  BY <1>3, <1>4, <1>5, <1>6, <1>7 DEF Next

\* A call counted on its client keeps it open, unless evict or the shutdown close it.
THEOREM CountedKeptOpen == Spec => []HeldOpen
<1>1. Init => HeldOpen
  BY DEF Init, HeldOpen, NoCall
<1>2. QED
  BY <1>1, HeldStep, TypeCorrect, CountersRight, PTL DEF Spec

-------------------------------------------------------------------------------
\* The limit

LEMMA PooledCard ==
  ASSUME NEW S \in SUBSET Tenants
  PROVE  IsFiniteSet(S) /\ Cardinality(S) \in Nat
BY PoolAssumption, FS_Subset, FS_CardinalityType

Within == Cardinality(Opening) <= peak /\ peak \in Nat \ {0} /\ OverrunBounded

LEMMA WithinStep == TypeInv /\ Within /\ [Next]_vars => Within'
<1> SUFFICES ASSUME TypeInv, Within, [Next]_vars PROVE Within'
  OBVIOUS
<1> USE PoolAssumption
<1>0. /\ IsFiniteSet(Pooled) /\ Cardinality(Pooled) \in Nat
      /\ IsFiniteSet(Opening) /\ Cardinality(Opening) \in Nat
      /\ IsFiniteSet(Pooled') /\ Cardinality(Pooled') \in Nat
      /\ IsFiniteSet(Opening') /\ Cardinality(Opening') \in Nat
  BY PooledCard, OpeningCard DEF Pooled, Opening
\* A step that opens nothing and pools nothing.
<1>1. ASSUME Pooled' \subseteq Pooled, Opening' \subseteq Opening, peak' = peak PROVE Within'
  <2>1. Cardinality(Pooled') <= Cardinality(Pooled) /\ Cardinality(Opening') <= Cardinality(Opening)
    BY <1>0, <1>1, FS_Subset
  <2>2. QED
    BY <1>0, <1>1, <2>1 DEF Within, OverrunBounded
<1>2. \A ts \in SUBSET Tenants : Drop(ts) => Pooled' = Pooled \ ts
  BY DEF Drop, Pooled
<1>3. ASSUME NEW k \in Clients, ConnectStep(k) PROVE Within'
  <2>0. \A j \in Clients : j # k => attempt'[j] = attempt[j]
    BY <1>3 DEF ConnectStep, Room, MakeRoom, Pass, RoomMade, Opened, ConnectFails, TypeInv, TypeOK
  <2>1. ASSUME attempt[k].pc = "resolve", Opening' = Opening \cup {k},
               peak' = Larger(peak, Cardinality(Opening \cup {k})),
               Cardinality(Pooled') <= MaxPool - 1
                 \/ Cardinality(Pooled') = Cardinality(Pooled) - 1
        PROVE  Within'
    <3>1. Cardinality(Opening') = Cardinality(Opening) + 1
      BY <1>0, <2>1, FS_AddElement DEF Opening
    <3>2. peak' \in Nat \ {0} /\ peak' >= peak /\ peak' >= Cardinality(Opening')
      BY <1>0, <2>1, <3>1 DEF Larger, Within
    <3>3. QED
      BY <1>0, <2>1, <3>1, <3>2 DEF Within, OverrunBounded
  <2>2. CASE Room(k)
    <3>1. attempt'[k].pc = "open" /\ attempt[k].pc = "resolve" /\ Pooled' = Pooled
      BY <2>2 DEF Room, Pass, Pooled, TypeInv, TypeOK, Attempt
    <3>2. Opening' = Opening \cup {k}
      BY <2>0, <3>1 DEF Opening
    <3>3. Cardinality(Pooled') <= MaxPool - 1
      BY <1>0, <2>2, <3>1 DEF Room, Full
    <3>4. QED
      BY <2>1, <2>2, <3>1, <3>2, <3>3 DEF Room, Pass
  <2>3. ASSUME NEW t \in Tenants, MakeRoom(k, t) PROVE Within'
    <3>1. attempt'[k].pc = "room" /\ attempt[k].pc = "resolve"
      <4>1. attempt \in [Clients -> Attempt]
        BY DEF TypeInv, TypeOK
      <4>2. attempt' = [attempt EXCEPT ![k] = [attempt[k] EXCEPT !.pc = "room", !.victim = pool[t]]]
        BY <2>3 DEF MakeRoom, Pass
      <4>3. attempt[k].pc = "resolve"
        BY <2>3 DEF MakeRoom
      <4>4. QED
        BY <4>1, <4>2, <4>3 DEF Attempt
    <3>2. Opening' = Opening \cup {k}
      BY <2>0, <3>1 DEF Opening
    <3>3. Pooled' = Pooled \ {t} /\ t \in Pooled
      BY <1>2, <2>3 DEF MakeRoom, Idle, Pooled
    <3>4. Cardinality(Pooled') = Cardinality(Pooled) - 1
      BY <1>0, <3>3, FS_RemoveElement
    <3>5. QED
      BY <2>1, <2>3, <3>1, <3>2, <3>4 DEF MakeRoom, Pass
  <2>4. CASE RoomMade(k)
    <3>1. attempt'[k].pc = "open" /\ attempt[k].pc = "room" /\ Pooled' = Pooled /\ peak' = peak
      BY <2>4 DEF RoomMade, Pooled, TypeInv, TypeOK, Attempt
    <3>2. Opening' = Opening
      BY <2>0, <3>1 DEF Opening
    <3>3. QED
      BY <1>1, <3>1, <3>2
  <2>5. CASE Opened(k)
    <3> DEFINE t0 == attempt[k].tenant
    <3>1. attempt'[k].pc = "done" /\ attempt[k].pc = "open" /\ peak' = peak
      BY <2>5 DEF Opened, TypeInv, TypeOK, Attempt
    <3>2. Opening' = Opening \ {k} /\ k \in Opening
      BY <2>0, <3>1 DEF Opening
    <3>3. t0 \in Tenants
      BY <3>1 DEF TypeInv, Links, ConnectAlone, Running
    <3>4. Pooled' = Pooled \cup {t0}
      BY <2>5, <3>3 DEF Opened, Pooled, TypeInv, TypeOK
    <3>5. Cardinality(Opening') = Cardinality(Opening) - 1
      BY <1>0, <3>2, FS_RemoveElement
    <3>6. Cardinality(Pooled') <= Cardinality(Pooled) + 1
      <4>1. Cardinality(Pooled \cup {t0})
              = IF t0 \in Pooled THEN Cardinality(Pooled) ELSE Cardinality(Pooled) + 1
        BY <1>0, FS_AddElement
      <4>2. QED
        BY <1>0, <3>4, <4>1
    <3>7. QED
      BY <1>0, <3>1, <3>5, <3>6 DEF Within, OverrunBounded
  <2>6. CASE ConnectFails(k)
    <3>1. attempt'[k].pc = "failed" /\ Pooled' = Pooled /\ peak' = peak
      BY <2>6 DEF ConnectFails, Pooled, TypeInv, TypeOK, Attempt
    <3>2. Opening' \subseteq Opening
      BY <2>0, <3>1 DEF Opening
    <3>3. QED
      BY <1>1, <3>1, <3>2
  <2>7. QED
    BY <1>3, <2>2, <2>3, <2>4, <2>5, <2>6 DEF ConnectStep
<1>4. ASSUME NEW c \in Calls, CallStep(c) PROVE Within'
  <2>1. peak' = peak /\ pool' = pool
    BY <1>4 DEF CallStep, Admit, GetPooled, Join, StartConnect, Refuse, Resume, Mark, End
  <2>2. attempt' = attempt
        \/ \E k \in Clients, a \in {"resolve"} :
             /\ attempt' = [attempt EXCEPT ![k] = [pc |-> a, tenant |-> call[c].tenant, victim |-> None]]
    BY <1>4 DEF CallStep, Admit, GetPooled, Join, StartConnect, Refuse, Resume, Mark, End
  <2>3. Opening' \subseteq Opening
    BY <2>2 DEF Opening, TypeInv, TypeOK
  <2>4. QED
    BY <1>1, <2>1, <2>3 DEF Pooled
<1>5. ASSUME NEW t \in Tenants, Forget(t) \/ Evict(t) \/ Sweep(t) \/ SetStatus(t) PROVE Within'
  <2>1. peak' = peak /\ Opening' = Opening /\ (pool' = pool \/ Drop({t}))
    BY <1>5 DEF Forget, Evict, Sweep, SetStatus, Opening
  <2>2. Pooled' \subseteq Pooled
    BY <1>2, <2>1 DEF Pooled
  <2>3. QED
    BY <1>1, <2>1, <2>2
<1>6. ASSUME NEW k \in Clients, Closed(k) PROVE Within'
  BY <1>1, <1>6 DEF Closed, Pooled, Opening
<1>7. CASE Destroy
  <2>1. Pooled' = Pooled \ Pooled /\ Opening' = Opening /\ peak' = peak
    BY <1>2, <1>7 DEF Destroy, Opening, Pooled
  <2>2. QED
    BY <1>1, <2>1
<1>8. CASE UNCHANGED vars
  BY <1>1, <1>8 DEF vars, Pooled, Opening
<1>9. QED
  BY <1>3, <1>4, <1>5, <1>6, <1>7, <1>8 DEF Next

\* The pool overruns its limit by the connects that passed it together, no more.
THEOREM LimitNearlyKept == Spec => []OverrunBounded
<1>1. Init => Within
  <2>1. Init => Pooled = {} /\ Opening = {} /\ peak = 1
    BY DEF Init, Pooled, Opening, NoAttempt
  <2>2. QED
    BY <2>1, FS_EmptySet, PoolAssumption DEF Within, OverrunBounded
<1>2. Within => OverrunBounded
  BY DEF Within
<1>3. QED
  BY <1>1, <1>2, WithinStep, TypeCorrect, PTL DEF Spec

===============================================================================
