---------------------------- MODULE SessionsProofs ----------------------------
(***************************************************************************)
(* What the run of Sessions checks on two sessions and two requests,       *)
(* proved for every number of sessions, requests, rotations and password   *)
(* changes.                                                                *)
(***************************************************************************)
EXTENDS Sessions, TLAPS

-------------------------------------------------------------------------------
\* Types.

Past == {"resolve", "consume", "mint", "burn"}
Under == {"resolve", "consume", "mint"}

\* A call past its lookup holds a token that was once given out.
Named ==
  \A c \in Calls : pc[c] \in Past => loc[c].token \in Tokens /\ row[loc[c].token] # "none"

TypeInv == TypeOK /\ Named

LEMMA TokenFields ==
  ASSUME NEW t \in Tokens
  PROVE  t.sid \in Sids /\ t.ver \in Versions /\ t.tick \in Ticks
BY DEF Tokens

LEMMA NextTokenTyped ==
  ASSUME NEW t \in Tokens, NEW tick \in Ticks, NextToken(t, tick).ver \in Versions
  PROVE  NextToken(t, tick) \in Tokens /\ NextToken(t, tick).sid = t.sid
BY DEF NextToken, Tokens

LEMMA RevokedTyped ==
  ASSUME TypeOK, NEW sids
  PROVE  /\ Revoked(sids) \in [Tokens -> RowState]
         /\ \A t \in Tokens : row[t] # "none" => Revoked(sids)[t] # "none"
         /\ \A t \in Tokens : Revoked(sids)[t] = "live" => row[t] = "live" /\ t.sid \notin sids
BY DEF TypeOK, Revoked, RowState

LEMMA NoLocalTyped == ASSUME SessionsAssumption PROVE NoLocal \in Local
BY SessionsAssumption DEF NoLocal, Local, Passwords

LEMMA TypeInvInit == ASSUME SessionsAssumption, Init PROVE TypeInv
BY SessionsAssumption DEF Init, TypeInv, TypeOK, Named, Past, RowState, Steps, Local, NoLocal, Passwords

LEMMA TypeInvStep ==
  ASSUME SessionsAssumption, TypeInv, [Next]_vars
  PROVE  TypeInv'
<1> USE DEF TypeInv, Past
<1>0. CASE UNCHANGED vars
  BY <1>0 DEF vars, TypeOK, Named
<1>1. CASE \E c \in Calls : CallNext(c)
  <2> PICK c \in Calls : CallNext(c)
    BY <1>1
  <2>1. CASE Login(c)
    BY <2>1 DEF Login, At, Go, history, TypeOK, Named, Steps, Local
  <2>12. CASE \E s \in Sids : Switch(c, s)
    BY <2>12 DEF Switch, At, Go, history, TypeOK, Named, Steps, Local
  <2>2. CASE \E s \in Sids, tick \in Ticks : Open(c, s, tick)
    <3> PICK s \in Sids, tick \in Ticks : Open(c, s, tick)
      BY <2>2
    <3> DEFINE t == [sid |-> s, ver |-> 1, tick |-> tick]
    <3>1. row' = [row EXCEPT ![t] = "live"] /\ opened' = [opened EXCEPT ![s] = loc[c].password]
      BY DEF Open
    <3>2. pc' = [pc EXCEPT ![c] = "idle"] /\ loc' = [loc EXCEPT ![c] = NoLocal]
      BY DEF Open, End, Go
    <3>3. /\ UNCHANGED <<password, enabled, shared, dead, settled>>
          /\ access' \subseteq Sids /\ escaped' \subseteq Sids
      BY DEF Open, TypeOK
    <3>4. t \in Tokens
      BY SessionsAssumption DEF Tokens, Versions
    <3>5. row' \in [Tokens -> RowState]
      BY <3>1, <3>4 DEF TypeOK, RowState
    <3>6. loc[c].password \in Passwords /\ NoLocal \in Local
      BY NoLocalTyped DEF TypeOK, Local
    <3>7. opened' \in [Sids -> Passwords] /\ loc' \in [Calls -> Local] /\ pc' \in [Calls -> Steps]
      BY <3>1, <3>2, <3>6 DEF TypeOK, Steps
    <3>8. TypeOK'
      BY <3>3, <3>5, <3>7 DEF TypeOK
    <3>9. Named'
      BY <3>1, <3>2, <3>4 DEF TypeOK, Named
    <3> QED
      BY <3>8, <3>9
  <2>3. CASE \E t \in Tokens : Find(c, t)
    BY <2>3 DEF Find, Go, At, TypeOK, Named, Steps, Local, Tokens
  <2>4. CASE Burn(c)
    <3>1. row' = Revoked({loc[c].token.sid}) /\ dead' \in SUBSET Sids
      BY <2>4, TokenFields DEF Burn, BurntBy, At, TypeOK, Named
    <3> QED
      BY <2>4, <3>1, RevokedTyped, NoLocalTyped DEF Burn, End, Go, At, TypeOK, Named, Steps
  <2>5. CASE BurnFails(c) \/ Refuse(c) \/ Dies(c)
    BY <2>5, NoLocalTyped DEF BurnFails, Refuse, Dies, End, Go, history, TypeOK, Named, Steps
  <2>6. CASE Resolve(c)
    BY <2>6 DEF Resolve, Go, At, history, TypeOK, Named, Steps
  <2>7. CASE Consume(c)
    BY <2>7 DEF Consume, Consumed, Go, At, history, TypeOK, Named, Steps, RowState
  <2>8. CASE \E tick \in Ticks : Mint(c, tick) \/ MintRefused(c, tick)
    <3> PICK tick \in Ticks : Mint(c, tick) \/ MintRefused(c, tick)
      BY <2>8
    <3>1. NextToken(loc[c].token, tick) \in Tokens
      BY NextTokenTyped DEF Mint, MintRefused, At, Named
    <3>2. access' \subseteq Sids
      BY <3>1, TokenFields DEF Mint, MintRefused, TypeOK
    <3> QED
      BY <3>1, <3>2, NoLocalTyped
      DEF Mint, MintRefused, End, Go, At, history, TypeOK, Named, Steps, RowState
  <2>9. CASE \E s \in Sids : Logout(c, s)
    <3> PICK s \in Sids : Logout(c, s)
      BY <2>9
    <3>1. row' = Revoked({s}) /\ dead' \in SUBSET Sids
      BY DEF Logout, Revoking, TypeOK
    <3> QED
      BY <3>1, RevokedTyped DEF Logout, TypeOK, Named
  <2>10. CASE Rehash(c)
    BY <2>10, SessionsAssumption DEF Rehash, Go, At, history, TypeOK, Named, Steps, Passwords
  <2>11. CASE RevokeAll(c)
    <3>1. row' = Revoked(Sids) /\ dead' \in SUBSET Sids
      BY <2>11 DEF RevokeAll, Revoking, Everywhere, TypeOK
    <3> QED
      BY <2>11, <3>1, RevokedTyped, NoLocalTyped DEF RevokeAll, End, Go, At, TypeOK, Named, Steps
  <2> QED
    BY <2>1, <2>2, <2>3, <2>4, <2>5, <2>6, <2>7, <2>8, <2>9, <2>10, <2>11, <2>12 DEF CallNext
<1>2. CASE SetEnabled \/ \E s \in Sids : AccessExpires(s)
  BY <1>2 DEF SetEnabled, AccessExpires, history, TypeOK, Named
<1>3. CASE \E t \in Tokens : Prune(t)
  BY <1>3 DEF Prune, history, TypeOK, Named, RowState
<1> QED
  BY <1>0, <1>1, <1>2, <1>3 DEF Next

\* Every variable keeps its type, and a call past its lookup (rotate's
\* findSession) holds a token that has or had a row.
THEOREM TypeCorrect == ASSUME SessionsAssumption PROVE Spec => []TypeInv
<1>1. Init => TypeInv
  BY SessionsAssumption, TypeInvInit
<1>2. TypeInv /\ [Next]_vars => TypeInv'
  BY SessionsAssumption, TypeInvStep
<1> QED
  BY <1>1, <1>2, PTL DEF Spec

-------------------------------------------------------------------------------
\* Signed out is out.

\* A dead session was opened, has no live token, and nobody refreshes it.
DeadInv ==
  \A s \in dead :
    /\ ~Fresh(s)
    /\ \A t \in Tokens : t.sid = s => row[t] # "live"
    /\ \A c \in Calls : pc[c] \in Under => loc[c].token.sid # s

\* What a step may do to a session without waking it.
LEMMA DeadKept ==
  ASSUME TypeInv, TypeInv', DeadInv, dead' = dead,
         \A t \in Tokens : row[t] # "none" => row'[t] # "none",
         \A t \in Tokens : row'[t] = "live" => t.sid \notin dead,
         \A c \in Calls : pc'[c] \in Under => loc'[c].token.sid \notin dead
  PROVE  DeadInv'
BY DEF DeadInv, Fresh

\* Revoking sessions: the same, and those nobody refreshes are dead from now on.
LEMMA DeadGrows ==
  ASSUME TypeInv, TypeInv', DeadInv, NEW sids \in SUBSET Sids,
         row' = Revoked(sids),
         dead' \subseteq dead \cup {s \in sids : ~Fresh(s) /\ Refreshing(s) = {}},
         \A c \in Calls : pc'[c] \in Under => pc[c] \in Under /\ loc'[c] = loc[c]
  PROVE  DeadInv'
<1> SUFFICES ASSUME NEW s \in dead' PROVE
      /\ ~Fresh(s)'
      /\ \A t \in Tokens : t.sid = s => row'[t] # "live"
      /\ \A c \in Calls : pc'[c] \in Under => loc'[c].token.sid # s
  BY DEF DeadInv
<1>1. /\ \A t \in Tokens : row[t] # "none" => row'[t] # "none"
      /\ \A t \in Tokens : row'[t] = "live" => row[t] = "live" /\ t.sid \notin sids
  BY RevokedTyped DEF TypeInv
<1>2. ~Fresh(s)
  BY DEF DeadInv
<1>3. ~Fresh(s)'
  BY <1>1, <1>2 DEF Fresh
<1>4. \A t \in Tokens : t.sid = s => row'[t] # "live"
  BY <1>1 DEF DeadInv
<1>5. \A c \in Calls : pc[c] \in Under => loc[c].token.sid # s
  BY DEF DeadInv, Refreshing, Under
<1> QED
  BY <1>3, <1>4, <1>5

LEMMA DeadInvStep ==
  ASSUME SessionsAssumption, TypeInv, TypeInv', DeadInv, [Next]_vars
  PROVE  DeadInv'
<1> USE DEF Under
<1>0. CASE UNCHANGED vars
  BY <1>0 DEF vars, DeadInv, Fresh
<1>1. CASE \E c \in Calls : CallNext(c)
  <2> PICK c \in Calls : CallNext(c)
    BY <1>1
  <2>1. CASE \/ Login(c) \/ \E s \in Sids : Switch(c, s)
             \/ Resolve(c) \/ Refuse(c) \/ BurnFails(c) \/ Dies(c) \/ Rehash(c)
    BY <2>1, DeadKept
    DEF Login, Switch, Resolve, Refuse, BurnFails, Dies, Rehash, At, Go, End, NoLocal, history,
        TypeInv, TypeOK, DeadInv
  <2>2. CASE \E s \in Sids, tick \in Ticks : Open(c, s, tick)
    <3> PICK s \in Sids, tick \in Ticks : Open(c, s, tick)
      BY <2>2
    <3> DEFINE t == [sid |-> s, ver |-> 1, tick |-> tick]
    <3>1. row' = [row EXCEPT ![t] = "live"] /\ Fresh(s) /\ dead' = dead
      BY DEF Open
    <3>2. s \notin dead
      BY <3>1 DEF DeadInv
    <3>3. \A u \in Tokens : row'[u] = "live" => u.sid \notin dead
      BY <3>1, <3>2 DEF TypeInv, TypeOK, DeadInv
    <3>4. \A u \in Tokens : row[u] # "none" => row'[u] # "none"
      BY <3>1 DEF TypeInv, TypeOK
    <3>5. \A d \in Calls : pc'[d] \in {"resolve", "consume", "mint"} => loc'[d].token.sid \notin dead
      BY DEF Open, End, Go, TypeInv, TypeOK, DeadInv
    <3> QED
      BY <3>1, <3>3, <3>4, <3>5, DeadKept
  <2>3. CASE \E t \in Tokens : Find(c, t)
    <3> PICK t \in Tokens : Find(c, t)
      BY <2>3
    <3>1. row' = row /\ dead' = dead
      BY DEF Find
    <3>2. pc' = [pc EXCEPT ![c] = IF row[t] = "live" THEN "resolve" ELSE "burn"]
      BY DEF Find, Go, Usable
    <3>3. loc' = [loc EXCEPT ![c].token = t]
      BY DEF Find
    <3>4. \A d \in Calls : pc'[d] \in {"resolve", "consume", "mint"} => loc'[d].token.sid \notin dead
      BY <3>2, <3>3 DEF TypeInv, TypeOK, Local, DeadInv
    <3> QED
      BY <3>1, <3>4, DeadKept DEF DeadInv
  <2>4. CASE Burn(c)
    <3>1. loc[c].token \in Tokens /\ row[loc[c].token] # "none" /\ loc[c].token.sid \in Sids
      BY <2>4, TokenFields DEF Burn, At, TypeInv, Named, Past
    <3>2. ~Fresh(loc[c].token.sid)
      BY <3>1 DEF Fresh
    <3>3. row' = Revoked({loc[c].token.sid})
      BY <2>4 DEF Burn, BurntBy
    <3>4. dead' \subseteq dead \cup {s \in {loc[c].token.sid} : ~Fresh(s) /\ Refreshing(s) = {}}
      BY <2>4, <3>2 DEF Burn
    <3>5. \A d \in Calls : pc'[d] \in {"resolve", "consume", "mint"} =>
            pc[d] \in {"resolve", "consume", "mint"} /\ loc'[d] = loc[d]
      BY <2>4 DEF Burn, End, Go, TypeInv, TypeOK
    <3> QED
      BY <3>1, <3>3, <3>4, <3>5, DeadGrows
  <2>5. CASE Consume(c)
    BY <2>5, DeadKept DEF Consume, Consumed, Go, At, history, TypeInv, TypeOK, DeadInv
  <2>6. CASE \E tick \in Ticks : Mint(c, tick)
    <3> PICK tick \in Ticks : Mint(c, tick)
      BY <2>6
    <3> DEFINE n == NextToken(loc[c].token, tick)
    <3>1. row' = [row EXCEPT ![n] = "live"] /\ dead' = dead
      BY DEF Mint, history
    <3>2. n.sid = loc[c].token.sid
      BY DEF NextToken
    <3>3. n.sid \notin dead
      BY <3>2 DEF Mint, At, DeadInv
    <3>4. \A u \in Tokens : row'[u] = "live" => u.sid \notin dead
      BY <3>1, <3>3 DEF TypeInv, TypeOK, DeadInv
    <3>5. \A u \in Tokens : row[u] # "none" => row'[u] # "none"
      BY <3>1 DEF TypeInv, TypeOK
    <3>6. \A d \in Calls : pc'[d] \in {"resolve", "consume", "mint"} => loc'[d].token.sid \notin dead
      BY DEF Mint, End, Go, TypeInv, TypeOK, DeadInv
    <3> QED
      BY <3>1, <3>4, <3>5, <3>6, DeadKept
  <2>7. CASE \E tick \in Ticks : MintRefused(c, tick)
    BY <2>7, DeadKept DEF MintRefused, End, Go, history, TypeInv, TypeOK, DeadInv
  <2>8. CASE \E s \in Sids : Logout(c, s)
    <3> PICK s \in Sids : Logout(c, s)
      BY <2>8
    <3>1. /\ row' = Revoked({s}) /\ pc' = pc /\ loc' = loc
          /\ dead' \subseteq dead \cup {d \in {s} : ~Fresh(d) /\ Refreshing(d) = {}}
      BY DEF Logout, Revoking
    <3> QED
      BY <3>1, DeadGrows
  <2>9. CASE RevokeAll(c)
    <3>1. /\ row' = Revoked(Sids)
          /\ dead' \subseteq dead \cup {s \in Sids : ~Fresh(s) /\ Refreshing(s) = {}}
      BY <2>9 DEF RevokeAll, Revoking, Everywhere
    <3>2. \A d \in Calls : pc'[d] \in {"resolve", "consume", "mint"} =>
            pc[d] \in {"resolve", "consume", "mint"} /\ loc'[d] = loc[d]
      BY <2>9 DEF RevokeAll, End, Go, TypeInv, TypeOK
    <3> QED
      BY <3>1, <3>2, DeadGrows
  <2> QED
    BY <2>1, <2>2, <2>3, <2>4, <2>5, <2>6, <2>7, <2>8, <2>9 DEF CallNext
<1>2. CASE SetEnabled \/ \E s \in Sids : AccessExpires(s)
  BY <1>2, DeadKept DEF SetEnabled, AccessExpires, history, DeadInv
<1>3. CASE \E t \in Tokens : Prune(t)
  BY <1>3, DeadKept DEF Prune, history, TypeInv, TypeOK, DeadInv
<1> QED
  BY <1>0, <1>1, <1>2, <1>3 DEF Next

\* A session revoked while no refresh of it was under way (logout, a password
\* change, or rotate's reaction to a replay) never has a live token again.
THEOREM SignedOutIsOut == ASSUME SessionsAssumption PROVE Spec => []DeadStaysDead
<1>1. Init => DeadInv
  BY DEF Init, DeadInv
<1>2. TypeInv /\ TypeInv' /\ DeadInv /\ [Next]_vars => DeadInv'
  BY SessionsAssumption, DeadInvStep
<1>3. DeadInv => DeadStaysDead
  BY DEF DeadInv, DeadStaysDead, Live
<1> QED
  BY <1>1, <1>2, <1>3, SessionsAssumption, TypeCorrect, PTL DEF Spec

-------------------------------------------------------------------------------
\* One token, one successor.

\* In a session that no two calls refreshed at the same time, the one call that
\* refreshes holds the one live token, or is about to mint the next.
Uses(c, s) == pc[c] \in Under /\ loc[c].token.sid = s
OneLive(s) ==
  \A t, u \in Tokens : t.sid = s /\ row[t] = "live" /\ u.sid = s /\ row[u] = "live" => t = u
OneUser(s) == \A c, d \in Calls : Uses(c, s) /\ Uses(d, s) => c = d
UserHolds(s) ==
  \A c \in Calls, t \in Tokens :
    Uses(c, s) /\ t.sid = s /\ row[t] = "live" => pc[c] # "mint" /\ t = loc[c].token

HolderInv == \A s \in Sids \ shared : OneLive(s) /\ OneUser(s) /\ UserHolds(s)

\* A step that makes nothing of a session live and lets nobody in or on keeps it.
LEMMA SessionKept ==
  ASSUME TypeInv, TypeInv', NEW s \in Sids, OneLive(s) /\ OneUser(s) /\ UserHolds(s),
         \A t \in Tokens : t.sid = s /\ row'[t] = "live" => row[t] = "live",
         \A c \in Calls : Uses(c, s)' =>
           Uses(c, s) /\ loc'[c] = loc[c] /\ (pc'[c] = "mint" => pc[c] = "mint")
  PROVE  OneLive(s)' /\ OneUser(s)' /\ UserHolds(s)'
<1>1. OneLive(s)'
  BY DEF OneLive
<1>2. OneUser(s)'
  BY DEF OneUser
<1>3. UserHolds(s)'
  BY DEF UserHolds
<1> QED
  BY <1>1, <1>2, <1>3

LEMMA HolderKept ==
  ASSUME TypeInv, TypeInv', HolderInv, shared' = shared,
         \A t \in Tokens : row'[t] = "live" => row[t] = "live",
         \A c \in Calls : pc'[c] \in Under =>
           /\ pc[c] \in Under /\ loc'[c] = loc[c]
           /\ pc'[c] = "mint" => pc[c] = "mint"
  PROVE  HolderInv'
<1> SUFFICES ASSUME NEW s \in Sids \ shared
             PROVE  OneLive(s)' /\ OneUser(s)' /\ UserHolds(s)'
  BY DEF HolderInv
<1>1. OneLive(s) /\ OneUser(s) /\ UserHolds(s)
  BY DEF HolderInv
<1>2. \A c \in Calls : Uses(c, s)' =>
        Uses(c, s) /\ loc'[c] = loc[c] /\ (pc'[c] = "mint" => pc[c] = "mint")
  BY DEF Uses
<1> QED
  BY <1>1, <1>2, SessionKept

LEMMA HolderInvStep ==
  ASSUME SessionsAssumption, TypeInv, TypeInv', HolderInv, [Next]_vars
  PROVE  HolderInv'
<1> USE DEF Under
<1>0. CASE UNCHANGED vars
  BY <1>0, HolderKept DEF vars
<1>1. CASE \E c \in Calls : CallNext(c)
  <2> PICK c \in Calls : CallNext(c)
    BY <1>1
  <2>1. CASE \/ Login(c) \/ \E s \in Sids : Switch(c, s)
             \/ Resolve(c) \/ Refuse(c) \/ BurnFails(c) \/ Dies(c) \/ Rehash(c)
    BY <2>1, HolderKept
    DEF Login, Switch, Resolve, Refuse, BurnFails, Dies, Rehash, At, Go, End, history, TypeInv, TypeOK
  <2>2. CASE \E s \in Sids, tick \in Ticks : Open(c, s, tick)
    <3> PICK s \in Sids, tick \in Ticks : Open(c, s, tick)
      BY <2>2
    <3> DEFINE n == [sid |-> s, ver |-> 1, tick |-> tick]
    <3>1. /\ row' = [row EXCEPT ![n] = "live"] /\ Fresh(s) /\ shared' = shared
          /\ pc' = [pc EXCEPT ![c] = "idle"] /\ loc' = [loc EXCEPT ![c] = NoLocal]
      BY DEF Open, End, Go
    <3>2. \A t \in Tokens : row'[t] = "live" => row[t] = "live" \/ t = n
      BY <3>1 DEF TypeInv, TypeOK
    <3>3. \A t \in Tokens : t.sid = s => row[t] # "live"
      BY <3>1 DEF Fresh
    <3>4. \A d \in Calls : pc[d] \in {"resolve", "consume", "mint"} => loc[d].token.sid # s
      BY <3>1 DEF Fresh, TypeInv, Named, Past
    <3>5. \A d \in Calls : pc'[d] \in {"resolve", "consume", "mint"} =>
            pc[d] = pc'[d] /\ loc'[d] = loc[d]
      BY <3>1 DEF TypeInv, TypeOK
    <3>6. n.sid = s
      OBVIOUS
    <3> HIDE DEF n
    <3> SUFFICES ASSUME NEW z \in Sids \ shared
                 PROVE  OneLive(z)' /\ OneUser(z)' /\ UserHolds(z)'
      BY <3>1 DEF HolderInv
    <3>7. OneLive(z) /\ OneUser(z) /\ UserHolds(z)
      BY DEF HolderInv
    <3>8. \A d \in Calls : Uses(d, z)' => Uses(d, z) /\ pc'[d] = pc[d] /\ loc'[d] = loc[d]
      BY <3>5 DEF Uses
    <3>9. CASE z = s
      <4>1. \A d \in Calls : ~Uses(d, z)
        BY <3>4, <3>9 DEF Uses
      <4>2. OneLive(z)'
        BY <3>2, <3>3, <3>9 DEF OneLive
      <4> QED
        BY <3>8, <4>1, <4>2 DEF OneUser, UserHolds
    <3>10. CASE z # s
      <4>1. \A t \in Tokens : t.sid = z /\ row'[t] = "live" => row[t] = "live"
        BY <3>2, <3>6, <3>10
      <4> QED
        BY <3>7, <3>8, <4>1, SessionKept
    <3> QED
      BY <3>9, <3>10
  <2>3. CASE \E t \in Tokens : Find(c, t)
    <3> PICK t \in Tokens : Find(c, t)
      BY <2>3
    <3>1. CASE row[t] = "live"
      <4>1. /\ row' = row /\ pc[c] = "idle" /\ pc' = [pc EXCEPT ![c] = "resolve"]
            /\ loc' = [loc EXCEPT ![c].token = t]
            /\ shared' = IF Refreshing(t.sid) # {} THEN shared \cup {t.sid} ELSE shared
        BY <3>1 DEF Find, Go, Usable, At
      <4>2. \A d \in Calls \ {c} : pc'[d] = pc[d] /\ loc'[d] = loc[d]
        BY <4>1 DEF TypeInv, TypeOK
      <4>3. pc'[c] = "resolve" /\ loc'[c].token = t
        BY <4>1 DEF TypeInv, TypeOK, Local
      <4>4. t.sid \notin shared' =>
              \A d \in Calls : ~(pc[d] \in {"resolve", "consume", "mint"} /\ loc[d].token.sid = t.sid)
        BY <4>1 DEF Refreshing
      <4>5. shared \subseteq shared'
        BY <4>1
      <4> SUFFICES ASSUME NEW z \in Sids \ shared'
                   PROVE  OneLive(z)' /\ OneUser(z)' /\ UserHolds(z)'
        BY DEF HolderInv
      <4>6. OneLive(z) /\ OneUser(z) /\ UserHolds(z)
        BY <4>5 DEF HolderInv
      <4>7. OneLive(z)'
        BY <4>1, <4>6 DEF OneLive
      <4>8. \A d \in Calls : Uses(d, z)' => d = c \/ Uses(d, z)
        BY <4>2 DEF Uses
      <4>9. CASE z = t.sid
        <5>1. \A d \in Calls : Uses(d, z)' => d = c
          BY <4>4, <4>8, <4>9 DEF Uses
        <5>2. \A u \in Tokens : u.sid = z /\ row'[u] = "live" => u = t
          BY <3>1, <4>1, <4>6, <4>9 DEF OneLive
        <5> QED
          BY <4>3, <4>7, <5>1, <5>2 DEF OneUser, UserHolds
      <4>10. CASE z # t.sid
        <5>1. ~Uses(c, z)'
          BY <4>3, <4>10 DEF Uses
        <5>2. \A d \in Calls : Uses(d, z)' => Uses(d, z) /\ pc'[d] = pc[d] /\ loc'[d] = loc[d]
          BY <4>2, <4>8, <5>1
        <5> QED
          BY <4>1, <4>6, <5>2, SessionKept
      <4> QED
        BY <4>9, <4>10
    <3>2. CASE row[t] # "live"
      <4>1. /\ row' = row /\ shared' = shared /\ pc' = [pc EXCEPT ![c] = "burn"]
            /\ loc' = [loc EXCEPT ![c].token = t]
        BY <3>2 DEF Find, Go, Usable
      <4> QED
        BY <4>1, HolderKept DEF TypeInv, TypeOK
    <3> QED
      BY <3>1, <3>2
  <2>4. CASE Burn(c)
    <3>1. row' = Revoked({loc[c].token.sid}) /\ shared' = shared
      BY <2>4 DEF Burn, BurntBy
    <3>2. \A t \in Tokens : row'[t] = "live" => row[t] = "live"
      BY <3>1, RevokedTyped DEF TypeInv
    <3>3. pc' = [pc EXCEPT ![c] = "idle"] /\ loc' = [loc EXCEPT ![c] = NoLocal]
      BY <2>4 DEF Burn, End, Go
    <3> QED
      BY <3>1, <3>2, <3>3, HolderKept DEF TypeInv, TypeOK
  <2>5. CASE Consume(c)
    <3>1. /\ row' = [row EXCEPT ![loc[c].token] = "gone"] /\ loc' = loc /\ shared' = shared
          /\ pc[c] = "consume" /\ pc' = [pc EXCEPT ![c] = "mint"]
      BY <2>5 DEF Consume, Consumed, Go, At, history
    <3>2. \A t \in Tokens : row'[t] = "live" => row[t] = "live" /\ t # loc[c].token
      BY <3>1 DEF TypeInv, TypeOK
    <3>3. \A d \in Calls : pc'[d] \in {"resolve", "consume", "mint"} =>
            pc[d] \in {"resolve", "consume", "mint"} /\ (d # c => pc'[d] = pc[d])
      BY <3>1 DEF TypeInv, TypeOK
    <3> SUFFICES ASSUME NEW z \in Sids \ shared
                 PROVE  OneLive(z)' /\ OneUser(z)' /\ UserHolds(z)'
      BY <3>1 DEF HolderInv
    <3>4. OneLive(z) /\ OneUser(z) /\ UserHolds(z)
      BY DEF HolderInv
    <3>5. \A d \in Calls : Uses(d, z)' => Uses(d, z) /\ loc'[d] = loc[d]
      BY <3>1, <3>3 DEF Uses
    <3>6. CASE loc[c].token.sid = z
      <4>1. Uses(c, z)
        BY <3>1, <3>6 DEF Uses
      <4>2. \A t \in Tokens : t.sid = z => row'[t] # "live"
        BY <3>2, <3>4, <4>1 DEF UserHolds
      <4> QED
        BY <3>4, <3>5, <4>2 DEF OneLive, OneUser, UserHolds
    <3>7. CASE loc[c].token.sid # z
      <4>1. \A d \in Calls : Uses(d, z)' => Uses(d, z) /\ loc'[d] = loc[d] /\ pc'[d] = pc[d]
        BY <3>1, <3>3, <3>5, <3>7 DEF Uses
      <4> QED
        BY <3>2, <3>4, <4>1, SessionKept
    <3> QED
      BY <3>6, <3>7
  <2>6. CASE \E tick \in Ticks : Mint(c, tick)
    <3> PICK tick \in Ticks : Mint(c, tick)
      BY <2>6
    <3> DEFINE n == NextToken(loc[c].token, tick)
               s == loc[c].token.sid
    <3>1. /\ row' = [row EXCEPT ![n] = "live"] /\ shared' = shared /\ pc[c] = "mint"
          /\ pc' = [pc EXCEPT ![c] = "idle"] /\ loc' = [loc EXCEPT ![c] = NoLocal]
      BY DEF Mint, End, Go, At, history
    <3>2. \A t \in Tokens : row'[t] = "live" => row[t] = "live" \/ t = n
      BY <3>1 DEF TypeInv, TypeOK
    <3>3. n.sid = s
      BY DEF NextToken
    <3>4. \A d \in Calls : pc'[d] \in {"resolve", "consume", "mint"} =>
            d # c /\ pc[d] = pc'[d] /\ loc'[d] = loc[d]
      BY <3>1 DEF TypeInv, TypeOK
    <3> HIDE DEF n
    <3> SUFFICES ASSUME NEW z \in Sids \ shared
                 PROVE  OneLive(z)' /\ OneUser(z)' /\ UserHolds(z)'
      BY <3>1 DEF HolderInv
    <3>5. OneLive(z) /\ OneUser(z) /\ UserHolds(z)
      BY DEF HolderInv
    <3>6. \A d \in Calls : Uses(d, z)' => d # c /\ Uses(d, z) /\ pc'[d] = pc[d] /\ loc'[d] = loc[d]
      BY <3>4 DEF Uses
    <3>7. CASE s = z
      <4>1. Uses(c, z)
        BY <3>1, <3>7 DEF Uses
      <4>2. \A t \in Tokens : t.sid = z => row[t] # "live"
        BY <3>1, <3>5, <4>1 DEF UserHolds
      <4>3. \A d \in Calls : ~Uses(d, z)'
        BY <3>5, <3>6, <4>1 DEF OneUser
      <4> QED
        BY <3>2, <4>2, <4>3 DEF OneLive, OneUser, UserHolds
    <3>8. CASE s # z
      <4>1. \A t \in Tokens : t.sid = z /\ row'[t] = "live" => row[t] = "live"
        BY <3>2, <3>3, <3>8
      <4> QED
        BY <3>5, <3>6, <4>1, SessionKept
    <3> QED
      BY <3>7, <3>8
  <2>7. CASE \E tick \in Ticks : MintRefused(c, tick)
    BY <2>7, HolderKept DEF MintRefused, End, Go, history, TypeInv, TypeOK
  <2>8. CASE \E s \in Sids : Logout(c, s)
    <3> PICK s \in Sids : Logout(c, s)
      BY <2>8
    <3>1. row' = Revoked({s}) /\ pc' = pc /\ loc' = loc /\ shared' = shared
      BY DEF Logout, Revoking
    <3>2. \A t \in Tokens : row'[t] = "live" => row[t] = "live"
      BY <3>1, RevokedTyped DEF TypeInv
    <3> QED
      BY <3>1, <3>2, HolderKept
  <2>9. CASE RevokeAll(c)
    <3>1. row' = Revoked(Sids) /\ shared' = shared
      BY <2>9 DEF RevokeAll, Revoking, Everywhere
    <3>2. \A t \in Tokens : row'[t] = "live" => row[t] = "live"
      BY <3>1, RevokedTyped DEF TypeInv
    <3>3. pc' = [pc EXCEPT ![c] = "idle"] /\ loc' = [loc EXCEPT ![c] = NoLocal]
      BY <2>9 DEF RevokeAll, End, Go
    <3> QED
      BY <3>1, <3>2, <3>3, HolderKept DEF TypeInv, TypeOK
  <2> QED
    BY <2>1, <2>2, <2>3, <2>4, <2>5, <2>6, <2>7, <2>8, <2>9 DEF CallNext
<1>2. CASE SetEnabled \/ \E s \in Sids : AccessExpires(s)
  BY <1>2, HolderKept DEF SetEnabled, AccessExpires, history
<1>3. CASE \E t \in Tokens : Prune(t)
  BY <1>3, HolderKept DEF Prune, history, TypeInv, TypeOK
<1> QED
  BY <1>0, <1>1, <1>2, <1>3 DEF Next

\* rotate gives a token one successor: as long as no two refreshes of a session
\* overlapped, it has at most one live token, counting one about to be minted.
THEOREM OneSuccessor == ASSUME SessionsAssumption PROVE Spec => []OneHolder
<1>1. Init => HolderInv
  BY DEF Init, HolderInv, OneLive, OneUser, UserHolds, Uses, Under
<1>2. TypeInv /\ TypeInv' /\ HolderInv /\ [Next]_vars => HolderInv'
  BY SessionsAssumption, HolderInvStep
<1>3. HolderInv => OneHolder
  <2> SUFFICES ASSUME HolderInv, NEW s \in Sids \ shared
               PROVE  /\ \A t, u \in LiveOf(s) : t = u
                      /\ \A c, d \in Minting(s) : c = d
                      /\ LiveOf(s) = {} \/ Minting(s) = {}
    BY DEF OneHolder
  <2>1. \A t \in LiveOf(s) : t \in Tokens /\ t.sid = s /\ row[t] = "live"
    BY DEF LiveOf, Live
  <2>2. \A c \in Minting(s) : c \in Calls /\ pc[c] = "mint" /\ loc[c].token.sid = s
    BY DEF Minting, At
  <2> QED
    BY <2>1, <2>2 DEF HolderInv, OneLive, OneUser, UserHolds, Uses, Under
<1> QED
  BY <1>1, <1>2, <1>3, SessionsAssumption, TypeCorrect, PTL DEF Spec

-------------------------------------------------------------------------------
\* The old password.

\* Whatever is live, or can still become live, was opened with a password at
\* least as new as the last change that met no older call, or by switchTenant
\* after it.
Known(s) == settled <= opened[s] \/ s \in escaped

PasswordInv ==
  /\ settled <= password
  /\ \A t \in Tokens : row[t] = "live" => Known(t.sid)
  /\ \A c \in Calls : pc[c] \in Under => Known(loc[c].token.sid)
  /\ \A c \in Calls : pc[c] = "open" => settled <= loc[c].password

\* A step that makes nothing live, and takes no call to where it was not, keeps it.
LEMMA PasswordKept ==
  ASSUME PasswordInv, UNCHANGED <<settled, opened, escaped>>, settled <= password',
         \A t \in Tokens : row'[t] = "live" => row[t] = "live",
         \A c \in Calls : pc'[c] \in Under => pc[c] \in Under /\ loc'[c] = loc[c],
         \A c \in Calls : pc'[c] = "open" => pc[c] = "open" /\ loc'[c] = loc[c]
  PROVE  PasswordInv'
BY DEF PasswordInv, Known

LEMMA PasswordInvStep ==
  ASSUME SessionsAssumption, TypeInv, TypeInv', PasswordInv, [Next]_vars
  PROVE  PasswordInv'
<1> USE DEF Under
<1>n. settled \in Nat /\ password \in Nat /\ settled <= password
  BY SessionsAssumption DEF TypeInv, TypeOK, Passwords, PasswordInv
<1>0. CASE UNCHANGED vars
  BY <1>0, <1>n, PasswordKept DEF vars
<1>1. CASE \E c \in Calls : CallNext(c)
  <2> PICK c \in Calls : CallNext(c)
    BY <1>1
  <2>1. CASE Login(c)
    <3>1. /\ pc' = [pc EXCEPT ![c] = "open"] /\ loc' = [loc EXCEPT ![c].password = password]
          /\ UNCHANGED <<row, settled, opened, escaped, password>>
      BY <2>1 DEF Login, Go, history
    <3>2. \A d \in Calls \ {c} : pc'[d] = pc[d] /\ loc'[d] = loc[d]
      BY <3>1 DEF TypeInv, TypeOK
    <3>3. pc'[c] = "open" /\ loc'[c].password = password
      BY <3>1 DEF TypeInv, TypeOK, Local
    <3> QED
      BY <3>1, <3>2, <3>3, <1>n DEF PasswordInv, Known
  <2>11. CASE \E s \in Sids : Switch(c, s)
    <3> PICK s \in Sids : Switch(c, s)
      BY <2>11
    <3>1. /\ pc' = [pc EXCEPT ![c] = "switch"] /\ loc' = [loc EXCEPT ![c].password = opened[s]]
          /\ UNCHANGED <<row, settled, opened, escaped, password>>
      BY DEF Switch, Go, history
    <3>2. \A d \in Calls : /\ pc'[d] \in Under => pc[d] \in Under /\ loc'[d] = loc[d]
                           /\ pc'[d] = "open" => pc[d] = "open" /\ loc'[d] = loc[d]
      BY <3>1 DEF TypeInv, TypeOK
    <3> QED
      BY <3>1, <3>2, <1>n, PasswordKept
  <2>2. CASE \E s \in Sids, tick \in Ticks : Open(c, s, tick)
    <3> PICK s \in Sids, tick \in Ticks : Open(c, s, tick)
      BY <2>2
    <3> DEFINE n == [sid |-> s, ver |-> 1, tick |-> tick]
    <3>1. /\ row' = [row EXCEPT ![n] = "live"] /\ Fresh(s) /\ pc[c] \in {"open", "switch"}
          /\ opened' = [opened EXCEPT ![s] = loc[c].password]
          /\ escaped \subseteq escaped'
          /\ pc[c] = "switch" /\ loc[c].password < settled => s \in escaped'
          /\ pc' = [pc EXCEPT ![c] = "idle"] /\ loc' = [loc EXCEPT ![c] = NoLocal]
          /\ settled' = settled /\ password' = password
      BY DEF Open, End, Go, At
    <3>2. \A t \in Tokens : row'[t] = "live" => row[t] = "live" \/ t = n
      BY <3>1 DEF TypeInv, TypeOK
    <3>3. n.sid = s
      OBVIOUS
    <3> HIDE DEF n
    <3>4. settled <= loc[c].password \/ s \in escaped'
      <4>1. loc[c].password \in Nat
        BY SessionsAssumption DEF TypeInv, TypeOK, Local, Passwords
      <4> QED
        BY <3>1, <4>1, <1>n DEF PasswordInv
    <3>5. \A z \in Sids : opened'[z] = IF z = s THEN loc[c].password ELSE opened[z]
      BY <3>1 DEF TypeInv, TypeOK
    <3>6. \A z \in Sids : Known(z) \/ z = s => Known(z)'
      BY <3>1, <3>4, <3>5 DEF Known
    <3>7. \A t \in Tokens : row'[t] = "live" => Known(t.sid)'
      BY <3>2, <3>3, <3>6, TokenFields DEF PasswordInv
    <3>8. \A d \in Calls : pc'[d] \in Under => pc[d] \in Under /\ loc'[d] = loc[d]
      BY <3>1 DEF TypeInv, TypeOK
    <3>9. \A d \in Calls : pc'[d] \in Under => Known(loc[d].token.sid)'
      <4> SUFFICES ASSUME NEW d \in Calls, pc'[d] \in Under
                   PROVE  Known(loc[d].token.sid)'
        OBVIOUS
      <4>1. loc[d].token.sid \in Sids /\ Known(loc[d].token.sid)
        BY <3>8, TokenFields DEF PasswordInv, TypeInv, Named, Past
      <4>2. loc'[d] = loc[d]
        BY <3>8
      <4> QED
        BY <3>6, <4>1, <4>2 DEF Known
    <3>10. \A d \in Calls : pc'[d] = "open" => pc[d] = "open" /\ loc'[d] = loc[d]
      BY <3>1 DEF TypeInv, TypeOK
    <3> QED
      BY <3>1, <3>7, <3>9, <3>10 DEF PasswordInv
  <2>3. CASE \E t \in Tokens : Find(c, t)
    <3> PICK t \in Tokens : Find(c, t)
      BY <2>3
    <3>1. /\ UNCHANGED <<row, settled, opened, escaped, password>>
          /\ loc' = [loc EXCEPT ![c].token = t]
          /\ pc' = [pc EXCEPT ![c] = IF row[t] = "live" THEN "resolve" ELSE "burn"]
      BY DEF Find, Go, Usable
    <3>2. \A d \in Calls \ {c} : pc'[d] = pc[d] /\ loc'[d] = loc[d]
      BY <3>1 DEF TypeInv, TypeOK
    <3>3. loc'[c].token = t /\ pc'[c] # "open" /\ (pc'[c] \in Under => row[t] = "live")
      BY <3>1 DEF TypeInv, TypeOK, Local
    <3> QED
      BY <3>1, <3>2, <3>3 DEF PasswordInv, Known
  <2>4. CASE Burn(c)
    <3>1. row' = Revoked({loc[c].token.sid})
      BY <2>4 DEF Burn, BurntBy
    <3>2. \A t \in Tokens : row'[t] = "live" => row[t] = "live"
      BY <3>1, RevokedTyped DEF TypeInv
    <3> QED
      BY <2>4, <3>2, <1>n, PasswordKept DEF Burn, End, Go, TypeInv, TypeOK
  <2>5. CASE Resolve(c) \/ Refuse(c) \/ BurnFails(c) \/ Dies(c) \/ Consume(c)
    BY <2>5, <1>n, PasswordKept
    DEF Resolve, Refuse, BurnFails, Dies, Consume, Consumed, At, Go, End, history, TypeInv, TypeOK
  <2>6. CASE \E tick \in Ticks : Mint(c, tick)
    <3> PICK tick \in Ticks : Mint(c, tick)
      BY <2>6
    <3> DEFINE n == NextToken(loc[c].token, tick)
    <3>1. /\ row' = [row EXCEPT ![n] = "live"] /\ pc[c] = "mint"
          /\ pc' = [pc EXCEPT ![c] = "idle"] /\ loc' = [loc EXCEPT ![c] = NoLocal]
          /\ UNCHANGED <<settled, opened, escaped, password>>
      BY DEF Mint, End, Go, At, history
    <3>2. \A t \in Tokens : row'[t] = "live" => row[t] = "live" \/ t = n
      BY <3>1 DEF TypeInv, TypeOK
    <3>3. n.sid = loc[c].token.sid
      BY DEF NextToken
    <3> HIDE DEF n
    <3>4. \A t \in Tokens : row'[t] = "live" => Known(t.sid)
      BY <3>1, <3>2, <3>3 DEF PasswordInv
    <3>5. \A d \in Calls : /\ pc'[d] \in Under => pc[d] \in Under /\ loc'[d] = loc[d]
                           /\ pc'[d] = "open" => pc[d] = "open" /\ loc'[d] = loc[d]
      BY <3>1 DEF TypeInv, TypeOK
    <3> QED
      BY <3>1, <3>4, <3>5 DEF PasswordInv, Known
  <2>7. CASE \E tick \in Ticks : MintRefused(c, tick)
    BY <2>7, <1>n, PasswordKept DEF MintRefused, End, Go, history, TypeInv, TypeOK
  <2>8. CASE \E s \in Sids : Logout(c, s)
    <3> PICK s \in Sids : Logout(c, s)
      BY <2>8
    <3>1. /\ row' = Revoked({s}) /\ UNCHANGED <<pc, loc, settled, opened, escaped, password>>
      BY DEF Logout, Revoking
    <3>2. \A t \in Tokens : row'[t] = "live" => row[t] = "live"
      BY <3>1, RevokedTyped DEF TypeInv
    <3> QED
      BY <3>1, <3>2, <1>n, PasswordKept
  <2>9. CASE Rehash(c)
    <3>1. /\ password' = password + 1 /\ pc' = [pc EXCEPT ![c] = "revoke"]
          /\ UNCHANGED <<row, loc, settled, opened, escaped>>
      BY <2>9 DEF Rehash, Go, history
    <3>2. settled <= password'
      BY <3>1, <1>n
    <3> QED
      BY <3>1, <3>2, PasswordKept DEF TypeInv, TypeOK
  <2>10. CASE RevokeAll(c)
    <3>1. /\ row' = Revoked(Sids) /\ UNCHANGED <<password, opened>>
          /\ Outdated = {} => settled' = password
          /\ Outdated # {} => UNCHANGED <<settled, escaped>>
          /\ pc' = [pc EXCEPT ![c] = "idle"] /\ loc' = [loc EXCEPT ![c] = NoLocal]
      BY <2>10 DEF RevokeAll, Revoking, Everywhere, End, Go
    <3>2. \A t \in Tokens : row'[t] # "live"
      BY <3>1, RevokedTyped, TokenFields DEF TypeInv
    <3>3. \A d \in Calls : /\ pc'[d] \in Under => pc[d] \in Under /\ loc'[d] = loc[d]
                           /\ pc'[d] = "open" => pc[d] = "open" /\ loc'[d] = loc[d]
      BY <3>1 DEF TypeInv, TypeOK
    <3>4. CASE Outdated = {}
      <4>1. \A d \in Calls : pc[d] \notin Under /\ ~(pc[d] = "open" /\ loc[d].password < password)
        BY <3>4 DEF Outdated, At
      <4>2. \A d \in Calls : loc[d].password \in Nat
        BY SessionsAssumption DEF TypeInv, TypeOK, Local, Passwords
      <4> QED
        BY <3>1, <3>2, <3>3, <3>4, <4>1, <4>2, <1>n DEF PasswordInv, Known
    <3>5. CASE Outdated # {}
      BY <3>1, <3>2, <3>3, <3>5 DEF PasswordInv, Known
    <3> QED
      BY <3>4, <3>5
  <2> QED
    BY <2>1, <2>2, <2>3, <2>4, <2>5, <2>6, <2>7, <2>8, <2>9, <2>10, <2>11 DEF CallNext
<1>2. CASE SetEnabled \/ \E s \in Sids : AccessExpires(s)
  BY <1>2, <1>n, PasswordKept DEF SetEnabled, AccessExpires, history
<1>3. CASE \E t \in Tokens : Prune(t)
  BY <1>3, <1>n, PasswordKept DEF Prune, history, TypeInv, TypeOK
<1> QED
  BY <1>0, <1>1, <1>2, <1>3 DEF Next

\* No session opened with an old password outlives changePassword, unless a
\* login or refresh from before the change was still under way, or switchTenant
\* opened it after the change for an access token from before.
THEOREM OldPasswordIsOut == ASSUME SessionsAssumption PROVE Spec => []OldPasswordOut
<1>1. Init => PasswordInv
  BY SessionsAssumption DEF Init, PasswordInv, Under, Tokens
<1>2. TypeInv /\ TypeInv' /\ PasswordInv /\ [Next]_vars => PasswordInv'
  BY SessionsAssumption, PasswordInvStep
<1>3. TypeInv /\ PasswordInv => OldPasswordOut
  BY TokenFields, SessionsAssumption
  DEF PasswordInv, Known, OldPasswordOut, Live, TypeInv, TypeOK, Passwords
<1> QED
  BY <1>1, <1>2, <1>3, SessionsAssumption, TypeCorrect, PTL DEF Spec
===============================================================================
