------------------------------- MODULE Sessions -------------------------------
(***************************************************************************)
(* The refresh sessions of one account: TokenService's mint, rotate and    *)
(* revocations, and AuthService's login, switchTenant, refresh, logout and *)
(* changePassword around them.                                             *)
(*                                                                         *)
(* A call is a request in flight; every statement it awaits is a step.  A  *)
(* refresh token is its claims: the device, the version, and the second it *)
(* was signed in; two tokens signed in one second are the same token.      *)
(* Of time only the short life of access tokens is modelled: no refresh    *)
(* token and no row expires.                                               *)
(***************************************************************************)
EXTENDS Naturals, FiniteSets

CONSTANTS
  Calls,       \* requests in flight
  Sids,        \* session ids: one per login or switch
  MaxVersion,  \* bound on rotations of one session
  Ticks,       \* seconds a token may be signed in
  MaxChanges,  \* bound on password changes
  None

Versions == 1..MaxVersion
Passwords == 0..MaxChanges
Tokens == [sid: Sids, ver: Versions, tick: Ticks]

ASSUME SessionsAssumption ==
  /\ IsFiniteSet(Calls) /\ IsFiniteSet(Sids) /\ IsFiniteSet(Ticks)
  /\ MaxVersion \in Nat \ {0} /\ MaxChanges \in Nat
  /\ None \notin Tokens

VARIABLES
  row,       \* the sessions table, by the token a row holds the hash of
  password,  \* the account's password: how often it was changed
  enabled,   \* the account is active, and a member of the store
  access,    \* sessions with an access token that has not expired
  pc, loc,   \* where each call is, and what it remembers
  \* History, for the properties:
  opened,    \* the password each session was opened with
  shared,    \* sessions two calls have refreshed at the same time
  dead,      \* sessions revoked while no refresh of them was under way
  settled,   \* passwords below were changed with no older call under way
  escaped    \* sessions switchTenant opened since, for an older session

history == <<opened, shared, dead, settled, escaped>>
vars == <<row, password, enabled, access, pc, loc, opened, shared, dead, settled, escaped>>

RowState == {"none", "live", "revoked", "gone"}
Steps == {"idle", "resolve", "consume", "mint", "burn", "open", "switch", "revoke"}
Local == [token: Tokens \cup {None}, password: Passwords]
NoLocal == [token |-> None, password |-> 0]

TypeOK ==
  /\ row \in [Tokens -> RowState]
  /\ password \in Passwords
  /\ enabled \in BOOLEAN
  /\ access \subseteq Sids
  /\ pc \in [Calls -> Steps]
  /\ loc \in [Calls -> Local]
  /\ opened \in [Sids -> Passwords]
  /\ shared \subseteq Sids
  /\ dead \subseteq Sids
  /\ settled \in Passwords
  /\ escaped \subseteq Sids

Init ==
  /\ row = [t \in Tokens |-> "none"]
  /\ password = 0
  /\ enabled = TRUE
  /\ access = {}
  /\ pc = [c \in Calls |-> "idle"]
  /\ loc = [c \in Calls |-> NoLocal]
  /\ opened = [s \in Sids |-> 0]
  /\ shared = {} /\ dead = {} /\ escaped = {}
  /\ settled = 0

-------------------------------------------------------------------------------
\* Helpers

At(c, step) == pc[c] = step
Go(c, step) == pc' = [pc EXCEPT ![c] = step]
End(c) == Go(c, "idle") /\ loc' = [loc EXCEPT ![c] = NoLocal]

Live == {t \in Tokens : row[t] = "live"}
Fresh(s) == \A t \in Tokens : t.sid = s => row[t] = "none"

\* Calls that found the session live and have not minted its next token.
Refreshing(s) == {c \in Calls : pc[c] \in {"resolve", "consume", "mint"} /\ loc[c].token.sid = s}

\* UPDATE ... SET revoked_at WHERE session_id IN sids AND revoked_at IS NULL
Revoked(sids) ==
  [t \in Tokens |-> IF t.sid \in sids /\ row[t] = "live" THEN "revoked" ELSE row[t]]

Revoking(sids) ==
  /\ row' = Revoked(sids)
  /\ dead' = dead \cup {s \in sids : ~Fresh(s) /\ Refreshing(s) = {}}

-------------------------------------------------------------------------------
\* AuthService.login and switchTenant

\* Verifies the password against the row it read.
Login(c) ==
  /\ At(c, "idle") /\ enabled
  /\ loc' = [loc EXCEPT ![c].password = password]
  /\ Go(c, "open")
  /\ UNCHANGED <<row, password, enabled, access, history>>

\* Asks for no password and looks at no session: an access token will do, and
\* what stands behind it is the password its session was opened with.
Switch(c, s) ==
  /\ At(c, "idle") /\ s \in access /\ enabled
  /\ loc' = [loc EXCEPT ![c].password = opened[s]]
  /\ Go(c, "switch")
  /\ UNCHANGED <<row, password, enabled, access, history>>

\* TokenService.mint of a new session.
Open(c, s, tick) ==
  /\ pc[c] \in {"open", "switch"} /\ Fresh(s)
  /\ row' = [row EXCEPT ![[sid |-> s, ver |-> 1, tick |-> tick]] = "live"]
  /\ access' = access \cup {s}
  /\ opened' = [opened EXCEPT ![s] = loc[c].password]
  /\ escaped' = IF At(c, "switch") /\ loc[c].password < settled THEN escaped \cup {s} ELSE escaped
  /\ End(c)
  /\ UNCHANGED <<password, enabled, shared, dead, settled>>

\* The guard verifies the signature and the expiry of an access token: nothing
\* that revokes a session ends it.
AccessExpires(s) ==
  /\ s \in access
  /\ access' = access \ {s}
  /\ UNCHANGED <<row, password, enabled, pc, loc, history>>

-------------------------------------------------------------------------------
\* TokenService.rotate

Usable(t) == row[t] = "live"

\* A client presents a token it was once given.
Find(c, t) ==
  /\ At(c, "idle") /\ row[t] # "none"
  /\ loc' = [loc EXCEPT ![c].token = t]
  /\ Go(c, IF Usable(t) THEN "resolve" ELSE "burn")
  /\ shared' = IF Usable(t) /\ Refreshing(t.sid) # {} THEN shared \cup {t.sid} ELSE shared
  /\ UNCHANGED <<row, password, enabled, access, opened, dead, settled, escaped>>

\* Mutant of BurntBy: only the replayed token is revoked.
BurntByToken(t) ==
  [row EXCEPT ![t] = IF @ = "live" THEN "revoked" ELSE @]

BurntBy(t) == Revoked({t.sid})

\* Reuse detected: the session is revoked as a whole.
Burn(c) ==
  LET s == loc[c].token.sid
  IN  /\ At(c, "burn")
      /\ row' = BurntBy(loc[c].token)
      /\ dead' = IF Refreshing(s) = {} THEN dead \cup {s} ELSE dead
      /\ End(c)
      /\ UNCHANGED <<password, enabled, access, opened, shared, settled, escaped>>

\* The revocation fails; the exception is logged and swallowed.
BurnFails(c) ==
  /\ At(c, "burn")
  /\ End(c)
  /\ UNCHANGED <<row, password, enabled, access, history>>

\* AuthService.refresh: the account and the membership are read again.
Resolve(c) ==
  /\ At(c, "resolve") /\ enabled
  /\ Go(c, "consume")
  /\ UNCHANGED <<row, password, enabled, access, loc, history>>

Refuse(c) ==
  /\ At(c, "resolve") /\ ~enabled
  /\ End(c)
  /\ UNCHANGED <<row, password, enabled, access, history>>

\* Mutant of Consumed: the row stays.
ConsumedNot(t) == row

Consumed(t) == [row EXCEPT ![t] = "gone"]

\* deleteMany: nothing is said of a row that was gone already.
Consume(c) ==
  /\ At(c, "consume")
  /\ row' = Consumed(loc[c].token)
  /\ Go(c, "mint")
  /\ UNCHANGED <<password, enabled, access, loc, history>>

NextToken(t, tick) == [sid |-> t.sid, ver |-> t.ver + 1, tick |-> tick]

Mint(c, tick) ==
  LET t == NextToken(loc[c].token, tick)
  IN  /\ At(c, "mint") /\ t.ver \in Versions
      /\ row[t] \in {"none", "gone"}
      /\ row' = [row EXCEPT ![t] = "live"]
      /\ access' = access \cup {t.sid}
      /\ End(c)
      /\ UNCHANGED <<password, enabled, history>>

\* The unique index on token_hash refuses a second row for one token.
MintRefused(c, tick) ==
  LET t == NextToken(loc[c].token, tick)
  IN  /\ At(c, "mint") /\ t.ver \in Versions
      /\ row[t] \in {"live", "revoked"}
      /\ End(c)
      /\ UNCHANGED <<row, password, enabled, access, history>>

\* An exception, a lost connection, a killed process.
Dies(c) ==
  /\ pc[c] # "idle"
  /\ End(c)
  /\ UNCHANGED <<row, password, enabled, access, history>>

-------------------------------------------------------------------------------
\* Revocations and the account

Logout(c, s) ==
  /\ At(c, "idle") /\ s \in access
  /\ Revoking({s})
  /\ UNCHANGED <<password, enabled, access, pc, loc, opened, shared, settled, escaped>>

\* changePassword: the hash first, then every session of the account.
Rehash(c) ==
  /\ At(c, "idle") /\ access # {} /\ password < MaxChanges
  /\ password' = password + 1
  /\ Go(c, "revoke")
  /\ UNCHANGED <<row, enabled, access, loc, history>>

\* Mutant of Everywhere: the call is missing.
Nowhere == {}

Everywhere == Sids

\* Calls that still rely on a password or on a session from before.
Outdated == {c \in Calls : \/ At(c, "open") /\ loc[c].password < password
                           \/ pc[c] \in {"resolve", "consume", "mint"}}

RevokeAll(c) ==
  /\ At(c, "revoke")
  /\ Revoking(Everywhere)
  /\ IF Outdated = {} THEN settled' = password /\ escaped' = {}
                       ELSE UNCHANGED <<settled, escaped>>
  /\ End(c)
  /\ UNCHANGED <<password, enabled, access, opened, shared>>

\* CustomersService.updateByMerchant, StaffService.update and remove.
SetEnabled ==
  /\ enabled' = ~enabled
  /\ UNCHANGED <<row, password, access, pc, loc, history>>

\* PruneExpiredSessions: revoked rows go after seven days.
Prune(t) ==
  /\ row[t] = "revoked"
  /\ row' = [row EXCEPT ![t] = "gone"]
  /\ UNCHANGED <<password, enabled, access, pc, loc, history>>

CallNext(c) ==
  \/ Login(c)
  \/ \E s \in Sids : Switch(c, s)
  \/ \E s \in Sids, tick \in Ticks : Open(c, s, tick)
  \/ \E t \in Tokens : Find(c, t)
  \/ Burn(c) \/ BurnFails(c) \/ Resolve(c) \/ Refuse(c) \/ Consume(c)
  \/ \E tick \in Ticks : Mint(c, tick) \/ MintRefused(c, tick)
  \/ \E s \in Sids : Logout(c, s)
  \/ Rehash(c) \/ RevokeAll(c) \/ Dies(c)

Next ==
  \/ \E c \in Calls : CallNext(c)
  \/ \E s \in Sids : AccessExpires(s)
  \/ SetEnabled
  \/ \E t \in Tokens : Prune(t)

Spec == Init /\ [][Next]_vars

-------------------------------------------------------------------------------
\* Properties

\* Signed out is out: a session that was revoked, by a logout, a password
\* change or a replay, while no refresh of it was under way, never has a live
\* token again.
DeadStaysDead == \A t \in Live : t.sid \notin dead

LiveOf(s) == {t \in Live : t.sid = s}
Minting(s) == {c \in Calls : At(c, "mint") /\ loc[c].token.sid = s}

\* A token has one successor: unless two refreshes of the session overlapped, it
\* has at most one live token, counting those about to be minted.
OneHolder ==
  \A s \in Sids \ shared :
    /\ \A t, u \in LiveOf(s) : t = u
    /\ \A c, d \in Minting(s) : c = d
    /\ LiveOf(s) = {} \/ Minting(s) = {}

\* No session opened with an old password outlives the change, once no login or
\* refresh from before it was under way, but one switchTenant opened after it
\* for an access token from before; and the next change ends that one too.
OldPasswordOut == \A t \in Live : opened[t.sid] < settled => t.sid \in escaped
===============================================================================
