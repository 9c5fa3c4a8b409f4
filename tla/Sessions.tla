------------------------------ MODULE Sessions ------------------------------
(***************************************************************************)
(* The sign-in sessions of one member (AuthService.issueSession, refresh,  *)
(* logout, logoutAll; UsersService.setStatus and revokeSessions;           *)
(* CredentialsService.applyNewPassword; AuthGuard).  Sessions of different *)
(* members never meet.  One action is one database statement of one call;  *)
(* calls interleave freely and take no lock, so the device cap counts rows *)
(* that others are adding, and a refresh writes over a hash it read        *)
(* earlier.  The client is the web one, which keeps one token pair per     *)
(* browser in localStorage, whatever the number of tabs that refresh it.   *)
(*                                                                         *)
(* How the member proved who they are (a code, a password, a provider) is  *)
(* left out: every way ends in issueSession.  A refresh secret is a serial *)
(* number within its session; 0 is no secret.                              *)
(***************************************************************************)
EXTENDS Naturals, FiniteSets

CONSTANTS
  SessionIds,  \* rows of `sessions` that may ever be created
  NoSession,   \* fills the session field of a call that has none
  Handlers,    \* slots for calls in flight
  MaxDevices,  \* auth policy: maxDevices
  MaxTime,     \* bound on the clock that orders last_seen_at
  MaxSecrets   \* bound on the refresh secrets one session goes through

ASSUME NoSessionIsNoId == NoSession \notin SessionIds
ASSUME SessionsAreFinite == IsFiniteSet(SessionIds)
ASSUME BoundsAreNaturals == MaxDevices \in Nat /\ MaxTime \in Nat /\ MaxSecrets \in Nat

VARIABLES
  row,      \* the sessions table
  status,   \* the member's status
  clock,    \* what `new Date()` reads
  minted,   \* secrets generated so far, per session
  handler,  \* slot -> the call it runs
  held,     \* session -> the refresh secret the client's storage holds
  revived,  \* history: sessions a refresh extended after they had expired
  raced,    \* history: two refreshes of it overlapped, or one lost its answer
  reused    \* history: sessions revoked for the reuse of a refresh token

vars == <<row, status, clock, minted, handler, held, revived, raced, reused>>

----------------------------------------------------------------------------
\* revoked_at is set in "revoked"; expires_at is past when `expired`.
SessionRow == [state : {"free", "active", "revoked"}, expired : BOOLEAN, secret : Nat, seen : Nat]
FreeRow == [state |-> "free", expired |-> FALSE, secret |-> 0, seen |-> 0]

Steps == {"idle", "login_create", "login_find", "login_revoke", "login_return",
          "refresh_read", "refresh_write", "refresh_return", "reuse_revoke",
          "logout_write", "revoke_all"}

\* secret: the one presented, then the one issued.  found, kept: the active
\* sessions enforceDeviceCap has read, and those of them it leaves alone.
Call == [pc : Steps, session : SessionIds \cup {NoSession}, secret : Nat, now : Nat,
         found : SUBSET SessionIds, kept : SUBSET SessionIds]
Idle == [pc |-> "idle", session |-> NoSession, secret |-> 0, now |-> 0, found |-> {}, kept |-> {}]

TypeOK ==
  /\ row \in [SessionIds -> SessionRow]
  /\ \A s \in SessionIds : row[s].state = "free" <=> row[s].secret = 0
  /\ status \in {"ACTIVE", "SUSPENDED"}
  /\ clock \in Nat
  /\ minted \in [SessionIds -> Nat]
  /\ handler \in [Handlers -> Call]
  /\ held \in [SessionIds -> Nat]
  /\ revived \subseteq SessionIds
  /\ raced \subseteq SessionIds
  /\ reused \subseteq SessionIds

Active(s) == row[s].state = "active" /\ ~row[s].expired

\* The sessions whose tokens have reached the client.
Delivered == {s \in SessionIds : held[s] # 0}

\* AuthGuard.authenticate: the session passes, and so does the member.
Usable(s) == s \in Delivered /\ Active(s) /\ status = "ACTIVE"

Init ==
  /\ row = [s \in SessionIds |-> FreeRow]
  /\ status = "ACTIVE"
  /\ clock = 0
  /\ minted = [s \in SessionIds |-> 0]
  /\ handler = [h \in Handlers |-> Idle]
  /\ held = [s \in SessionIds |-> 0]
  /\ revived = {}
  /\ raced = {}
  /\ reused = {}

Begin(h, call) ==
  /\ handler[h].pc = "idle"
  /\ handler' = [handler EXCEPT ![h] = call]

Goto(h, pc) == handler' = [handler EXCEPT ![h].pc = pc]
End(h) == handler' = [handler EXCEPT ![h] = Idle]

\* The rows after `revokedAt: new Date()` on the sessions of S.
Revoked(S) ==
  [s \in SessionIds |-> IF s \in S THEN [row[s] EXCEPT !.state = "revoked"] ELSE row[s]]

ActiveRows == {s \in SessionIds : row[s].state = "active"}

----------------------------------------------------------------------------
(* Time.                                                                   *)

Tick ==
  /\ clock < MaxTime
  /\ clock' = clock + 1
  /\ UNCHANGED <<row, status, minted, handler, held, revived, raced, reused>>

Expire(s) ==
  /\ Active(s)
  /\ row' = [row EXCEPT ![s].expired = TRUE]
  /\ UNCHANGED <<status, clock, minted, handler, held, revived, raced, reused>>

----------------------------------------------------------------------------
(* issueSession and enforceDeviceCap.                                      *)

\* The caller has proved who they are and was found ACTIVE.
Login(h) ==
  /\ status = "ACTIVE"
  /\ Begin(h, [Idle EXCEPT !.pc = "login_create", !.now = clock])
  /\ UNCHANGED <<row, status, clock, minted, held, revived, raced, reused>>

\* Mutant: the hash of the secret is not stored with the row.
LoginCreatesBare(h) ==
  \E s \in SessionIds, now \in handler[h].now .. clock :
    /\ handler[h].pc = "login_create"
    /\ row[s].state = "free"
    /\ row' = [row EXCEPT ![s].state = "active", ![s].seen = now]
    /\ minted' = [minted EXCEPT ![s] = 1]
    /\ handler' = [handler EXCEPT ![h].pc = "login_find", ![h].session = s, ![h].secret = 1]
    /\ UNCHANGED <<status, clock, held, revived, raced, reused>>

\* `now` was read some time between the check and the insert.
LoginCreates(h) ==
  \E s \in SessionIds, now \in handler[h].now .. clock :
    /\ handler[h].pc = "login_create"
    /\ row[s].state = "free"
    /\ row' = [row EXCEPT ![s] = [state |-> "active", expired |-> FALSE, secret |-> 1, seen |-> now]]
    /\ minted' = [minted EXCEPT ![s] = 1]
    /\ handler' = [handler EXCEPT ![h].pc = "login_find", ![h].session = s, ![h].secret = 1]
    /\ UNCHANGED <<status, clock, held, revived, raced, reused>>

\* Mutant: the cap counts the sessions the member had, not the new one.
LoginFindsOthers(h) ==
  LET found == {s \in SessionIds : Active(s)} \ {handler[h].session} IN
  /\ handler[h].pc = "login_find"
  /\ \E kept \in SUBSET found :
       /\ Cardinality(found) <= MaxDevices => kept = found
       /\ Cardinality(found) > MaxDevices =>
            /\ Cardinality(kept) = MaxDevices
            /\ \A s \in kept, t \in found \ kept : row[t].seen <= row[s].seen
       /\ handler' = [handler EXCEPT
                        ![h].pc = IF kept = found THEN "login_return" ELSE "login_revoke",
                        ![h].found = found, ![h].kept = kept]
  /\ UNCHANGED <<row, status, clock, minted, held, revived, raced, reused>>

\* Of more than maxDevices active sessions the ones seen longest ago are to go.
LoginFinds(h) ==
  LET found == {s \in SessionIds : Active(s)} IN
  /\ handler[h].pc = "login_find"
  /\ \E kept \in SUBSET found :
       /\ Cardinality(found) <= MaxDevices => kept = found
       /\ Cardinality(found) > MaxDevices =>
            /\ Cardinality(kept) = MaxDevices
            /\ \A s \in kept, t \in found \ kept : row[t].seen <= row[s].seen
       /\ handler' = [handler EXCEPT
                        ![h].pc = IF kept = found THEN "login_return" ELSE "login_revoke",
                        ![h].found = found, ![h].kept = kept]
  /\ UNCHANGED <<row, status, clock, minted, held, revived, raced, reused>>

LoginRevokes(h) ==
  /\ handler[h].pc = "login_revoke"
  /\ row' = Revoked(handler[h].found \ handler[h].kept)
  /\ Goto(h, "login_return")
  /\ UNCHANGED <<status, clock, minted, held, revived, raced, reused>>

\* The audit row is written and the tokens reach the client's storage.
LoginReturns(h) ==
  /\ handler[h].pc = "login_return"
  /\ held' = [held EXCEPT ![handler[h].session] = handler[h].secret]
  /\ End(h)
  /\ UNCHANGED <<row, status, clock, minted, revived, raced, reused>>

----------------------------------------------------------------------------
(* refresh.                                                                *)

Refreshing(s) ==
  \E g \in Handlers :
    /\ handler[g].session = s
    /\ handler[g].pc \in {"refresh_read", "refresh_write", "refresh_return", "reuse_revoke"}

\* A tab reads the stored token and sends it.
Refresh(h, s) ==
  /\ s \in Delivered
  /\ Begin(h, [Idle EXCEPT !.pc = "refresh_read", !.session = s, !.secret = held[s]])
  /\ raced' = IF Refreshing(s) THEN raced \cup {s} ELSE raced
  /\ UNCHANGED <<row, status, clock, minted, held, revived, reused>>

\* A revoked or expired session is refused, and so is a suspended member,
\* whose token was checked first.
RefreshReads(h) ==
  LET r == row[handler[h].session] IN
  /\ handler[h].pc = "refresh_read"
  /\ \/ /\ r.state = "revoked" \/ r.expired
        /\ End(h)
     \/ /\ Active(handler[h].session) /\ r.secret # handler[h].secret
        /\ Goto(h, "reuse_revoke")
     \/ /\ Active(handler[h].session) /\ r.secret = handler[h].secret
        /\ IF status = "ACTIVE"
             THEN handler' = [handler EXCEPT ![h].pc = "refresh_write", ![h].now = clock]
             ELSE End(h)
  /\ UNCHANGED <<row, status, clock, minted, held, revived, raced, reused>>

\* Mutant: the row is written whole, with no revokedAt.
RefreshWritesRow(h) ==
  LET s == handler[h].session
      next == minted[s] + 1
  IN
  \E now \in handler[h].now .. clock :
    /\ handler[h].pc = "refresh_write"
    /\ next <= MaxSecrets
    /\ minted' = [minted EXCEPT ![s] = next]
    /\ row' = [row EXCEPT ![s] = [state |-> "active", expired |-> FALSE, secret |-> next, seen |-> now]]
    /\ handler' = [handler EXCEPT ![h].pc = "refresh_return", ![h].secret = next]
    /\ revived' = IF row[s].expired THEN revived \cup {s} ELSE revived
    /\ UNCHANGED <<status, clock, held, raced, reused>>

\* By id, whatever the row has become since; revokedAt is not written.
RefreshWrites(h) ==
  LET s == handler[h].session
      next == minted[s] + 1
  IN
  \E now \in handler[h].now .. clock :
    /\ handler[h].pc = "refresh_write"
    /\ next <= MaxSecrets
    /\ minted' = [minted EXCEPT ![s] = next]
    /\ row' = [row EXCEPT ![s].secret = next, ![s].expired = FALSE, ![s].seen = now]
    /\ handler' = [handler EXCEPT ![h].pc = "refresh_return", ![h].secret = next]
    /\ revived' = IF row[s].expired THEN revived \cup {s} ELSE revived
    /\ UNCHANGED <<status, clock, held, raced, reused>>

\* Mutant: the answer carries the token the call came with.
RefreshReturnsOld(h) ==
  /\ handler[h].pc = "refresh_return"
  /\ End(h)
  /\ UNCHANGED <<row, status, clock, minted, held, revived, raced, reused>>

RefreshReturns(h) ==
  /\ handler[h].pc = "refresh_return"
  /\ held' = [held EXCEPT ![handler[h].session] = handler[h].secret]
  /\ End(h)
  /\ UNCHANGED <<row, status, clock, minted, revived, raced, reused>>

\* The whole family; a family has one row, since only issueSession makes one.
ReuseRevokes(h) ==
  LET s == handler[h].session IN
  /\ handler[h].pc = "reuse_revoke"
  /\ row' = Revoked({s} \cap ActiveRows)
  /\ reused' = IF s \in ActiveRows THEN reused \cup {s} ELSE reused
  /\ End(h)
  /\ UNCHANGED <<status, clock, minted, held, revived, raced>>

----------------------------------------------------------------------------
(* logout, logoutAll, revokeSessions, setStatus, applyNewPassword.         *)

\* The actor is signed in; the session may be another of theirs.
Logout(h, s) ==
  /\ \E u \in SessionIds : Usable(u)
  /\ row[s].state = "active"
  /\ Begin(h, [Idle EXCEPT !.pc = "logout_write", !.session = s])
  /\ UNCHANGED <<row, status, clock, minted, held, revived, raced, reused>>

LogoutWrites(h) ==
  /\ handler[h].pc = "logout_write"
  /\ row' = Revoked({handler[h].session})
  /\ End(h)
  /\ UNCHANGED <<status, clock, minted, held, revived, raced, reused>>

\* logoutAll by the member, revokeSessions by an admin: one statement.
RevokeAll ==
  /\ row' = Revoked(ActiveRows)
  /\ UNCHANGED <<status, clock, minted, handler, held, revived, raced, reused>>

\* The first statement stores the new password hash.
NewPassword(h) ==
  /\ Begin(h, [Idle EXCEPT !.pc = "revoke_all"])
  /\ UNCHANGED <<row, status, clock, minted, held, revived, raced, reused>>

Suspend(h) ==
  /\ status' = "SUSPENDED"
  /\ Begin(h, [Idle EXCEPT !.pc = "revoke_all"])
  /\ UNCHANGED <<row, clock, minted, held, revived, raced, reused>>

\* The second statement of both.
RevokesAll(h) ==
  /\ handler[h].pc = "revoke_all"
  /\ row' = Revoked(ActiveRows)
  /\ End(h)
  /\ UNCHANGED <<status, clock, minted, held, revived, raced, reused>>

Restore ==
  /\ status = "SUSPENDED"
  /\ status' = "ACTIVE"
  /\ UNCHANGED <<row, clock, minted, handler, held, revived, raced, reused>>

\* The call fails: an error, a crash, or an answer lost on its way.
Abandon(h) ==
  /\ handler[h].pc # "idle"
  /\ raced' = IF handler[h].pc = "refresh_return"
                THEN raced \cup {handler[h].session} ELSE raced
  /\ End(h)
  /\ UNCHANGED <<row, status, clock, minted, held, revived, reused>>

----------------------------------------------------------------------------
Proceed(h) ==
  \/ LoginCreates(h) \/ LoginFinds(h) \/ LoginRevokes(h) \/ LoginReturns(h)
  \/ RefreshReads(h) \/ RefreshWrites(h) \/ RefreshReturns(h) \/ ReuseRevokes(h)
  \/ LogoutWrites(h) \/ RevokesAll(h) \/ Abandon(h)

Arrive(h) ==
  \/ Login(h) \/ NewPassword(h) \/ Suspend(h)
  \/ \E s \in SessionIds : Refresh(h, s) \/ Logout(h, s)

Next ==
  \/ \E h \in Handlers : Arrive(h) \/ Proceed(h)
  \/ \E s \in SessionIds : Expire(s)
  \/ RevokeAll \/ Restore \/ Tick

Spec == Init /\ [][Next]_vars

----------------------------------------------------------------------------
(* Properties.                                                             *)

\* docs/architecture/03-authentication.md: "Device/session cap from config".
\* However logins, refreshes and revocations interleave, and wherever a login
\* crashes, a member is never signed in on more than maxDevices devices; a
\* session whose refresh straddled its expiry, which no count saw, is aside.
DeviceCap ==
  Cardinality({s \in Delivered : Active(s)} \ revived) <= MaxDevices

\* A revoked session stays revoked: no refresh, login or restore that read it
\* before brings it back.
RevocationIsFinal ==
  [][\A s \in SessionIds : row[s].state = "revoked" => row'[s].state = "revoked"]_vars

\* A client that refreshes one at a time, and loses no answer, is never signed
\* out for reusing a refresh token.
HonestClientStays == reused \subseteq raced

\* docs/architecture/03-authentication.md: "refresh succeeds -> new refresh
\* hash -> old hash invalid".  So a refresh replaces the hash it has checked.
\* Two refreshes of one token both pass the check, and the second one
\* replaces the hash the first has just issued.
RotatesWhatItChecked ==
  [][\A h \in Handlers :
       handler[h].pc = "refresh_write" /\ handler'[h].pc = "refresh_return" =>
         row[handler[h].session].secret = handler[h].secret]_vars
=============================================================================
