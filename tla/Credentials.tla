---------------------------- MODULE Credentials ----------------------------
(***************************************************************************)
(* How one email address signs in: one-time codes, passwords with an       *)
(* optional second step, third-party identities, and the ticket that       *)
(* resets a password.  Codes and passwords are right or wrong; what a      *)
(* session is worth is the number of revocations (new passwords and        *)
(* suspensions) its proof was older than.                                  *)
(***************************************************************************)
EXTENDS Handlers, Sequences

CONSTANTS
  MaxAttempts,            \* policy.maxAttempts
  MaxChallenges,          \* bound: challenges ever created
  MaxEpoch                \* bound: new passwords and suspensions
ASSUME CredentialsAssumption ==
  MaxAttempts \in Nat \ {0} /\ MaxChallenges \in Nat /\ MaxEpoch \in Nat

VARIABLES
  member,                 \* the row of the address: status, twoFactor, epoch
  challenges,             \* otp_challenges, in order of creation
  tickets,                \* the reset tickets held by Redis
  usable,                 \* the sessions that are not revoked
  authCalls,              \* Slots -> the call in flight
  settled,                \* history: the newest revocation that has finished
  spent                   \* history: the tickets a password was written with
credVars == <<member, challenges, tickets, usable, authCalls, settled, spent>>

Purposes == {"LOGIN", "TWO_FACTOR", "PASSWORD_RESET"}
\* Within the resend cooldown, past it, past the expiry.
Ages == {"new", "cool", "expired"}

\* owner: the challenge names a member; vouched: the epoch of its password.
Challenge == [purpose: Purposes, age: Ages, attempts: Nat, consumed: BOOLEAN,
              owner: BOOLEAN, vouched: Nat]
Ticket == [of: Nat, slot: Slots]
Session == [vouched: Nat, raced: BOOLEAN, second: BOOLEAN]

AuthSteps == {"idle", "create", "resend", "check", "attempt", "burn", "admit",
              "ticket", "register", "issue", "delete", "write", "revoke"}
\* of: the challenge; raced: a revocation began since the proof was read; second: the
\* proof was a second step, and is as old as the password it followed.
AuthCall == [step: AuthSteps, purpose: Purposes, of: Nat, slot: Slots, right: BOOLEAN,
             owner: BOOLEAN, vouched: Nat, raced: BOOLEAN, second: BOOLEAN, epoch: Nat]

Resting(s) == [step |-> "idle", purpose |-> "LOGIN", of |-> 0, slot |-> s, right |-> FALSE,
               owner |-> FALSE, vouched |-> 0, raced |-> FALSE, second |-> FALSE, epoch |-> 0]
Free(s) == authCalls[s].step = "idle"
At(s, step) == authCalls[s].step = step
Enter(s, call) == authCalls' = [authCalls EXCEPT ![s] = call]
GoTo(s, step) == Enter(s, [authCalls[s] EXCEPT !.step = step])
Leave(s) == Enter(s, Resting(s))

\* findActiveChallenge: the newest unconsumed one, however old; 0 is none.
Candidates(purpose) ==
  {i \in DOMAIN challenges : challenges[i].purpose = purpose /\ ~challenges[i].consumed}
FoundActive(purpose) ==
  IF Candidates(purpose) = {} THEN 0
  ELSE CHOOSE i \in Candidates(purpose) : \A j \in Candidates(purpose) : j <= i

SignedIn == usable # {} /\ member.status = "ACTIVE"

CredInit ==
  /\ member \in [status: {"NONE", "ACTIVE"}, twoFactor: {FALSE}, epoch: {0}]
  /\ challenges = <<>> /\ tickets = {} /\ usable = {}
  /\ authCalls = [s \in Slots |-> Resting(s)]
  /\ settled = 0 /\ spent = {}

-----------------------------------------------------------------------------
(* Codes. *)

\* requestOtp: refused while the newest challenge is fresh and cooling down.
RequestOtp(s) ==
  LET i == FoundActive("LOGIN") IN
  /\ Free(s)
  /\ i # 0 => challenges[i].age # "new"
  /\ Enter(s, [Resting(s) EXCEPT !.step = "create"])
  /\ UNCHANGED <<member, challenges, tickets, usable, settled, spent>>

\* issueChallenge.
CreateChallenge(s) ==
  LET call == authCalls[s] IN
  /\ At(s, "create") /\ Len(challenges) < MaxChallenges
  /\ challenges' = Append(challenges,
       [purpose |-> call.purpose, age |-> "new", attempts |-> 0, consumed |-> FALSE,
        owner |-> call.owner, vouched |-> call.vouched])
  /\ Leave(s)
  /\ UNCHANGED <<member, tickets, usable, settled, spent>>

\* resendOtp finds a fresh challenge past its cooldown.
ResendOtp(s) ==
  LET i == FoundActive("LOGIN") IN
  /\ Free(s) /\ i # 0 /\ challenges[i].age = "cool"
  /\ Enter(s, [Resting(s) EXCEPT !.step = "resend", !.of = i])
  /\ UNCHANGED <<member, challenges, tickets, usable, settled, spent>>

\* resendChallenge writes by id: a new code, a new expiry, no attempts.
ResendChallenge(s) ==
  /\ At(s, "resend")
  /\ challenges' = [challenges EXCEPT ![authCalls[s].of].age = "new",
                                      ![authCalls[s].of].attempts = 0]
  /\ Leave(s)
  /\ UNCHANGED <<member, tickets, usable, settled, spent>>

\* verifyOtp, verifyTwoFactor and verifyPasswordReset find their challenge.
Verify(s, purpose, i) ==
  /\ Free(s)
  /\ IF purpose = "LOGIN" THEN i = FoundActive("LOGIN") /\ i # 0
     ELSE challenges[i].purpose = purpose
  /\ Enter(s, [Resting(s) EXCEPT !.step = "check", !.purpose = purpose, !.of = i])
  /\ UNCHANGED <<member, challenges, tickets, usable, settled, spent>>

\* Mutant: the attempts are counted and never compared.
AcceptableWithoutLimit(row) == ~row.consumed /\ row.age # "expired"

\* consumeChallenge reads the row again; what it refuses ends the call.
Acceptable(row) == ~row.consumed /\ row.age # "expired" /\ row.attempts < MaxAttempts
CheckChallenge(s, right) ==
  /\ At(s, "check")
  /\ IF Acceptable(challenges[authCalls[s].of])
     THEN Enter(s, [authCalls[s] EXCEPT !.step = "attempt", !.right = right])
     ELSE Leave(s)
  /\ UNCHANGED <<member, challenges, tickets, usable, settled, spent>>

\* The attempt is counted in one statement, then the code is compared.
CountAttempt(s) ==
  /\ At(s, "attempt")
  /\ challenges' = [challenges EXCEPT ![authCalls[s].of].attempts = @ + 1]
  /\ IF authCalls[s].right THEN GoTo(s, "burn") ELSE Leave(s)
  /\ UNCHANGED <<member, tickets, usable, settled, spent>>

\* consumedAt is written by id, whoever wrote it before.
BurnChallenge(s) ==
  LET call == authCalls[s] IN
  /\ At(s, "burn")
  /\ challenges' = [challenges EXCEPT ![call.of].consumed = TRUE]
  /\ GoTo(s, IF call.purpose = "PASSWORD_RESET" THEN "ticket" ELSE "admit")
  /\ UNCHANGED <<member, tickets, usable, settled, spent>>

-----------------------------------------------------------------------------
(* Who the proof belongs to. *)

\* Every way in that finds no member creates it; the address is unique, so of two
\* that found none the later create fails.
Vouch(s, epoch, second) ==
  Enter(s, [authCalls[s] EXCEPT !.step = "issue", !.vouched = epoch, !.second = second])
Upsert(s) ==
  CASE member.status = "NONE" -> GoTo(s, "register")
    [] member.status = "ACTIVE" -> Vouch(s, member.epoch, FALSE)
    [] OTHER -> Leave(s)
RegisterMember(s) ==
  /\ At(s, "register")
  /\ IF member.status = "NONE"
     THEN member' = [member EXCEPT !.status = "ACTIVE"] /\ Vouch(s, member.epoch, FALSE)
     ELSE Leave(s) /\ UNCHANGED member
  /\ UNCHANGED <<challenges, tickets, usable, settled, spent>>

\* After a code: upsertByEmail or upsertByPhone, or the row of a second step.
AdmitByCode(s) ==
  /\ At(s, "admit")
  /\ IF authCalls[s].purpose = "LOGIN" THEN Upsert(s)
     ELSE IF member.status = "ACTIVE" THEN Vouch(s, challenges[authCalls[s].of].vouched, TRUE)
     ELSE Leave(s)
  /\ UNCHANGED <<member, challenges, tickets, usable, settled, spent>>

\* upsertBySsoIdentity, once the provider has verified the address.
LoginWithSso(s) ==
  /\ Free(s)
  /\ Upsert(s)
  /\ UNCHANGED <<member, challenges, tickets, usable, settled, spent>>

\* register refuses an address that is taken.
Register(s) ==
  /\ Free(s) /\ member.status = "NONE"
  /\ GoTo(s, "register")
  /\ UNCHANGED <<member, challenges, tickets, usable, settled, spent>>

\* loginWithPassword, with the right password.
LoginWithPassword(s) ==
  /\ Free(s) /\ member.status = "ACTIVE"
  /\ IF member.twoFactor
     THEN Enter(s, [Resting(s) EXCEPT !.step = "create", !.purpose = "TWO_FACTOR",
                                      !.owner = TRUE, !.vouched = member.epoch])
     ELSE Vouch(s, member.epoch, FALSE)
  /\ UNCHANGED <<member, challenges, tickets, usable, settled, spent>>

\* issueSession.
IssueSession(s) ==
  LET call == authCalls[s] IN
  /\ At(s, "issue")
  /\ usable' = usable \cup
       {[vouched |-> call.vouched, raced |-> call.raced, second |-> call.second]}
  /\ Leave(s)
  /\ UNCHANGED <<member, challenges, tickets, settled, spent>>

SetTwoFactor(s, enabled) ==
  /\ Free(s) /\ SignedIn
  /\ member' = [member EXCEPT !.twoFactor = enabled]
  /\ UNCHANGED <<challenges, tickets, usable, authCalls, settled, spent>>

-----------------------------------------------------------------------------
(* New passwords. *)

\* forgotPassword always creates a challenge, for nobody if the address is unknown.
ForgotPassword(s) ==
  /\ Free(s)
  /\ Enter(s, [Resting(s) EXCEPT !.step = "create", !.purpose = "PASSWORD_RESET",
                                 !.owner = member.status # "NONE"])
  /\ UNCHANGED <<member, challenges, tickets, usable, settled, spent>>

\* verifyPasswordReset stores a ticket of its own.
StoreTicket(s) ==
  /\ At(s, "ticket")
  /\ tickets' = tickets \cup {[of |-> authCalls[s].of, slot |-> s]}
  /\ Leave(s)
  /\ UNCHANGED <<member, challenges, usable, settled, spent>>

\* resetPassword reads the ticket, then deletes it, then looks whose it is.
ResetPassword(s, t) ==
  /\ Free(s) /\ t \in tickets
  /\ Enter(s, [Resting(s) EXCEPT !.step = "delete", !.of = t.of, !.slot = t.slot,
                                 !.owner = challenges[t.of].owner])
  /\ UNCHANGED <<member, challenges, tickets, usable, settled, spent>>
TicketOf(s) == [of |-> authCalls[s].of, slot |-> authCalls[s].slot]
\* Mutant: the ticket is left to its time to live.
KeepTicket(s) ==
  /\ At(s, "delete")
  /\ IF authCalls[s].owner THEN GoTo(s, "write") ELSE Leave(s)
  /\ UNCHANGED <<member, challenges, tickets, usable, settled, spent>>

DeleteTicket(s) ==
  /\ At(s, "delete")
  /\ tickets' = tickets \ {TicketOf(s)}
  /\ IF authCalls[s].owner THEN GoTo(s, "write") ELSE Leave(s)
  /\ UNCHANGED <<member, challenges, usable, settled, spent>>

\* changePassword, with the right current password; of = 0: no ticket.
ChangePassword(s) ==
  /\ Free(s) /\ SignedIn
  /\ GoTo(s, "write")
  /\ UNCHANGED <<member, challenges, tickets, usable, settled, spent>>

\* A revocation begins: what was proved before is proved no more.
Begin(s) ==
  /\ member.epoch < MaxEpoch
  /\ authCalls' = [r \in Slots |->
       IF r = s THEN [Resting(s) EXCEPT !.step = "revoke", !.epoch = member.epoch + 1]
       ELSE [authCalls[r] EXCEPT !.raced = authCalls[r].step = "issue" \/ @]]

\* applyNewPassword writes the hash, then revokes the sessions.
WritePassword(s) ==
  /\ At(s, "write") /\ Begin(s)
  /\ member' = [member EXCEPT !.epoch = @ + 1]
  /\ spent' = IF authCalls[s].of = 0 THEN spent ELSE spent \cup {TicketOf(s)}
  /\ UNCHANGED <<challenges, tickets, usable, settled>>

\* setStatus: a suspension revokes in a second statement too.
Suspend(s) ==
  /\ Free(s) /\ member.status = "ACTIVE" /\ Begin(s)
  /\ member' = [member EXCEPT !.epoch = @ + 1, !.status = "SUSPENDED"]
  /\ UNCHANGED <<challenges, tickets, usable, settled, spent>>
Restore ==
  /\ member.status = "SUSPENDED"
  /\ member' = [member EXCEPT !.status = "ACTIVE"]
  /\ UNCHANGED <<challenges, tickets, usable, authCalls, settled, spent>>

\* Mutant: a member with the second step keeps the sessions.
RevokeUnlessTwoFactor(s) ==
  /\ At(s, "revoke")
  /\ usable' = IF member.twoFactor THEN usable ELSE {}
  /\ settled' = Larger(settled, authCalls[s].epoch)
  /\ Leave(s)
  /\ UNCHANGED <<member, challenges, tickets, spent>>

RevokeSessions(s) ==
  /\ At(s, "revoke")
  /\ usable' = {}
  /\ settled' = Larger(settled, authCalls[s].epoch)
  /\ Leave(s)
  /\ UNCHANGED <<member, challenges, tickets, spent>>

-----------------------------------------------------------------------------
(* Time, and a process that stops between two statements. *)

ChallengeAges(i) ==
  /\ challenges[i].age # "expired" /\ ~challenges[i].consumed
  /\ challenges' = [challenges EXCEPT ![i].age = IF @ = "new" THEN "cool" ELSE "expired"]
  /\ UNCHANGED <<member, tickets, usable, authCalls, settled, spent>>
TicketExpires(t) ==
  /\ t \in tickets
  /\ tickets' = tickets \ {t}
  /\ UNCHANGED <<member, challenges, usable, authCalls, settled, spent>>
AbandonSignIn(s) ==
  /\ ~Free(s)
  /\ Leave(s)
  /\ UNCHANGED <<member, challenges, tickets, usable, settled, spent>>

CredNext ==
  \/ \E s \in Slots :
       \/ RequestOtp(s) \/ CreateChallenge(s) \/ ResendOtp(s) \/ ResendChallenge(s)
       \/ \E p \in Purposes, i \in DOMAIN challenges : Verify(s, p, i)
       \/ \E right \in BOOLEAN : CheckChallenge(s, right)
       \/ CountAttempt(s) \/ BurnChallenge(s) \/ RegisterMember(s) \/ AdmitByCode(s)
       \/ LoginWithSso(s) \/ Register(s) \/ LoginWithPassword(s) \/ IssueSession(s)
       \/ \E enabled \in BOOLEAN : SetTwoFactor(s, enabled)
       \/ ForgotPassword(s) \/ StoreTicket(s)
       \/ \E t \in tickets : ResetPassword(s, t)
       \/ DeleteTicket(s) \/ ChangePassword(s) \/ WritePassword(s) \/ Suspend(s)
       \/ RevokeSessions(s) \/ AbandonSignIn(s)
  \/ Restore
  \/ \E i \in DOMAIN challenges : ChallengeAges(i)
  \/ \E t \in tickets : TicketExpires(t)

CredSpec == CredInit /\ [][CredNext]_credVars

-----------------------------------------------------------------------------
(* Every variable keeps its type. *)
CredTypeOK ==
  /\ member \in [status: {"NONE", "ACTIVE", "SUSPENDED"}, twoFactor: BOOLEAN, epoch: Nat]
  /\ challenges \in Seq(Challenge)
  /\ tickets \subseteq Ticket /\ spent \subseteq Ticket
  /\ usable \subseteq Session
  /\ authCalls \in [Slots -> AuthCall]
  /\ settled \in Nat

(* A new password or a suspension that has revoked the sessions leaves none    *)
(* that was earned before it (credentials.service.ts:421), except what a call  *)
(* already past its check was about to issue, and a second step still open     *)
(* from the old password.                                                      *)
SurvivorsWereInFlight ==
  \A session \in usable : session.vouched < settled => session.raced \/ session.second

(* A challenge is guessed at most once more per other call in flight than the  *)
(* policy allows, though the limit is read before the guess is counted.        *)
GuessesBounded ==
  \A i \in DOMAIN challenges : challenges[i].attempts < MaxAttempts + Cardinality(Slots)

(* A ticket that a password was written with is gone from Redis ("Single use", *)
(* credentials.service.ts:338), and was minted by a code that is burnt.        *)
SpentIsGone ==
  \A t \in spent : t \notin tickets /\ challenges[t.of].consumed

(* What proves who a member is counts once: a code is guessed a bounded number *)
(* of times, and a ticket that was used is gone (credentials.service.ts:338).  *)
ProofsAreSpent == GuessesBounded /\ SpentIsGone
=============================================================================
