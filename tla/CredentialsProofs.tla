------------------------- MODULE CredentialsProofs -------------------------
(***************************************************************************)
(* Proofs about Credentials, for any number of calls in flight, attempts,  *)
(* challenges and revocations.  Three arguments are carried together: a    *)
(* call past the limit check has its guess reserved; a ticket's challenge  *)
(* is burnt, so nobody mints it twice; and a call about to issue on an     *)
(* older proof was caught by the revocation that made it older.            *)
(***************************************************************************)
EXTENDS Credentials, FiniteSetTheorems, TLAPS

\* The calls that passed the check of challenge i and have not counted their guess.
Guessing(i) == {s \in Slots : At(s, "attempt") /\ authCalls[s].of = i}

\* Guesses counted and guesses about to be counted together stay below the bound.
GuessesCounted ==
  \A i \in DOMAIN challenges :
    challenges[i].attempts + Cardinality(Guessing(i)) < MaxAttempts + Cardinality(Slots)

\* Every call that names a challenge names one that exists.
CallsPoint ==
  \A s \in Slots :
    /\ authCalls[s].of \in 0..Len(challenges)
    /\ authCalls[s].step \in {"resend", "check", "attempt", "burn", "admit", "ticket", "delete"}
         => authCalls[s].of # 0
    /\ Free(s) => authCalls[s].of = 0

\* The tickets that were minted: stored, about to be deleted, or written with.
Writing(s) == At(s, "write") /\ authCalls[s].of # 0
Holding(s) == At(s, "delete") \/ Writing(s)
Minted == tickets \cup spent \cup {TicketOf(s) : s \in {r \in Slots : Holding(r)}}

\* The challenge of a ticket is burnt, so the slot that minted it cannot mint it again.
Minting(s) == At(s, "attempt") \/ At(s, "burn") \/ At(s, "ticket")
MintedOnce ==
  \A t \in Minted :
    /\ t.of \in DOMAIN challenges /\ challenges[t.of].consumed
    /\ ~(Minting(t.slot) /\ authCalls[t.slot].of = t.of)

TicketsGone ==
  /\ \A s \in Slots : At(s, "ticket") => challenges[authCalls[s].of].consumed
  /\ \A s \in Slots : Writing(s) => TicketOf(s) \notin tickets
  /\ spent \cap tickets = {}

RevocationsKnown ==
  /\ settled <= member.epoch
  /\ \A s \in Slots : At(s, "revoke") => authCalls[s].epoch <= member.epoch

\* A session about to be issued on an older proof was caught by a revocation.
IssuesKnown ==
  \A s \in Slots :
    At(s, "issue") /\ authCalls[s].vouched < member.epoch =>
      authCalls[s].raced \/ authCalls[s].second

CredIInv ==
  /\ CredTypeOK
  /\ CallsPoint /\ GuessesCounted
  /\ MintedOnce /\ TicketsGone
  /\ RevocationsKnown /\ IssuesKnown /\ SurvivorsWereInFlight

-----------------------------------------------------------------------------
(* What a step does to the calls. *)

LEMMA RestingTyped ==
  ASSUME NEW s \in Slots
  PROVE  /\ Resting(s) \in AuthCall
         /\ Resting(s).step = "idle" /\ Resting(s).of = 0
BY DEF Resting, AuthCall, AuthSteps, Purposes

LEMMA ChallengeTyped ==
  ASSUME CredTypeOK, NEW i \in DOMAIN challenges
  PROVE  /\ challenges[i] \in Challenge
         /\ challenges[i].attempts \in Nat /\ challenges[i].vouched \in Nat
         /\ challenges[i].owner \in BOOLEAN /\ challenges[i].consumed \in BOOLEAN
         /\ i \in 1..Len(challenges)
<1>1. challenges[i] \in Challenge /\ i \in 1..Len(challenges)
  BY DEF CredTypeOK
<1> QED BY <1>1 DEF Challenge

\* Only the call that takes the step changes its slot.
LEMMA EnterFrame ==
  ASSUME NEW s \in Slots, NEW c \in AuthCall, CredTypeOK, Enter(s, c)
  PROVE  /\ authCalls' \in [Slots -> AuthCall]
         /\ authCalls'[s] = c
         /\ \A r \in Slots \ {s} : authCalls'[r] = authCalls[r]
BY DEF CredTypeOK, Enter

\* The guesses under way are a part of the calls in flight.
LEMMA GuessingFinite ==
  ASSUME NEW i
  PROVE  /\ IsFiniteSet(Guessing(i)) /\ Cardinality(Guessing(i)) \in Nat
         /\ Cardinality(Slots) \in Nat
         /\ Cardinality(Guessing(i)) <= Cardinality(Slots)
<1>1. Guessing(i) \subseteq Slots
  BY DEF Guessing
<1> QED BY <1>1, SlotsAssumption, FS_Subset, FS_CardinalityType

LEMMA GuessingFinitePrime ==
  ASSUME NEW i
  PROVE  /\ Cardinality(Guessing(i)') \in Nat
         /\ Cardinality(Guessing(i)') <= Cardinality(Slots)
<1>1. Guessing(i)' \subseteq Slots
  BY DEF Guessing
<1> QED BY <1>1, SlotsAssumption, FS_Subset, FS_CardinalityType

LEMMA FewerGuessing ==
  ASSUME NEW i, Guessing(i)' \subseteq Guessing(i)
  PROVE  Cardinality(Guessing(i)') <= Cardinality(Guessing(i))
BY GuessingFinite, FS_Subset

-----------------------------------------------------------------------------
(* Steps that only read: a call comes to a new step and nothing else changes. *)

QuietSteps == {"idle", "create", "resend", "check", "attempt", "register", "issue", "delete",
               "write"}

\* What a call may bring with it to the step it enters.
Sound(c) ==
  /\ c \in AuthCall /\ c.step \in QuietSteps
  /\ c.of \in 0..Len(challenges)
  /\ c.step \in {"resend", "check", "attempt", "delete"} => c.of # 0
  /\ c.step = "attempt" => Acceptable(challenges[c.of])
  /\ c.step = "delete" => [of |-> c.of, slot |-> c.slot] \in tickets
  /\ c.step \in {"idle", "write"} => c.of = 0
  /\ c.step = "issue" /\ c.vouched < member.epoch => c.raced \/ c.second

LEMMA QuietStep ==
  ASSUME CredIInv, NEW s \in Slots, NEW c, Sound(c), Enter(s, c),
         UNCHANGED <<member, challenges, tickets, usable, settled, spent>>
  PROVE  CredIInv'
<1>0. CredTypeOK /\ c \in AuthCall
  BY DEF CredIInv, Sound
<1>1. /\ authCalls' \in [Slots -> AuthCall]
      /\ authCalls'[s] = c
      /\ \A r \in Slots \ {s} : authCalls'[r] = authCalls[r]
  BY <1>0, EnterFrame
<1>2. CredTypeOK'
  BY <1>0, <1>1 DEF CredTypeOK
<1>3. CallsPoint'
  BY <1>1 DEF CredIInv, CallsPoint, Sound, QuietSteps, Free
<1>4. GuessesCounted'
  <2> SUFFICES ASSUME NEW i \in DOMAIN challenges
               PROVE  challenges[i].attempts + Cardinality(Guessing(i)')
                        < MaxAttempts + Cardinality(Slots)
    BY DEF GuessesCounted
  <2>1. challenges[i].attempts \in Nat /\ MaxAttempts \in Nat
    BY <1>0, ChallengeTyped, CredentialsAssumption
  <2>2. CASE c.step = "attempt" /\ c.of = i
    <3>1. challenges[i].attempts < MaxAttempts
      BY <2>2 DEF Sound, Acceptable
    <3>2. Cardinality(Guessing(i)') <= Cardinality(Slots)
      BY GuessingFinitePrime
    <3>3. Cardinality(Guessing(i)') \in Nat /\ Cardinality(Slots) \in Nat
      BY GuessingFinite, GuessingFinitePrime
    <3> QED BY <2>1, <3>1, <3>2, <3>3
  <2>3. CASE ~(c.step = "attempt" /\ c.of = i)
    <3>1. Guessing(i)' \subseteq Guessing(i)
      BY <1>1, <2>3 DEF Guessing, At
    <3>2. Cardinality(Guessing(i)') <= Cardinality(Guessing(i))
      BY <3>1, FewerGuessing
    <3>3. challenges[i].attempts + Cardinality(Guessing(i)) < MaxAttempts + Cardinality(Slots)
      BY DEF CredIInv, GuessesCounted
    <3> QED BY <2>1, <3>2, <3>3, GuessingFinite, GuessingFinitePrime
  <2> QED BY <2>2, <2>3
<1>5. Minted' \subseteq Minted
  <2>1. ASSUME NEW r \in Slots, Holding(r)' PROVE TicketOf(r)' \in Minted
    <3>1. CASE r = s
      BY <1>1, <2>1, <3>1 DEF Holding, Writing, At, TicketOf, Sound, Minted
    <3>2. CASE r # s
      BY <1>1, <2>1, <3>2 DEF Holding, Writing, At, TicketOf, Minted
    <3> QED BY <3>1, <3>2
  <2> QED BY <2>1 DEF Minted
<1>6. MintedOnce'
  <2> SUFFICES ASSUME NEW t \in Minted', Minting(t.slot)', authCalls'[t.slot].of = t.of
               PROVE  FALSE
    BY <1>5 DEF CredIInv, MintedOnce
  <2>1. /\ t.of \in DOMAIN challenges /\ challenges[t.of].consumed
        /\ ~(Minting(t.slot) /\ authCalls[t.slot].of = t.of)
    BY <1>5 DEF CredIInv, MintedOnce
  <2>2. t.slot \in Slots
    BY <1>0, <1>5 DEF Minted, TicketOf, CredTypeOK, Ticket, AuthCall
  <2>3. t.slot = s
    BY <1>1, <2>1, <2>2 DEF Minting, At
  <2>4. c.step = "attempt" /\ c.of = t.of
    BY <1>1, <2>3 DEF Minting, At, Sound, QuietSteps
  <2> QED BY <2>1, <2>4 DEF Sound, Acceptable
<1>7. TicketsGone'
  <2>1. \A r \in Slots : At(r, "ticket")' => At(r, "ticket") /\ authCalls'[r] = authCalls[r]
    BY <1>1 DEF At, Sound, QuietSteps
  <2>2. \A r \in Slots : Writing(r)' => Writing(r) /\ authCalls'[r] = authCalls[r]
    BY <1>1 DEF Writing, At, Sound
  <2> QED BY <2>1, <2>2 DEF CredIInv, TicketsGone, TicketOf
<1>8. RevocationsKnown'
  BY <1>1 DEF CredIInv, RevocationsKnown, At, Sound, QuietSteps
<1>9. IssuesKnown' /\ SurvivorsWereInFlight'
  BY <1>1 DEF CredIInv, IssuesKnown, At, Sound, SurvivorsWereInFlight
<1> QED BY <1>2, <1>3, <1>4, <1>6, <1>7, <1>8, <1>9 DEF CredIInv

\* A member who is vouched for now: the call may issue its session.
LEMMA SoundVouch ==
  ASSUME CredIInv, NEW s \in Slots,
         Vouch(s, member.epoch, FALSE),
         UNCHANGED <<member, challenges, tickets, usable, settled, spent>>
  PROVE  CredIInv'
<1> DEFINE c == [authCalls[s] EXCEPT !.step = "issue", !.vouched = member.epoch,
                                     !.second = FALSE]
<1>1. /\ authCalls[s] \in AuthCall /\ authCalls[s].of \in 0..Len(challenges)
      /\ member.epoch \in Nat
  BY DEF CredIInv, CredTypeOK, CallsPoint
<1>2. c \in AuthCall /\ c.step = "issue" /\ c.of = authCalls[s].of /\ c.vouched = member.epoch
  BY <1>1 DEF AuthCall, AuthSteps
<1>3. Enter(s, c)
  BY DEF Vouch
<1> HIDE DEF c
<1>4. Sound(c)
  BY <1>1, <1>2 DEF Sound, QuietSteps
<1> QED BY <1>3, <1>4, QuietStep

LEMMA SoundUpsert ==
  ASSUME CredIInv, NEW s \in Slots, Upsert(s),
         UNCHANGED <<member, challenges, tickets, usable, settled, spent>>
  PROVE  CredIInv'
<1>1. /\ authCalls[s] \in AuthCall /\ authCalls[s].of \in 0..Len(challenges)
      /\ member.epoch \in Nat
  BY DEF CredIInv, CredTypeOK, CallsPoint
<1>2. CASE member.status = "NONE"
  <2> DEFINE c == [authCalls[s] EXCEPT !.step = "register"]
  <2>1. Enter(s, c)
    BY <1>2 DEF Upsert, GoTo
  <2>2. Sound(c)
    BY <1>1 DEF Sound, QuietSteps, AuthCall, AuthSteps
  <2> HIDE DEF c
  <2> QED BY <2>1, <2>2, QuietStep
<1>3. CASE member.status = "ACTIVE"
  BY <1>3, SoundVouch DEF Upsert
<1>4. CASE member.status \notin {"NONE", "ACTIVE"}
  <2>1. Enter(s, Resting(s))
    BY <1>4 DEF Upsert, Leave
  <2>2. Sound(Resting(s))
    BY RestingTyped, <1>1 DEF Sound, QuietSteps, CredIInv, CredTypeOK
  <2> QED BY <2>1, <2>2, QuietStep
<1> QED BY <1>2, <1>3, <1>4

\* A call that gives up, or ends.
LEMMA SoundResting ==
  ASSUME CredIInv, NEW s \in Slots
  PROVE  /\ Sound(Resting(s))
         /\ authCalls[s] \in AuthCall /\ authCalls[s].of \in 0..Len(challenges)
         /\ Len(challenges) \in Nat /\ member.epoch \in Nat
<1>1. Len(challenges) \in Nat
  BY DEF CredIInv, CredTypeOK
<1> QED BY <1>1, RestingTyped DEF Sound, QuietSteps, CredIInv, CredTypeOK, CallsPoint

\* The actions that only read.
Reading(s) ==
  \/ RequestOtp(s) \/ ResendOtp(s)
  \/ \E p \in Purposes, i \in DOMAIN challenges : Verify(s, p, i)
  \/ \E right \in BOOLEAN : CheckChallenge(s, right)
  \/ AdmitByCode(s) \/ LoginWithSso(s) \/ Register(s) \/ LoginWithPassword(s)
  \/ ForgotPassword(s) \/ \E t \in tickets : ResetPassword(s, t)
  \/ ChangePassword(s) \/ AbandonSignIn(s)

LEMMA ReadingKeeps ==
  ASSUME CredIInv, NEW s \in Slots, Reading(s) PROVE CredIInv'
<1>0. /\ Sound(Resting(s)) /\ Resting(s) \in AuthCall
      /\ Resting(s).step = "idle" /\ Resting(s).of = 0
      /\ authCalls[s] \in AuthCall /\ authCalls[s].of \in 0..Len(challenges)
      /\ Len(challenges) \in Nat /\ member.epoch \in Nat
      /\ CredTypeOK
  BY SoundResting, RestingTyped DEF CredIInv
<1>1. CASE RequestOtp(s)
  <2> DEFINE c == [Resting(s) EXCEPT !.step = "create"]
  <2>1. Sound(c)
    BY <1>0 DEF Sound, QuietSteps, AuthCall, AuthSteps
  <2> HIDE DEF c
  <2> QED BY <1>1, <2>1, QuietStep DEF RequestOtp, c
<1>2. CASE ResendOtp(s)
  <2> DEFINE i == FoundActive("LOGIN")
             c == [Resting(s) EXCEPT !.step = "resend", !.of = i]
  <2>1. i # 0 /\ i \in DOMAIN challenges
    BY <1>2, <1>0 DEF ResendOtp, FoundActive, Candidates
  <2>2. i \in Nat /\ i \in 0..Len(challenges) /\ i # 0
    BY <2>1, <1>0, ChallengeTyped
  <2>3. c \in AuthCall /\ c.step = "resend" /\ c.of = i
    <3> HIDE DEF i
    <3> QED BY <1>0, <2>2 DEF AuthCall, AuthSteps
  <2>4. Enter(s, c) /\ UNCHANGED <<member, challenges, tickets, usable, settled, spent>>
    BY <1>2 DEF ResendOtp
  <2> HIDE DEF c, i
  <2>5. Sound(c)
    BY <1>0, <2>2, <2>3 DEF Sound, QuietSteps
  <2> QED BY <2>4, <2>5, QuietStep
<1>3. ASSUME NEW p \in Purposes, NEW i \in DOMAIN challenges, Verify(s, p, i) PROVE CredIInv'
  <2> DEFINE c == [Resting(s) EXCEPT !.step = "check", !.purpose = p, !.of = i]
  <2>1. i \in Nat /\ i \in 0..Len(challenges) /\ i # 0
    BY <1>0, ChallengeTyped
  <2>2. c \in AuthCall /\ c.step = "check" /\ c.of = i
    BY <1>0, <2>1 DEF AuthCall, AuthSteps
  <2>3. Enter(s, c) /\ UNCHANGED <<member, challenges, tickets, usable, settled, spent>>
    BY <1>3 DEF Verify
  <2> HIDE DEF c
  <2>4. Sound(c)
    BY <1>0, <2>1, <2>2 DEF Sound, QuietSteps
  <2> QED BY <2>3, <2>4, QuietStep
<1>4. ASSUME NEW right \in BOOLEAN, CheckChallenge(s, right) PROVE CredIInv'
  <2>1. UNCHANGED <<member, challenges, tickets, usable, settled, spent>>
    BY <1>4 DEF CheckChallenge
  <2>2. CASE Acceptable(challenges[authCalls[s].of])
    <3> DEFINE c == [authCalls[s] EXCEPT !.step = "attempt", !.right = right]
    <3>1. Enter(s, c)
      BY <1>4, <2>2 DEF CheckChallenge
    <3>2. authCalls[s].of # 0
      BY <1>4 DEF CheckChallenge, At, CredIInv, CallsPoint
    <3>3. c.of = authCalls[s].of /\ c.step = "attempt" /\ c \in AuthCall
      BY <1>0 DEF AuthCall, AuthSteps
    <3>4. Sound(c)
      BY <1>0, <2>2, <3>2, <3>3 DEF Sound, QuietSteps
    <3> HIDE DEF c
    <3> QED BY <2>1, <3>1, <3>4, QuietStep
  <2>3. CASE ~Acceptable(challenges[authCalls[s].of])
    BY <1>0, <1>4, <2>1, <2>3, QuietStep DEF CheckChallenge, Leave
  <2> QED BY <2>2, <2>3
<1>5. CASE AdmitByCode(s)
  <2>1. UNCHANGED <<member, challenges, tickets, usable, settled, spent>>
    BY <1>5 DEF AdmitByCode
  <2>2. CASE authCalls[s].purpose = "LOGIN"
    BY <1>5, <2>1, <2>2, SoundUpsert DEF AdmitByCode
  <2>3. CASE authCalls[s].purpose # "LOGIN" /\ member.status = "ACTIVE"
    <3> DEFINE epoch == challenges[authCalls[s].of].vouched
               c == [authCalls[s] EXCEPT !.step = "issue", !.vouched = epoch, !.second = TRUE]
    <3>1. Enter(s, c)
      BY <1>5, <2>3 DEF AdmitByCode, Vouch
    <3>2. authCalls[s].of \in DOMAIN challenges
      BY <1>0, <1>5 DEF AdmitByCode, At, CredIInv, CallsPoint, CredTypeOK
    <3>3. epoch \in Nat
      BY <1>0, <3>2, ChallengeTyped
    <3>4. Sound(c)
      <4> HIDE DEF epoch
      <4> QED BY <1>0, <3>3 DEF Sound, QuietSteps, AuthCall, AuthSteps
    <3> HIDE DEF c
    <3> QED BY <2>1, <3>1, <3>4, QuietStep
  <2>4. CASE authCalls[s].purpose # "LOGIN" /\ member.status # "ACTIVE"
    BY <1>0, <1>5, <2>1, <2>4, QuietStep DEF AdmitByCode, Leave
  <2> QED BY <2>2, <2>3, <2>4
<1>6. CASE LoginWithSso(s)
  BY <1>6, SoundUpsert DEF LoginWithSso
<1>7. CASE Register(s)
  <2> DEFINE c == [authCalls[s] EXCEPT !.step = "register"]
  <2>1. Sound(c)
    BY <1>0 DEF Sound, QuietSteps, AuthCall, AuthSteps
  <2>2. Enter(s, c) /\ UNCHANGED <<member, challenges, tickets, usable, settled, spent>>
    BY <1>7 DEF Register, GoTo
  <2> HIDE DEF c
  <2> QED BY <2>1, <2>2, QuietStep
<1>8. CASE LoginWithPassword(s)
  <2>1. UNCHANGED <<member, challenges, tickets, usable, settled, spent>>
    BY <1>8 DEF LoginWithPassword
  <2>2. CASE member.twoFactor
    <3> DEFINE c == [Resting(s) EXCEPT !.step = "create", !.purpose = "TWO_FACTOR",
                                       !.owner = TRUE, !.vouched = member.epoch]
    <3>1. Enter(s, c)
      BY <1>8, <2>2 DEF LoginWithPassword
    <3>2. Sound(c)
      BY <1>0 DEF Sound, QuietSteps, AuthCall, AuthSteps, Purposes
    <3> HIDE DEF c
    <3> QED BY <2>1, <3>1, <3>2, QuietStep
  <2>3. CASE ~member.twoFactor
    BY <1>8, <2>1, <2>3, SoundVouch DEF LoginWithPassword
  <2> QED BY <2>2, <2>3
<1>9. CASE ForgotPassword(s)
  <2> DEFINE c == [Resting(s) EXCEPT !.step = "create", !.purpose = "PASSWORD_RESET",
                                     !.owner = member.status # "NONE"]
  <2>1. Sound(c)
    BY <1>0 DEF Sound, QuietSteps, AuthCall, AuthSteps, Purposes
  <2>2. Enter(s, c) /\ UNCHANGED <<member, challenges, tickets, usable, settled, spent>>
    BY <1>9 DEF ForgotPassword
  <2> HIDE DEF c
  <2> QED BY <2>1, <2>2, QuietStep
<1>10. ASSUME NEW t \in tickets, ResetPassword(s, t) PROVE CredIInv'
  <2> DEFINE c == [Resting(s) EXCEPT !.step = "delete", !.of = t.of, !.slot = t.slot,
                                     !.owner = challenges[t.of].owner]
  <2>1. t.of \in DOMAIN challenges /\ t \in Ticket
    BY <1>0 DEF CredIInv, MintedOnce, Minted, CredTypeOK
  <2>2. /\ t.of \in 1..Len(challenges) /\ challenges[t.of].owner \in BOOLEAN
        /\ t.slot \in Slots /\ t = [of |-> t.of, slot |-> t.slot]
    BY <1>0, <2>1, ChallengeTyped DEF Ticket
  <2>3. c \in AuthCall /\ c.step = "delete" /\ c.of = t.of /\ c.slot = t.slot
    <3> DEFINE owner == challenges[t.of].owner
    <3>1. owner \in BOOLEAN /\ t.of \in Nat
      BY <1>0, <2>2
    <3> HIDE DEF owner
    <3> QED BY <1>0, <2>2, <3>1 DEF AuthCall, AuthSteps
  <2>4. Enter(s, c) /\ UNCHANGED <<member, challenges, tickets, usable, settled, spent>>
    BY <1>10 DEF ResetPassword
  <2> HIDE DEF c
  <2>5. Sound(c)
    BY <1>0, <2>2, <2>3 DEF Sound, QuietSteps
  <2> QED BY <2>4, <2>5, QuietStep
<1>11. CASE ChangePassword(s)
  <2> DEFINE c == [authCalls[s] EXCEPT !.step = "write"]
  <2>1. authCalls[s].of = 0
    BY <1>11 DEF ChangePassword, CredIInv, CallsPoint
  <2>2. Sound(c)
    BY <1>0, <2>1 DEF Sound, QuietSteps, AuthCall, AuthSteps
  <2>3. Enter(s, c) /\ UNCHANGED <<member, challenges, tickets, usable, settled, spent>>
    BY <1>11 DEF ChangePassword, GoTo
  <2> HIDE DEF c
  <2> QED BY <2>2, <2>3, QuietStep
<1>12. CASE AbandonSignIn(s)
  BY <1>0, <1>12, QuietStep DEF AbandonSignIn, Leave
<1> QED BY <1>1, <1>2, <1>3, <1>4, <1>5, <1>6, <1>7, <1>8, <1>9, <1>10, <1>11, <1>12
        DEF Reading

-----------------------------------------------------------------------------
(* What the steps that write leave alone. *)

\* No call but those that were guessing is guessing, and the guesses stay counted.
LEMMA GuessesKept ==
  ASSUME CredIInv, DOMAIN challenges' = DOMAIN challenges,
         \A i \in DOMAIN challenges : challenges'[i].attempts = challenges[i].attempts,
         \A r \in Slots : At(r, "attempt")' =>
                            At(r, "attempt") /\ authCalls'[r].of = authCalls[r].of
  PROVE  GuessesCounted'
<1> SUFFICES ASSUME NEW i \in DOMAIN challenges
             PROVE  challenges[i].attempts + Cardinality(Guessing(i)')
                      < MaxAttempts + Cardinality(Slots)
  BY DEF GuessesCounted
<1>1. challenges[i].attempts \in Nat /\ MaxAttempts \in Nat
  BY ChallengeTyped, CredentialsAssumption DEF CredIInv
<1>2. Guessing(i)' \subseteq Guessing(i)
  BY DEF Guessing
<1>3. Cardinality(Guessing(i)') <= Cardinality(Guessing(i))
  BY <1>2, FewerGuessing
<1>4. challenges[i].attempts + Cardinality(Guessing(i)) < MaxAttempts + Cardinality(Slots)
  BY DEF CredIInv, GuessesCounted
<1> QED BY <1>1, <1>3, <1>4, GuessingFinite, GuessingFinitePrime

\* A call is about a ticket only if it was.
SameTicket(r) ==
  /\ Minting(r)' => Minting(r) /\ authCalls'[r].of = authCalls[r].of
  /\ Holding(r)' => Holding(r) /\ TicketOf(r)' = TicketOf(r)
SameMint(r) ==
  /\ SameTicket(r)
  /\ At(r, "ticket")' => At(r, "ticket")
  /\ Writing(r)' => Writing(r)

BurntStayBurnt ==
  /\ DOMAIN challenges \subseteq DOMAIN challenges'
  /\ \A i \in DOMAIN challenges : challenges[i].consumed => challenges'[i].consumed

LEMMA MintSlot ==
  ASSUME CredIInv, NEW t \in Minted
  PROVE  /\ t \in Ticket /\ t.slot \in Slots
         /\ t.of \in DOMAIN challenges /\ challenges[t.of].consumed
         /\ ~(Minting(t.slot) /\ authCalls[t.slot].of = t.of)
<1>1. t \in Ticket
  BY DEF CredIInv, CredTypeOK, Minted, TicketOf, Ticket, AuthCall
<1> QED BY <1>1 DEF CredIInv, MintedOnce, Ticket

LEMMA MintedKept ==
  ASSUME CredIInv, BurntStayBurnt, tickets' \subseteq Minted, spent' \subseteq Minted,
         \A r \in Slots : SameTicket(r)
  PROVE  MintedOnce'
<1>1. Minted' \subseteq Minted
  BY DEF Minted, SameTicket
<1> SUFFICES ASSUME NEW t \in Minted'
             PROVE  /\ t.of \in DOMAIN challenges' /\ challenges'[t.of].consumed
                    /\ ~(Minting(t.slot)' /\ authCalls'[t.slot].of = t.of)
  BY DEF MintedOnce
<1> QED BY <1>1, MintSlot DEF BurntStayBurnt, SameTicket

LEMMA TicketsKept ==
  ASSUME CredIInv, BurntStayBurnt, tickets' \subseteq tickets, spent' = spent,
         \A r \in Slots : SameMint(r)
  PROVE  MintedOnce' /\ TicketsGone'
<1>1. tickets' \subseteq Minted /\ spent' \subseteq Minted
  BY DEF Minted
<1>2. MintedOnce'
  BY <1>1, MintedKept DEF SameMint
<1>3. TicketsGone'
  <2>1. ASSUME NEW r \in Slots, At(r, "ticket")'
        PROVE  challenges'[authCalls'[r].of].consumed
    <3>1. At(r, "ticket") /\ authCalls'[r].of = authCalls[r].of
      BY <2>1 DEF SameMint, SameTicket, Minting
    <3>2. authCalls[r].of \in DOMAIN challenges /\ challenges[authCalls[r].of].consumed
      BY <3>1 DEF CredIInv, CredTypeOK, CallsPoint, TicketsGone, At
    <3> QED BY <3>1, <3>2 DEF BurntStayBurnt
  <2>2. ASSUME NEW r \in Slots, Writing(r)'
        PROVE  TicketOf(r)' \notin tickets'
    BY <2>2 DEF SameMint, SameTicket, Holding, CredIInv, TicketsGone
  <2>3. spent' \cap tickets' = {}
    BY DEF CredIInv, TicketsGone
  <2> QED BY <2>1, <2>2, <2>3 DEF TicketsGone
<1> QED BY <1>2, <1>3

\* What is known of revocations and sessions, when none begins, ends or is issued.
SameProof(r) ==
  /\ At(r, "revoke")' => At(r, "revoke") /\ authCalls'[r].epoch = authCalls[r].epoch
  /\ At(r, "issue")' => At(r, "issue") /\ authCalls'[r] = authCalls[r]

LEMMA RevocationsKept ==
  ASSUME CredIInv, member'.epoch = member.epoch, settled' = settled,
         \A r \in Slots : SameProof(r)
  PROVE  /\ RevocationsKnown' /\ IssuesKnown'
         /\ usable' = usable => SurvivorsWereInFlight'
BY DEF SameProof, CredIInv, RevocationsKnown, IssuesKnown, SurvivorsWereInFlight, At

\* A call that ends takes no part in anything any more.
LEMMA LeaveFrame ==
  ASSUME CredIInv, NEW s \in Slots, Leave(s),
         Len(challenges') \in Nat, Len(challenges) <= Len(challenges')
  PROVE  /\ authCalls' \in [Slots -> AuthCall]
         /\ CallsPoint'
         /\ \A r \in Slots : SameMint(r) /\ SameProof(r)
         /\ \A r \in Slots : At(r, "attempt")' =>
                               At(r, "attempt") /\ authCalls'[r].of = authCalls[r].of
<1>1. /\ Resting(s) \in AuthCall /\ Resting(s).step = "idle" /\ Resting(s).of = 0
      /\ Len(challenges) \in Nat
  BY RestingTyped, SoundResting
<1>2. /\ authCalls' \in [Slots -> AuthCall]
      /\ authCalls'[s] = Resting(s)
      /\ \A r \in Slots \ {s} : authCalls'[r] = authCalls[r]
  BY <1>1, EnterFrame DEF CredIInv, Leave
<1>3. CallsPoint'
  <2> SUFFICES ASSUME NEW r \in Slots
               PROVE  /\ authCalls'[r].of \in 0..Len(challenges')
                      /\ authCalls'[r].step \in {"resend", "check", "attempt", "burn", "admit",
                           "ticket", "delete"} => authCalls'[r].of # 0
                      /\ authCalls'[r].step = "idle" => authCalls'[r].of = 0
    BY DEF CallsPoint, Free
  <2>1. CASE r = s
    BY <1>1, <1>2, <2>1
  <2>2. CASE r # s
    BY <1>1, <1>2, <2>2 DEF CredIInv, CallsPoint, Free
  <2> QED BY <2>1, <2>2
<1>4. ASSUME NEW r \in Slots PROVE SameMint(r) /\ SameProof(r)
  <2>1. CASE r = s
    BY <1>1, <1>2, <2>1 DEF SameMint, SameTicket, SameProof, Minting, Holding, Writing, At
  <2>2. CASE r # s
    BY <1>2, <2>2 DEF SameMint, SameTicket, SameProof, Minting, Holding, Writing, At, TicketOf
  <2> QED BY <2>1, <2>2
<1> QED BY <1>1, <1>2, <1>3, <1>4 DEF At

-----------------------------------------------------------------------------
(* Steps that write challenges. *)

LEMMA CreateKeeps == ASSUME CredIInv, NEW s \in Slots, CreateChallenge(s) PROVE CredIInv'
<1> DEFINE row == [purpose |-> authCalls[s].purpose, age |-> "new", attempts |-> 0,
                   consumed |-> FALSE, owner |-> authCalls[s].owner,
                   vouched |-> authCalls[s].vouched]
<1>1. /\ challenges' = Append(challenges, row) /\ Leave(s)
      /\ UNCHANGED <<member, tickets, usable, settled, spent>>
  BY DEF CreateChallenge
<1>2. CredTypeOK /\ challenges \in Seq(Challenge) /\ authCalls[s] \in AuthCall
  BY DEF CredIInv, CredTypeOK
<1>3. row \in Challenge /\ row.attempts = 0
  BY <1>2 DEF Challenge, AuthCall, Ages
<1> HIDE DEF row
<1>4. /\ challenges' \in Seq(Challenge) /\ Len(challenges) \in Nat
      /\ Len(challenges') = Len(challenges) + 1
      /\ DOMAIN challenges' = 1..(Len(challenges) + 1) /\ DOMAIN challenges = 1..Len(challenges)
      /\ \A i \in DOMAIN challenges : challenges'[i] = challenges[i]
      /\ challenges'[Len(challenges) + 1] = row
  BY <1>1, <1>2, <1>3
<1>5. /\ authCalls' \in [Slots -> AuthCall]
      /\ CallsPoint'
      /\ \A r \in Slots : SameMint(r) /\ SameProof(r)
      /\ \A r \in Slots : At(r, "attempt")' =>
                            At(r, "attempt") /\ authCalls'[r].of = authCalls[r].of
  BY <1>1, <1>4, LeaveFrame
<1>6. CredTypeOK'
  BY <1>1, <1>2, <1>4, <1>5 DEF CredTypeOK
<1>7. GuessesCounted'
  <2> SUFFICES ASSUME NEW i \in DOMAIN challenges'
               PROVE  challenges'[i].attempts + Cardinality(Guessing(i)')
                        < MaxAttempts + Cardinality(Slots)
    BY DEF GuessesCounted
  <2>1. /\ MaxAttempts \in Nat /\ MaxAttempts > 0
        /\ Cardinality(Slots) \in Nat
        /\ Cardinality(Guessing(i)') \in Nat
        /\ Cardinality(Guessing(i)') <= Cardinality(Slots)
    BY CredentialsAssumption, GuessingFinite, GuessingFinitePrime
  <2>2. CASE i \in DOMAIN challenges
    <3>1. Guessing(i)' \subseteq Guessing(i)
      BY <1>5 DEF Guessing
    <3>2. Cardinality(Guessing(i)') <= Cardinality(Guessing(i))
      BY <3>1, FewerGuessing
    <3>3. challenges[i].attempts + Cardinality(Guessing(i)) < MaxAttempts + Cardinality(Slots)
      BY <2>2 DEF CredIInv, GuessesCounted
    <3>4. challenges'[i].attempts = challenges[i].attempts /\ challenges[i].attempts \in Nat
      BY <1>2, <1>4, <2>2, ChallengeTyped
    <3> QED BY <2>1, <3>2, <3>3, <3>4, GuessingFinite
  <2>3. CASE i = Len(challenges) + 1
    BY <1>3, <1>4, <2>1, <2>3
  <2> QED BY <1>4, <2>2, <2>3
<1>8. MintedOnce' /\ TicketsGone'
  BY <1>1, <1>4, <1>5, TicketsKept DEF BurntStayBurnt
<1>9. RevocationsKnown' /\ IssuesKnown' /\ SurvivorsWereInFlight'
  BY <1>1, <1>5, RevocationsKept
<1> QED BY <1>5, <1>6, <1>7, <1>8, <1>9 DEF CredIInv

\* A write to one existing challenge that burns nothing back.
LEMMA ChallengeWritten ==
  ASSUME CredTypeOK, NEW i \in DOMAIN challenges, NEW row \in Challenge,
         challenges' = [challenges EXCEPT ![i] = row],
         challenges[i].consumed => row.consumed
  PROVE  /\ challenges' \in Seq(Challenge)
         /\ DOMAIN challenges' = DOMAIN challenges /\ Len(challenges') = Len(challenges)
         /\ Len(challenges) \in Nat
         /\ challenges'[i] = row
         /\ \A j \in DOMAIN challenges \ {i} : challenges'[j] = challenges[j]
         /\ BurntStayBurnt
<1>1. challenges \in Seq(Challenge)
  BY DEF CredTypeOK
<1>2. /\ challenges' \in Seq(Challenge)
      /\ DOMAIN challenges' = DOMAIN challenges /\ Len(challenges') = Len(challenges)
      /\ Len(challenges) \in Nat
      /\ challenges'[i] = row
      /\ \A j \in DOMAIN challenges \ {i} : challenges'[j] = challenges[j]
  BY <1>1
<1> QED BY <1>2 DEF BurntStayBurnt

LEMMA ResendKeeps == ASSUME CredIInv, NEW s \in Slots, ResendChallenge(s) PROVE CredIInv'
<1> DEFINE i == authCalls[s].of
           row == [challenges[i] EXCEPT !.age = "new", !.attempts = 0]
<1>1. Leave(s) /\ UNCHANGED <<member, tickets, usable, settled, spent>>
  BY DEF ResendChallenge
<1>2. CredTypeOK /\ i \in DOMAIN challenges
  BY DEF ResendChallenge, CredIInv, CredTypeOK, CallsPoint, At
<1>3. row \in Challenge /\ row.attempts = 0 /\ row.consumed = challenges[i].consumed
  BY <1>2, ChallengeTyped DEF Challenge, Ages
<1>4. challenges' = [challenges EXCEPT ![i] = row]
  BY <1>2 DEF ResendChallenge, CredTypeOK
<1> HIDE DEF row, i
<1>5. /\ challenges' \in Seq(Challenge)
      /\ DOMAIN challenges' = DOMAIN challenges /\ Len(challenges') = Len(challenges)
      /\ Len(challenges) \in Nat
      /\ challenges'[i] = row
      /\ \A j \in DOMAIN challenges \ {i} : challenges'[j] = challenges[j]
      /\ BurntStayBurnt
  BY <1>2, <1>3, <1>4, ChallengeWritten
<1>6. /\ authCalls' \in [Slots -> AuthCall]
      /\ CallsPoint'
      /\ \A r \in Slots : SameMint(r) /\ SameProof(r)
      /\ \A r \in Slots : At(r, "attempt")' =>
                            At(r, "attempt") /\ authCalls'[r].of = authCalls[r].of
  BY <1>1, <1>5, LeaveFrame
<1>7. CredTypeOK'
  BY <1>1, <1>2, <1>5, <1>6 DEF CredTypeOK
<1>8. GuessesCounted'
  <2> SUFFICES ASSUME NEW j \in DOMAIN challenges
               PROVE  challenges'[j].attempts + Cardinality(Guessing(j)')
                        < MaxAttempts + Cardinality(Slots)
    BY <1>5 DEF GuessesCounted
  <2>1. /\ MaxAttempts \in Nat /\ MaxAttempts > 0
        /\ Cardinality(Slots) \in Nat
        /\ Cardinality(Guessing(j)') \in Nat
        /\ Cardinality(Guessing(j)') <= Cardinality(Slots)
    BY CredentialsAssumption, GuessingFinite, GuessingFinitePrime
  <2>2. CASE j # i
    <3>1. Guessing(j)' \subseteq Guessing(j)
      BY <1>6 DEF Guessing
    <3>2. Cardinality(Guessing(j)') <= Cardinality(Guessing(j))
      BY <3>1, FewerGuessing
    <3>3. challenges[j].attempts + Cardinality(Guessing(j)) < MaxAttempts + Cardinality(Slots)
      BY DEF CredIInv, GuessesCounted
    <3>4. challenges'[j].attempts = challenges[j].attempts /\ challenges[j].attempts \in Nat
      BY <1>2, <1>5, <2>2, ChallengeTyped
    <3> QED BY <2>1, <3>2, <3>3, <3>4, GuessingFinite
  <2>3. CASE j = i
    BY <1>3, <1>5, <2>1, <2>3
  <2> QED BY <2>2, <2>3
<1>9. MintedOnce' /\ TicketsGone'
  BY <1>1, <1>5, <1>6, TicketsKept
<1>10. RevocationsKnown' /\ IssuesKnown' /\ SurvivorsWereInFlight'
  BY <1>1, <1>6, RevocationsKept
<1> QED BY <1>6, <1>7, <1>8, <1>9, <1>10 DEF CredIInv

\* A call that goes on to another step keeps what it has read.
LEMMA GoToFrame ==
  ASSUME CredIInv, NEW s \in Slots, NEW step \in AuthSteps, GoTo(s, step)
  PROVE  /\ authCalls' \in [Slots -> AuthCall]
         /\ authCalls'[s] = [authCalls[s] EXCEPT !.step = step]
         /\ authCalls'[s].step = step /\ authCalls'[s].of = authCalls[s].of
         /\ TicketOf(s)' = TicketOf(s)
         /\ \A r \in Slots \ {s} : authCalls'[r] = authCalls[r]
         /\ \A r \in Slots \ {s} : SameMint(r) /\ SameProof(r)
<1> DEFINE c == [authCalls[s] EXCEPT !.step = step]
<1>1. authCalls[s] \in AuthCall
  BY DEF CredIInv, CredTypeOK
<1>2. /\ c \in AuthCall /\ c.step = step /\ c.of = authCalls[s].of
      /\ c.slot = authCalls[s].slot
  BY <1>1 DEF AuthCall
<1> HIDE DEF c
<1>3. /\ authCalls' \in [Slots -> AuthCall]
      /\ authCalls'[s] = c
      /\ \A r \in Slots \ {s} : authCalls'[r] = authCalls[r]
  BY <1>2, EnterFrame DEF CredIInv, GoTo, c
<1>4. ASSUME NEW r \in Slots \ {s} PROVE SameMint(r) /\ SameProof(r)
  BY <1>3 DEF SameMint, SameTicket, SameProof, Minting, Holding, Writing, At, TicketOf
<1> QED BY <1>2, <1>3, <1>4 DEF TicketOf, c

LEMMA CountKeeps == ASSUME CredIInv, NEW s \in Slots, CountAttempt(s) PROVE CredIInv'
<1> DEFINE i == authCalls[s].of
           row == [challenges[i] EXCEPT !.attempts = @ + 1]
<1>1. /\ UNCHANGED <<member, tickets, usable, settled, spent>>
      /\ At(s, "attempt")
  BY DEF CountAttempt
<1>2. CredTypeOK /\ i \in DOMAIN challenges /\ i \in 0..Len(challenges) /\ i # 0
  BY DEF CountAttempt, CredIInv, CredTypeOK, CallsPoint, At
<1>3. /\ row \in Challenge /\ row.attempts = challenges[i].attempts + 1
      /\ row.consumed = challenges[i].consumed /\ challenges[i].attempts \in Nat
  BY <1>2, ChallengeTyped DEF Challenge
<1>4. challenges' = [challenges EXCEPT ![i] = row]
  BY <1>2 DEF CountAttempt, CredTypeOK
<1>5. IF authCalls[s].right THEN GoTo(s, "burn") ELSE Leave(s)
  BY DEF CountAttempt
<1> HIDE DEF row, i
<1>6. /\ challenges' \in Seq(Challenge)
      /\ DOMAIN challenges' = DOMAIN challenges /\ Len(challenges') = Len(challenges)
      /\ Len(challenges) \in Nat
      /\ challenges'[i] = row
      /\ \A j \in DOMAIN challenges \ {i} : challenges'[j] = challenges[j]
      /\ BurntStayBurnt
  BY <1>2, <1>3, <1>4, ChallengeWritten
<1>7. /\ authCalls' \in [Slots -> AuthCall]
      /\ CallsPoint'
      /\ \A r \in Slots : SameMint(r) /\ SameProof(r)
      /\ \A r \in Slots : At(r, "attempt")' =>
                            r # s /\ At(r, "attempt") /\ authCalls'[r].of = authCalls[r].of
  <2>1. CASE authCalls[s].right
    <3>1. "burn" \in AuthSteps
      BY DEF AuthSteps
    <3>2. /\ authCalls' \in [Slots -> AuthCall]
          /\ authCalls'[s].step = "burn" /\ authCalls'[s].of = authCalls[s].of
          /\ \A r \in Slots \ {s} : authCalls'[r] = authCalls[r]
          /\ \A r \in Slots \ {s} : SameMint(r) /\ SameProof(r)
      BY <1>5, <2>1, <3>1, GoToFrame
    <3>3. SameMint(s) /\ SameProof(s)
      BY <1>1, <3>2 DEF SameMint, SameTicket, SameProof, Minting, Holding, Writing, At
    <3>4. CallsPoint'
      BY <1>2, <1>6, <3>2 DEF CredIInv, CallsPoint, Free, i
    <3> QED BY <3>2, <3>3, <3>4 DEF At
  <2>2. CASE ~authCalls[s].right
    <3>1. Leave(s) /\ Len(challenges') \in Nat /\ Len(challenges) <= Len(challenges')
      BY <1>5, <1>6, <2>2
    <3>2. authCalls'[s].step = "idle"
      BY <1>2, <3>1, RestingTyped, EnterFrame DEF Leave
    <3> QED BY <3>1, <3>2, LeaveFrame DEF At
  <2> QED BY <2>1, <2>2
<1>8. CredTypeOK'
  BY <1>1, <1>2, <1>6, <1>7 DEF CredTypeOK
<1>9. GuessesCounted'
  <2> SUFFICES ASSUME NEW j \in DOMAIN challenges
               PROVE  challenges'[j].attempts + Cardinality(Guessing(j)')
                        < MaxAttempts + Cardinality(Slots)
    BY <1>6 DEF GuessesCounted
  <2>1. /\ MaxAttempts \in Nat
        /\ Cardinality(Slots) \in Nat
        /\ Cardinality(Guessing(j)') \in Nat
        /\ IsFiniteSet(Guessing(j)) /\ Cardinality(Guessing(j)) \in Nat
    BY CredentialsAssumption, GuessingFinite, GuessingFinitePrime
  <2>2. challenges[j].attempts + Cardinality(Guessing(j)) < MaxAttempts + Cardinality(Slots)
    BY DEF CredIInv, GuessesCounted
  <2>3. challenges[j].attempts \in Nat
    BY <1>2, ChallengeTyped
  <2>4. CASE j # i
    <3>1. Guessing(j)' \subseteq Guessing(j)
      BY <1>7 DEF Guessing
    <3>2. Cardinality(Guessing(j)') <= Cardinality(Guessing(j))
      BY <3>1, FewerGuessing
    <3> QED BY <1>6, <2>1, <2>2, <2>3, <2>4, <3>2
  <2>5. CASE j = i
    <3>1. s \in Guessing(j) /\ Guessing(j)' \subseteq Guessing(j) \ {s}
      BY <1>1, <1>7, <2>5 DEF Guessing, i
    <3>2. IsFiniteSet(Guessing(j) \ {s})
          /\ Cardinality(Guessing(j) \ {s}) = Cardinality(Guessing(j)) - 1
      BY <2>1, <3>1, FS_RemoveElement
    <3>3. Cardinality(Guessing(j)') <= Cardinality(Guessing(j)) - 1
      BY <3>1, <3>2, FS_Subset
    <3> QED BY <1>3, <1>6, <2>1, <2>2, <2>3, <2>5, <3>3
  <2> QED BY <2>4, <2>5
<1>10. MintedOnce' /\ TicketsGone'
  BY <1>1, <1>6, <1>7, TicketsKept
<1>11. RevocationsKnown' /\ IssuesKnown' /\ SurvivorsWereInFlight'
  BY <1>1, <1>7, RevocationsKept
<1> QED BY <1>7, <1>8, <1>9, <1>10, <1>11 DEF CredIInv

LEMMA BurnKeeps == ASSUME CredIInv, NEW s \in Slots, BurnChallenge(s) PROVE CredIInv'
<1> DEFINE i == authCalls[s].of
           row == [challenges[i] EXCEPT !.consumed = TRUE]
           step == IF authCalls[s].purpose = "PASSWORD_RESET" THEN "ticket" ELSE "admit"
<1>1. /\ UNCHANGED <<member, tickets, usable, settled, spent>>
      /\ At(s, "burn")
  BY DEF BurnChallenge
<1>2. CredTypeOK /\ i \in DOMAIN challenges /\ i \in 0..Len(challenges) /\ i # 0
  BY DEF BurnChallenge, CredIInv, CredTypeOK, CallsPoint, At
<1>3. row \in Challenge /\ row.attempts = challenges[i].attempts /\ row.consumed
  BY <1>2, ChallengeTyped DEF Challenge
<1>4. challenges' = [challenges EXCEPT ![i] = row] /\ GoTo(s, step)
  BY <1>2 DEF BurnChallenge, CredTypeOK
<1>5. step \in AuthSteps /\ step \in {"ticket", "admit"}
  BY DEF AuthSteps
<1> HIDE DEF row, i, step
<1>6. /\ challenges' \in Seq(Challenge)
      /\ DOMAIN challenges' = DOMAIN challenges /\ Len(challenges') = Len(challenges)
      /\ Len(challenges) \in Nat
      /\ challenges'[i] = row
      /\ \A j \in DOMAIN challenges \ {i} : challenges'[j] = challenges[j]
      /\ BurntStayBurnt
  BY <1>2, <1>3, <1>4, ChallengeWritten
<1>7. /\ authCalls' \in [Slots -> AuthCall]
      /\ authCalls'[s].step = step /\ authCalls'[s].of = i
      /\ \A r \in Slots \ {s} : authCalls'[r] = authCalls[r]
      /\ \A r \in Slots \ {s} : SameMint(r) /\ SameProof(r)
  BY <1>4, <1>5, GoToFrame DEF i
<1>8. CredTypeOK'
  BY <1>1, <1>2, <1>6, <1>7 DEF CredTypeOK
<1>9. CallsPoint'
  BY <1>2, <1>5, <1>6, <1>7 DEF CredIInv, CallsPoint, Free
<1>10. GuessesCounted'
  <2>1. \A r \in Slots : At(r, "attempt")' =>
                           At(r, "attempt") /\ authCalls'[r].of = authCalls[r].of
    BY <1>5, <1>7 DEF At
  <2>2. \A j \in DOMAIN challenges : challenges'[j].attempts = challenges[j].attempts
    BY <1>3, <1>6
  <2> QED BY <1>6, <2>1, <2>2, GuessesKept
<1>11. SameTicket(s) /\ SameProof(s)
  BY <1>1, <1>5, <1>7 DEF SameTicket, SameProof, Minting, Holding, Writing, At, i
<1>12. MintedOnce'
  <2>1. tickets' \subseteq Minted /\ spent' \subseteq Minted
    BY <1>1 DEF Minted
  <2> QED BY <1>6, <1>7, <1>11, <2>1, MintedKept DEF SameMint
<1>13. TicketsGone'
  <2>1. ASSUME NEW r \in Slots, At(r, "ticket")'
        PROVE  challenges'[authCalls'[r].of].consumed
    <3>1. CASE r = s
      BY <1>3, <1>6, <1>7, <3>1
    <3>2. CASE r # s
      <4>1. At(r, "ticket") /\ authCalls'[r].of = authCalls[r].of
        BY <1>7, <2>1, <3>2 DEF At
      <4>2. authCalls[r].of \in DOMAIN challenges /\ challenges[authCalls[r].of].consumed
        BY <4>1 DEF CredIInv, CredTypeOK, CallsPoint, TicketsGone, At
      <4> QED BY <1>6, <4>1, <4>2 DEF BurntStayBurnt
    <3> QED BY <3>1, <3>2
  <2>2. ASSUME NEW r \in Slots, Writing(r)' PROVE TicketOf(r)' \notin tickets'
    BY <1>1, <1>5, <1>7, <2>2 DEF Writing, At, TicketOf, CredIInv, TicketsGone
  <2> QED BY <1>1, <2>1, <2>2 DEF CredIInv, TicketsGone
<1>14. RevocationsKnown' /\ IssuesKnown' /\ SurvivorsWereInFlight'
  BY <1>1, <1>7, <1>11, RevocationsKept
<1> QED BY <1>8, <1>9, <1>10, <1>12, <1>13, <1>14 DEF CredIInv

LEMMA AgesKeep ==
  ASSUME CredIInv, NEW i \in DOMAIN challenges, ChallengeAges(i) PROVE CredIInv'
<1> DEFINE row == [challenges[i] EXCEPT
                     !.age = IF challenges[i].age = "new" THEN "cool" ELSE "expired"]
<1>1. UNCHANGED <<member, tickets, usable, authCalls, settled, spent>>
  BY DEF ChallengeAges
<1>2. CredTypeOK
  BY DEF CredIInv
<1>3. /\ row \in Challenge /\ row.attempts = challenges[i].attempts
      /\ row.consumed = challenges[i].consumed
  BY <1>2, ChallengeTyped DEF Challenge, Ages
<1>4. challenges' = [challenges EXCEPT ![i] = row]
  BY <1>2 DEF ChallengeAges, CredTypeOK
<1> HIDE DEF row
<1>5. /\ challenges' \in Seq(Challenge)
      /\ DOMAIN challenges' = DOMAIN challenges /\ Len(challenges') = Len(challenges)
      /\ challenges'[i] = row
      /\ \A j \in DOMAIN challenges \ {i} : challenges'[j] = challenges[j]
      /\ BurntStayBurnt
  BY <1>2, <1>3, <1>4, ChallengeWritten
<1>6. CredTypeOK'
  BY <1>1, <1>2, <1>5 DEF CredTypeOK
<1>7. CallsPoint'
  BY <1>1, <1>5 DEF CredIInv, CallsPoint, Free
<1>8. GuessesCounted'
  BY <1>1, <1>3, <1>5, GuessesKept DEF At
<1>9. MintedOnce' /\ TicketsGone'
  <2>1. \A r \in Slots : SameMint(r)
    BY <1>1 DEF SameMint, SameTicket, Minting, Holding, Writing, At, TicketOf
  <2> QED BY <1>1, <1>5, <2>1, TicketsKept
<1>10. RevocationsKnown' /\ IssuesKnown' /\ SurvivorsWereInFlight'
  <2>1. \A r \in Slots : SameProof(r)
    BY <1>1 DEF SameProof, At
  <2> QED BY <1>1, <2>1, RevocationsKept
<1> QED BY <1>6, <1>7, <1>8, <1>9, <1>10 DEF CredIInv

-----------------------------------------------------------------------------
(* Steps that leave the challenges and write the rest. *)

LEMMA TicketExpiresKeeps ==
  ASSUME CredIInv, NEW t \in tickets, TicketExpires(t) PROVE CredIInv'
<1>1. UNCHANGED <<member, challenges, usable, authCalls, settled, spent>>
      /\ tickets' \subseteq tickets
  BY DEF TicketExpires
<1>2. CredTypeOK' /\ CallsPoint'
  BY <1>1 DEF CredIInv, CredTypeOK, CallsPoint, Free
<1>3. GuessesCounted'
  BY <1>1, GuessesKept DEF At
<1>4. MintedOnce' /\ TicketsGone'
  <2>1. \A r \in Slots : SameMint(r)
    BY <1>1 DEF SameMint, SameTicket, Minting, Holding, Writing, At, TicketOf
  <2> QED BY <1>1, <2>1, TicketsKept DEF BurntStayBurnt
<1>5. RevocationsKnown' /\ IssuesKnown' /\ SurvivorsWereInFlight'
  <2>1. \A r \in Slots : SameProof(r)
    BY <1>1 DEF SameProof, At
  <2> QED BY <1>1, <2>1, RevocationsKept
<1> QED BY <1>2, <1>3, <1>4, <1>5 DEF CredIInv

\* Steps on the member's row alone, whatever its epoch keeps.
LEMMA MemberKeeps ==
  ASSUME CredIInv, member' \in [status: {"NONE", "ACTIVE", "SUSPENDED"}, twoFactor: BOOLEAN,
                                epoch: Nat],
         member'.epoch = member.epoch,
         UNCHANGED <<challenges, tickets, usable, authCalls, settled, spent>>
  PROVE  CredIInv'
<1>1. CredTypeOK' /\ CallsPoint'
  BY DEF CredIInv, CredTypeOK, CallsPoint, Free
<1>2. GuessesCounted'
  BY GuessesKept DEF At
<1>3. MintedOnce' /\ TicketsGone'
  <2>1. \A r \in Slots : SameMint(r)
    BY DEF SameMint, SameTicket, Minting, Holding, Writing, At, TicketOf
  <2> QED BY <2>1, TicketsKept DEF BurntStayBurnt
<1>4. RevocationsKnown' /\ IssuesKnown' /\ SurvivorsWereInFlight'
  <2>1. \A r \in Slots : SameProof(r)
    BY DEF SameProof, At
  <2> QED BY <2>1, RevocationsKept
<1> QED BY <1>1, <1>2, <1>3, <1>4 DEF CredIInv

LEMMA RegisterKeeps == ASSUME CredIInv, NEW s \in Slots, RegisterMember(s) PROVE CredIInv'
<1>0. CredTypeOK /\ UNCHANGED <<challenges, tickets, usable, settled, spent>>
  BY DEF CredIInv, RegisterMember
<1>1. CASE member.status = "NONE"
  <2> DEFINE c == [authCalls[s] EXCEPT !.step = "issue", !.vouched = member.epoch,
                                       !.second = FALSE]
  <2>1. /\ authCalls[s] \in AuthCall /\ authCalls[s].of \in 0..Len(challenges)
        /\ member.epoch \in Nat
    BY DEF CredIInv, CredTypeOK, CallsPoint
  <2>2. /\ c \in AuthCall /\ c.step = "issue" /\ c.of = authCalls[s].of
        /\ c.vouched = member.epoch
    BY <2>1 DEF AuthCall, AuthSteps
  <2>3. Enter(s, c) /\ member' = [member EXCEPT !.status = "ACTIVE"]
    BY <1>1 DEF RegisterMember, Vouch
  <2>4. /\ member' \in [status: {"NONE", "ACTIVE", "SUSPENDED"}, twoFactor: BOOLEAN, epoch: Nat]
        /\ member'.epoch = member.epoch
    BY <1>0, <2>3 DEF CredTypeOK
  <2> HIDE DEF c
  <2>5. /\ authCalls' \in [Slots -> AuthCall]
        /\ authCalls'[s] = c
        /\ \A r \in Slots \ {s} : authCalls'[r] = authCalls[r]
    BY <1>0, <2>2, <2>3, EnterFrame
  <2>6. CredTypeOK'
    BY <1>0, <2>4, <2>5 DEF CredTypeOK
  <2>7. CallsPoint'
    BY <1>0, <2>1, <2>2, <2>5 DEF CredIInv, CallsPoint, Free
  <2>8. GuessesCounted'
    BY <1>0, <2>2, <2>5, GuessesKept DEF At
  <2>9. MintedOnce' /\ TicketsGone'
    <3>1. \A r \in Slots : SameMint(r)
      BY <2>2, <2>5 DEF SameMint, SameTicket, Minting, Holding, Writing, At, TicketOf
    <3> QED BY <1>0, <3>1, TicketsKept DEF BurntStayBurnt
  <2>10. RevocationsKnown' /\ IssuesKnown' /\ SurvivorsWereInFlight'
    BY <1>0, <2>1, <2>2, <2>4, <2>5
       DEF CredIInv, RevocationsKnown, IssuesKnown, SurvivorsWereInFlight, At
  <2> QED BY <2>6, <2>7, <2>8, <2>9, <2>10 DEF CredIInv
<1>2. CASE member.status # "NONE"
  <2>1. Leave(s) /\ UNCHANGED member
    BY <1>2 DEF RegisterMember
  <2> QED BY <1>0, <2>1, SoundResting, QuietStep DEF Leave
<1> QED BY <1>1, <1>2

LEMMA IssueKeeps == ASSUME CredIInv, NEW s \in Slots, IssueSession(s) PROVE CredIInv'
<1> DEFINE session == [vouched |-> authCalls[s].vouched, raced |-> authCalls[s].raced,
                       second |-> authCalls[s].second]
<1>0. /\ CredTypeOK /\ UNCHANGED <<member, challenges, tickets, settled, spent>>
      /\ Leave(s) /\ At(s, "issue") /\ usable' = usable \cup {session}
      /\ Len(challenges) \in Nat
  BY SoundResting DEF CredIInv, IssueSession
<1>1. /\ authCalls' \in [Slots -> AuthCall]
      /\ CallsPoint'
      /\ \A r \in Slots : SameMint(r) /\ SameProof(r)
      /\ \A r \in Slots : At(r, "attempt")' =>
                            At(r, "attempt") /\ authCalls'[r].of = authCalls[r].of
  BY <1>0, LeaveFrame
<1>2. /\ session \in Session /\ session.vouched \in Nat /\ member.epoch \in Nat /\ settled \in Nat
      /\ session.vouched < member.epoch => session.raced \/ session.second
  BY <1>0 DEF CredTypeOK, AuthCall, Session, CredIInv, IssuesKnown
<1> HIDE DEF session
<1>3. CredTypeOK'
  BY <1>0, <1>1, <1>2 DEF CredTypeOK
<1>4. GuessesCounted' /\ MintedOnce' /\ TicketsGone'
  BY <1>0, <1>1, GuessesKept, TicketsKept DEF BurntStayBurnt
<1>5. RevocationsKnown' /\ IssuesKnown'
  BY <1>0, <1>1, RevocationsKept
<1>6. SurvivorsWereInFlight'
  BY <1>0, <1>2 DEF CredIInv, SurvivorsWereInFlight, RevocationsKnown
<1> QED BY <1>1, <1>3, <1>4, <1>5, <1>6 DEF CredIInv

LEMMA RevokeKeeps == ASSUME CredIInv, NEW s \in Slots, RevokeSessions(s) PROVE CredIInv'
<1>0. /\ CredTypeOK /\ UNCHANGED <<member, challenges, tickets, spent>>
      /\ Leave(s) /\ At(s, "revoke") /\ usable' = {}
      /\ settled' = Larger(settled, authCalls[s].epoch)
      /\ Len(challenges) \in Nat
  BY SoundResting DEF CredIInv, RevokeSessions
<1>1. /\ authCalls' \in [Slots -> AuthCall]
      /\ CallsPoint'
      /\ \A r \in Slots : SameMint(r) /\ SameProof(r)
      /\ \A r \in Slots : At(r, "attempt")' =>
                            At(r, "attempt") /\ authCalls'[r].of = authCalls[r].of
  BY <1>0, LeaveFrame
<1>2. settled' \in Nat /\ settled' <= member.epoch
  BY <1>0 DEF CredTypeOK, AuthCall, Larger, CredIInv, RevocationsKnown
<1>3. CredTypeOK'
  BY <1>0, <1>1, <1>2 DEF CredTypeOK
<1>4. GuessesCounted' /\ MintedOnce' /\ TicketsGone'
  BY <1>0, <1>1, GuessesKept, TicketsKept DEF BurntStayBurnt
<1>5. RevocationsKnown' /\ IssuesKnown'
  BY <1>0, <1>1, <1>2 DEF SameProof, CredIInv, RevocationsKnown, IssuesKnown, At
<1>6. SurvivorsWereInFlight'
  BY <1>0 DEF SurvivorsWereInFlight
<1> QED BY <1>1, <1>3, <1>4, <1>5, <1>6 DEF CredIInv

LEMMA StoreKeeps == ASSUME CredIInv, NEW s \in Slots, StoreTicket(s) PROVE CredIInv'
<1> DEFINE new == [of |-> authCalls[s].of, slot |-> s]
<1>0. /\ CredTypeOK /\ UNCHANGED <<member, challenges, usable, settled, spent>>
      /\ Leave(s) /\ At(s, "ticket") /\ tickets' = tickets \cup {new}
      /\ Len(challenges) \in Nat
  BY SoundResting DEF CredIInv, StoreTicket
<1>1. /\ authCalls' \in [Slots -> AuthCall]
      /\ CallsPoint'
      /\ \A r \in Slots : SameMint(r) /\ SameProof(r)
      /\ \A r \in Slots : At(r, "attempt")' =>
                            At(r, "attempt") /\ authCalls'[r].of = authCalls[r].of
      /\ authCalls'[s].step = "idle"
  BY <1>0, LeaveFrame, RestingTyped, EnterFrame DEF Leave
<1>2. /\ new \in Ticket /\ new.slot = s /\ new.of = authCalls[s].of
      /\ new.of \in DOMAIN challenges /\ challenges[new.of].consumed
  BY <1>0 DEF Ticket, CredTypeOK, AuthCall, CredIInv, CallsPoint, TicketsGone, At
<1>3. new \notin Minted
  BY <1>0, <1>2, MintSlot DEF Minting
<1> HIDE DEF new
<1>4. CredTypeOK'
  BY <1>0, <1>1, <1>2 DEF CredTypeOK
<1>5. GuessesCounted'
  BY <1>0, <1>1, GuessesKept
<1>6. RevocationsKnown' /\ IssuesKnown' /\ SurvivorsWereInFlight'
  BY <1>0, <1>1, RevocationsKept
<1>7. Minted' \subseteq Minted \cup {new}
  BY <1>0, <1>1 DEF Minted, SameMint, SameTicket
<1>8. MintedOnce'
  <2> SUFFICES ASSUME NEW t \in Minted'
               PROVE  /\ t.of \in DOMAIN challenges /\ challenges[t.of].consumed
                      /\ ~(Minting(t.slot)' /\ authCalls'[t.slot].of = t.of)
    BY <1>0 DEF MintedOnce
  <2>1. CASE t = new
    BY <1>1, <1>2, <2>1 DEF Minting, At
  <2>2. CASE t \in Minted
    BY <1>1, <2>2, MintSlot DEF SameMint, SameTicket
  <2> QED BY <1>7, <2>1, <2>2
<1>9. TicketsGone'
  <2>1. ASSUME NEW r \in Slots, At(r, "ticket")'
        PROVE  challenges[authCalls'[r].of].consumed
    BY <1>1, <2>1 DEF SameMint, SameTicket, Minting, CredIInv, TicketsGone
  <2>2. ASSUME NEW r \in Slots, Writing(r)' PROVE TicketOf(r)' \notin tickets'
    <3>1. Writing(r) /\ TicketOf(r)' = TicketOf(r)
      BY <1>1, <2>2 DEF SameMint, SameTicket, Holding
    <3>2. TicketOf(r) \in Minted /\ TicketOf(r) \notin tickets
      BY <3>1 DEF Minted, Holding, CredIInv, TicketsGone
    <3> QED BY <1>0, <1>3, <3>1, <3>2
  <2>3. spent' \cap tickets' = {}
    BY <1>0, <1>3 DEF Minted, CredIInv, TicketsGone
  <2> QED BY <1>0, <2>1, <2>2, <2>3 DEF TicketsGone
<1> QED BY <1>1, <1>4, <1>5, <1>6, <1>8, <1>9 DEF CredIInv

LEMMA DeleteKeeps == ASSUME CredIInv, NEW s \in Slots, DeleteTicket(s) PROVE CredIInv'
<1>0. /\ CredTypeOK /\ UNCHANGED <<member, challenges, usable, settled, spent>>
      /\ At(s, "delete") /\ tickets' = tickets \ {TicketOf(s)}
      /\ Len(challenges) \in Nat
  BY SoundResting DEF CredIInv, DeleteTicket
<1>1. CASE authCalls[s].owner
  <2>0. "write" \in AuthSteps /\ GoTo(s, "write")
    BY <1>1 DEF AuthSteps, DeleteTicket
  <2>1. /\ authCalls' \in [Slots -> AuthCall]
        /\ authCalls'[s].step = "write" /\ authCalls'[s].of = authCalls[s].of
        /\ TicketOf(s)' = TicketOf(s)
        /\ \A r \in Slots \ {s} : authCalls'[r] = authCalls[r]
        /\ \A r \in Slots \ {s} : SameMint(r) /\ SameProof(r)
    BY <2>0, GoToFrame
  <2>2. SameTicket(s) /\ SameProof(s)
    BY <1>0, <2>1 DEF SameTicket, SameProof, Minting, Holding, At
  <2>3. CredTypeOK'
    BY <1>0, <2>1 DEF CredTypeOK
  <2>4. CallsPoint'
    BY <1>0, <2>1 DEF CredIInv, CallsPoint, Free
  <2>5. GuessesCounted'
    BY <1>0, <2>1, GuessesKept DEF At
  <2>6. MintedOnce'
    <3>1. tickets' \subseteq Minted /\ spent' \subseteq Minted
      BY <1>0 DEF Minted
    <3> QED BY <1>0, <2>1, <2>2, <3>1, MintedKept DEF BurntStayBurnt, SameMint
  <2>7. TicketsGone'
    <3>1. ASSUME NEW r \in Slots, At(r, "ticket")'
          PROVE  challenges[authCalls'[r].of].consumed
      BY <2>1, <3>1 DEF At, CredIInv, TicketsGone
    <3>2. ASSUME NEW r \in Slots, Writing(r)' PROVE TicketOf(r)' \notin tickets'
      <4>1. CASE r = s
        BY <1>0, <2>1, <4>1
      <4>2. CASE r # s
        BY <1>0, <2>1, <3>2, <4>2 DEF SameMint, SameTicket, Holding, CredIInv, TicketsGone
      <4> QED BY <4>1, <4>2
    <3> QED BY <1>0, <3>1, <3>2 DEF CredIInv, TicketsGone
  <2>8. RevocationsKnown' /\ IssuesKnown' /\ SurvivorsWereInFlight'
    BY <1>0, <2>1, <2>2, RevocationsKept
  <2> QED BY <2>3, <2>4, <2>5, <2>6, <2>7, <2>8 DEF CredIInv
<1>2. CASE ~authCalls[s].owner
  <2>0. Leave(s)
    BY <1>2 DEF DeleteTicket
  <2>1. /\ authCalls' \in [Slots -> AuthCall]
        /\ CallsPoint'
        /\ \A r \in Slots : SameMint(r) /\ SameProof(r)
        /\ \A r \in Slots : At(r, "attempt")' =>
                              At(r, "attempt") /\ authCalls'[r].of = authCalls[r].of
    BY <1>0, <2>0, LeaveFrame
  <2>2. CredTypeOK'
    BY <1>0, <2>1 DEF CredTypeOK
  <2>3. GuessesCounted' /\ MintedOnce' /\ TicketsGone'
    BY <1>0, <2>1, GuessesKept, TicketsKept DEF BurntStayBurnt
  <2>4. RevocationsKnown' /\ IssuesKnown' /\ SurvivorsWereInFlight'
    BY <1>0, <2>1, RevocationsKept
  <2> QED BY <2>1, <2>2, <2>3, <2>4 DEF CredIInv
<1> QED BY <1>1, <1>2

-----------------------------------------------------------------------------
(* Steps that begin a revocation: every call about to issue is caught by it. *)

LEMMA BeginKeeps ==
  ASSUME CredIInv, NEW s \in Slots, Begin(s), NEW status \in {"NONE", "ACTIVE", "SUSPENDED"},
         member' = [member EXCEPT !.epoch = @ + 1, !.status = status],
         UNCHANGED <<challenges, tickets, usable, settled>>,
         spent' = spent \/ (Writing(s) /\ spent' = spent \cup {TicketOf(s)})
  PROVE  CredIInv'
<1> DEFINE epoch == member.epoch + 1
           c == [Resting(s) EXCEPT !.step = "revoke", !.epoch = epoch]
           other(r) == [authCalls[r] EXCEPT !.raced = authCalls[r].step = "issue" \/ @]
<1>0. /\ CredTypeOK /\ member.epoch \in Nat /\ epoch \in Nat /\ settled \in Nat
      /\ settled <= member.epoch
  BY DEF CredIInv, CredTypeOK, RevocationsKnown
<1>1. authCalls' = [r \in Slots |-> IF r = s THEN c ELSE other(r)]
  BY DEF Begin
<1>2. c \in AuthCall /\ c.step = "revoke" /\ c.epoch = epoch /\ c.of = 0
  <2>1. epoch \in Nat /\ Resting(s) \in AuthCall /\ Resting(s).of = 0
    BY <1>0, RestingTyped
  <2> HIDE DEF epoch
  <2> QED BY <2>1 DEF AuthCall, AuthSteps
<1>3. ASSUME NEW r \in Slots
      PROVE  /\ other(r) \in AuthCall
             /\ other(r).step = authCalls[r].step /\ other(r).of = authCalls[r].of
             /\ other(r).slot = authCalls[r].slot /\ other(r).vouched = authCalls[r].vouched
             /\ other(r).second = authCalls[r].second /\ other(r).epoch = authCalls[r].epoch
             /\ authCalls[r].step = "issue" => other(r).raced
  <2> DEFINE raced == authCalls[r].step = "issue" \/ authCalls[r].raced
  <2>1. authCalls[r] \in AuthCall /\ raced \in BOOLEAN
    BY <1>0 DEF CredTypeOK
  <2>2. other(r) = [authCalls[r] EXCEPT !.raced = raced]
    BY <2>1 DEF AuthCall
  <2>3. authCalls[r].step = "issue" => raced
    OBVIOUS
  <2> HIDE DEF raced, other
  <2> QED BY <2>1, <2>2, <2>3 DEF AuthCall
<1> HIDE DEF c, other
<1>4. /\ authCalls' \in [Slots -> AuthCall]
      /\ authCalls'[s] = c
      /\ \A r \in Slots \ {s} : authCalls'[r] = other(r)
  BY <1>1, <1>2, <1>3
<1>5. /\ member' \in [status: {"NONE", "ACTIVE", "SUSPENDED"}, twoFactor: BOOLEAN, epoch: Nat]
      /\ member'.epoch = epoch
  BY <1>0 DEF CredTypeOK
<1>6. spent' \subseteq Minted
  BY DEF Minted, Holding
<1>7. CredTypeOK'
  <2>1. spent' \subseteq Ticket
    BY <1>6, MintSlot
  <2> QED BY <1>0, <1>4, <1>5, <2>1 DEF CredTypeOK
<1>8. CallsPoint'
  BY <1>2, <1>3, <1>4, SoundResting DEF CredIInv, CallsPoint, Free
<1>9. GuessesCounted'
  <2>1. \A r \in Slots : At(r, "attempt")' =>
                           At(r, "attempt") /\ authCalls'[r].of = authCalls[r].of
    BY <1>2, <1>3, <1>4 DEF At
  <2> QED BY <2>1, GuessesKept
<1>10. \A r \in Slots : SameMint(r)
  <2> SUFFICES ASSUME NEW r \in Slots PROVE SameMint(r)
    OBVIOUS
  <2>1. CASE r = s
    BY <1>2, <1>4, <2>1 DEF SameMint, SameTicket, Minting, Holding, Writing, At
  <2>2. CASE r # s
    BY <1>3, <1>4, <2>2 DEF SameMint, SameTicket, Minting, Holding, Writing, At, TicketOf
  <2> QED BY <2>1, <2>2
<1>11. MintedOnce'
  BY <1>6, <1>10, MintedKept DEF BurntStayBurnt, Minted, SameMint
<1>12. TicketsGone'
  <2>1. ASSUME NEW r \in Slots, At(r, "ticket")'
        PROVE  challenges[authCalls'[r].of].consumed
    BY <1>10, <2>1 DEF SameMint, SameTicket, Minting, CredIInv, TicketsGone
  <2>2. ASSUME NEW r \in Slots, Writing(r)' PROVE TicketOf(r)' \notin tickets
    BY <1>10, <2>2 DEF SameMint, SameTicket, Holding, CredIInv, TicketsGone
  <2>3. spent' \cap tickets = {}
    BY DEF CredIInv, TicketsGone
  <2> QED BY <2>1, <2>2, <2>3 DEF TicketsGone
<1>13. RevocationsKnown'
  <2>1. settled' <= member'.epoch
    BY <1>0, <1>5
  <2>2. ASSUME NEW r \in Slots, At(r, "revoke")' PROVE authCalls'[r].epoch <= member'.epoch
    <3>1. CASE r = s
      BY <1>0, <1>2, <1>4, <1>5, <3>1
    <3>2. CASE r # s
      <4>1. authCalls'[r].epoch = authCalls[r].epoch /\ At(r, "revoke")
        BY <1>3, <1>4, <2>2, <3>2 DEF At
      <4>2. authCalls[r].epoch \in Nat /\ authCalls[r].epoch <= member.epoch
        BY <1>0, <4>1 DEF CredTypeOK, AuthCall, CredIInv, RevocationsKnown
      <4> QED BY <1>0, <1>5, <4>1, <4>2
    <3> QED BY <3>1, <3>2
  <2> QED BY <2>1, <2>2 DEF RevocationsKnown
<1>14. IssuesKnown'
  BY <1>2, <1>3, <1>4 DEF IssuesKnown, At
<1>15. SurvivorsWereInFlight'
  BY DEF CredIInv, SurvivorsWereInFlight
<1> QED BY <1>7, <1>8, <1>9, <1>11, <1>12, <1>13, <1>14, <1>15 DEF CredIInv

-----------------------------------------------------------------------------

LEMMA CredInitial == CredInit => CredIInv
<1> SUFFICES ASSUME CredInit PROVE CredIInv
  OBVIOUS
<1>1. \A s \in Slots : Resting(s) \in AuthCall /\ Resting(s).step = "idle" /\ Resting(s).of = 0
  BY RestingTyped
<1>2. CredTypeOK
  <2>1. member \in [status: {"NONE", "ACTIVE", "SUSPENDED"}, twoFactor: BOOLEAN, epoch: Nat]
    <3>1. PICK status \in {"NONE", "ACTIVE"} :
            member = [status |-> status, twoFactor |-> FALSE, epoch |-> 0]
      BY DEF CredInit
    <3> QED BY <3>1
  <2>2. authCalls \in [Slots -> AuthCall]
    BY <1>1 DEF CredInit
  <2>3. challenges \in Seq(Challenge)
    BY DEF CredInit
  <2> QED BY <2>1, <2>2, <2>3 DEF CredInit, CredTypeOK
<1>3. /\ \A s \in Slots : authCalls[s].step = "idle" /\ authCalls[s].of = 0
      /\ challenges = <<>> /\ tickets = {} /\ spent = {} /\ usable = {} /\ settled = 0
      /\ member.epoch = 0
  BY <1>1 DEF CredInit
<1>4. CallsPoint /\ GuessesCounted
  BY <1>3 DEF CallsPoint, Free, GuessesCounted
<1>5. MintedOnce /\ TicketsGone
  BY <1>3 DEF MintedOnce, TicketsGone, Minted, Holding, Writing, At
<1>6. RevocationsKnown /\ IssuesKnown /\ SurvivorsWereInFlight
  BY <1>3 DEF RevocationsKnown, IssuesKnown, SurvivorsWereInFlight, At
<1> QED BY <1>2, <1>4, <1>5, <1>6 DEF CredIInv

LEMMA CredInductive == ASSUME CredIInv, [CredNext]_credVars PROVE CredIInv'
<1>0. CredTypeOK
  BY DEF CredIInv
<1>1. ASSUME NEW s \in Slots, Reading(s) PROVE CredIInv'
  BY <1>1, ReadingKeeps
<1>2. ASSUME NEW s \in Slots, CreateChallenge(s) PROVE CredIInv'
  BY <1>2, CreateKeeps
<1>3. ASSUME NEW s \in Slots, ResendChallenge(s) PROVE CredIInv'
  BY <1>3, ResendKeeps
<1>4. ASSUME NEW s \in Slots, CountAttempt(s) PROVE CredIInv'
  BY <1>4, CountKeeps
<1>5. ASSUME NEW s \in Slots, BurnChallenge(s) PROVE CredIInv'
  BY <1>5, BurnKeeps
<1>6. ASSUME NEW s \in Slots, RegisterMember(s) PROVE CredIInv'
  BY <1>6, RegisterKeeps
<1>7. ASSUME NEW s \in Slots, IssueSession(s) PROVE CredIInv'
  BY <1>7, IssueKeeps
<1>8. ASSUME NEW s \in Slots, NEW enabled \in BOOLEAN, SetTwoFactor(s, enabled) PROVE CredIInv'
  BY <1>0, <1>8, MemberKeeps DEF SetTwoFactor, CredTypeOK
<1>9. ASSUME NEW s \in Slots, StoreTicket(s) PROVE CredIInv'
  BY <1>9, StoreKeeps
<1>10. ASSUME NEW s \in Slots, DeleteTicket(s) PROVE CredIInv'
  BY <1>10, DeleteKeeps
<1>11. ASSUME NEW s \in Slots, WritePassword(s) PROVE CredIInv'
  <2>1. /\ member.status \in {"NONE", "ACTIVE", "SUSPENDED"}
        /\ member' = [member EXCEPT !.epoch = @ + 1, !.status = member.status]
    BY <1>0, <1>11 DEF WritePassword, CredTypeOK
  <2>2. spent' = spent \/ (Writing(s) /\ spent' = spent \cup {TicketOf(s)})
    BY <1>11 DEF WritePassword, Writing
  <2> QED BY <1>11, <2>1, <2>2, BeginKeeps DEF WritePassword
<1>12. ASSUME NEW s \in Slots, Suspend(s) PROVE CredIInv'
  BY <1>12, BeginKeeps DEF Suspend
<1>13. ASSUME NEW s \in Slots, RevokeSessions(s) PROVE CredIInv'
  BY <1>13, RevokeKeeps
<1>14. CASE Restore
  BY <1>0, <1>14, MemberKeeps DEF Restore, CredTypeOK
<1>15. ASSUME NEW i \in DOMAIN challenges, ChallengeAges(i) PROVE CredIInv'
  BY <1>15, AgesKeep
<1>16. ASSUME NEW t \in tickets, TicketExpires(t) PROVE CredIInv'
  BY <1>16, TicketExpiresKeeps
<1>17. CASE UNCHANGED credVars
  BY <1>0, <1>17, MemberKeeps DEF credVars, CredTypeOK
<1> QED BY <1>1, <1>2, <1>3, <1>4, <1>5, <1>6, <1>7, <1>8, <1>9, <1>10, <1>11, <1>12, <1>13,
           <1>14, <1>15, <1>16, <1>17
        DEF CredNext, Reading

(* Every reachable state of the credentials is well typed. *)
THEOREM CredTypeCorrect == CredSpec => []CredTypeOK
<1>1. CredIInv => CredTypeOK
  BY DEF CredIInv
<1> QED BY CredInitial, CredInductive, <1>1, PTL DEF CredSpec

(* However many calls overlap, a new password or a suspension that has revoked *)
(* the sessions leaves none that was earned before it, except what a call past *)
(* its check was about to issue and a second step still open from the old      *)
(* password (credentials.service.ts:421).                                      *)
THEOREM RevocationsBite == CredSpec => []SurvivorsWereInFlight
<1>1. CredIInv => SurvivorsWereInFlight
  BY DEF CredIInv
<1> QED BY CredInitial, CredInductive, <1>1, PTL DEF CredSpec

(* However many calls overlap, a code is guessed less than once more per call  *)
(* than the policy allows, and a ticket that a password was written with is    *)
(* gone for good (credentials.service.ts:338).                                 *)
THEOREM ProofsSpent == CredSpec => []ProofsAreSpent
<1>1. ASSUME CredIInv PROVE ProofsAreSpent
  <2>1. GuessesBounded
    <3> SUFFICES ASSUME NEW i \in DOMAIN challenges
                 PROVE  challenges[i].attempts < MaxAttempts + Cardinality(Slots)
      BY DEF GuessesBounded
    <3>1. challenges[i].attempts + Cardinality(Guessing(i)) < MaxAttempts + Cardinality(Slots)
      BY <1>1 DEF CredIInv, GuessesCounted
    <3>2. challenges[i].attempts \in Nat /\ MaxAttempts \in Nat
      BY <1>1, ChallengeTyped, CredentialsAssumption DEF CredIInv
    <3> QED BY <3>1, <3>2, GuessingFinite
  <2>2. SpentIsGone
    BY <1>1, MintSlot DEF SpentIsGone, CredIInv, TicketsGone, Minted
  <2> QED BY <2>1, <2>2 DEF ProofsAreSpent
<1> QED BY CredInitial, CredInductive, <1>1, PTL DEF CredSpec
=============================================================================
