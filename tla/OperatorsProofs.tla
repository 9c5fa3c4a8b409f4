-------------------------- MODULE OperatorsProofs --------------------------
(***************************************************************************)
(* Proofs about what the staff act on: verification, moderation, the desk  *)
(* and the configuration, for any number of rows and of calls in flight.   *)
(* Each component has a history variable that remembers whether a call     *)
(* wrote under another; as long as none did, what a call in flight has     *)
(* read is still true, and that is what the invariants add.  The lemmas    *)
(* about numbered rows come first.                                         *)
(***************************************************************************)
EXTENDS Verification, Moderation, Desk, Appearance,
        SequenceTheorems, WellFoundedInduction, TLAPS

\* A row written by its number leaves the other rows as they are.
LEMMA RowWritten ==
  ASSUME NEW Row, NEW rows \in Seq(Row), NEW i \in DOMAIN rows, NEW row \in Row
  PROVE  /\ [rows EXCEPT ![i] = row] \in Seq(Row)
         /\ DOMAIN [rows EXCEPT ![i] = row] = DOMAIN rows
         /\ [rows EXCEPT ![i] = row][i] = row
         /\ \A j \in DOMAIN rows \ {i} : [rows EXCEPT ![i] = row][j] = rows[j]
BY ExceptSeq

\* A row added is the last, and the others stay.
LEMMA RowAdded ==
  ASSUME NEW Row, NEW rows \in Seq(Row), NEW row \in Row
  PROVE  /\ Append(rows, row) \in Seq(Row)
         /\ DOMAIN rows = 1 .. Len(rows) /\ Len(rows) \in Nat
         /\ DOMAIN Append(rows, row) = 1 .. (Len(rows) + 1)
         /\ DOMAIN rows \subseteq DOMAIN Append(rows, row)
         /\ Append(rows, row)[Len(rows) + 1] = row
         /\ \A j \in DOMAIN rows : Append(rows, row)[j] = rows[j]
BY AppendProperties

\* A set of row numbers that is not empty has a last one.
LEMMA LastRow ==
  ASSUME NEW n \in Nat, NEW T \in SUBSET (1 .. n), T # {}
  PROVE  \E i \in T : \A j \in T : j <= i
<1> DEFINE Left == {n - i : i \in T}
<1>0. \A i \in T : i \in 1 .. n
  OBVIOUS
<1>1. Left \in SUBSET Nat /\ Left # {}
  <2>1. \A i \in T : n - i \in Nat
    BY <1>0
  <2> QED BY <2>1
<1>2. IsWellFoundedOn(OpToRel(<, Nat), Nat)
  BY NatLessThanWellFounded
<1>3. PICK x \in Left : \A y \in Left : ~(<<y, x>> \in OpToRel(<, Nat))
  <2> HIDE DEF Left
  <2> QED BY <1>1, <1>2, WFMin
<1>4. \A y \in Left : ~(y < x)
  BY <1>1, <1>3 DEF OpToRel
<1>5. PICK i \in T : x = n - i
  OBVIOUS
<1>6. \A j \in T : n - j \in Left
  OBVIOUS
<1>7. \A j \in T : ~(n - j < n - i)
  BY <1>4, <1>5, <1>6
<1> QED BY <1>7

\* Rows rewritten one by one keep their numbers.
LEMMA RowsMapped ==
  ASSUME NEW Row, NEW Row2, NEW rows \in Seq(Row), NEW f \in [DOMAIN rows -> Row2]
  PROVE  f \in Seq(Row2) /\ DOMAIN f = DOMAIN rows /\ Len(f) = Len(rows)
<1>1. Len(rows) \in Nat /\ DOMAIN rows = 1 .. Len(rows)
  BY LenProperties
<1>2. f \in Seq(Row2)
  BY <1>1, SeqDef
<1> QED BY <1>1, <1>2, LenProperties

-----------------------------------------------------------------------------
(* Verification. *)

\* What a call holds: a verdict to give, of a request there is.
VerCallsFit ==
  \A s \in Slots : verCalls[s].step \in {"decide", "badge", "tell"} =>
    verCalls[s].of \in DOMAIN requests /\ verCalls[s].status \in Verdicts

\* Nobody has written since a call read: it creates where nothing is open, decides
\* what is open, and passes on what it decided.
VerCallsCurrent ==
  \A s \in Slots : LET call == verCalls[s] IN
    /\ call.step = "create" => Open = {}
    /\ call.step = "decide" => requests[call.of] = "PENDING"
    /\ call.step \in {"badge", "tell"} => requests[call.of] = call.status

\* What was told names a request, so that no other one can be meant.
ToldExist == told \subseteq (DOMAIN requests) \X Verdicts

VerIInv ==
  /\ VerTypeOK /\ VerCallsFit /\ ToldExist
  /\ verOverlapped \/ VerCallsCurrent
  /\ VerdictsHold

-----------------------------------------------------------------------------

LEMMA VerInitial == VerInit => VerIInv
<1> SUFFICES ASSUME VerInit PROVE VerIInv
  OBVIOUS
<1>1. VerIdle \in VerCall
  BY DEF VerIdle, VerCall, VerSteps, RequestStatuses
<1>2. VerTypeOK
  <2>1. requests \in Seq(RequestStatuses) /\ told \subseteq Nat \X Verdicts
    BY DEF VerInit
  <2> QED BY <1>1, <2>1 DEF VerInit, VerTypeOK
<1>3. VerCallsFit /\ ToldExist /\ VerCallsCurrent
  BY DEF VerInit, VerIdle, VerCallsFit, ToldExist, VerCallsCurrent
<1>4. VerdictsHold
  BY DEF VerInit, VerdictsHold, BadgeIsEarned, OneOpenRequest, Open
<1> QED BY <1>2, <1>3, <1>4 DEF VerIInv

\* Only the call that takes the step changes its slot.
LEMMA VerEntered ==
  ASSUME NEW s \in Slots, NEW call, VerEnter(s, call), VerTypeOK
  PROVE  /\ verCalls'[s] = call
         /\ \A r \in Slots \ {s} : verCalls'[r] = verCalls[r]
BY DEF VerEnter, VerTypeOK

\* A call that goes on keeps what it holds.
LEMMA VerWent ==
  ASSUME NEW s \in Slots, NEW step \in VerSteps, VerGoTo(s, step), VerTypeOK
  PROVE  /\ verCalls' \in [Slots -> VerCall]
         /\ verCalls'[s].step = step /\ verCalls'[s].of = verCalls[s].of
         /\ verCalls'[s].status = verCalls[s].status
         /\ \A r \in Slots \ {s} : verCalls'[r] = verCalls[r]
BY DEF VerGoTo, VerEnter, VerTypeOK, VerCall

\* A write under another call is remembered; one alone finds the others idle.
LEMMA VerWriter ==
  ASSUME NEW s \in Slots, VerWrote(s), VerTypeOK
  PROVE  /\ verOverlapped => verOverlapped'
         /\ verOverlapped' \/ \A r \in Slots \ {s} : verCalls[r].step = "idle"
BY DEF VerWrote, VerTypeOK

LEMMA VerTypeInductive ==
  ASSUME VerTypeOK, VerCallsFit, [VerNext]_verVars PROVE VerTypeOK'
<1>0. VerIdle \in VerCall
  BY DEF VerIdle, VerCall, VerSteps, RequestStatuses
<1> USE DEF VerTypeOK, VerAt, VerEnter
<1>1. ASSUME NEW s \in Slots, RequestIdentity(s) PROVE VerTypeOK'
  <2>1. [VerIdle EXCEPT !.step = "create"] \in VerCall
    BY <1>0 DEF VerCall, VerSteps
  <2> QED BY <1>1, <2>1 DEF RequestIdentity
<1>2. ASSUME NEW s \in Slots, CreateRequest(s) PROVE VerTypeOK'
  <2>1. verCalls' \in [Slots -> VerCall]
    BY <1>2, VerWent DEF CreateRequest, VerSteps
  <2>2. requests' \in Seq(RequestStatuses)
    BY <1>2 DEF CreateRequest, RequestStatuses
  <2> QED BY <1>2, <2>1, <2>2 DEF CreateRequest, VerWrote
<1>3. ASSUME NEW s \in Slots, MarkProfile(s) PROVE VerTypeOK'
  BY <1>0, <1>3 DEF MarkProfile, VerWrote, RequestStatuses
<1>4. ASSUME NEW s \in Slots, NEW i \in DOMAIN requests, NEW verdict \in Verdicts,
             Decide(s, i, verdict)
      PROVE VerTypeOK'
  <2>1. [step |-> "decide", of |-> i, status |-> verdict] \in VerCall
    BY DEF VerCall, VerSteps, RequestStatuses
  <2> QED BY <1>4, <2>1 DEF Decide
<1>5. ASSUME NEW s \in Slots, WriteDecision(s) PROVE VerTypeOK'
  <2>1. verCalls' \in [Slots -> VerCall]
    BY <1>5, VerWent DEF WriteDecision, VerSteps
  <2>2. verCalls[s].status \in RequestStatuses
    BY DEF VerCall
  <2>3. requests' \in Seq(RequestStatuses)
    BY <1>5, <2>2, RowWritten DEF WriteDecision, VerCallsFit
  <2> QED BY <1>5, <2>1, <2>3 DEF WriteDecision, VerWrote
<1>6. ASSUME NEW s \in Slots, BadgeProfile(s) PROVE VerTypeOK'
  <2>1. verCalls' \in [Slots -> VerCall]
    BY <1>6, VerWent DEF BadgeProfile, VerSteps
  <2>2. verCalls[s].status \in RequestStatuses
    BY DEF VerCall
  <2> QED BY <1>6, <2>1, <2>2 DEF BadgeProfile, VerWrote
<1>7. ASSUME NEW s \in Slots, TellMember(s) PROVE VerTypeOK'
  <2>1. verCalls[s].of \in Nat /\ verCalls[s].status \in Verdicts
    BY <1>7 DEF TellMember, VerCallsFit, VerCall
  <2> QED BY <1>0, <1>7, <2>1 DEF TellMember
<1>8. ASSUME NEW s \in Slots, AbandonVerification(s) PROVE VerTypeOK'
  BY <1>0, <1>8 DEF AbandonVerification
<1>9. CASE CreateProfile
  BY <1>9 DEF CreateProfile
<1>10. CASE UNCHANGED verVars
  BY <1>10 DEF verVars
<1> QED BY <1>1, <1>2, <1>3, <1>4, <1>5, <1>6, <1>7, <1>8, <1>9, <1>10 DEF VerNext

LEMMA VerInductive == ASSUME VerIInv, [VerNext]_verVars PROVE VerIInv'
<1>0. /\ VerTypeOK /\ VerTypeOK' /\ VerCallsFit /\ ToldExist /\ VerdictsHold
      /\ requests \in Seq(RequestStatuses)
  BY VerTypeInductive DEF VerIInv, VerTypeOK
<1> USE DEF VerCallsFit, VerCallsCurrent, ToldExist, VerAt
<1>v. VerdictsHold <=> verOverlapped \/
        /\ badge = "VERIFIED" => \E i \in DOMAIN requests : requests[i] = "VERIFIED"
        /\ \A t \in told : requests[t[1]] = t[2]
        /\ \A i, j \in Open : i = j
  BY DEF VerdictsHold, BadgeIsEarned, OneOpenRequest
<1>w. VerdictsHold' <=> verOverlapped' \/
        /\ badge' = "VERIFIED" => \E i \in DOMAIN requests' : requests'[i] = "VERIFIED"
        /\ \A t \in told' : requests'[t[1]] = t[2]
        /\ \A i, j \in Open' : i = j
  BY DEF VerdictsHold, BadgeIsEarned, OneOpenRequest
<1>1. ASSUME NEW s \in Slots, RequestIdentity(s) PROVE VerIInv'
  <2>1. /\ Open = {} /\ Open' = Open
        /\ UNCHANGED <<requests, badge, told, verOverlapped>>
    BY <1>1 DEF RequestIdentity, Open
  <2>2. /\ verCalls'[s].step = "create"
        /\ \A r \in Slots \ {s} : verCalls'[r] = verCalls[r]
    BY <1>0, <1>1, VerEntered DEF RequestIdentity, VerIdle
  <2> QED BY <1>0, <1>v, <1>w, <2>1, <2>2 DEF VerIInv
<1>2. ASSUME NEW s \in Slots, CreateRequest(s) PROVE VerIInv'
  <2>1. /\ verCalls[s].step = "create" /\ UNCHANGED <<badge, told>>
        /\ requests' = Append(requests, "PENDING") /\ VerGoTo(s, "mark") /\ VerWrote(s)
    BY <1>2 DEF CreateRequest
  <2>2. /\ verCalls'[s].step = "mark"
        /\ \A r \in Slots \ {s} : verCalls'[r] = verCalls[r]
    BY <1>0, <2>1, VerWent DEF VerSteps
  <2>3. /\ DOMAIN requests = 1 .. Len(requests) /\ Len(requests) \in Nat
        /\ DOMAIN requests' = 1 .. (Len(requests) + 1)
        /\ \A i \in DOMAIN requests : requests'[i] = requests[i]
        /\ requests'[Len(requests) + 1] = "PENDING"
    BY <1>0, <2>1
  <2>4. DOMAIN requests \subseteq DOMAIN requests'
    BY <2>3
  <2>5. Open = {} => Open' = {Len(requests) + 1}
    BY <2>3 DEF Open
  <2>6. VerCallsFit' /\ ToldExist'
    BY <1>0, <2>1, <2>2, <2>4
  <2>7. CASE verOverlapped'
    BY <1>0, <2>6, <2>7, <1>w DEF VerIInv
  <2>8. CASE ~verOverlapped'
    <3>1. /\ ~verOverlapped /\ \A r \in Slots \ {s} : verCalls[r].step = "idle"
      BY <1>0, <2>1, <2>8, VerWriter
    <3>2. VerCallsCurrent'
      BY <2>2, <3>1
    <3>3. \A i, j \in Open' : i = j
      BY <2>1, <2>5, <3>1 DEF VerIInv
    <3>4. badge' = "VERIFIED" => \E i \in DOMAIN requests' : requests'[i] = "VERIFIED"
      BY <1>0, <1>v, <2>1, <2>3, <2>4, <3>1
    <3>5. \A t \in told' : requests'[t[1]] = t[2]
      BY <1>0, <1>v, <2>1, <2>3, <3>1
    <3> QED BY <1>0, <1>w, <2>6, <3>2, <3>3, <3>4, <3>5 DEF VerIInv
  <2> QED BY <2>7, <2>8
<1>3. ASSUME NEW s \in Slots, MarkProfile(s) PROVE VerIInv'
  <2>1. /\ UNCHANGED <<requests, told>> /\ VerWrote(s)
        /\ badge' = "VERIFIED" => badge = "VERIFIED"
    BY <1>3 DEF MarkProfile
  <2>2. /\ verCalls'[s] = VerIdle
        /\ \A r \in Slots \ {s} : verCalls'[r] = verCalls[r]
    BY <1>0, <1>3, VerEntered DEF MarkProfile
  <2>3. Open' = Open /\ (verOverlapped => verOverlapped')
    BY <1>0, <2>1, VerWriter DEF Open
  <2> QED BY <1>0, <1>v, <1>w, <2>1, <2>2, <2>3 DEF VerIInv, VerIdle
<1>4. ASSUME NEW s \in Slots, NEW i \in DOMAIN requests, NEW verdict \in Verdicts,
             Decide(s, i, verdict)
      PROVE VerIInv'
  <2>1. /\ requests[i] = "PENDING" /\ UNCHANGED <<requests, badge, told, verOverlapped>>
    BY <1>4 DEF Decide, Open
  <2>2. /\ verCalls'[s] = [step |-> "decide", of |-> i, status |-> verdict]
        /\ \A r \in Slots \ {s} : verCalls'[r] = verCalls[r]
    BY <1>0, <1>4, VerEntered DEF Decide
  <2>3. Open' = Open
    BY <2>1 DEF Open
  <2> QED BY <1>0, <1>v, <1>w, <2>1, <2>2, <2>3 DEF VerIInv
<1>5. ASSUME NEW s \in Slots, WriteDecision(s) PROVE VerIInv'
  <2> DEFINE of == verCalls[s].of
             verdict == verCalls[s].status
  <2>1. /\ verCalls[s].step = "decide" /\ UNCHANGED <<badge, told>>
        /\ requests' = [requests EXCEPT ![of] = verdict] /\ VerGoTo(s, "badge") /\ VerWrote(s)
    BY <1>5 DEF WriteDecision
  <2>2. /\ verCalls'[s].step = "badge" /\ verCalls'[s].of = of /\ verCalls'[s].status = verdict
        /\ \A r \in Slots \ {s} : verCalls'[r] = verCalls[r]
    BY <1>0, <2>1, VerWent DEF VerSteps
  <2>3. of \in DOMAIN requests /\ verdict \in Verdicts
    BY <1>0, <2>1
  <2> HIDE DEF of, verdict
  <2>4. /\ DOMAIN requests' = DOMAIN requests /\ requests'[of] = verdict
        /\ \A i \in DOMAIN requests \ {of} : requests'[i] = requests[i]
    BY <1>0, <2>1, <2>3
  <2>5. Open' = Open \ {of}
    BY <2>3, <2>4 DEF Open, Verdicts
  <2>6. VerCallsFit' /\ ToldExist'
    BY <1>0, <2>1, <2>2, <2>3, <2>4
  <2>7. CASE verOverlapped'
    BY <1>0, <2>6, <2>7, <1>w DEF VerIInv
  <2>8. CASE ~verOverlapped'
    <3>1. /\ ~verOverlapped /\ \A r \in Slots \ {s} : verCalls[r].step = "idle"
      BY <1>0, <2>1, <2>8, VerWriter
    <3>2. VerCallsCurrent'
      BY <2>2, <2>4, <3>1
    <3>3. \A i, j \in Open' : i = j
      BY <1>0, <1>v, <2>5, <3>1
    <3>4. requests[of] = "PENDING"
      BY <2>1, <3>1 DEF VerIInv, of
    <3>5. badge' = "VERIFIED" => \E i \in DOMAIN requests' : requests'[i] = "VERIFIED"
      BY <1>0, <1>v, <2>1, <2>4, <3>1, <3>4
    <3>6. \A t \in told' : requests'[t[1]] = t[2]
      BY <1>0, <1>v, <2>1, <2>4, <3>1, <3>4 DEF Verdicts
    <3> QED BY <1>0, <1>w, <2>6, <3>2, <3>3, <3>5, <3>6 DEF VerIInv
  <2> QED BY <2>7, <2>8
<1>6. ASSUME NEW s \in Slots, BadgeProfile(s) PROVE VerIInv'
  <2>1. /\ verCalls[s].step = "badge" /\ UNCHANGED <<requests, told>>
        /\ badge' = "VERIFIED" => badge = "VERIFIED" \/ verCalls[s].status = "VERIFIED"
        /\ VerGoTo(s, "tell") /\ VerWrote(s)
    BY <1>6 DEF BadgeProfile
  <2>2. /\ verCalls'[s].step = "tell" /\ verCalls'[s].of = verCalls[s].of
        /\ verCalls'[s].status = verCalls[s].status
        /\ \A r \in Slots \ {s} : verCalls'[r] = verCalls[r]
    BY <1>0, <2>1, VerWent DEF VerSteps
  <2>3. Open' = Open /\ (verOverlapped => verOverlapped')
    BY <1>0, <2>1, VerWriter DEF Open
  <2>4. verOverlapped \/ (verCalls[s].status = "VERIFIED"
                            => \E i \in DOMAIN requests : requests[i] = "VERIFIED")
    BY <1>0, <2>1 DEF VerIInv
  <2> QED BY <1>0, <1>v, <1>w, <2>1, <2>2, <2>3, <2>4 DEF VerIInv
<1>7. ASSUME NEW s \in Slots, TellMember(s) PROVE VerIInv'
  <2>1. /\ verCalls[s].step = "tell" /\ UNCHANGED <<requests, badge, verOverlapped>>
        /\ told' = told \cup {<<verCalls[s].of, verCalls[s].status>>}
    BY <1>7 DEF TellMember
  <2>2. /\ verCalls'[s] = VerIdle
        /\ \A r \in Slots \ {s} : verCalls'[r] = verCalls[r]
    BY <1>0, <1>7, VerEntered DEF TellMember
  <2>3. Open' = Open
    BY <2>1 DEF Open
  <2>4. verOverlapped \/ requests[verCalls[s].of] = verCalls[s].status
    BY <2>1 DEF VerIInv
  <2>5. ToldExist'
    BY <1>0, <2>1
  <2> QED BY <1>0, <1>v, <1>w, <2>1, <2>2, <2>3, <2>4, <2>5 DEF VerIInv, VerIdle
<1>8. ASSUME NEW s \in Slots, AbandonVerification(s) PROVE VerIInv'
  <2>1. UNCHANGED <<requests, badge, told, verOverlapped>>
    BY <1>8 DEF AbandonVerification
  <2>2. /\ verCalls'[s] = VerIdle
        /\ \A r \in Slots \ {s} : verCalls'[r] = verCalls[r]
    BY <1>0, <1>8, VerEntered DEF AbandonVerification
  <2>3. Open' = Open
    BY <2>1 DEF Open
  <2> QED BY <1>0, <1>v, <1>w, <2>1, <2>2, <2>3 DEF VerIInv, VerIdle
<1>9. CASE CreateProfile
  <2>1. UNCHANGED <<requests, told, verCalls, verOverlapped>> /\ badge' = "UNVERIFIED"
    BY <1>9 DEF CreateProfile
  <2> QED BY <1>0, <1>v, <1>w, <2>1 DEF VerIInv, Open
<1>10. CASE UNCHANGED verVars
  BY <1>0, <1>10 DEF VerIInv, verVars, VerdictsHold, BadgeIsEarned, OneOpenRequest, Open
<1> QED BY <1>1, <1>2, <1>3, <1>4, <1>5, <1>6, <1>7, <1>8, <1>9, <1>10 DEF VerNext

(* Every reachable state of the verification is well typed. *)
THEOREM VerTypeCorrect == VerSpec => []VerTypeOK
<1>1. VerIInv => VerTypeOK
  BY DEF VerIInv
<1> QED BY VerInitial, VerInductive, <1>1, PTL DEF VerSpec

(* For any number of requests and of calls in flight, a badge and a notified  *)
(* verdict are what the request earned, and a member has one open request at  *)
(* a time, unless a call wrote under another (verification.service.ts:34,     *)
(* 124-153).                                                                  *)
THEOREM VerdictsStand == VerSpec => []VerdictsHold
<1>1. VerIInv => VerdictsHold
  BY DEF VerIInv
<1> QED BY VerInitial, VerInductive, <1>1, PTL DEF VerSpec

-----------------------------------------------------------------------------
(* Moderation. *)

\* A moderation is of a report there is, and it hides what it will action.
ModCallsFit ==
  \A s \in Slots : LET call == modCalls[s] IN
    /\ call.step \in {"hide", "resolve", "record"} => call.of \in DOMAIN reports
    /\ call.step = "hide" => call.outcome = "ACTIONED"

\* Nobody has written since a call read: its report is open until it is resolved,
\* and a save that does not say so writes the visibility there is.
ModCallsCurrent ==
  \A s \in Slots : LET call == modCalls[s] IN
    /\ call.step \in {"hide", "resolve"} => reports[call.of].status = "OPEN"
    /\ call.step = "record" => reports[call.of].status = call.outcome
    /\ call.step = "save" /\ ~call.asked => call.shown = visible["PROFILE"]

\* What is recorded names a report.
ActionsExist == \A a \in actions : a.of \in DOMAIN reports

\* What is hidden and not yet accounted for is the target of a call at work.
HiddenForReport ==
  \A target \in moderated :
    \/ modStopped
    \/ \E i \in DOMAIN reports : reports[i] = [target |-> target, status |-> "ACTIONED"]
    \/ \E s \in Slots : /\ ModAt(s, "resolve") /\ modCalls[s].outcome = "ACTIONED"
                        /\ reports[modCalls[s].of].target = target

ModIInv ==
  /\ ModTypeOK /\ ModCallsFit /\ ActionsExist
  /\ modOverlapped \/ (ModCallsCurrent /\ HiddenForReport)
  /\ ModerationStands

LEMMA ModInitial == ModInit => ModIInv
<1> SUFFICES ASSUME ModInit PROVE ModIInv
  OBVIOUS
<1>1. ModIdle \in ModCall
  BY DEF ModIdle, ModCall, ModSteps, Outcomes
<1>2. ModTypeOK
  <2>1. reports \in Seq(Report) /\ visible \in [Targets -> BOOLEAN]
    BY DEF ModInit
  <2> QED BY <1>1, <2>1 DEF ModInit, ModTypeOK
<1>3. ModCallsFit /\ ActionsExist /\ ModCallsCurrent /\ HiddenForReport
  BY DEF ModInit, ModIdle, ModCallsFit, ActionsExist, ModCallsCurrent, HiddenForReport
<1>4. ModerationStands
  BY DEF ModInit, ModerationStands, HiddenUntilAsked, RecordIsTrue
<1> QED BY <1>2, <1>3, <1>4 DEF ModIInv

\* Only the call that takes the step changes its slot.
LEMMA ModEntered ==
  ASSUME NEW s \in Slots, NEW call, ModEnter(s, call), ModTypeOK
  PROVE  /\ modCalls'[s] = call
         /\ \A r \in Slots \ {s} : modCalls'[r] = modCalls[r]
BY DEF ModEnter, ModTypeOK

\* A call that goes on keeps what it holds.
LEMMA ModWent ==
  ASSUME NEW s \in Slots, NEW step \in ModSteps, ModGoTo(s, step), ModTypeOK
  PROVE  /\ modCalls' \in [Slots -> ModCall]
         /\ modCalls'[s].step = step /\ modCalls'[s].of = modCalls[s].of
         /\ modCalls'[s].outcome = modCalls[s].outcome
         /\ \A r \in Slots \ {s} : modCalls'[r] = modCalls[r]
BY DEF ModGoTo, ModEnter, ModTypeOK, ModCall

\* A write under another call is remembered; one alone finds the others idle.
LEMMA ModWriter ==
  ASSUME NEW s \in Slots, ModWrote(s), ModTypeOK
  PROVE  /\ modOverlapped => modOverlapped'
         /\ modOverlapped' \/ \A r \in Slots \ {s} : modCalls[r].step = "idle"
BY DEF ModWrote, ModAt, ModTypeOK

\* What a moderation of an open report starts as.
LEMMA ModStarted ==
  ASSUME NEW i \in Nat, NEW outcome \in Outcomes,
         NEW call, call = [ModIdle EXCEPT !.of = i, !.outcome = outcome,
                             !.step = IF outcome = "ACTIONED" THEN "hide" ELSE "resolve"]
  PROVE  /\ call \in ModCall /\ call.of = i /\ call.outcome = outcome
         /\ call.step = IF outcome = "ACTIONED" THEN "hide" ELSE "resolve"
BY DEF ModIdle, ModCall, ModSteps, Outcomes

\* What a save of the profile starts as.
LEMMA ModSaved ==
  ASSUME NEW wants \in BOOLEAN, NEW shown \in BOOLEAN,
         NEW call, call = [ModIdle EXCEPT !.step = "save", !.asked = wants, !.shown = shown]
  PROVE  call \in ModCall /\ call.step = "save" /\ call.asked = wants /\ call.shown = shown
BY DEF ModIdle, ModCall, ModSteps, Outcomes

LEMMA ModTypeInductive ==
  ASSUME ModTypeOK, ModCallsFit, [ModNext]_modVars PROVE ModTypeOK'
<1>0. ModIdle \in ModCall
  BY DEF ModIdle, ModCall, ModSteps, Outcomes
<1> USE DEF ModTypeOK, ModAt, ModEnter
<1>1. ASSUME NEW target \in Targets, CreateReport(target) PROVE ModTypeOK'
  <2>1. [target |-> target, status |-> "OPEN"] \in Report
    BY DEF Report
  <2>2. reports' \in Seq(Report)
    BY <1>1, <2>1, RowAdded DEF CreateReport
  <2> QED BY <1>1, <2>2 DEF CreateReport
<1>2. ASSUME NEW s \in Slots, NEW i \in DOMAIN reports, NEW outcome \in Outcomes,
             Moderate(s, i, outcome)
      PROVE ModTypeOK'
  <2> DEFINE call == [ModIdle EXCEPT !.of = i, !.outcome = outcome,
                        !.step = IF outcome = "ACTIONED" THEN "hide" ELSE "resolve"]
  <2>1. i \in Nat
    OBVIOUS
  <2>2. call \in ModCall
    BY <2>1 DEF ModIdle, ModCall, ModSteps, Outcomes
  <2> HIDE DEF call
  <2>3. /\ modCalls' = [modCalls EXCEPT ![s] = call]
        /\ UNCHANGED <<reports, visible, actions, moderated, modOverlapped, modStopped>>
    BY <1>2 DEF Moderate, call
  <2> QED BY <2>2, <2>3
<1>3. ASSUME NEW s \in Slots, HideTarget(s) PROVE ModTypeOK'
  <2>1. modCalls' \in [Slots -> ModCall]
    BY <1>3, ModWent DEF HideTarget, ModSteps
  <2>2. modCalls[s].of \in DOMAIN reports
    BY <1>3 DEF HideTarget, ModCallsFit
  <2>3. reports[modCalls[s].of] \in Report
    BY <2>2
  <2>4. reports[modCalls[s].of].target \in Targets
    BY <2>3 DEF Report
  <2> QED BY <1>3, <2>1, <2>4 DEF HideTarget, ModWrote
<1>4. ASSUME NEW s \in Slots, ResolveReport(s) PROVE ModTypeOK'
  <2>1. modCalls' \in [Slots -> ModCall]
    BY <1>4, ModWent DEF ResolveReport, ModSteps
  <2>2. modCalls[s].of \in DOMAIN reports
    BY <1>4 DEF ResolveReport, ModCallsFit
  <2>3. [reports[modCalls[s].of] EXCEPT !.status = modCalls[s].outcome] \in Report
    <3>1. reports[modCalls[s].of] \in Report /\ modCalls[s].outcome \in Outcomes
      BY <2>2 DEF ModCall
    <3> QED BY <3>1 DEF Report
  <2>4. reports' \in Seq(Report)
    BY <1>4, <2>2, <2>3, RowWritten DEF ResolveReport
  <2> QED BY <1>4, <2>1, <2>4 DEF ResolveReport, ModWrote
<1>5. ASSUME NEW s \in Slots, RecordAction(s) PROVE ModTypeOK'
  <2>1. modCalls[s].of \in Nat /\ modCalls[s].outcome \in Outcomes
    BY DEF ModCall
  <2> QED BY <1>0, <1>5, <2>1 DEF RecordAction
<1>6. ASSUME NEW s \in Slots, NEW wants \in BOOLEAN, NEW shown \in BOOLEAN,
             SaveOwnProfile(s, wants, shown)
      PROVE ModTypeOK'
  BY <1>6, ModSaved DEF SaveOwnProfile
<1>7. ASSUME NEW s \in Slots, WriteProfile(s) PROVE ModTypeOK'
  <2>1. modCalls[s].shown \in BOOLEAN /\ moderated' \subseteq Targets
    BY <1>7 DEF ModCall, WriteProfile
  <2>2. visible' \in [Targets -> BOOLEAN]
    BY <1>7, <2>1 DEF WriteProfile
  <2> QED BY <1>0, <1>7, <2>1, <2>2 DEF WriteProfile, ModWrote
<1>8. ASSUME NEW s \in Slots, AbandonModeration(s) PROVE ModTypeOK'
  BY <1>0, <1>8 DEF AbandonModeration
<1>9. CASE UNCHANGED modVars
  BY <1>9 DEF modVars
<1> QED BY <1>1, <1>2, <1>3, <1>4, <1>5, <1>6, <1>7, <1>8, <1>9 DEF ModNext

LEMMA ModInductive == ASSUME ModIInv, [ModNext]_modVars PROVE ModIInv'
<1>0. /\ ModTypeOK /\ ModTypeOK' /\ ModCallsFit /\ ActionsExist
      /\ modOverlapped \/ (ModCallsCurrent /\ HiddenForReport)
      /\ reports \in Seq(Report) /\ modCalls \in [Slots -> ModCall]
  BY ModTypeInductive DEF ModIInv, ModTypeOK
<1> DEFINE Hidden == \A target \in moderated : ~visible[target]
           Recorded == \A a \in actions : reports[a.of].status = a.outcome
<1>m. modOverlapped \/ (Hidden /\ Recorded)
  BY DEF ModIInv, ModerationStands, HiddenUntilAsked, RecordIsTrue
\* The parts that a step has to keep.
<1>p. SUFFICES /\ ModCallsFit' /\ ActionsExist'
               /\ modOverlapped' \/ (ModCallsCurrent' /\ HiddenForReport' /\ Hidden' /\ Recorded')
  BY <1>0 DEF ModIInv, ModerationStands, HiddenUntilAsked, RecordIsTrue, HiddenForReport
<1> USE DEF ModCallsFit, ModCallsCurrent, ActionsExist, HiddenForReport, ModAt
<1>1. ASSUME NEW target \in Targets, CreateReport(target) PROVE <1>p!1
  <2>1. /\ reports' = Append(reports, [target |-> target, status |-> "OPEN"])
        /\ UNCHANGED <<visible, actions, moderated, modCalls, modOverlapped, modStopped>>
    BY <1>1 DEF CreateReport
  <2>2. [target |-> target, status |-> "OPEN"] \in Report
    BY DEF Report
  <2>3. DOMAIN reports \subseteq DOMAIN reports' /\ \A i \in DOMAIN reports : reports'[i] = reports[i]
    BY <1>0, <2>1, <2>2, RowAdded
  <2> QED BY <1>0, <1>m, <2>1, <2>3
<1>2. ASSUME NEW s \in Slots, NEW i \in DOMAIN reports, NEW outcome \in Outcomes,
             Moderate(s, i, outcome)
      PROVE <1>p!1
  <2>1. /\ modCalls[s].step = "idle" /\ reports[i].status = "OPEN"
        /\ UNCHANGED <<reports, visible, actions, moderated, modOverlapped, modStopped>>
    BY <1>2 DEF Moderate
  <2>2. /\ modCalls'[s].of = i /\ modCalls'[s].outcome = outcome
        /\ modCalls'[s].step = IF outcome = "ACTIONED" THEN "hide" ELSE "resolve"
        /\ \A r \in Slots \ {s} : modCalls'[r] = modCalls[r]
    <3> DEFINE call == [ModIdle EXCEPT !.of = i, !.outcome = outcome,
                          !.step = IF outcome = "ACTIONED" THEN "hide" ELSE "resolve"]
    <3>2. /\ call.of = i /\ call.outcome = outcome
          /\ call.step = IF outcome = "ACTIONED" THEN "hide" ELSE "resolve"
      BY DEF ModIdle
    <3>3. ModEnter(s, call)
      BY <1>2 DEF Moderate
    <3> HIDE DEF call
    <3> QED BY <1>0, <3>2, <3>3, ModEntered
  <2>3. modCalls'[s].step \in {"hide", "resolve"} /\ (modCalls'[s].step = "hide" => outcome = "ACTIONED")
    BY <2>2
  <2> QED BY <1>0, <1>m, <2>1, <2>2, <2>3
<1>3. ASSUME NEW s \in Slots, HideTarget(s) PROVE <1>p!1
  <2> DEFINE target == reports[modCalls[s].of].target
  <2>1. /\ modCalls[s].step = "hide" /\ UNCHANGED <<reports, actions, modStopped>>
        /\ visible' = [visible EXCEPT ![target] = FALSE] /\ moderated' = moderated \cup {target}
        /\ ModGoTo(s, "resolve") /\ ModWrote(s)
    BY <1>3 DEF HideTarget
  <2>2. /\ modCalls'[s].step = "resolve" /\ modCalls'[s].of = modCalls[s].of
        /\ modCalls'[s].outcome = modCalls[s].outcome
        /\ \A r \in Slots \ {s} : modCalls'[r] = modCalls[r]
    BY <1>0, <2>1, ModWent DEF ModSteps
  <2>3. modCalls[s].of \in DOMAIN reports /\ modCalls[s].outcome = "ACTIONED"
    BY <1>0, <2>1
  <2>4. target \in Targets
    <3>1. reports[modCalls[s].of] \in Report
      BY <1>0, <2>3
    <3> QED BY <3>1 DEF Report
  <2>5. visible'[target] = FALSE /\ \A t \in Targets \ {target} : visible'[t] = visible[t]
    BY <1>0, <2>1, <2>4 DEF ModTypeOK
  <2>6. moderated \subseteq Targets
    BY <1>0 DEF ModTypeOK
  <2>7. ModCallsFit' /\ ActionsExist'
    BY <1>0, <2>1, <2>2, <2>3
  <2>8. ASSUME ~modOverlapped'
        PROVE  ModCallsCurrent' /\ HiddenForReport' /\ Hidden' /\ Recorded'
    <3>1. ~modOverlapped /\ \A r \in Slots \ {s} : modCalls[r].step = "idle"
      BY <1>0, <2>1, <2>8, ModWriter
    <3>2. ModCallsCurrent'
      <4>1. reports[modCalls[s].of].status = "OPEN"
        BY <1>0, <2>1, <3>1
      <4> QED BY <2>1, <2>2, <3>1, <4>1
    <3>3. target' = target /\ HiddenForReport'
      BY <1>0, <2>1, <2>2, <2>3, <3>1
    <3>4. Hidden'
      BY <1>m, <2>1, <2>5, <2>6, <3>1
    <3>5. Recorded'
      BY <1>m, <2>1, <3>1
    <3> QED BY <3>2, <3>3, <3>4, <3>5
  <2> QED BY <2>7, <2>8
<1>4. ASSUME NEW s \in Slots, ResolveReport(s) PROVE <1>p!1
  <2> DEFINE of == modCalls[s].of
             row == [reports[of] EXCEPT !.status = modCalls[s].outcome]
  <2>1. /\ modCalls[s].step = "resolve" /\ UNCHANGED <<visible, actions, moderated, modStopped>>
        /\ reports' = [reports EXCEPT ![of] = row]
        /\ ModGoTo(s, "record") /\ ModWrote(s)
    BY <1>4 DEF ResolveReport
  <2>2. /\ modCalls'[s].step = "record" /\ modCalls'[s].of = of
        /\ modCalls'[s].outcome = modCalls[s].outcome
        /\ \A r \in Slots \ {s} : modCalls'[r] = modCalls[r]
    BY <1>0, <2>1, ModWent DEF ModSteps
  <2>3. of \in DOMAIN reports
    BY <1>0, <2>1
  <2>4. /\ row \in Report /\ row.status = modCalls[s].outcome
        /\ row = [target |-> reports[of].target, status |-> modCalls[s].outcome]
    <3>1. reports[of] \in Report /\ modCalls[s].outcome \in Outcomes
      BY <1>0, <2>3 DEF ModCall
    <3> QED BY <3>1 DEF Report
  <2> HIDE DEF row, of
  <2>5. /\ DOMAIN reports' = DOMAIN reports /\ reports'[of] = row
        /\ \A j \in DOMAIN reports \ {of} : reports'[j] = reports[j]
    BY <1>0, <2>1, <2>3, <2>4, RowWritten
  <2>7. ModCallsFit' /\ ActionsExist'
    BY <1>0, <2>1, <2>2, <2>3, <2>5
  <2>8. ASSUME ~modOverlapped'
        PROVE  ModCallsCurrent' /\ HiddenForReport' /\ Hidden' /\ Recorded'
    <3>1. ~modOverlapped /\ \A r \in Slots \ {s} : modCalls[r].step = "idle"
      BY <1>0, <2>1, <2>8, ModWriter
    <3>2. reports[of].status = "OPEN"
      BY <1>0, <2>1, <3>1 DEF of
    <3>3. ModCallsCurrent'
      BY <2>2, <2>4, <2>5, <3>1
    <3>4. HiddenForReport'
      <4> SUFFICES ASSUME NEW target \in moderated
                   PROVE  \/ modStopped
                          \/ \E i \in DOMAIN reports :
                               reports'[i] = [target |-> target, status |-> "ACTIONED"]
        BY <2>1, <2>5
      <4>1. CASE \E i \in DOMAIN reports : reports[i] = [target |-> target, status |-> "ACTIONED"]
        BY <2>5, <3>2, <4>1
      <4>2. CASE /\ modCalls[s].outcome = "ACTIONED" /\ reports[of].target = target
        BY <2>3, <2>4, <2>5, <4>2
      <4>3. CASE modStopped
        BY <4>3
      <4>4. \A r \in Slots : ModAt(r, "resolve") => r = s
        BY <3>1
      <4> QED BY <1>0, <3>1, <4>1, <4>2, <4>3, <4>4 DEF of
    <3>5. Hidden'
      BY <1>m, <2>1, <3>1
    <3>6. Recorded'
      <4>1. \A a \in actions : a.of \in DOMAIN reports /\ a.outcome \in Outcomes
        BY <1>0 DEF ModTypeOK
      <4> QED BY <1>m, <2>1, <2>5, <3>1, <3>2, <4>1 DEF Outcomes
    <3> QED BY <3>3, <3>4, <3>5, <3>6
  <2> QED BY <2>7, <2>8
<1>5. ASSUME NEW s \in Slots, RecordAction(s) PROVE <1>p!1
  <2> DEFINE action == [of |-> modCalls[s].of, outcome |-> modCalls[s].outcome]
  <2>1. /\ modCalls[s].step = "record" /\ actions' = actions \cup {action}
        /\ UNCHANGED <<reports, visible, moderated, modOverlapped, modStopped>>
    BY <1>5 DEF RecordAction
  <2>2. /\ modCalls'[s].step = "idle"
        /\ \A r \in Slots \ {s} : modCalls'[r] = modCalls[r]
    BY <1>0, <1>5, ModEntered DEF RecordAction, ModIdle
  <2>3. /\ action.of \in DOMAIN reports
        /\ modOverlapped \/ reports[action.of].status = action.outcome
    BY <1>0, <2>1
  <2> HIDE DEF action
  <2> QED BY <1>0, <1>m, <2>1, <2>2, <2>3
<1>6. ASSUME NEW s \in Slots, NEW wants \in BOOLEAN, NEW shown \in BOOLEAN,
             SaveOwnProfile(s, wants, shown)
      PROVE <1>p!1
  <2>1. /\ modCalls[s].step = "idle" /\ (wants \/ shown = visible["PROFILE"])
        /\ UNCHANGED <<reports, visible, actions, moderated, modOverlapped, modStopped>>
    BY <1>6 DEF SaveOwnProfile
  <2>2. /\ modCalls'[s].step = "save" /\ modCalls'[s].asked = wants /\ modCalls'[s].shown = shown
        /\ \A r \in Slots \ {s} : modCalls'[r] = modCalls[r]
    <3> DEFINE call == [ModIdle EXCEPT !.step = "save", !.asked = wants, !.shown = shown]
    <3>1. call.step = "save" /\ call.asked = wants /\ call.shown = shown
      BY ModSaved
    <3>2. ModEnter(s, call)
      BY <1>6 DEF SaveOwnProfile
    <3> HIDE DEF call
    <3> QED BY <1>0, <3>1, <3>2, ModEntered
  <2> QED BY <1>0, <1>m, <2>1, <2>2
<1>7. ASSUME NEW s \in Slots, WriteProfile(s) PROVE <1>p!1
  <2>1. /\ modCalls[s].step = "save" /\ UNCHANGED <<reports, actions, modStopped>> /\ ModWrote(s)
        /\ visible' = [visible EXCEPT !["PROFILE"] = modCalls[s].shown]
        /\ moderated' = IF modCalls[s].asked /\ modCalls[s].shown
                        THEN moderated \ {"PROFILE"} ELSE moderated
    BY <1>7 DEF WriteProfile
  <2>2. /\ modCalls'[s].step = "idle"
        /\ \A r \in Slots \ {s} : modCalls'[r] = modCalls[r]
    BY <1>0, <1>7, ModEntered DEF WriteProfile, ModIdle
  <2>3. /\ visible'["PROFILE"] = modCalls[s].shown /\ moderated \subseteq Targets
        /\ \A t \in Targets \ {"PROFILE"} : visible'[t] = visible[t]
    BY <1>0, <2>1 DEF ModTypeOK, Targets
  <2>4. ModCallsFit' /\ ActionsExist'
    BY <1>0, <2>1, <2>2
  <2>5. ASSUME ~modOverlapped'
        PROVE  ModCallsCurrent' /\ HiddenForReport' /\ Hidden' /\ Recorded'
    <3>1. ~modOverlapped /\ \A r \in Slots \ {s} : modCalls[r].step = "idle"
      BY <1>0, <2>1, <2>5, ModWriter
    <3>2. ModCallsCurrent'
      BY <2>2, <3>1
    <3>3. HiddenForReport'
      BY <1>0, <2>1, <2>2, <3>1
    <3>4. Hidden'
      <4>1. modCalls[s].asked \/ modCalls[s].shown = visible["PROFILE"]
        BY <1>0, <2>1, <3>1
      <4>2. CASE modCalls[s].shown
        <5>1. "PROFILE" \notin moderated'
          BY <1>m, <2>1, <3>1, <4>1, <4>2
        <5> QED BY <1>m, <2>1, <2>3, <3>1, <5>1
      <4>3. CASE ~modCalls[s].shown
        BY <1>m, <2>1, <2>3, <3>1, <4>3
      <4> QED BY <4>2, <4>3
    <3>5. Recorded'
      BY <1>m, <2>1, <3>1
    <3> QED BY <3>2, <3>3, <3>4, <3>5
  <2> QED BY <2>4, <2>5
<1>8. ASSUME NEW s \in Slots, AbandonModeration(s) PROVE <1>p!1
  <2>1. /\ modStopped' = TRUE
        /\ UNCHANGED <<reports, visible, actions, moderated, modOverlapped>>
    BY <1>8 DEF AbandonModeration
  <2>2. /\ modCalls'[s].step = "idle"
        /\ \A r \in Slots \ {s} : modCalls'[r] = modCalls[r]
    BY <1>0, <1>8, ModEntered DEF AbandonModeration, ModIdle
  <2> QED BY <1>0, <1>m, <2>1, <2>2
<1>9. CASE UNCHANGED modVars
  BY <1>0, <1>m, <1>9 DEF modVars
<1> QED BY <1>1, <1>2, <1>3, <1>4, <1>5, <1>6, <1>7, <1>8, <1>9 DEF ModNext

(* Every reachable state of the moderation is well typed. *)
THEOREM ModTypeCorrect == ModSpec => []ModTypeOK
<1>1. ModIInv => ModTypeOK
  BY DEF ModIInv
<1> QED BY ModInitial, ModInductive, <1>1, PTL DEF ModSpec

(* For any number of reports and of calls in flight, what a moderator hid     *)
(* stays hidden until its owner asks to show it, and what is recorded of a    *)
(* report is how it ended, unless a call wrote under another                  *)
(* (reports.service.ts:151-176, profiles.service.ts:185).                     *)
THEOREM ModerationHolds == ModSpec => []ModerationStands
<1>1. ModIInv => ModerationStands
  BY DEF ModIInv
<1> QED BY ModInitial, ModInductive, <1>1, PTL DEF ModSpec

-----------------------------------------------------------------------------
(* Desk. *)

TurnOfLast == IF staffLast THEN "PENDING" ELSE "OPEN"

\* A message was added to a ticket that was open when it was read.
MessagesSawOpen ==
  \A s \in Slots : deskCalls[s].step \in {"message", "turn"} => deskCalls[s].saw # "CLOSED"

\* A call that is alone, with no trouble before it, is about to turn the status for the
\* last message, or to escalate from who is assigned.
AloneIsCurrent ==
  \A s \in Slots : DeskAlone(s) =>
    /\ deskCalls[s].step = "turn" => disturbed \/ deskCalls[s].staff = staffLast
    /\ deskCalls[s].step = "escalate" => disturbed \/ deskCalls[s].from = Assignee

\* The status waits for the call that has added the last message.
TurnsAreDue ==
  (\A s \in Slots : ~DeskAt(s, "turn")) => disturbed \/ chosen \/ ticket.status = TurnOfLast

DeskIInv ==
  /\ DeskTypeOK /\ MessagesSawOpen /\ AloneIsCurrent /\ TurnsAreDue
  /\ EscalationsFollowAssignments

LEMMA DeskIdleFits == DeskIdle \in DeskCall /\ DeskIdle.step = "idle"
BY DEF DeskIdle, DeskCall, DeskSteps, Statuses, Priorities

LEMMA DeskInitial == DeskInit => DeskIInv
<1> SUFFICES ASSUME DeskInit PROVE DeskIInv
  OBVIOUS
<1>1. DeskTypeOK
  <2>1. ticket \in [status: Statuses, priority: Priorities]
    BY DEF DeskInit, Statuses, Priorities
  <2>2. staffLast \in BOOLEAN /\ disturbed \in BOOLEAN /\ chosen \in BOOLEAN
    BY DEF DeskInit
  <2>3. assignments \in Seq(Agents) /\ escalations \subseteq Escalation
    BY DEF DeskInit
  <2>4. deskCalls \in [Slots -> DeskCall]
    BY DeskIdleFits DEF DeskInit
  <2> QED BY <2>1, <2>2, <2>3, <2>4 DEF DeskTypeOK
<1>2. MessagesSawOpen /\ AloneIsCurrent
  BY DeskIdleFits DEF DeskInit, MessagesSawOpen, AloneIsCurrent
<1>3. TurnsAreDue
  BY DEF DeskInit, TurnsAreDue, TurnOfLast
<1>4. EscalationsFollowAssignments
  BY DEF DeskInit, EscalationsFollowAssignments
<1> QED BY <1>1, <1>2, <1>3, <1>4 DEF DeskIInv

\* Only the call that takes the step changes its slot.
LEMMA DeskEntered ==
  ASSUME NEW s \in Slots, NEW call \in DeskCall, DeskEnter(s, call), DeskTypeOK
  PROVE  /\ deskCalls' \in [Slots -> DeskCall] /\ deskCalls'[s] = call
         /\ \A r \in Slots \ {s} : deskCalls'[r] = deskCalls[r]
BY DEF DeskEnter, DeskTypeOK

\* A call that has read, and is next to write.
LEMMA DeskQuiet ==
  ASSUME DeskIInv, NEW s \in Slots, NEW call \in DeskCall, DeskEnter(s, call),
         DeskAt(s, "idle"), call.step \in {"message", "assign", "escalate", "patch"},
         call.step = "message" => call.saw # "CLOSED",
         call.step = "escalate" => call.from = Assignee,
         UNCHANGED <<ticket, staffLast, assignments, escalations, disturbed, chosen>>
  PROVE  DeskIInv'
<1>1. /\ deskCalls' \in [Slots -> DeskCall] /\ deskCalls'[s] = call
      /\ \A r \in Slots \ {s} : deskCalls'[r] = deskCalls[r]
  BY DeskEntered DEF DeskIInv
<1>2. DeskTypeOK'
  BY <1>1 DEF DeskIInv, DeskTypeOK
<1>3. MessagesSawOpen'
  BY <1>1 DEF DeskIInv, MessagesSawOpen
<1>4. AloneIsCurrent'
  <2>1. Assignee' = Assignee
    BY DEF Assignee
  <2>2. \A r \in Slots \ {s} : ~DeskAlone(r)'
    BY <1>1 DEF DeskAlone, DeskAt
  <2> QED BY <1>1, <2>1, <2>2 DEF AloneIsCurrent
<1>5. TurnsAreDue'
  BY <1>1 DEF DeskIInv, TurnsAreDue, TurnOfLast, DeskAt
<1>6. EscalationsFollowAssignments'
  BY DEF DeskIInv, EscalationsFollowAssignments
<1> QED BY <1>2, <1>3, <1>4, <1>5, <1>6 DEF DeskIInv

\* A call that ends: the others are idle, or the trouble is remembered.
LEMMA DeskLeft ==
  ASSUME DeskIInv, NEW s \in Slots, DeskLeave(s)
  PROVE  /\ deskCalls' \in [Slots -> DeskCall] /\ disturbed' \in BOOLEAN
         /\ deskCalls'[s] = DeskIdle /\ \A r \in Slots \ {s} : deskCalls'[r] = deskCalls[r]
         /\ disturbed => disturbed'
         /\ disturbed' \/ DeskAlone(s)
         /\ MessagesSawOpen' /\ AloneIsCurrent'
<1>1. /\ deskCalls' \in [Slots -> DeskCall] /\ deskCalls'[s] = DeskIdle
      /\ \A r \in Slots \ {s} : deskCalls'[r] = deskCalls[r]
  BY DeskEntered, DeskIdleFits DEF DeskIInv, DeskLeave
<1>2. /\ disturbed' \in BOOLEAN /\ (disturbed => disturbed') /\ (disturbed' \/ DeskAlone(s))
  BY DEF DeskIInv, DeskTypeOK, DeskLeave
<1>3. MessagesSawOpen'
  BY <1>1, DeskIdleFits DEF DeskIInv, MessagesSawOpen
<1>4. AloneIsCurrent'
  <2>1. disturbed' \/ \A r \in Slots : deskCalls'[r].step = "idle"
    BY <1>1, <1>2, DeskIdleFits DEF DeskAlone, DeskAt
  <2> QED BY <2>1 DEF AloneIsCurrent
<1> QED BY <1>1, <1>2, <1>3, <1>4

LEMMA DeskReads ==
  ASSUME DeskIInv, NEW s \in Slots,
         \/ \E staff \in BOOLEAN : AddMessage(s, staff)
         \/ \E agent \in Agents : Assign(s, agent) \/ Escalate(s, agent)
         \/ \E status \in Statuses, priority \in Priorities : PatchTicket(s, status, priority)
  PROVE  DeskIInv'
<1>0. ticket.status \in Statuses /\ Assignee \subseteq Agents
  <2>1. ticket.status \in Statuses /\ assignments \in Seq(Agents)
    BY DEF DeskIInv, DeskTypeOK
  <2>2. assignments # <<>> => assignments[Len(assignments)] \in Agents
    BY <2>1
  <2> QED BY <2>1, <2>2 DEF Assignee
<1>1. ASSUME NEW staff \in BOOLEAN, AddMessage(s, staff) PROVE DeskIInv'
  <2> DEFINE call == [DeskIdle EXCEPT !.step = "message", !.staff = staff, !.saw = ticket.status]
  <2>1. call \in DeskCall /\ call.step = "message" /\ call.saw = ticket.status
    BY <1>0 DEF DeskIdle, DeskCall, DeskSteps, Statuses, Priorities
  <2>2. /\ DeskAt(s, "idle") /\ ticket.status # "CLOSED" /\ DeskEnter(s, call)
        /\ UNCHANGED <<ticket, staffLast, assignments, escalations, disturbed, chosen>>
    BY <1>1 DEF AddMessage
  <2> HIDE DEF call
  <2> QED BY <2>1, <2>2, DeskQuiet
<1>2. ASSUME NEW agent \in Agents, Assign(s, agent) PROVE DeskIInv'
  <2> DEFINE call == [DeskIdle EXCEPT !.step = "assign", !.to = {agent}]
  <2>1. call \in DeskCall /\ call.step = "assign"
    BY DEF DeskIdle, DeskCall, DeskSteps, Statuses, Priorities
  <2>2. /\ DeskAt(s, "idle") /\ DeskEnter(s, call)
        /\ UNCHANGED <<ticket, staffLast, assignments, escalations, disturbed, chosen>>
    BY <1>2 DEF Assign
  <2> HIDE DEF call
  <2> QED BY <2>1, <2>2, DeskQuiet
<1>3. ASSUME NEW agent \in Agents, Escalate(s, agent) PROVE DeskIInv'
  <2> DEFINE call == [DeskIdle EXCEPT !.step = "escalate", !.to = {agent}, !.from = Assignee]
  <2>1. call \in DeskCall /\ call.step = "escalate" /\ call.from = Assignee
    BY <1>0 DEF DeskIdle, DeskCall, DeskSteps, Statuses, Priorities
  <2>2. /\ DeskAt(s, "idle") /\ DeskEnter(s, call)
        /\ UNCHANGED <<ticket, staffLast, assignments, escalations, disturbed, chosen>>
    BY <1>3 DEF Escalate
  <2> HIDE DEF call
  <2> QED BY <2>1, <2>2, DeskQuiet
<1>4. ASSUME NEW status \in Statuses, NEW priority \in Priorities, PatchTicket(s, status, priority)
      PROVE  DeskIInv'
  <2> DEFINE call == [DeskIdle EXCEPT !.step = "patch", !.saw = ticket.status,
                                      !.status = status, !.priority = priority]
  <2>1. call \in DeskCall /\ call.step = "patch"
    BY <1>0 DEF DeskIdle, DeskCall, DeskSteps
  <2>2. /\ DeskAt(s, "idle") /\ DeskEnter(s, call)
        /\ UNCHANGED <<ticket, staffLast, assignments, escalations, disturbed, chosen>>
    BY <1>4 DEF PatchTicket
  <2> HIDE DEF call
  <2> QED BY <2>1, <2>2, DeskQuiet
<1> QED BY <1>1, <1>2, <1>3, <1>4

LEMMA DeskWrites ==
  ASSUME DeskIInv, NEW s \in Slots,
         \/ CreateMessage(s) \/ TurnTicket(s) \/ CreateAssignment(s) \/ CreateEscalation(s)
         \/ WriteTicket(s) \/ AbandonTicketCall(s)
  PROVE  DeskIInv'
<1>0. /\ DeskTypeOK /\ MessagesSawOpen /\ AloneIsCurrent /\ EscalationsFollowAssignments
      /\ deskCalls[s] \in DeskCall /\ staffLast \in BOOLEAN /\ assignments \in Seq(Agents)
      /\ ticket.priority \in Priorities /\ ticket.status \in Statuses
  BY DEF DeskIInv, DeskTypeOK
\* An assignment added is the last, and what escalations followed is still there.
<1>a. ASSUME NEW agent \in Agents, assignments' = Append(assignments, agent),
             disturbed => disturbed'
      PROVE  /\ assignments' \in Seq(Agents)
             /\ \A e \in escalations : disturbed' \/
                  \E i \in DOMAIN assignments' :
                    /\ assignments'[i] = e.to
                    /\ e.from = IF i = 1 THEN {} ELSE {assignments'[i - 1]}
             /\ \E i \in DOMAIN assignments' :
                  /\ assignments'[i] = agent
                  /\ Assignee = IF i = 1 THEN {} ELSE {assignments'[i - 1]}
  <2>1. /\ Append(assignments, agent) \in Seq(Agents) /\ Len(assignments) \in Nat
        /\ DOMAIN assignments = 1 .. Len(assignments)
        /\ DOMAIN Append(assignments, agent) = 1 .. (Len(assignments) + 1)
        /\ Append(assignments, agent)[Len(assignments) + 1] = agent
        /\ \A j \in DOMAIN assignments : Append(assignments, agent)[j] = assignments[j]
    BY <1>0, RowAdded
  <2>2. /\ assignments' \in Seq(Agents) /\ DOMAIN assignments' = 1 .. (Len(assignments) + 1)
        /\ assignments'[Len(assignments) + 1] = agent
        /\ \A j \in 1 .. Len(assignments) : assignments'[j] = assignments[j]
    BY <1>a, <2>1
  <2>3. ASSUME NEW e \in escalations, ~disturbed'
        PROVE  \E i \in DOMAIN assignments' :
                 /\ assignments'[i] = e.to
                 /\ e.from = IF i = 1 THEN {} ELSE {assignments'[i - 1]}
    <3>1. PICK i \in DOMAIN assignments :
            /\ assignments[i] = e.to
            /\ e.from = IF i = 1 THEN {} ELSE {assignments[i - 1]}
      BY <1>0, <1>a, <2>3 DEF EscalationsFollowAssignments
    <3>2. i \in 1 .. Len(assignments) /\ (i # 1 => i - 1 \in 1 .. Len(assignments))
      BY <2>1
    <3>3. i \in DOMAIN assignments' /\ assignments'[i] = assignments[i]
          /\ (i # 1 => assignments'[i - 1] = assignments[i - 1])
      BY <2>1, <2>2, <3>2
    <3> QED BY <3>1, <3>3
  <2>4. /\ Len(assignments) + 1 \in DOMAIN assignments'
        /\ Assignee = IF Len(assignments) + 1 = 1 THEN {}
                      ELSE {assignments'[Len(assignments) + 1 - 1]}
    <3>1. CASE assignments = <<>>
      BY <2>1, <2>2, <3>1 DEF Assignee
    <3>2. CASE assignments # <<>>
      <4>1. Len(assignments) # 0
        BY <1>0, <3>2, EmptySeq
      <4>2. Len(assignments) \in 1 .. Len(assignments) /\ Len(assignments) + 1 - 1 = Len(assignments)
        BY <2>1, <4>1
      <4> QED BY <2>1, <2>2, <3>2, <4>1, <4>2 DEF Assignee
    <3> QED BY <3>1, <3>2
  <2>5. \E i \in DOMAIN assignments' :
          /\ assignments'[i] = agent
          /\ Assignee = IF i = 1 THEN {} ELSE {assignments'[i - 1]}
    <3> DEFINE n == Len(assignments) + 1
    <3>1. n \in DOMAIN assignments' /\ assignments'[n] = agent
      BY <2>2, <2>4
    <3>2. Assignee = IF n = 1 THEN {} ELSE {assignments'[n - 1]}
      BY <2>4
    <3> HIDE DEF n
    <3> QED BY <3>1, <3>2
  <2>6. \A e \in escalations : disturbed' \/
          \E i \in DOMAIN assignments' :
            /\ assignments'[i] = e.to
            /\ e.from = IF i = 1 THEN {} ELSE {assignments'[i - 1]}
    BY <2>3
  <2> QED BY <2>2, <2>5, <2>6
<1>1. ASSUME CreateMessage(s) PROVE DeskIInv'
  <2> DEFINE call == [deskCalls[s] EXCEPT !.step = "turn"]
  <2>1. /\ call \in DeskCall /\ call.step = "turn"
        /\ call.saw = deskCalls[s].saw /\ call.staff = deskCalls[s].staff
    BY <1>0 DEF DeskCall, DeskSteps
  <2>2. /\ DeskAt(s, "message") /\ staffLast' = deskCalls[s].staff
        /\ DeskEnter(s, call) /\ chosen' = FALSE
        /\ UNCHANGED <<ticket, assignments, escalations, disturbed>>
    BY <1>1 DEF CreateMessage
  <2> HIDE DEF call
  <2>3. /\ deskCalls' \in [Slots -> DeskCall] /\ deskCalls'[s] = call
        /\ \A r \in Slots \ {s} : deskCalls'[r] = deskCalls[r]
    BY <1>0, <2>1, <2>2, DeskEntered
  <2>4. staffLast' \in BOOLEAN /\ staffLast' = deskCalls[s].staff
    <3>1. deskCalls[s].staff \in BOOLEAN
      BY <1>0 DEF DeskCall
    <3> QED BY <1>0, <2>2, <3>1
  <2>5. DeskTypeOK'
    BY <1>0, <2>2, <2>3, <2>4 DEF DeskTypeOK
  <2>6. MessagesSawOpen'
    BY <1>0, <2>1, <2>2, <2>3 DEF MessagesSawOpen, DeskAt
  <2>7. AloneIsCurrent'
    <3>1. \A r \in Slots \ {s} : ~DeskAlone(r)'
      BY <2>1, <2>3 DEF DeskAlone, DeskAt
    <3> QED BY <2>1, <2>3, <2>4, <3>1 DEF AloneIsCurrent
  <2>8. TurnsAreDue'
    BY <2>1, <2>3 DEF TurnsAreDue, DeskAt
  <2>9. EscalationsFollowAssignments'
    BY <1>0, <2>2 DEF EscalationsFollowAssignments
  <2> QED BY <2>5, <2>6, <2>7, <2>8, <2>9 DEF DeskIInv
<1>2. ASSUME TurnTicket(s) PROVE DeskIInv'
  <2>1. /\ deskCalls[s].step = "turn" /\ DeskLeave(s)
        /\ ticket' = [ticket EXCEPT !.status = IF deskCalls[s].staff THEN "PENDING" ELSE "OPEN"]
        /\ UNCHANGED <<staffLast, assignments, escalations, chosen>>
    BY <1>2 DEF TurnTicket, DeskAt
  <2>2. /\ ticket' \in [status: Statuses, priority: Priorities]
        /\ ticket'.status = IF deskCalls[s].staff THEN "PENDING" ELSE "OPEN"
    BY <1>0, <2>1 DEF DeskTypeOK, Statuses
  <2>3. DeskTypeOK'
    BY <1>0, <2>1, <2>2, DeskLeft DEF DeskTypeOK
  <2>4. TurnsAreDue'
    <3>1. disturbed' \/ (~disturbed /\ DeskAlone(s))
      BY <2>1, DeskLeft DEF DeskIInv, DeskTypeOK
    <3>2. disturbed' \/ deskCalls[s].staff = staffLast
      BY <1>0, <2>1, <3>1 DEF AloneIsCurrent
    <3> QED BY <2>1, <2>2, <3>2 DEF TurnsAreDue, TurnOfLast
  <2>5. EscalationsFollowAssignments'
    BY <1>0, <2>1, DeskLeft DEF EscalationsFollowAssignments
  <2> QED BY <2>1, <2>3, <2>4, <2>5, DeskLeft DEF DeskIInv
<1>3. ASSUME CreateAssignment(s) PROVE DeskIInv'
  <2>1. /\ DeskLeave(s) /\ UNCHANGED <<ticket, staffLast, escalations, chosen>>
        /\ deskCalls[s].step = "assign"
    BY <1>3 DEF CreateAssignment, DeskAt
  <2>2. PICK agent \in Agents : assignments' = Append(assignments, agent)
    BY <1>0, <1>3 DEF CreateAssignment, DeskCall
  <2>3. /\ assignments' \in Seq(Agents) /\ EscalationsFollowAssignments'
    BY <1>a, <2>1, <2>2, DeskLeft DEF EscalationsFollowAssignments
  <2>4. DeskTypeOK'
    BY <1>0, <2>1, <2>3, DeskLeft DEF DeskTypeOK
  <2>5. TurnsAreDue'
    <3>1. disturbed' \/ \A r \in Slots : ~DeskAt(r, "turn")
      BY <2>1, DeskLeft DEF DeskAlone, DeskAt
    <3>2. disturbed' \/ chosen \/ ticket.status = TurnOfLast
      BY <2>1, <3>1, DeskLeft DEF DeskIInv, TurnsAreDue
    <3> QED BY <2>1, <3>2 DEF TurnsAreDue, TurnOfLast
  <2> QED BY <2>1, <2>3, <2>4, <2>5, DeskLeft DEF DeskIInv
<1>4. ASSUME CreateEscalation(s) PROVE DeskIInv'
  <2>1. /\ DeskLeave(s) /\ staffLast' = staffLast /\ chosen' = TRUE
        /\ ticket' = [status |-> "OPEN", priority |-> "HIGH"]
        /\ deskCalls[s].step = "escalate"
    BY <1>4 DEF CreateEscalation, DeskAt
  <2>2. PICK agent \in Agents :
          /\ assignments' = Append(assignments, agent)
          /\ escalations' = escalations \cup {[from |-> deskCalls[s].from, to |-> agent]}
    BY <1>0, <1>4 DEF CreateEscalation, DeskCall
  <2>3. assignments' \in Seq(Agents) /\ EscalationsFollowAssignments'
    <3>1. disturbed' \/ (~disturbed /\ DeskAlone(s))
      BY <2>1, DeskLeft DEF DeskIInv, DeskTypeOK
    <3>2. disturbed' \/ deskCalls[s].from = Assignee
      BY <1>0, <2>1, <3>1 DEF AloneIsCurrent
    <3>3. disturbed => disturbed'
      BY <2>1, DeskLeft
    <3>4. /\ assignments' \in Seq(Agents)
          /\ \A e \in escalations : disturbed' \/
               \E i \in DOMAIN assignments' :
                 /\ assignments'[i] = e.to
                 /\ e.from = IF i = 1 THEN {} ELSE {assignments'[i - 1]}
          /\ \E i \in DOMAIN assignments' :
               /\ assignments'[i] = agent
               /\ Assignee = IF i = 1 THEN {} ELSE {assignments'[i - 1]}
      BY <1>a, <2>2, <3>3
    <3> DEFINE new == [from |-> deskCalls[s].from, to |-> agent]
    <3>5. new.from = deskCalls[s].from /\ new.to = agent /\ escalations' = escalations \cup {new}
      BY <2>2
    <3> HIDE DEF new
    <3>6. disturbed' \/ \E i \in DOMAIN assignments' :
            /\ assignments'[i] = new.to
            /\ new.from = IF i = 1 THEN {} ELSE {assignments'[i - 1]}
      BY <3>2, <3>4, <3>5
    <3> QED BY <3>4, <3>5, <3>6 DEF EscalationsFollowAssignments
  <2>4. DeskTypeOK'
    <3>1. [from |-> deskCalls[s].from, to |-> agent] \in Escalation
      BY <1>0, <2>2 DEF DeskCall, Escalation
    <3>2. ticket' \in [status: Statuses, priority: Priorities]
      BY <2>1 DEF Statuses, Priorities
    <3> QED BY <1>0, <2>1, <2>2, <2>3, <3>1, <3>2, DeskLeft DEF DeskTypeOK
  <2>5. TurnsAreDue'
    BY <2>1 DEF TurnsAreDue
  <2> QED BY <2>1, <2>3, <2>4, <2>5, DeskLeft DEF DeskIInv
<1>5. ASSUME WriteTicket(s) PROVE DeskIInv'
  <2>1. /\ DeskLeave(s) /\ UNCHANGED <<staffLast, assignments, escalations>> /\ chosen' = TRUE
        /\ ticket' = [status |-> deskCalls[s].status, priority |-> deskCalls[s].priority]
    BY <1>5 DEF WriteTicket
  <2>2. ticket' \in [status: Statuses, priority: Priorities]
    BY <1>0, <2>1 DEF DeskCall
  <2>3. DeskTypeOK'
    BY <1>0, <2>1, <2>2, DeskLeft DEF DeskTypeOK
  <2>4. TurnsAreDue' /\ EscalationsFollowAssignments'
    BY <1>0, <2>1, DeskLeft DEF TurnsAreDue, EscalationsFollowAssignments
  <2> QED BY <2>1, <2>3, <2>4, DeskLeft DEF DeskIInv
<1>6. ASSUME AbandonTicketCall(s) PROVE DeskIInv'
  <2>1. /\ DeskEnter(s, DeskIdle) /\ disturbed' = TRUE
        /\ UNCHANGED <<ticket, staffLast, assignments, escalations, chosen>>
    BY <1>6 DEF AbandonTicketCall
  <2>2. /\ deskCalls' \in [Slots -> DeskCall] /\ deskCalls'[s] = DeskIdle
        /\ \A r \in Slots \ {s} : deskCalls'[r] = deskCalls[r]
    BY <1>0, <2>1, DeskEntered, DeskIdleFits
  <2>3. DeskTypeOK'
    BY <1>0, <2>1, <2>2 DEF DeskTypeOK
  <2>4. MessagesSawOpen'
    BY <1>0, <2>2, DeskIdleFits DEF MessagesSawOpen
  <2>5. AloneIsCurrent' /\ TurnsAreDue' /\ EscalationsFollowAssignments'
    BY <2>1 DEF AloneIsCurrent, TurnsAreDue, EscalationsFollowAssignments
  <2> QED BY <2>3, <2>4, <2>5 DEF DeskIInv
<1> QED BY <1>1, <1>2, <1>3, <1>4, <1>5, <1>6

LEMMA DeskInductive == ASSUME DeskIInv, [DeskNext]_deskVars PROVE DeskIInv'
<1>1. CASE UNCHANGED deskVars
  BY <1>1 DEF deskVars, DeskIInv, DeskTypeOK, MessagesSawOpen, AloneIsCurrent, TurnsAreDue,
              EscalationsFollowAssignments, TurnOfLast, Assignee, DeskAlone, DeskAt
<1>2. CASE DeskNext
  <2>1. ticket.status \in Statuses /\ ticket.priority \in Priorities
    BY DEF DeskIInv, DeskTypeOK
  <2> QED BY <1>2, <2>1, DeskReads, DeskWrites DEF DeskNext
<1> QED BY <1>1, <1>2

(* Every reachable state of the desk is well typed. *)
THEOREM DeskTypeCorrect == DeskSpec => []DeskTypeOK
<1>1. DeskIInv => DeskTypeOK
  BY DEF DeskIInv
<1> QED BY DeskInitial, DeskInductive, <1>1, PTL DEF DeskSpec

(* For any staff and any number of calls in flight, the ticket's status agrees *)
(* with its thread and its escalations with its assignments, unless calls      *)
(* overlapped or stopped halfway (support.service.ts:169-175, 252-269).        *)
THEOREM DeskAgrees == DeskSpec => []DeskBooksAgree
<1>1. DeskIInv => DeskBooksAgree
  BY DEF DeskIInv, DeskBooksAgree, TurnsAreDue, TurnIsTrue, TurnOfLast, DeskAt
<1> QED BY DeskInitial, DeskInductive, <1>1, PTL DEF DeskSpec

LEMMA Reopens ==
  ASSUME DeskIInv, [DeskNext]_deskVars, ticket.status = "CLOSED", ticket'.status # "CLOSED"
  PROVE  \E s \in Slots : /\ deskCalls'[s] # deskCalls[s]
           /\ \/ DeskAt(s, "escalate") \/ deskCalls[s].saw # "CLOSED"
              \/ DeskAt(s, "patch") /\ deskCalls[s].status # "CLOSED"
<1>1. ticket' # ticket /\ DeskNext
  BY DEF deskVars
<1>2. PICK s \in Slots : TurnTicket(s) \/ CreateEscalation(s) \/ WriteTicket(s)
  BY <1>1 DEF DeskNext, AddMessage, CreateMessage, Assign, Escalate, CreateAssignment,
              PatchTicket, AbandonTicketCall
<1>3. deskCalls'[s].step = "idle"
  <2>1. DeskLeave(s)
    BY <1>2 DEF TurnTicket, CreateEscalation, WriteTicket
  <2> QED BY <2>1, DeskLeft, DeskIdleFits
<1>4. CASE TurnTicket(s)
  BY <1>3, <1>4 DEF TurnTicket, DeskAt, DeskIInv, MessagesSawOpen
<1>5. CASE CreateEscalation(s)
  BY <1>3, <1>5 DEF CreateEscalation, DeskAt
<1>6. CASE WriteTicket(s)
  BY <1>3, <1>6 DEF WriteTicket, DeskAt
<1> QED BY <1>2, <1>4, <1>5, <1>6

(* A closed ticket is opened again by no message: only by an escalation, an    *)
(* operator who asks for it, or a call that had read it before it was closed   *)
(* (support.service.ts:166, 293).                                              *)
THEOREM ClosedStaysClosed == DeskSpec => ReopenedOnPurpose
<1>1. DeskIInv /\ DeskIInv' /\ [DeskNext]_deskVars
        => [ticket.status = "CLOSED" /\ ticket'.status # "CLOSED" =>
             \E s \in Slots : /\ deskCalls'[s] # deskCalls[s]
               /\ \/ DeskAt(s, "escalate") \/ deskCalls[s].saw # "CLOSED"
                  \/ DeskAt(s, "patch") /\ deskCalls[s].status # "CLOSED"]_deskVars
  BY Reopens
<1> QED BY DeskInitial, DeskInductive, <1>1, PTL DEF DeskSpec, ReopenedOnPurpose

-----------------------------------------------------------------------------
(* Appearance. *)

ThemeRow == [version: Nat, published: BOOLEAN]

\* The draft a publication has picked exists.
DraftsExist ==
  \A s \in Slots : cfgCalls[s].row # 0 => cfgCalls[s].row \in DOMAIN themes

\* As long as no call wrote under another, what a call has read is what there is.
ReadsAreCurrent(call) ==
  /\ call.step = "promote" => call.seen = Published
  /\ call.step = "activate" => call.seen = DOMAIN weights
  /\ call.step = "policy" => call.policy = [policy EXCEPT ![call.field] = call.policy[call.field]]
CfgCallsCurrent == cfgOverlapped \/ \A s \in Slots : ReadsAreCurrent(cfgCalls[s])

ThemeInForce == Published # {} /\ (cfgOverlapped \/ \A i, j \in Published : i = j)
WeightsInForce == Active # {} /\ (cfgOverlapped \/ \A i, j \in Active : i = j)

CfgIInv ==
  /\ CfgTypeOK /\ DraftsExist /\ CfgCallsCurrent
  /\ ThemeInForce /\ WeightsInForce /\ SettingsAreAsAsked

LEMMA CfgIdleFits == CfgIdle \in CfgCall /\ CfgIdle.step = "idle" /\ CfgIdle.row = 0
BY DEF CfgIdle, CfgCall, CfgSteps, Policies, Fields

LEMMA CfgInitial == CfgInit => CfgIInv
<1> SUFFICES ASSUME CfgInit PROVE CfgIInv
  OBVIOUS
<1>1. CfgTypeOK
  <2>1. [version |-> 1, published |-> TRUE] \in ThemeRow
    BY DEF ThemeRow
  <2>2. themes \in Seq(ThemeRow) /\ weights \in Seq(BOOLEAN)
    BY <2>1 DEF CfgInit
  <2>3. policy \in Policies /\ asked \in Policies
    BY DEF CfgInit, Policies
  <2> QED BY <2>2, <2>3, CfgIdleFits DEF CfgInit, CfgTypeOK, ThemeRow
<1>2. DraftsExist /\ CfgCallsCurrent
  BY CfgIdleFits DEF CfgInit, DraftsExist, CfgCallsCurrent, ReadsAreCurrent
<1>3. ThemeInForce
  <2>1. DOMAIN themes = {1} /\ themes[1].published
    BY DEF CfgInit
  <2> QED BY <2>1 DEF ThemeInForce, Published
<1>4. WeightsInForce
  <2>1. DOMAIN weights = {1} /\ weights[1]
    BY DEF CfgInit
  <2> QED BY <2>1 DEF WeightsInForce, Active
<1>5. SettingsAreAsAsked
  BY DEF CfgInit, SettingsAreAsAsked
<1> QED BY <1>1, <1>2, <1>3, <1>4, <1>5 DEF CfgIInv

\* Only the call that takes the step changes its slot.
LEMMA CfgEntered ==
  ASSUME NEW s \in Slots, NEW call \in CfgCall, CfgEnter(s, call), CfgTypeOK
  PROVE  /\ cfgCalls' \in [Slots -> CfgCall] /\ cfgCalls'[s] = call
         /\ \A r \in Slots \ {s} : cfgCalls'[r] = cfgCalls[r]
BY DEF CfgEnter, CfgTypeOK

\* A step that only reads.
LEMMA CfgQuiet ==
  ASSUME CfgIInv, NEW s \in Slots, NEW call \in CfgCall, CfgEnter(s, call),
         call.row # 0 => call.row \in DOMAIN themes,
         cfgOverlapped \/ ReadsAreCurrent(call),
         UNCHANGED <<themes, weights, policy, asked, cfgOverlapped>>
  PROVE  CfgIInv'
<1>1. /\ cfgCalls' \in [Slots -> CfgCall] /\ cfgCalls'[s] = call
      /\ \A r \in Slots \ {s} : cfgCalls'[r] = cfgCalls[r]
  BY CfgEntered DEF CfgIInv
<1>2. CfgTypeOK'
  BY <1>1 DEF CfgIInv, CfgTypeOK
<1>3. DraftsExist'
  BY <1>1 DEF CfgIInv, DraftsExist
<1>4. CfgCallsCurrent'
  <2>1. Published' = Published
    BY DEF Published
  <2>2. cfgOverlapped \/ \A r \in Slots : ReadsAreCurrent(cfgCalls'[r])
    BY <1>1 DEF CfgIInv, CfgCallsCurrent
  <2> QED BY <2>1, <2>2 DEF CfgCallsCurrent, ReadsAreCurrent
<1>5. ThemeInForce' /\ WeightsInForce' /\ SettingsAreAsAsked'
  BY DEF CfgIInv, ThemeInForce, WeightsInForce, SettingsAreAsAsked, Published, Active
<1> QED BY <1>2, <1>3, <1>4, <1>5 DEF CfgIInv

\* A call that has written: it was alone, or the overlap is remembered.
LEMMA CfgWriter ==
  ASSUME CfgIInv, NEW s \in Slots, CfgWrote(s)
  PROVE  /\ cfgCalls' \in [Slots -> CfgCall] /\ cfgOverlapped' \in BOOLEAN
         /\ \A r \in Slots : cfgCalls'[r] = CfgIdle \/ cfgCalls'[r] = cfgCalls[r]
         /\ cfgOverlapped => cfgOverlapped'
         /\ cfgOverlapped' \/ ReadsAreCurrent(cfgCalls[s])
         /\ CfgCallsCurrent'
<1>1. /\ cfgCalls' \in [Slots -> CfgCall] /\ cfgCalls'[s] = CfgIdle
      /\ \A r \in Slots \ {s} : cfgCalls'[r] = cfgCalls[r]
  BY CfgEntered, CfgIdleFits DEF CfgIInv, CfgWrote
<1>2. /\ cfgOverlapped' \in BOOLEAN /\ (cfgOverlapped => cfgOverlapped')
      /\ cfgOverlapped' \/ \A r \in Slots \ {s} : cfgCalls[r].step = "idle"
  BY DEF CfgIInv, CfgTypeOK, CfgWrote, CfgAt
<1>3. cfgOverlapped' \/ ReadsAreCurrent(cfgCalls[s])
  BY <1>2 DEF CfgIInv, CfgCallsCurrent
<1>4. CfgCallsCurrent'
  <2>1. cfgOverlapped' \/ \A r \in Slots : cfgCalls'[r].step = "idle"
    BY <1>1, <1>2, CfgIdleFits
  <2> QED BY <2>1 DEF CfgCallsCurrent, ReadsAreCurrent
<1> QED BY <1>1, <1>2, <1>3, <1>4

LEMMA CfgReads ==
  ASSUME CfgIInv, NEW s \in Slots,
         \/ SaveThemeDraft(s) \/ PublishTheme(s) \/ FindSource(s) \/ DemoteThemes(s)
         \/ UpdateWeights(s) \/ AbandonSetting(s)
         \/ \E field \in Fields, value \in BOOLEAN : UpdatePolicy(s, field, value)
  PROVE  CfgIInv'
<1>0. /\ themes \in Seq(ThemeRow) /\ weights \in Seq(BOOLEAN) /\ policy \in Policies
      /\ cfgCalls[s] \in CfgCall /\ DraftsExist
      /\ DOMAIN themes \subseteq Nat /\ DOMAIN weights \subseteq Nat
      /\ \A i \in DOMAIN themes : themes[i] \in ThemeRow
  <2>1. themes \in Seq(ThemeRow) /\ weights \in Seq(BOOLEAN)
    BY DEF CfgIInv, CfgTypeOK, ThemeRow
  <2> QED BY <2>1 DEF CfgIInv, CfgTypeOK
<1>1. ASSUME SaveThemeDraft(s) PROVE CfgIInv'
  <2>1. PICK i \in Newest(DOMAIN themes) :
          CfgEnter(s, [CfgIdle EXCEPT !.step = "draft", !.version = themes[i].version + 1])
    BY <1>1 DEF SaveThemeDraft
  <2> DEFINE call == [CfgIdle EXCEPT !.step = "draft", !.version = themes[i].version + 1]
  <2>2. call \in CfgCall /\ call.row = 0 /\ ReadsAreCurrent(call)
    <3>1. themes[i].version + 1 \in Nat
      BY <1>0 DEF Newest, ThemeRow
    <3> QED BY <3>1 DEF CfgIdle, CfgCall, CfgSteps, Policies, Fields, ReadsAreCurrent
  <2>3. CfgEnter(s, call) /\ UNCHANGED <<themes, weights, policy, asked, cfgOverlapped>>
    BY <1>1, <2>1 DEF SaveThemeDraft
  <2> HIDE DEF call
  <2> QED BY <2>2, <2>3, CfgQuiet
<1>2. ASSUME PublishTheme(s) PROVE CfgIInv'
  <2>1. CASE Drafts = {}
    <3> DEFINE call == [CfgIdle EXCEPT !.step = "source"]
    <3>1. call \in CfgCall /\ call.row = 0 /\ ReadsAreCurrent(call)
      BY DEF CfgIdle, CfgCall, CfgSteps, Policies, Fields, ReadsAreCurrent
    <3>2. CfgEnter(s, call) /\ UNCHANGED <<themes, weights, policy, asked, cfgOverlapped>>
      BY <1>2, <2>1 DEF PublishTheme
    <3> HIDE DEF call
    <3> QED BY <3>1, <3>2, CfgQuiet
  <2>2. CASE Drafts # {}
    <3>1. PICK i \in Newest(Drafts) : CfgEnter(s, [CfgIdle EXCEPT !.step = "demote", !.row = i])
      BY <1>2, <2>2 DEF PublishTheme
    <3> DEFINE call == [CfgIdle EXCEPT !.step = "demote", !.row = i]
    <3>2. i \in DOMAIN themes /\ i \in Nat
      BY <1>0 DEF Newest, Drafts
    <3>3. call \in CfgCall /\ call.row \in DOMAIN themes /\ ReadsAreCurrent(call)
      BY <3>2 DEF CfgIdle, CfgCall, CfgSteps, Policies, Fields, ReadsAreCurrent
    <3>4. CfgEnter(s, call) /\ UNCHANGED <<themes, weights, policy, asked, cfgOverlapped>>
      BY <1>2, <3>1 DEF PublishTheme
    <3> HIDE DEF call
    <3> QED BY <3>3, <3>4, CfgQuiet
  <2> QED BY <2>1, <2>2
<1>3. ASSUME FindSource(s) PROVE CfgIInv'
  <2>1. PICK version \in IF Published = {} THEN {0}
                         ELSE {themes[i].version : i \in Newest(Published)} :
          CfgEnter(s, [CfgIdle EXCEPT !.step = "demote", !.version = version + 2])
    BY <1>3 DEF FindSource
  <2>2. version \in Nat
    BY <1>0 DEF Newest, Published, ThemeRow
  <2> DEFINE call == [CfgIdle EXCEPT !.step = "demote", !.version = version + 2]
  <2>3. call \in CfgCall /\ call.row = 0 /\ ReadsAreCurrent(call)
    <3>1. version + 2 \in Nat
      BY <2>2
    <3> QED BY <3>1 DEF CfgIdle, CfgCall, CfgSteps, Policies, Fields, ReadsAreCurrent
  <2>4. CfgEnter(s, call) /\ UNCHANGED <<themes, weights, policy, asked, cfgOverlapped>>
    BY <1>3, <2>1 DEF FindSource
  <2> HIDE DEF call
  <2> QED BY <2>3, <2>4, CfgQuiet
<1>4. ASSUME DemoteThemes(s) PROVE CfgIInv'
  <2> DEFINE call == [cfgCalls[s] EXCEPT !.step = "promote", !.seen = Published]
  <2>1. Published \subseteq Nat
    BY <1>0 DEF Published
  <2>2. call \in CfgCall /\ call.row = cfgCalls[s].row /\ ReadsAreCurrent(call)
    BY <1>0, <2>1 DEF CfgCall, CfgSteps, ReadsAreCurrent
  <2>3. CfgEnter(s, call) /\ UNCHANGED <<themes, weights, policy, asked, cfgOverlapped>>
    BY <1>4 DEF DemoteThemes
  <2> HIDE DEF call
  <2> QED BY <1>0, <2>2, <2>3, CfgQuiet DEF DraftsExist
<1>5. ASSUME UpdateWeights(s) PROVE CfgIInv'
  <2> DEFINE call == [CfgIdle EXCEPT !.step = "activate", !.seen = DOMAIN weights]
  <2>1. call \in CfgCall /\ call.row = 0 /\ ReadsAreCurrent(call)
    BY <1>0 DEF CfgIdle, CfgCall, CfgSteps, Policies, Fields, ReadsAreCurrent
  <2>2. CfgEnter(s, call) /\ UNCHANGED <<themes, weights, policy, asked, cfgOverlapped>>
    BY <1>5 DEF UpdateWeights
  <2> HIDE DEF call
  <2> QED BY <2>1, <2>2, CfgQuiet
<1>6. ASSUME AbandonSetting(s) PROVE CfgIInv'
  <2>1. ReadsAreCurrent(CfgIdle)
    BY CfgIdleFits DEF ReadsAreCurrent
  <2> QED BY <1>6, <2>1, CfgIdleFits, CfgQuiet DEF AbandonSetting
<1>7. ASSUME NEW field \in Fields, NEW value \in BOOLEAN, UpdatePolicy(s, field, value)
      PROVE  CfgIInv'
  <2> DEFINE new == [policy EXCEPT ![field] = value]
             call == [CfgIdle EXCEPT !.step = "policy", !.field = field, !.policy = new]
  <2>1. new \in Policies /\ new = [policy EXCEPT ![field] = new[field]]
    BY <1>0 DEF Policies
  <2> HIDE DEF new
  <2>2. call \in CfgCall /\ call.row = 0 /\ ReadsAreCurrent(call)
    BY <2>1 DEF CfgIdle, CfgCall, CfgSteps, ReadsAreCurrent
  <2>3. CfgEnter(s, call) /\ UNCHANGED <<themes, weights, policy, asked, cfgOverlapped>>
    BY <1>7 DEF UpdatePolicy, new
  <2> HIDE DEF call
  <2> QED BY <2>2, <2>3, CfgQuiet
<1> QED BY <1>1, <1>2, <1>3, <1>4, <1>5, <1>6, <1>7

LEMMA CfgWrites ==
  ASSUME CfgIInv, NEW s \in Slots,
         CreateDraft(s) \/ PromoteTheme(s) \/ ActivateWeights(s) \/ WritePolicy(s)
  PROVE  CfgIInv'
<1>0. /\ themes \in Seq(ThemeRow) /\ weights \in Seq(BOOLEAN) /\ cfgCalls[s] \in CfgCall
      /\ policy \in Policies /\ asked \in Policies
      /\ DraftsExist /\ ThemeInForce /\ WeightsInForce /\ SettingsAreAsAsked
      /\ DOMAIN themes = 1 .. Len(themes) /\ Len(themes) \in Nat
      /\ \A i \in DOMAIN themes : themes[i] \in ThemeRow
      /\ \A i \in DOMAIN weights : weights[i] \in BOOLEAN
  <2>1. themes \in Seq(ThemeRow) /\ weights \in Seq(BOOLEAN)
    BY DEF CfgIInv, CfgTypeOK, ThemeRow
  <2>2. DOMAIN themes = 1 .. Len(themes) /\ Len(themes) \in Nat
    BY <2>1
  <2> QED BY <2>1, <2>2 DEF CfgIInv, CfgTypeOK
\* What stays when the themes do.
<1>t. UNCHANGED themes /\ (cfgOverlapped => cfgOverlapped') => ThemeInForce'
  BY <1>0 DEF ThemeInForce, Published
<1>w. UNCHANGED weights /\ (cfgOverlapped => cfgOverlapped') => WeightsInForce'
  BY <1>0 DEF WeightsInForce, Active
<1>p. UNCHANGED <<policy, asked>> /\ (cfgOverlapped => cfgOverlapped') => SettingsAreAsAsked'
  BY <1>0 DEF SettingsAreAsAsked
<1>d. DOMAIN themes \subseteq DOMAIN themes' /\ CfgWrote(s) => DraftsExist'
  BY <1>0, CfgWriter, CfgIdleFits DEF DraftsExist
<1>1. ASSUME CreateDraft(s) PROVE CfgIInv'
  <2> DEFINE row == [version |-> cfgCalls[s].version, published |-> FALSE]
  <2>1. row \in ThemeRow /\ row.published = FALSE
    BY <1>0 DEF CfgCall, ThemeRow
  <2>2. themes' = Append(themes, row) /\ CfgWrote(s) /\ UNCHANGED <<weights, policy, asked>>
    BY <1>1 DEF CreateDraft
  <2> HIDE DEF row
  <2>3. /\ Append(themes, row) \in Seq(ThemeRow)
        /\ DOMAIN Append(themes, row) = 1 .. (Len(themes) + 1)
        /\ Append(themes, row)[Len(themes) + 1] = row
        /\ \A j \in DOMAIN themes : Append(themes, row)[j] = themes[j]
    BY <1>0, <2>1, RowAdded
  <2>4. themes' \in Seq(ThemeRow) /\ DOMAIN themes \subseteq DOMAIN themes'
    BY <1>0, <2>2, <2>3
  <2>5. Published' = Published
    BY <1>0, <2>1, <2>2, <2>3 DEF Published
  <2>6. CfgTypeOK'
    BY <1>0, <2>2, <2>4, CfgWriter DEF CfgTypeOK, ThemeRow
  <2>7. ThemeInForce'
    BY <1>0, <2>2, <2>5, CfgWriter DEF ThemeInForce
  <2> QED BY <1>w, <1>p, <1>d, <2>2, <2>4, <2>6, <2>7, CfgWriter DEF CfgIInv
<1>2. ASSUME PromoteTheme(s) PROVE CfgIInv'
  <2> DEFINE call == cfgCalls[s]
             row(i) == [themes[i] EXCEPT !.published = themes[i].published /\ i \notin call.seen]
             demoted == [i \in DOMAIN themes |-> row(i)]
  <2>1. /\ themes' = IF call.row = 0
                     THEN Append(demoted, [version |-> call.version, published |-> TRUE])
                     ELSE [demoted EXCEPT ![call.row].published = TRUE]
        /\ CfgWrote(s) /\ UNCHANGED <<weights, policy, asked>> /\ call.step = "promote"
    BY <1>2 DEF PromoteTheme, CfgAt
  <2>2. \A i \in DOMAIN themes :
          row(i) \in ThemeRow /\ (row(i).published <=> i \in Published \ call.seen)
    BY <1>0 DEF ThemeRow, Published
  <2> HIDE DEF row
  <2>3. /\ demoted \in Seq(ThemeRow) /\ DOMAIN demoted = DOMAIN themes
        /\ Len(demoted) = Len(themes) /\ \A i \in DOMAIN themes : demoted[i] = row(i)
    <3>1. demoted \in [DOMAIN themes -> ThemeRow]
      BY <2>2
    <3> QED BY <1>0, <3>1, RowsMapped
  <2> HIDE DEF demoted
  <2>4. \E n \in Nat \ {0} :
          /\ themes' \in Seq(ThemeRow) /\ DOMAIN themes \subseteq DOMAIN themes'
          /\ n \in DOMAIN themes' /\ themes'[n].published
          /\ \A i \in DOMAIN themes' \ {n} :
               i \in DOMAIN themes /\ themes'[i] = row(i)
    <3>1. CASE call.row = 0
      <4> DEFINE new == [version |-> call.version, published |-> TRUE]
      <4>1. new \in ThemeRow /\ new.published
        BY <1>0 DEF CfgCall, ThemeRow
      <4>2. themes' = Append(demoted, new)
        BY <2>1, <3>1
      <4> HIDE DEF new
      <4>3. /\ Append(demoted, new) \in Seq(ThemeRow)
            /\ DOMAIN Append(demoted, new) = 1 .. (Len(demoted) + 1)
            /\ Append(demoted, new)[Len(demoted) + 1] = new
            /\ \A j \in DOMAIN demoted : Append(demoted, new)[j] = demoted[j]
        BY <2>3, <4>1, RowAdded
      <4>4. /\ themes' \in Seq(ThemeRow) /\ DOMAIN themes' = 1 .. (Len(themes) + 1)
            /\ themes'[Len(themes) + 1] = new
            /\ \A j \in DOMAIN themes : themes'[j] = row(j)
        BY <2>3, <4>2, <4>3
      <4> DEFINE n == Len(themes) + 1
      <4>5. /\ n \in Nat \ {0} /\ n \in DOMAIN themes' /\ themes'[n] = new
            /\ DOMAIN themes \subseteq DOMAIN themes'
            /\ \A i \in DOMAIN themes' \ {n} : i \in DOMAIN themes
        BY <1>0, <4>4
      <4> HIDE DEF n
      <4> QED BY <4>1, <4>4, <4>5
    <3>2. CASE call.row # 0
      <4>1. call.row \in DOMAIN themes /\ call.row \in Nat \ {0}
        BY <1>0, <3>2 DEF DraftsExist
      <4> DEFINE new == [demoted[call.row] EXCEPT !.published = TRUE]
      <4>2. new \in ThemeRow /\ new.published
        BY <2>2, <2>3, <4>1 DEF ThemeRow
      <4>3. themes' = [demoted EXCEPT ![call.row] = new]
        BY <2>1, <3>2
      <4> HIDE DEF new
      <4>4. /\ [demoted EXCEPT ![call.row] = new] \in Seq(ThemeRow)
            /\ DOMAIN [demoted EXCEPT ![call.row] = new] = DOMAIN demoted
            /\ [demoted EXCEPT ![call.row] = new][call.row] = new
            /\ \A j \in DOMAIN demoted \ {call.row} :
                 [demoted EXCEPT ![call.row] = new][j] = demoted[j]
        <5>1. call.row \in DOMAIN demoted
          BY <2>3, <4>1
        <5> HIDE DEF call
        <5> QED BY <2>3, <4>2, <5>1, RowWritten
      <4>5. /\ themes' \in Seq(ThemeRow) /\ DOMAIN themes' = DOMAIN themes
            /\ themes'[call.row] = new
            /\ \A j \in DOMAIN themes \ {call.row} : themes'[j] = row(j)
        BY <2>3, <4>3, <4>4
      <4> HIDE DEF call
      <4> QED BY <4>1, <4>2, <4>5
    <3> QED BY <3>1, <3>2
  <2>5. PICK n \in Nat \ {0} :
          /\ themes' \in Seq(ThemeRow) /\ DOMAIN themes \subseteq DOMAIN themes'
          /\ n \in DOMAIN themes' /\ themes'[n].published
          /\ \A i \in DOMAIN themes' \ {n} :
               i \in DOMAIN themes /\ themes'[i] = row(i)
    BY <2>4
  <2>6. /\ n \in Published'
        /\ \A i \in Published' \ {n} : i \in Published \ call.seen
    BY <2>2, <2>5 DEF Published
  <2>7. CfgTypeOK'
    BY <1>0, <2>1, <2>5, CfgWriter DEF CfgTypeOK, ThemeRow
  <2>8. ThemeInForce'
    <3>1. cfgOverlapped' \/ call.seen = Published
      BY <2>1, CfgWriter DEF ReadsAreCurrent
    <3> QED BY <2>6, <3>1 DEF ThemeInForce
  <2> QED BY <1>w, <1>p, <1>d, <2>1, <2>5, <2>7, <2>8, CfgWriter DEF CfgIInv
<1>3. ASSUME ActivateWeights(s) PROVE CfgIInv'
  <2> DEFINE seen == cfgCalls[s].seen
             out == [i \in DOMAIN weights |-> weights[i] /\ i \notin seen]
  <2>1. /\ weights' = Append(out, TRUE) /\ CfgWrote(s) /\ UNCHANGED <<themes, policy, asked>>
        /\ cfgCalls[s].step = "activate"
    BY <1>3 DEF ActivateWeights, CfgAt
  <2>2. /\ out \in Seq(BOOLEAN) /\ DOMAIN out = DOMAIN weights
        /\ \A i \in DOMAIN weights : out[i] => i \notin seen
    <3>1. out \in [DOMAIN weights -> BOOLEAN]
      BY <1>0
    <3>2. out \in Seq(BOOLEAN) /\ DOMAIN out = DOMAIN weights
      <4> HIDE DEF out
      <4> QED BY <1>0, <3>1, RowsMapped
    <3> QED BY <3>2
  <2> HIDE DEF out
  <2>3. \A on \in BOOLEAN :
          /\ Append(out, on) \in Seq(BOOLEAN) /\ Len(out) \in Nat
          /\ DOMAIN out = 1 .. Len(out) /\ DOMAIN Append(out, on) = 1 .. (Len(out) + 1)
          /\ Append(out, on)[Len(out) + 1] = on
          /\ \A j \in DOMAIN out : Append(out, on)[j] = out[j]
    BY <2>2, RowAdded
  <2>4. weights' \in Seq(BOOLEAN) /\ Len(out) + 1 \in Active'
        /\ \A i \in Active' \ {Len(out) + 1} : i \in DOMAIN weights /\ i \notin seen
    <3>1. PICK on \in BOOLEAN : on = TRUE
      OBVIOUS
    <3>2. /\ weights' \in Seq(BOOLEAN) /\ Len(out) \in Nat /\ DOMAIN weights = 1 .. Len(out)
          /\ DOMAIN weights' = 1 .. (Len(out) + 1) /\ weights'[Len(out) + 1]
          /\ \A j \in DOMAIN weights : weights'[j] = out[j]
      BY <2>1, <2>2, <2>3, <3>1
    <3> QED BY <2>2, <3>2 DEF Active
  <2>5. CfgTypeOK'
    BY <1>0, <2>1, <2>4, CfgWriter DEF CfgTypeOK, ThemeRow
  <2>6. WeightsInForce'
    <3>1. cfgOverlapped' \/ seen = DOMAIN weights
      BY <2>1, CfgWriter DEF ReadsAreCurrent
    <3> QED BY <2>4, <3>1 DEF WeightsInForce
  <2> QED BY <1>t, <1>p, <1>d, <2>1, <2>5, <2>6, CfgWriter DEF CfgIInv
<1>4. ASSUME WritePolicy(s) PROVE CfgIInv'
  <2> DEFINE call == cfgCalls[s]
  <2>1. /\ policy' = call.policy /\ asked' = [asked EXCEPT ![call.field] = call.policy[call.field]]
        /\ CfgWrote(s) /\ UNCHANGED <<themes, weights>> /\ call.step = "policy"
    BY <1>4 DEF WritePolicy, CfgAt
  <2>2. policy' \in Policies /\ asked' \in Policies
    <3>1. call.policy \in Policies /\ call.field \in Fields
      BY <1>0 DEF CfgCall
    <3> QED BY <1>0, <2>1, <3>1 DEF Policies
  <2>3. CfgTypeOK'
    BY <1>0, <2>1, <2>2, CfgWriter DEF CfgTypeOK, ThemeRow
  <2>4. SettingsAreAsAsked'
    <3>1. cfgOverlapped' \/ (call.policy = [policy EXCEPT ![call.field] = call.policy[call.field]])
      BY <2>1, CfgWriter DEF ReadsAreCurrent
    <3>2. cfgOverlapped' \/ policy = asked
      BY <1>0, <2>1, CfgWriter DEF SettingsAreAsAsked
    <3> QED BY <2>1, <3>1, <3>2 DEF SettingsAreAsAsked
  <2> QED BY <1>t, <1>w, <1>d, <2>1, <2>3, <2>4, CfgWriter DEF CfgIInv
<1> QED BY <1>1, <1>2, <1>3, <1>4

LEMMA CfgInductive == ASSUME CfgIInv, [CfgNext]_cfgVars PROVE CfgIInv'
<1>1. CASE UNCHANGED cfgVars
  BY <1>1 DEF cfgVars, CfgIInv, CfgTypeOK, DraftsExist, CfgCallsCurrent, ReadsAreCurrent,
              ThemeInForce, WeightsInForce, SettingsAreAsAsked, Published, Active
<1>2. CASE CfgNext
  BY <1>2, CfgReads, CfgWrites DEF CfgNext
<1> QED BY <1>1, <1>2

(* Every reachable state of the configuration is well typed. *)
THEOREM CfgTypeCorrect == CfgSpec => []CfgTypeOK
<1>1. CfgIInv => CfgTypeOK
  BY DEF CfgIInv
<1> QED BY CfgInitial, CfgInductive, <1>1, PTL DEF CfgSpec

(* For any number of rows and calls in flight, a theme and a set of weights    *)
(* are in force at every moment, and while no two calls overlap there is one   *)
(* of each and the policy is as it was last saved (configuration.service.ts:   *)
(* 176-230, 341-359).                                                          *)
THEOREM ConfigurationHolds == CfgSpec => []ConfiguredIsInForce
<1>1. CfgIInv => ConfiguredIsInForce
  BY DEF CfgIInv, ConfiguredIsInForce, OneInForce, ThemeInForce, WeightsInForce
<1> QED BY CfgInitial, CfgInductive, <1>1, PTL DEF CfgSpec
=============================================================================
