---------------------------- MODULE Verification ----------------------------
(***************************************************************************)
(* A member's requests to have the identity verified, the operators'       *)
(* decisions, and the badge that the professional profile shows.           *)
(***************************************************************************)
EXTENDS Handlers, Sequences

CONSTANT MaxRequests      \* bound: the requests of the member
ASSUME VerificationAssumption == MaxRequests \in Nat

VARIABLES
  requests,               \* verification_requests: their status, in order of creation
  badge,                  \* the profile's identityVerificationStatus; NONE: no profile
  told,                   \* the outcomes that were notified: request and verdict
  verCalls,               \* Slots -> the call in flight
  verOverlapped           \* history: a request was written under another call
verVars == <<requests, badge, told, verCalls, verOverlapped>>

\* UNDER_REVIEW is read like PENDING and never written.
Verdicts == {"VERIFIED", "REJECTED"}
RequestStatuses == {"PENDING"} \cup Verdicts
Open == {i \in DOMAIN requests : requests[i] = "PENDING"}

VerSteps == {"idle", "create", "mark", "decide", "badge", "tell"}
VerCall == [step: VerSteps, of: Nat, status: RequestStatuses]
VerIdle == [step |-> "idle", of |-> 0, status |-> "PENDING"]
VerAt(s, step) == verCalls[s].step = step
VerEnter(s, call) == verCalls' = [verCalls EXCEPT ![s] = call]
VerGoTo(s, step) == VerEnter(s, [verCalls[s] EXCEPT !.step = step])
VerWrote(s) ==
  verOverlapped' = (verOverlapped \/ \E r \in Slots \ {s} : verCalls[r].step # "idle")

VerInit ==
  /\ requests = <<>> /\ badge \in {"NONE", "UNVERIFIED"} /\ told = {}
  /\ verCalls = [s \in Slots |-> VerIdle]
  /\ verOverlapped = FALSE

\* Mutant: an open request is not looked for.
RequestAnother(s) ==
  /\ VerAt(s, "idle")
  /\ VerEnter(s, [VerIdle EXCEPT !.step = "create"])
  /\ UNCHANGED <<requests, badge, told, verOverlapped>>

\* requestIdentity, with documents that are ready, finds no open request.
RequestIdentity(s) ==
  /\ VerAt(s, "idle") /\ Open = {}
  /\ VerEnter(s, [VerIdle EXCEPT !.step = "create"])
  /\ UNCHANGED <<requests, badge, told, verOverlapped>>
CreateRequest(s) ==
  /\ VerAt(s, "create") /\ Len(requests) < MaxRequests
  /\ requests' = Append(requests, "PENDING")
  /\ VerGoTo(s, "mark") /\ VerWrote(s)
  /\ UNCHANGED <<badge, told>>
\* The profile, if there is one by now, shows what the call brings.
MarkProfile(s) ==
  /\ VerAt(s, "mark")
  /\ badge' = IF badge = "NONE" THEN badge ELSE "PENDING"
  /\ VerEnter(s, VerIdle) /\ VerWrote(s)
  /\ UNCHANGED <<requests, told>>

\* Mutant: a request is decided again.
DecideAgain(s, i, verdict) ==
  /\ VerAt(s, "idle")
  /\ VerEnter(s, [step |-> "decide", of |-> i, status |-> verdict])
  /\ UNCHANGED <<requests, badge, told, verOverlapped>>

\* decide refuses a request that is decided, then writes it by id.
Decide(s, i, verdict) ==
  /\ VerAt(s, "idle") /\ i \in Open
  /\ VerEnter(s, [step |-> "decide", of |-> i, status |-> verdict])
  /\ UNCHANGED <<requests, badge, told, verOverlapped>>
WriteDecision(s) ==
  /\ VerAt(s, "decide")
  /\ requests' = [requests EXCEPT ![verCalls[s].of] = verCalls[s].status]
  /\ VerGoTo(s, "badge") /\ VerWrote(s)
  /\ UNCHANGED <<badge, told>>
BadgeProfile(s) ==
  /\ VerAt(s, "badge")
  /\ badge' = IF badge = "NONE" THEN badge ELSE verCalls[s].status
  /\ VerGoTo(s, "tell") /\ VerWrote(s)
  /\ UNCHANGED <<requests, told>>
TellMember(s) ==
  /\ VerAt(s, "tell")
  /\ told' = told \cup {<<verCalls[s].of, verCalls[s].status>>}
  /\ VerEnter(s, VerIdle)
  /\ UNCHANGED <<requests, badge, verOverlapped>>

\* Onboarding creates the profile, which takes no notice of earlier verdicts.
CreateProfile ==
  /\ badge = "NONE" /\ badge' = "UNVERIFIED"
  /\ UNCHANGED <<requests, told, verCalls, verOverlapped>>

AbandonVerification(s) ==
  /\ ~VerAt(s, "idle")
  /\ VerEnter(s, VerIdle)
  /\ UNCHANGED <<requests, badge, told, verOverlapped>>

VerNext ==
  \/ \E s \in Slots :
       \/ RequestIdentity(s) \/ CreateRequest(s) \/ MarkProfile(s)
       \/ \E i \in DOMAIN requests, verdict \in Verdicts : Decide(s, i, verdict)
       \/ WriteDecision(s) \/ BadgeProfile(s) \/ TellMember(s) \/ AbandonVerification(s)
  \/ CreateProfile
VerSpec == VerInit /\ [][VerNext]_verVars

-----------------------------------------------------------------------------
(* Every variable keeps its type. *)
VerTypeOK ==
  /\ requests \in Seq(RequestStatuses)
  /\ badge \in {"NONE", "UNVERIFIED"} \cup RequestStatuses
  /\ told \subseteq Nat \X Verdicts
  /\ verCalls \in [Slots -> VerCall]
  /\ verOverlapped \in BOOLEAN

(* A profile shows VERIFIED, and a member is told so, only while the request   *)
(* that was approved says so too, through stops halfway and later requests:    *)
(* only decisions that overlap break it, as each checks the status it read     *)
(* (verification.service.ts:124-153).                                          *)
BadgeIsEarned ==
  \/ verOverlapped
  \/ /\ badge = "VERIFIED" => \E i \in DOMAIN requests : requests[i] = "VERIFIED"
     /\ \A t \in told : requests[t[1]] = t[2]

(* A member has one open request at a time, unless two calls overlapped: the   *)
(* check (verification.service.ts:34) and the insert are two statements.       *)
OneOpenRequest == verOverlapped \/ \A i, j \in Open : i = j

(* A member is verified by one request at a time, and the badge is what that   *)
(* request earned (verification.service.ts:34, 124-153).                       *)
VerdictsHold == BadgeIsEarned /\ OneOpenRequest
=============================================================================
