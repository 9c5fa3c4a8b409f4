----------------------------- MODULE Moderation -----------------------------
(***************************************************************************)
(* The report queue and what a moderator hides: a profile, which its owner *)
(* also saves, a message, or a business.                                   *)
(***************************************************************************)
EXTENDS Handlers, Sequences

CONSTANT MaxReports       \* bound: reports ever made
ASSUME ModerationAssumption == MaxReports \in Nat

VARIABLES
  reports,                \* the rows: target and status
  visible,                \* isDiscoverable, hiddenAt = null, status = ACTIVE
  actions,                \* moderation_actions: the report and what was done
  moderated,              \* history: hidden by a moderator, not shown on request since
  modCalls,               \* Slots -> the call in flight
  modOverlapped,          \* history: calls overlapped, one of them writing
  modStopped              \* history: a call stopped between two statements
modVars == <<reports, visible, actions, moderated, modCalls, modOverlapped, modStopped>>

Targets == {"PROFILE", "MESSAGE", "BUSINESS"}
Outcomes == {"ACTIONED", "DISMISSED"}
Report == [target: Targets, status: {"OPEN"} \cup Outcomes]

ModSteps == {"idle", "hide", "resolve", "record", "save"}
\* of: the report; outcome: what it will be; shown, asked: what a profile save
\* writes to isDiscoverable, and whether its input says so.
ModCall == [step: ModSteps, of: Nat, outcome: Outcomes, shown: BOOLEAN, asked: BOOLEAN]
ModIdle == [step |-> "idle", of |-> 0, outcome |-> "DISMISSED", shown |-> FALSE, asked |-> FALSE]
ModAt(s, step) == modCalls[s].step = step
ModEnter(s, call) == modCalls' = [modCalls EXCEPT ![s] = call]
ModGoTo(s, step) == ModEnter(s, [modCalls[s] EXCEPT !.step = step])
ModWrote(s) ==
  modOverlapped' = (modOverlapped \/ \E r \in Slots \ {s} : ~ModAt(r, "idle"))

ModInit ==
  /\ reports = <<>> /\ actions = {} /\ moderated = {}
  /\ visible = [t \in Targets |-> TRUE]
  /\ modCalls = [s \in Slots |-> ModIdle]
  /\ modOverlapped = FALSE /\ modStopped = FALSE

CreateReport(target) ==
  /\ Len(reports) < MaxReports
  /\ reports' = Append(reports, [target |-> target, status |-> "OPEN"])
  /\ UNCHANGED <<visible, actions, moderated, modCalls, modOverlapped, modStopped>>

\* Mutant: a resolved report is decided again.
ModerateAgain(s, i, outcome) ==
  /\ ModAt(s, "idle")
  /\ ModEnter(s, [ModIdle EXCEPT !.of = i, !.outcome = outcome,
                  !.step = IF outcome = "ACTIONED" THEN "hide" ELSE "resolve"])
  /\ UNCHANGED <<reports, visible, actions, moderated, modOverlapped, modStopped>>

\* moderate refuses a report that is resolved, hides, resolves by id, records.
Moderate(s, i, outcome) ==
  /\ ModAt(s, "idle") /\ reports[i].status = "OPEN"
  /\ ModEnter(s, [ModIdle EXCEPT !.of = i, !.outcome = outcome,
                  !.step = IF outcome = "ACTIONED" THEN "hide" ELSE "resolve"])
  /\ UNCHANGED <<reports, visible, actions, moderated, modOverlapped, modStopped>>
HideTarget(s) ==
  LET target == reports[modCalls[s].of].target IN
  /\ ModAt(s, "hide")
  /\ visible' = [visible EXCEPT ![target] = FALSE]
  /\ moderated' = moderated \cup {target}
  /\ ModGoTo(s, "resolve") /\ ModWrote(s)
  /\ UNCHANGED <<reports, actions, modStopped>>
ResolveReport(s) ==
  /\ ModAt(s, "resolve")
  /\ reports' = [reports EXCEPT ![modCalls[s].of].status = modCalls[s].outcome]
  /\ ModGoTo(s, "record") /\ ModWrote(s)
  /\ UNCHANGED <<visible, actions, moderated, modStopped>>
RecordAction(s) ==
  /\ ModAt(s, "record")
  /\ actions' = actions \cup {[of |-> modCalls[s].of, outcome |-> modCalls[s].outcome]}
  /\ ModEnter(s, ModIdle)
  /\ UNCHANGED <<reports, visible, moderated, modOverlapped, modStopped>>

\* Mutant: a save that does not say so shows the profile.
SaveShown(s, asked, shown) ==
  /\ ModAt(s, "idle")
  /\ asked \/ shown
  /\ ModEnter(s, [ModIdle EXCEPT !.step = "save", !.asked = asked, !.shown = shown])
  /\ UNCHANGED <<reports, visible, actions, moderated, modOverlapped, modStopped>>

\* writeProfile reads the profile, then writes every column of it: isDiscoverable
\* as it was read unless the input has it.
SaveOwnProfile(s, asked, shown) ==
  /\ ModAt(s, "idle")
  /\ asked \/ shown = visible["PROFILE"]
  /\ ModEnter(s, [ModIdle EXCEPT !.step = "save", !.asked = asked, !.shown = shown])
  /\ UNCHANGED <<reports, visible, actions, moderated, modOverlapped, modStopped>>
WriteProfile(s) ==
  LET call == modCalls[s] IN
  /\ ModAt(s, "save")
  /\ visible' = [visible EXCEPT !["PROFILE"] = call.shown]
  /\ moderated' = IF call.asked /\ call.shown THEN moderated \ {"PROFILE"} ELSE moderated
  /\ ModEnter(s, ModIdle) /\ ModWrote(s)
  /\ UNCHANGED <<reports, actions, modStopped>>

AbandonModeration(s) ==
  /\ ~ModAt(s, "idle")
  /\ ModEnter(s, ModIdle)
  /\ modStopped' = TRUE
  /\ UNCHANGED <<reports, visible, actions, moderated, modOverlapped>>

ModNext ==
  \/ \E target \in Targets : CreateReport(target)
  \/ \E s \in Slots :
       \/ \E i \in DOMAIN reports, outcome \in Outcomes : Moderate(s, i, outcome)
       \/ HideTarget(s) \/ ResolveReport(s) \/ RecordAction(s)
       \/ \E asked, shown \in BOOLEAN : SaveOwnProfile(s, asked, shown)
       \/ WriteProfile(s) \/ AbandonModeration(s)
ModSpec == ModInit /\ [][ModNext]_modVars

-----------------------------------------------------------------------------
(* Every variable keeps its type. *)
ModTypeOK ==
  /\ reports \in Seq(Report)
  /\ visible \in [Targets -> BOOLEAN]
  /\ actions \subseteq [of: Nat, outcome: Outcomes]
  /\ moderated \subseteq Targets
  /\ modCalls \in [Slots -> ModCall]
  /\ modOverlapped \in BOOLEAN /\ modStopped \in BOOLEAN

(* What a moderator hid stays hidden until its owner asks to show it: a save   *)
(* of anything else in the profile keeps it hidden, unless it had read the     *)
(* profile before it was hidden (profiles.service.ts:185).                     *)
HiddenUntilAsked ==
  modOverlapped \/ \A target \in moderated : ~visible[target]

(* What is recorded of a report is how it ended, and what is hidden is hidden  *)
(* for a report that was actioned (reports.service.ts:151-176): two moderators *)
(* on one report break the first, a stop after hiding the second.              *)
RecordIsTrue ==
  modOverlapped \/
  /\ \A a \in actions : reports[a.of].status = a.outcome
  /\ \A target \in moderated :
       \/ modStopped
       \/ \E i \in DOMAIN reports : reports[i] = [target |-> target, status |-> "ACTIONED"]
       \/ \E s \in Slots : ModAt(s, "resolve")

(* A moderation that ended stands: what it hid stays hidden, and its record    *)
(* says how it ended (reports.service.ts:151-176).                             *)
ModerationStands == HiddenUntilAsked /\ RecordIsTrue
=============================================================================
