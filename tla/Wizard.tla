------------------------------- MODULE Wizard -------------------------------
(***************************************************************************)
(* The browser's wizard for offering a service (OfferServiceWizard), on    *)
(* the onboarding the API keeps, whose own statements are in Catalogue.    *)
(* None of its buttons is disabled while a call runs, so calls overlap and *)
(* their answers come in any order.  What a field holds only decides       *)
(* whether the API refuses it.                                             *)
(***************************************************************************)
EXTENDS Handlers

CONSTANT MaxPresses       \* bound: the buttons pressed
ASSUME WizardAssumption == MaxPresses \in Nat

Forms == {"categories", "profile", "service-area"}
OnboardingStatuses == {"NOT_STARTED", "DRAFT", "ACTIVE", "PAUSED"}
Onboarding == [status: OnboardingStatuses, done: SUBSET Forms]
NoOnboarding == [status |-> "none", done |-> {}]

VARIABLES
  onboarding,             \* what the API keeps
  onPage,                 \* what the page last got
  wizardStep,             \* the form it shows, or "review"
  wizardMode,             \* SurfaceState
  offers,                 \* Slots -> the call: kind, how far, form at the press, answer
  pressedOffers,          \* bound: buttons pressed so far
  offerStrayed            \* history: an answer or a load was lost, or calls overlapped
wizardVars == <<onboarding, onPage, wizardStep, wizardMode, offers, pressedOffers, offerStrayed>>

Submitted(o) == o.status \notin {"NOT_STARTED", "DRAFT", "none"}
\* Mutant: the service area is not asked for.
SkipServiceArea(o) ==
  IF "categories" \notin o.done THEN "categories"
  ELSE IF "profile" \notin o.done THEN "profile" ELSE "review"

nextIncompleteStep(o) ==
  IF "categories" \notin o.done THEN "categories"
  ELSE IF "profile" \notin o.done THEN "profile"
  ELSE IF "service-area" \notin o.done THEN "service-area" ELSE "review"
Following ==
  [f \in Forms |-> IF f = "categories" THEN "profile"
                   ELSE IF f = "profile" THEN "service-area" ELSE "review"]

OfferIdle == [kind |-> "none", at |-> "idle", form |-> "review", answer |-> NoOnboarding]
OfferKinds == {"none", "get", "start", "save", "submit", "ACTIVE", "PAUSED", "verify"}
SendOffer(s, kind) ==
  offers' = [offers EXCEPT ![s] = [OfferIdle EXCEPT !.kind = kind, !.at = "out", !.form = wizardStep]]

WizardInit ==
  /\ onboarding \in Onboarding
  /\ Submitted(onboarding) => onboarding.done = Forms
  /\ onboarding.status = "NOT_STARTED" => onboarding.done = {}
  /\ onPage = NoOnboarding /\ wizardStep = "categories" /\ wizardMode = "loading"
  /\ \E s \in Slots : offers = [[t \in Slots |-> OfferIdle] EXCEPT ![s].kind = "get", ![s].at = "out"]
  /\ pressedOffers = 0 /\ offerStrayed = FALSE

-----------------------------------------------------------------------------
\* A button of the form, of the review or of the profile that is live.
PressOffer(s, kind) ==
  /\ offers[s] = OfferIdle /\ onPage # NoOnboarding
  /\ pressedOffers < MaxPresses /\ pressedOffers' = pressedOffers + 1
  /\ SendOffer(s, kind) /\ wizardMode' = "loading"
  /\ offerStrayed' = (offerStrayed \/ \E t \in Slots : offers[t] # OfferIdle)
  /\ UNCHANGED <<onboarding, onPage, wizardStep>>
Continue(s) == wizardStep # "review" /\ PressOffer(s, "save")
Submit(s) == wizardStep = "review" /\ ~Submitted(onPage) /\ PressOffer(s, "submit")
PauseOrResume(s) ==
  /\ wizardStep = "review" /\ Submitted(onPage)
  /\ PressOffer(s, IF onPage.status = "PAUSED" THEN "ACTIVE" ELSE "PAUSED")
RequestVerification(s) == wizardStep = "review" /\ PressOffer(s, "verify")
BackForm ==
  /\ onPage # NoOnboarding /\ wizardStep # "categories"
  /\ wizardStep = "review" => ~Submitted(onPage)
  /\ wizardStep' = CHOOSE f \in Forms : Following[f] = wizardStep
  /\ UNCHANGED <<onboarding, onPage, wizardMode, offers, pressedOffers, offerStrayed>>

\* The API carries a call out.  start creates the draft once; a save marks its
\* step done; submit wants all three; a status may be set once it is no draft.
ServeOffer(s) ==
  LET o == offers[s]
      after ==
        CASE o.kind = "start" /\ onboarding.status = "NOT_STARTED" -> [onboarding EXCEPT !.status = "DRAFT"]
          [] o.kind = "save" -> [onboarding EXCEPT !.done = @ \cup {o.form}]
          [] o.kind = "submit" -> [onboarding EXCEPT !.status = "ACTIVE"]
          [] o.kind \in {"ACTIVE", "PAUSED"} -> [onboarding EXCEPT !.status = o.kind]
          [] OTHER -> onboarding
  IN
  /\ o.at = "out"
  /\ o.kind = "submit" => onboarding.done = Forms
  /\ o.kind \in {"ACTIVE", "PAUSED"} => Submitted(onboarding)
  /\ onboarding' = after
  /\ offers' = [offers EXCEPT ![s].at = "back", ![s].answer = after]
  /\ UNCHANGED <<onPage, wizardStep, wizardMode, pressedOffers, offerStrayed>>

\* load shows what it got, once there is a draft to show.
Loaded(s) ==
  LET o == offers[s] IN
  /\ o.at = "back" /\ o.kind \in {"get", "start"}
  /\ IF o.answer.status = "NOT_STARTED"
     THEN SendOffer(s, "start") /\ UNCHANGED <<onPage, wizardStep, wizardMode>>
     ELSE /\ onPage' = o.answer
          /\ wizardStep' = IF Submitted(o.answer) THEN "review" ELSE nextIncompleteStep(o.answer)
          /\ wizardMode' = "success"
          /\ offers' = [offers EXCEPT ![s] = OfferIdle]
  /\ UNCHANGED <<onboarding, pressedOffers, offerStrayed>>
\* The step moves on from the one at the press, wherever the page is by now.
SavedForm(s) ==
  LET o == offers[s] IN
  /\ o.at = "back" /\ o.kind \in {"save", "submit"}
  /\ onPage' = o.answer /\ wizardMode' = "success"
  /\ wizardStep' = IF o.kind = "save" THEN Following[o.form] ELSE "review"
  /\ offers' = [offers EXCEPT ![s] = OfferIdle]
  /\ UNCHANGED <<onboarding, pressedOffers, offerStrayed>>
\* A change of status loads again; a request for verification only says so.
Patched(s) ==
  /\ offers[s].at = "back" /\ offers[s].kind \in {"ACTIVE", "PAUSED"}
  /\ SendOffer(s, "get") /\ wizardMode' = "loading"
  /\ UNCHANGED <<onboarding, onPage, wizardStep, pressedOffers, offerStrayed>>
Requested(s) ==
  /\ offers[s].at = "back" /\ offers[s].kind = "verify" /\ wizardMode' = "success"
  /\ offers' = [offers EXCEPT ![s] = OfferIdle]
  /\ UNCHANGED <<onboarding, onPage, wizardStep, pressedOffers, offerStrayed>>
\* Refused, failed, or carried out with the answer lost.
FailOffer(s) ==
  /\ offers[s].at # "idle" /\ wizardMode' = "error"
  /\ offerStrayed' = (offerStrayed \/ offers[s].at = "back" \/ offers[s].kind = "get")
  /\ offers' = [offers EXCEPT ![s] = OfferIdle]
  /\ UNCHANGED <<onboarding, onPage, wizardStep, pressedOffers>>

WizardNext ==
  \/ \E s \in Slots :
       \/ Continue(s) \/ Submit(s) \/ PauseOrResume(s) \/ RequestVerification(s)
       \/ ServeOffer(s) \/ Loaded(s) \/ SavedForm(s) \/ Patched(s) \/ Requested(s) \/ FailOffer(s)
  \/ BackForm
WizardSpec == WizardInit /\ [][WizardNext]_wizardVars

-----------------------------------------------------------------------------
(* Every variable keeps its type. *)
WizardTypeOK ==
  /\ onboarding \in Onboarding /\ onPage \in Onboarding \cup {NoOnboarding}
  /\ wizardStep \in Forms \cup {"review"} /\ wizardMode \in {"loading", "success", "error"}
  /\ offers \in [Slots -> [kind: OfferKinds, at: {"idle", "out", "back"},
                           form: Forms \cup {"review"}, answer: Onboarding \cup {NoOnboarding}]]
  /\ pressedOffers \in 0..MaxPresses /\ offerStrayed \in BOOLEAN

(* The wizard asks for the submission only of an onboarding that the API will  *)
(* accept, whatever answers overlap: each save moves on from the step it saved *)
(* (offer-service-wizard.tsx:108-138).  When no calls overlapped and neither   *)
(* an answer nor a load was lost, the page at rest shows what the API keeps.   *)
ReviewIsComplete ==
  /\ wizardStep = "review" => onboarding.done = Forms
  /\ (\A s \in Slots : offers[s] = OfferIdle) /\ ~offerStrayed =>
       onPage \in {onboarding, NoOnboarding}
=============================================================================
