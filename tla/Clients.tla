------------------------------ MODULE Clients ------------------------------
(***************************************************************************)
(* The applications of the browser, the phone and the staff, and the       *)
(* client they share: each page with a state of its own in a module of its *)
(* own, checked together as in Platform.  part names the page whose steps  *)
(* a behaviour takes.                                                      *)
(***************************************************************************)
EXTENDS MapView, Thread, Api, Panels, SignIn, Composer, Broadcast, Viewer, Wizard

VARIABLE part
clientVars == <<part, mapVars, chatVars, apiVars, panelVars, signVars, composerVars, castVars,
                viewerVars, wizardVars>>

Parts == {"map", "chat", "api", "panels", "signIn", "composer", "broadcast", "viewer",
          "wizard"}

\* What several initial states tell apart is left to the component that moves.
ClientsInit ==
  /\ part \in Parts
  /\ MapInit /\ (part # "map" => app = "web")
  /\ ChatInit
  /\ ApiInit /\ (part # "api" => account.roles = {} /\ token.kind = "none")
  /\ PanelInit /\ (part # "panels" => panel = ReportsQueue)
  /\ SignInit /\ (part # "signIn" => surface = "phone")
  /\ ComposerInit /\ (part # "composer" => device = "web")
  /\ CastInit /\ (part # "broadcast" => ingest)
  /\ ViewerInit /\ (part # "viewer" => screen = "phone" /\ stories = <<>> /\ live = "none")
  /\ WizardInit /\ (part # "wizard" => onboarding.status = "NOT_STARTED")

\* The other components stand still.
Alone(p) ==
  /\ part = p /\ UNCHANGED part
  /\ p # "map" => UNCHANGED mapVars
  /\ p # "chat" => UNCHANGED chatVars
  /\ p # "api" => UNCHANGED apiVars
  /\ p # "panels" => UNCHANGED panelVars
  /\ p # "signIn" => UNCHANGED signVars
  /\ p # "composer" => UNCHANGED composerVars
  /\ p # "broadcast" => UNCHANGED castVars
  /\ p # "viewer" => UNCHANGED viewerVars
  /\ p # "wizard" => UNCHANGED wizardVars

ClientsNext ==
  \/ Alone("map") /\ MapNext
  \/ Alone("chat") /\ ChatNext
  \/ Alone("api") /\ ApiNext
  \/ Alone("panels") /\ PanelNext
  \/ Alone("signIn") /\ SignNext
  \/ Alone("composer") /\ ComposerNext
  \/ Alone("broadcast") /\ CastNext
  \/ Alone("viewer") /\ ViewerNext
  \/ Alone("wizard") /\ WizardNext
ClientsSpec == ClientsInit /\ [][ClientsNext]_clientVars

(* Every variable of every page keeps its type. *)
ClientsTypeOK ==
  /\ part \in Parts
  /\ MapTypeOK /\ ChatTypeOK /\ ApiTypeOK /\ PanelTypeOK /\ SignTypeOK /\ ComposerTypeOK
  /\ CastTypeOK /\ ViewerTypeOK /\ WizardTypeOK
=============================================================================
