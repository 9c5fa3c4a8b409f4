----------------------------- MODULE Appearance -----------------------------
(***************************************************************************)
(* What operators set for every client: theme versions and the one that is *)
(* published, the ranking weights in force and the discovery policy.  A    *)
(* transaction reads committed rows: its first statement may overlook what *)
(* another transaction commits before it does.                             *)
(***************************************************************************)
EXTENDS Handlers, Sequences

CONSTANT MaxRows          \* bound: the rows of themes and of weights
ASSUME AppearanceAssumption == MaxRows \in Nat

VARIABLES
  themes,                 \* theme_configs: version and whether it is published
  weights,                \* discovery_ranking_weights: the active column
  policy,                 \* the remote_config row of the discovery policy
  asked,                  \* history: what was last saved for each field of it
  cfgCalls,               \* Slots -> the call in flight
  cfgOverlapped           \* history: a call wrote while another was in flight
cfgVars == <<themes, weights, policy, asked, cfgCalls, cfgOverlapped>>

Fields == {"radius", "basemap"}
Policies == [Fields -> BOOLEAN]
CfgSteps == {"idle", "draft", "source", "demote", "promote", "activate", "policy"}
\* row: the draft to publish (0: a new row); seen: the rows a statement found.
CfgCall == [step: CfgSteps, row: Nat, version: Nat, seen: SUBSET Nat,
            policy: Policies, field: Fields]
CfgIdle == [step |-> "idle", row |-> 0, version |-> 0, seen |-> {},
            policy |-> [f \in Fields |-> FALSE], field |-> "radius"]
CfgAt(s, step) == cfgCalls[s].step = step
CfgEnter(s, call) == cfgCalls' = [cfgCalls EXCEPT ![s] = call]
CfgWrote(s) ==
  /\ CfgEnter(s, CfgIdle)
  /\ cfgOverlapped' = (cfgOverlapped \/ \E r \in Slots \ {s} : ~CfgAt(r, "idle"))

Published == {i \in DOMAIN themes : themes[i].published}
Drafts == DOMAIN themes \ Published
\* findFirst by version, descending: any of those that share the highest.
Newest(rows) == {i \in rows : \A j \in rows : themes[j].version <= themes[i].version}
\* getPublicTheme: the version that clients are given; the built-in one is 1.
Served == IF Published = {} THEN 1 ELSE themes[CHOOSE i \in Newest(Published) : TRUE].version
Active == {i \in DOMAIN weights : weights[i]}

\* What the seed script leaves.
CfgInit ==
  /\ themes = <<[version |-> 1, published |-> TRUE]>>
  /\ weights = <<TRUE>>
  /\ policy = [f \in Fields |-> FALSE] /\ asked = policy
  /\ cfgCalls = [s \in Slots |-> CfgIdle]
  /\ cfgOverlapped = FALSE

\* saveThemeDraft reads the latest version, then creates the next one.
SaveThemeDraft(s) ==
  /\ CfgAt(s, "idle")
  /\ \E i \in Newest(DOMAIN themes) :
       CfgEnter(s, [CfgIdle EXCEPT !.step = "draft", !.version = themes[i].version + 1])
  /\ UNCHANGED <<themes, weights, policy, asked, cfgOverlapped>>
CreateDraft(s) ==
  /\ CfgAt(s, "draft") /\ Len(themes) < MaxRows
  /\ themes' = Append(themes, [version |-> cfgCalls[s].version, published |-> FALSE])
  /\ CfgWrote(s)
  /\ UNCHANGED <<weights, policy, asked>>

\* publishTheme takes the latest draft, or else copies what is published.
PublishTheme(s) ==
  /\ CfgAt(s, "idle")
  /\ IF Drafts = {} THEN CfgEnter(s, [CfgIdle EXCEPT !.step = "source"])
     ELSE \E i \in Newest(Drafts) :
            CfgEnter(s, [CfgIdle EXCEPT !.step = "demote", !.row = i])
  /\ UNCHANGED <<themes, weights, policy, asked, cfgOverlapped>>
FindSource(s) ==
  /\ CfgAt(s, "source")
  /\ \E version \in IF Published = {} THEN {0}
                    ELSE {themes[i].version : i \in Newest(Published)} :
       CfgEnter(s, [CfgIdle EXCEPT !.step = "demote", !.version = version + 2])
  /\ UNCHANGED <<themes, weights, policy, asked, cfgOverlapped>>
\* Mutant: the two statements of a publication commit one by one.
DemoteAtOnce(s) ==
  /\ CfgAt(s, "demote")
  /\ themes' = [i \in DOMAIN themes |-> [themes[i] EXCEPT !.published = FALSE]]
  /\ CfgEnter(s, [cfgCalls[s] EXCEPT !.step = "promote", !.seen = Published])
  /\ UNCHANGED <<weights, policy, asked, cfgOverlapped>>

DemoteThemes(s) ==
  /\ CfgAt(s, "demote")
  /\ CfgEnter(s, [cfgCalls[s] EXCEPT !.step = "promote", !.seen = Published])
  /\ UNCHANGED <<themes, weights, policy, asked, cfgOverlapped>>
\* The commit; the theme that was published is a draft again.
PromoteTheme(s) ==
  LET call == cfgCalls[s]
      demoted == [i \in DOMAIN themes |->
                    [themes[i] EXCEPT !.published = @ /\ i \notin call.seen]]
  IN
  /\ CfgAt(s, "promote") /\ Len(themes) < MaxRows
  /\ themes' = IF call.row = 0
               THEN Append(demoted, [version |-> call.version, published |-> TRUE])
               ELSE [demoted EXCEPT ![call.row].published = TRUE]
  /\ CfgWrote(s)
  /\ UNCHANGED <<weights, policy, asked>>

\* updateDiscoveryRankingWeights: the rows it finds go out of force, a new one comes in.
UpdateWeights(s) ==
  /\ CfgAt(s, "idle")
  /\ CfgEnter(s, [CfgIdle EXCEPT !.step = "activate", !.seen = DOMAIN weights])
  /\ UNCHANGED <<themes, weights, policy, asked, cfgOverlapped>>
ActivateWeights(s) ==
  /\ CfgAt(s, "activate") /\ Len(weights) < MaxRows
  /\ weights' = Append([i \in DOMAIN weights |-> weights[i] /\ i \notin cfgCalls[s].seen], TRUE)
  /\ CfgWrote(s)
  /\ UNCHANGED <<themes, policy, asked>>

\* Mutant: the patch is written over the defaults.
UpdateDefaults(s, field, value) ==
  /\ CfgAt(s, "idle")
  /\ CfgEnter(s, [CfgIdle EXCEPT !.step = "policy", !.field = field,
                                 !.policy = [CfgIdle.policy EXCEPT ![field] = value]])
  /\ UNCHANGED <<themes, weights, policy, asked, cfgOverlapped>>

\* updateDiscoveryPolicy reads the document, then writes it back with the patch.
UpdatePolicy(s, field, value) ==
  /\ CfgAt(s, "idle")
  /\ CfgEnter(s, [CfgIdle EXCEPT !.step = "policy", !.field = field,
                                 !.policy = [policy EXCEPT ![field] = value]])
  /\ UNCHANGED <<themes, weights, policy, asked, cfgOverlapped>>
WritePolicy(s) ==
  LET call == cfgCalls[s] IN
  /\ CfgAt(s, "policy")
  /\ policy' = call.policy
  /\ asked' = [asked EXCEPT ![call.field] = call.policy[call.field]]
  /\ CfgWrote(s)
  /\ UNCHANGED <<themes, weights>>

\* A failure or a stop rolls back what was not committed.
AbandonSetting(s) ==
  /\ ~CfgAt(s, "idle")
  /\ CfgEnter(s, CfgIdle)
  /\ UNCHANGED <<themes, weights, policy, asked, cfgOverlapped>>

CfgNext ==
  \E s \in Slots :
    \/ SaveThemeDraft(s) \/ CreateDraft(s)
    \/ PublishTheme(s) \/ FindSource(s) \/ DemoteThemes(s) \/ PromoteTheme(s)
    \/ UpdateWeights(s) \/ ActivateWeights(s)
    \/ \E field \in Fields, value \in BOOLEAN : UpdatePolicy(s, field, value)
    \/ WritePolicy(s) \/ AbandonSetting(s)
CfgSpec == CfgInit /\ [][CfgNext]_cfgVars

-----------------------------------------------------------------------------
(* Every variable keeps its type. *)
CfgTypeOK ==
  /\ themes \in Seq([version: Nat, published: BOOLEAN])
  /\ weights \in Seq(BOOLEAN)
  /\ policy \in Policies /\ asked \in Policies
  /\ cfgCalls \in [Slots -> CfgCall]
  /\ cfgOverlapped \in BOOLEAN

(* A theme and a set of weights are in force at every moment of a publication  *)
(* or an update, and only one of each unless two of them overlapped            *)
(* (configuration.service.ts:225-230, 341-359).                                *)
OneInForce ==
  \A rows \in {Published, Active} :
    rows # {} /\ (cfgOverlapped \/ \A i, j \in rows : i = j)

(* The policy holds what was last saved for each of its fields, unless a save  *)
(* wrote back the document it had read before another (configuration.service   *)
(* .ts:176-201).                                                               *)
SettingsAreAsAsked == policy = asked \/ cfgOverlapped

(* Publishing moves clients to a higher version: "Increment `config_version`"  *)
(* (docs/architecture/06-admin.md:57).                                         *)
PublishMovesForward == [][Published' # Published => Served' > Served]_cfgVars

(* What is configured is in force: one theme, one set of weights, and the      *)
(* policy as it was last saved (configuration.service.ts:176-230).             *)
ConfiguredIsInForce == OneInForce /\ SettingsAreAsAsked
=============================================================================
