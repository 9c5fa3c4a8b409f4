------------------------------- MODULE Panels -------------------------------
(***************************************************************************)
(* The queues and tables of the admin application.  Each loads a list when *)
(* the session is known to be a staff session, and again after an act.  No *)
(* control is disabled meanwhile, so loads and acts overlap, and answers   *)
(* come in any order.  What a panel does around its acts differs.          *)
(***************************************************************************)
EXTENDS Handlers

CONSTANT MaxActs          \* bound: acts pressed
ASSUME PanelsAssumption == MaxActs \in Nat

\* marks: pressing shows "loading"; tells: whether its failure is shown, for the acts
\* it has; after: what follows its success; filters: what its list can be narrowed to.
Panel(marks, tells, after, filters) ==
  [marks |-> marks, tells |-> tells, after |-> after, filters |-> filters]
\* try { await act; await load() } catch: setState("error").
Queue == Panel(TRUE, {TRUE}, "load", {"all"})
ReportsQueue == Queue
VerificationQueue == Queue
StoriesQueue == Queue
CategoryManager == Queue
DiscoverySettings == Queue
AudioLibraryPanel == Queue
\* act.then(load), with nobody to catch.
FlagsPanel == Panel(FALSE, {FALSE}, "load", {"all"})
TemplatesPanel == FlagsPanel
\* Lists without acts; the audit log reloads at each change of its filter.
ProfessionalsTable == Panel(FALSE, {}, "load", {"all"})
BusinessesTable == ProfessionalsTable
AuditLog == Panel(FALSE, {}, "load", {"all", "some"})
\* The act's answer becomes the row; then load(query), the query of the press.
MembersTable == Panel(FALSE, {FALSE}, "load as pressed", {"all", "some"})
\* saveThemeDraft and publishTheme show what they answer; only the first tells a failure.
ThemeEditor == Panel(FALSE, {TRUE, FALSE}, "answer", {"all"})
AllPanels == {ReportsQueue, VerificationQueue, StoriesQueue, CategoryManager, DiscoverySettings,
              AudioLibraryPanel, FlagsPanel, TemplatesPanel, ProfessionalsTable, BusinessesTable,
              AuditLog, MembersTable, ThemeEditor}

VARIABLES
  panel,                  \* which one
  staff,                  \* useAdminSession: not yet known, ready or denied
  rows,                   \* the server: how many acts it has carried out
  filter,                 \* what the list is narrowed to
  listed,                 \* the list on the page: of which filter, after how many acts
  mode,                   \* SurfaceState
  panelCalls,             \* Slots -> the call: its kind, how far, its filter and what it read
  presses,                \* bound: acts pressed so far
  overtaken               \* history: an answer came after a younger one's, or after a failure, or never
panelVars == <<panel, staff, rows, filter, listed, mode, panelCalls, presses, overtaken>>

PanelIdle == [kind |-> "none", step |-> "idle", filter |-> "all", tells |-> FALSE, read |-> 0]
LoadOf(f) == [kind |-> "load", step |-> "out", filter |-> f, tells |-> TRUE, read |-> 0]
PanelAt(a, kind, step) == panelCalls[a].kind = kind /\ panelCalls[a].step = step
PanelEnter(a, ask) == panelCalls' = [panelCalls EXCEPT ![a] = ask]

PanelInit ==
  /\ panel \in AllPanels
  /\ staff = "unknown" /\ rows = 0 /\ filter = "all" /\ mode = "loading"
  /\ listed = [filter |-> "all", read |-> -1]
  /\ panelCalls = [a \in Slots |-> PanelIdle]
  /\ presses = 0 /\ overtaken = FALSE

\* ensure, and the effect that loads once it is ready.
Ensure(a) ==
  /\ staff = "unknown"
  /\ \/ staff' = "ready" /\ PanelEnter(a, LoadOf(filter))
     \/ staff' = "denied" /\ UNCHANGED panelCalls
  /\ UNCHANGED <<panel, rows, filter, listed, mode, presses, overtaken>>
\* A new filter makes a new load, and the effect runs it; so does the search button.
Narrow(a, f) ==
  /\ staff = "ready" /\ panelCalls[a] = PanelIdle
  /\ panel.filters # {"all"}
  /\ filter' = f
  /\ mode' = "loading"
  /\ PanelEnter(a, LoadOf(f))
  /\ UNCHANGED <<panel, staff, rows, listed, presses, overtaken>>

\* A load reads the rows as they are; its answer replaces the list.
ServeLoad(a) ==
  /\ PanelAt(a, "load", "out")
  /\ PanelEnter(a, [panelCalls[a] EXCEPT !.step = "back", !.read = rows])
  /\ UNCHANGED <<panel, staff, rows, filter, listed, mode, presses, overtaken>>
ShowList(a) ==
  /\ PanelAt(a, "load", "back")
  /\ listed' = [filter |-> panelCalls[a].filter, read |-> panelCalls[a].read]
  /\ mode' = "success"
  /\ PanelEnter(a, PanelIdle)
  /\ overtaken' = (overtaken \/ panelCalls[a].read < listed.read \/ panelCalls[a].filter # filter)
  /\ UNCHANGED <<panel, staff, rows, filter, presses>>
FailLoad(a) ==
  /\ panelCalls[a].kind = "load"
  /\ mode' = "error"
  /\ PanelEnter(a, PanelIdle)
  /\ overtaken' = (overtaken \/ \E b \in Slots \ {a} : panelCalls[b] # PanelIdle)
  /\ UNCHANGED <<panel, staff, rows, filter, listed, presses>>

\* A button of a row.
PressAct(a) ==
  /\ staff = "ready" /\ panelCalls[a] = PanelIdle /\ listed.read >= 0
  /\ presses < MaxActs /\ presses' = presses + 1
  /\ \E tells \in panel.tells :
       PanelEnter(a, [kind |-> "act", step |-> "out", filter |-> filter, tells |-> tells, read |-> 0])
  /\ mode' = IF panel.marks THEN "loading" ELSE mode
  /\ UNCHANGED <<panel, staff, rows, filter, listed, overtaken>>
ServeAct(a) ==
  /\ PanelAt(a, "act", "out")
  /\ rows' = rows + 1
  /\ PanelEnter(a, [panelCalls[a] EXCEPT !.step = "back", !.read = rows + 1])
  /\ UNCHANGED <<panel, staff, filter, listed, mode, presses, overtaken>>
\* Mutant: the panel keeps the list it had.
DropReload(a) ==
  /\ PanelAt(a, "act", "back")
  /\ mode' = "success"
  /\ PanelEnter(a, PanelIdle)
  /\ UNCHANGED <<panel, staff, rows, filter, listed, presses, overtaken>>

EndAct(a) ==
  /\ PanelAt(a, "act", "back")
  /\ IF panel.after = "answer"
     THEN /\ listed' = [filter |-> panelCalls[a].filter, read |-> panelCalls[a].read]
          /\ overtaken' = (overtaken \/ panelCalls[a].read < listed.read)
          /\ PanelEnter(a, PanelIdle) /\ UNCHANGED mode
     ELSE /\ PanelEnter(a, LoadOf(IF panel.after = "load" THEN filter ELSE panelCalls[a].filter))
          /\ mode' = "loading" /\ UNCHANGED <<listed, overtaken>>
  /\ UNCHANGED <<panel, staff, rows, filter, presses>>
\* Refused, or stored and its answer lost.
FailAct(a) ==
  /\ panelCalls[a].kind = "act"
  /\ mode' = IF panelCalls[a].tells THEN "error" ELSE mode
  /\ PanelEnter(a, PanelIdle)
  /\ overtaken' = (overtaken \/ panelCalls[a].step = "back")
  /\ UNCHANGED <<panel, staff, rows, filter, listed, presses>>

PanelNext ==
  \E a \in Slots :
    \/ Ensure(a) \/ \E f \in {"all", "some"} : Narrow(a, f)
    \/ ServeLoad(a) \/ ShowList(a) \/ FailLoad(a)
    \/ PressAct(a) \/ ServeAct(a) \/ EndAct(a) \/ FailAct(a)
PanelSpec == PanelInit /\ [][PanelNext]_panelVars

-----------------------------------------------------------------------------
(* Every variable keeps its type. *)
PanelTypeOK ==
  /\ panel \in AllPanels /\ staff \in {"unknown", "ready", "denied"}
  /\ rows \in 0..MaxActs /\ presses \in 0..MaxActs /\ filter \in {"all", "some"}
  /\ listed \in [filter: {"all", "some"}, read: -1..MaxActs]
  /\ mode \in {"loading", "success", "error"}
  /\ panelCalls \in [Slots -> [kind: {"none", "load", "act"}, step: {"idle", "out", "back"},
                        filter: {"all", "some"}, tells: BOOLEAN, read: 0..MaxActs]]
  /\ overtaken \in BOOLEAN

(* A panel at rest is not left loading, and unless it shows an error it shows  *)
(* the list of its filter as the last act left it, or an answer was overtaken  *)
(* or lost (reports-queue.tsx:47-57, audit-log.tsx:18-43,                      *)
(* members-table.tsx:108-115).                                                 *)
PanelsSettle ==
  staff = "ready" /\ (\A a \in Slots : panelCalls[a] = PanelIdle) =>
    /\ mode # "loading"
    /\ mode = "success" /\ ~overtaken => listed = [filter |-> filter, read |-> rows]
=============================================================================
