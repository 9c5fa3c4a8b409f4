------------------------------- MODULE MapView -------------------------------
(***************************************************************************)
(* The discovery page of the browser (useDiscoveryMapController) and of    *)
(* the phone (DiscoveryScreen): its searches, their delays and answers.    *)
(* What is asked for has two parts: the origin, radius and text that also  *)
(* choose the suggestions (the box), and the other filters.                *)
(***************************************************************************)
EXTENDS Handlers

CONSTANTS
  Boxes, Filters,         \* the two parts of what may be asked for
  Typed,                  \* the boxes with a search text
  NoAsk                   \* before the first fix; nothing is shown
ASSUME MapAssumption == Typed \subseteq Boxes /\ NoAsk \notin Boxes \cup (Boxes \X Filters)

VARIABLES
  app,                    \* "web" or "phone"
  wanted,                 \* what the member asks for now
  shown,                  \* what the result on the page was asked for
  load,                   \* the state the page announces
  timers,                 \* the debounced work: "silent", "loud", "suggest"
  suggested,              \* what the suggestions were asked for
  mapCalls,               \* Slots -> the request in flight
  kept,                   \* history: the newest search failed and changed nothing
  crossed                 \* history: on the phone, an answer came after a newer one
mapVars == <<app, wanted, shown, load, timers, suggested, mapCalls, kept, crossed>>

Asks == Boxes \X Filters
BoxOf(a) == IF a = NoAsk THEN NoAsk ELSE a[1]

\* newest: no later search has begun (searchGenRef), or the effect still stands.
MapCall == [kind: {"idle", "search", "suggest"}, ask: Asks \cup {NoAsk}, silent: BOOLEAN,
            newest: BOOLEAN]
MapIdle == [kind |-> "idle", ask |-> NoAsk, silent |-> FALSE, newest |-> FALSE]
Kind(s, kind) == mapCalls[s].kind = kind
\* The requests once those of a kind are superseded.
Superseded(kind) ==
  [s \in Slots |-> IF Kind(s, kind) THEN [mapCalls[s] EXCEPT !.newest = FALSE] ELSE mapCalls[s]]
Finish(s) == mapCalls' = [mapCalls EXCEPT ![s] = MapIdle]

MapInit ==
  /\ app \in {"web", "phone"}
  /\ wanted = NoAsk /\ shown = NoAsk /\ load = "loading" /\ timers = {} /\ suggested = NoAsk
  /\ mapCalls = [s \in Slots |-> MapIdle]
  /\ kept = FALSE /\ crossed = FALSE

\* A filter, the text or an accepted fix changes: the effects restart their
\* timers, and the cleanup of the suggestions cancels those in flight.
Ask(a) ==
  /\ a # wanted /\ wanted' = a
  /\ LET search == IF app = "phone" \/ shown # NoAsk THEN "silent" ELSE "loud"
         boxMoves == BoxOf(a) # BoxOf(wanted)
         suggest == IF boxMoves THEN {t \in {"suggest"} : app = "web" /\ BoxOf(a) \in Typed}
                    ELSE timers \cap {"suggest"}
     IN /\ timers' = {search} \cup suggest
        /\ mapCalls' = IF boxMoves THEN Superseded("suggest") ELSE mapCalls
        /\ suggested' = IF BoxOf(a) \in Typed THEN suggested ELSE NoAsk
  /\ UNCHANGED <<app, shown, load, kept, crossed>>

\* searchNearby takes the next generation.
Search(s, silent) ==
  /\ Kind(s, "idle") /\ wanted # NoAsk
  /\ mapCalls' = [Superseded("search") EXCEPT ![s] =
       [kind |-> "search", ask |-> wanted, silent |-> silent, newest |-> TRUE]]
  /\ load' = IF silent THEN load ELSE "loading"
  /\ UNCHANGED <<app, wanted, shown, suggested, kept, crossed>>
DebouncedSearch(s) ==
  \E mode \in timers \cap {"silent", "loud"} :
    Search(s, mode = "silent") /\ timers' = timers \ {mode}
\* The search button, and the interval of the browser's page.
PressSearch(s) == app = "web" /\ Search(s, FALSE) /\ UNCHANGED timers
PollNearby(s) == app = "web" /\ Search(s, TRUE) /\ UNCHANGED timers

\* Mutant: the browser shows every answer.
AnswerAny(s) ==
  LET call == mapCalls[s] IN
  /\ Kind(s, "search")
  /\ shown' = call.ask /\ load' = "success"
  /\ kept' = (kept /\ ~call.newest)
  /\ crossed' = ~call.newest
  /\ Finish(s)
  /\ UNCHANGED <<app, wanted, timers, suggested>>

\* The browser drops an answer that is not the newest's; the phone shows all.
Answer(s) ==
  LET call == mapCalls[s] IN
  /\ Kind(s, "search")
  /\ IF app = "web" /\ ~call.newest THEN UNCHANGED <<shown, load, kept, crossed>>
     ELSE /\ shown' = call.ask /\ load' = "success"
          /\ kept' = (kept /\ ~call.newest)
          /\ crossed' = ~call.newest
  /\ Finish(s)
  /\ UNCHANGED <<app, wanted, timers, suggested>>
\* A silent failure keeps the result on the page.
FailSearch(s) ==
  LET call == mapCalls[s] IN
  /\ Kind(s, "search")
  /\ kept' = (kept \/ (call.newest /\ shown # NoAsk))
  /\ IF app = "web" /\ call.newest /\ (~call.silent \/ shown = NoAsk)
     THEN shown' = NoAsk /\ load' = "error"
     ELSE UNCHANGED <<shown, load>>
  /\ Finish(s)
  /\ UNCHANGED <<app, wanted, timers, suggested, crossed>>

DebouncedSuggest(s) ==
  /\ Kind(s, "idle") /\ "suggest" \in timers
  /\ timers' = timers \ {"suggest"}
  /\ mapCalls' = [mapCalls EXCEPT ![s] =
       [kind |-> "suggest", ask |-> wanted, silent |-> FALSE, newest |-> TRUE]]
  /\ UNCHANGED <<app, wanted, shown, load, suggested, kept, crossed>>
\* Mutant: a cancelled effect still sets the suggestions.
SuggestLate(s, found) ==
  /\ Kind(s, "suggest")
  /\ suggested' = IF found THEN BoxOf(mapCalls[s].ask) ELSE NoAsk
  /\ Finish(s)
  /\ UNCHANGED <<app, wanted, shown, load, timers, kept, crossed>>

Suggest(s, found) ==
  /\ Kind(s, "suggest")
  /\ suggested' = IF mapCalls[s].newest THEN (IF found THEN BoxOf(mapCalls[s].ask) ELSE NoAsk)
                  ELSE suggested
  /\ Finish(s)
  /\ UNCHANGED <<app, wanted, shown, load, timers, kept, crossed>>

MapNext ==
  \/ \E a \in Asks : Ask(a)
  \/ \E s \in Slots :
       \/ DebouncedSearch(s) \/ PressSearch(s) \/ PollNearby(s) \/ Answer(s) \/ FailSearch(s)
       \/ DebouncedSuggest(s)
       \/ \E found \in BOOLEAN : Suggest(s, found)
MapSpec == MapInit /\ [][MapNext]_mapVars

-----------------------------------------------------------------------------
(* Every variable keeps its type. *)
MapTypeOK ==
  /\ app \in {"web", "phone"} /\ {wanted, shown} \subseteq Asks \cup {NoAsk}
  /\ suggested \in Boxes \cup {NoAsk}
  /\ load \in {"loading", "success", "error"} /\ timers \subseteq {"silent", "loud", "suggest"}
  /\ mapCalls \in [Slots -> MapCall]
  /\ {kept, crossed} \subseteq BOOLEAN

(* With nothing due and nothing in flight the page shows the result of what is *)
(* asked for, whatever the order of the answers, unless the newest search      *)
(* failed and the page kept the result before it; on the phone, which has no   *)
(* generation (discovery.tsx:194-226), also unless two answers crossed.        *)
ShowsWhatIsAsked ==
  (\A s \in Slots : ~Kind(s, "search")) /\ timers \subseteq {"suggest"} /\ shown # NoAsk =>
    shown = wanted \/ kept \/ (app = "phone" /\ crossed)

(* The suggestions that stand are those for the text in the box, and an empty  *)
(* box has none: an answer to an earlier text never replaces them              *)
(* (use-discovery-map.ts:277-311).                                             *)
SuggestsForTheText ==
  /\ BoxOf(wanted) \notin Typed => suggested = NoAsk
  /\ "suggest" \notin timers /\ (\A s \in Slots : ~(Kind(s, "suggest") /\ mapCalls[s].newest)) =>
       suggested \in {BoxOf(wanted), NoAsk}

(* The page at rest shows the result and the suggestions for what is asked     *)
(* (use-discovery-map.ts:224-311).                                             *)
MapIsAsAsked == ShowsWhatIsAsked /\ SuggestsForTheText
=============================================================================
