------------------------------ MODULE Location ------------------------------
(***************************************************************************)
(* Where a member is: the exact point, the cell and the pin that others    *)
(* see, and the page that reports the fixes of its GPS.  Positions lie on  *)
(* a line; a cell is two of them wide, as is a significant move.           *)
(***************************************************************************)
EXTENDS Handlers

CONSTANTS
  MaxPosition,            \* bound: the positions are 0 .. MaxPosition
  Nowhere                 \* no point is stored
ASSUME LocationAssumption == MaxPosition \in Nat /\ Nowhere \notin Int

VARIABLES
  location,               \* member_locations: permission, and updatedAt within the interval
  point,                  \* its exact point
  cell,                   \* member_public_locations: cellId
  pin,                    \* its approximate point, as the cell it is snapped to
  page,                   \* the open page: what it accepted last; the permission is sent
  locCalls,               \* Slots -> the call in flight
  granted,                \* history: the member's last word on the permission
  fixFresh,               \* history: a fix was taken within the interval
  byPermission,           \* history: setPermission wrote the row last
  locDisturbed            \* history: an update overlapped a call or stopped halfway
locVars == <<location, point, cell, pin, page, locCalls, granted, fixFresh, byPermission, locDisturbed>>

Positions == 0 .. MaxPosition
Points == Positions \cup {Nowhere}
\* snapToGrid, and the distance that significantMoveMeters is compared with.
CellOf(p) == IF p = Nowhere THEN Nowhere ELSE p \div 2
IsMove(from, to) == from # Nowhere /\ to - from \notin {-1, 0, 1}

LocSteps == {"idle", "grant", "put", "point", "touch", "exact", "public", "pin"}
\* to: the fix; fresh: the row was written within the interval when it was read;
\* due: no fix had been taken within it.
LocCall == [step: LocSteps, to: Positions, fresh: BOOLEAN, due: BOOLEAN]
LocIdle == [step |-> "idle", to |-> 0, fresh |-> FALSE, due |-> FALSE]
LocAt(s, step) == locCalls[s].step = step
LocEnter(s, call) == locCalls' = [locCalls EXCEPT ![s] = call]
LocGoTo(s, step) == LocEnter(s, [locCalls[s] EXCEPT !.step = step])
LocAlone(s) == \A r \in Slots \ {s} : LocAt(r, "idle")

LocInit ==
  /\ location = [permission |-> "NONE", fresh |-> FALSE]
  /\ point = Nowhere /\ cell = Nowhere /\ pin = Nowhere
  /\ page = [accepted |-> Nowhere, sent |-> FALSE]
  /\ locCalls = [s \in Slots |-> LocIdle]
  /\ granted = FALSE /\ fixFresh = FALSE /\ byPermission = FALSE
  /\ locDisturbed = FALSE

-----------------------------------------------------------------------------
(* The page. *)

\* shouldAcceptLocationFix, the page's own interval having passed.
Accepts(p) == page.accepted = Nowhere \/ IsMove(page.accepted, p)
\* watchPosition hands the page a fix; persistLocation first sends the permission.
Fix(s, p) ==
  /\ LocAt(s, "idle") /\ Accepts(p)
  /\ page' = [page EXCEPT !.accepted = p]
  /\ LocEnter(s, [LocIdle EXCEPT !.step = IF page.sent THEN "put" ELSE "grant", !.to = p])
  /\ UNCHANGED <<location, point, cell, pin, granted, fixFresh, byPermission, locDisturbed>>
\* A page load forgets all, locate forgets the fix.
Reload(keepsSent) ==
  /\ page' = [accepted |-> Nowhere, sent |-> keepsSent /\ page.sent]
  /\ UNCHANGED <<location, point, cell, pin, locCalls, granted, fixFresh, byPermission,
                 locDisturbed>>

-----------------------------------------------------------------------------
(* LocationsService. *)

\* setPermission; updatedAt moves with every write of the row.
SetPermission(status) ==
  /\ location' = [permission |-> status, fresh |-> TRUE]
  /\ granted' = (status = "GRANTED") /\ byPermission' = TRUE
GrantFirst(s) ==
  /\ LocAt(s, "grant")
  /\ SetPermission("GRANTED")
  /\ page' = [page EXCEPT !.sent = TRUE]
  /\ LocGoTo(s, "put")
  /\ UNCHANGED <<point, cell, pin, fixFresh, locDisturbed>>
Withdraw ==
  /\ SetPermission("DENIED")
  /\ locDisturbed' = (locDisturbed \/ \E s \in Slots : ~LocAt(s, "idle"))
  /\ UNCHANGED <<point, cell, pin, page, locCalls, fixFresh>>

\* updateExactLocation reads the row and refuses without permission.
ReadLocation(s) ==
  /\ LocAt(s, "put")
  /\ LocEnter(s, IF location.permission = "GRANTED"
                 THEN [locCalls[s] EXCEPT !.step = "point", !.fresh = location.fresh,
                                          !.due = ~fixFresh]
                 ELSE LocIdle)
  /\ UNCHANGED <<location, point, cell, pin, page, granted, fixFresh, byPermission, locDisturbed>>
\* A small move is a no-op, a real one inside the interval is refused.
TooSoon(s) == IsMove(point, locCalls[s].to) /\ locCalls[s].fresh
GateMove(s) ==
  /\ LocAt(s, "point")
  /\ LocEnter(s, IF point # Nowhere /\ (TooSoon(s) \/ ~IsMove(point, locCalls[s].to))
                 THEN LocIdle
                 ELSE [LocIdle EXCEPT !.step = "touch", !.to = locCalls[s].to])
  /\ UNCHANGED <<location, point, cell, pin, page, granted, fixFresh, byPermission, locDisturbed>>
TouchLocation(s) ==
  /\ LocAt(s, "touch")
  /\ location' = [permission |-> "GRANTED", fresh |-> TRUE]
  /\ fixFresh' = TRUE /\ byPermission' = FALSE
  /\ LocGoTo(s, "exact")
  /\ locDisturbed' = (locDisturbed \/ ~LocAlone(s))
  /\ UNCHANGED <<point, cell, pin, page, granted>>
WriteExactPoint(s) ==
  /\ LocAt(s, "exact")
  /\ point' = locCalls[s].to
  /\ LocGoTo(s, "public")
  /\ UNCHANGED <<location, cell, pin, page, granted, fixFresh, byPermission,
                 locDisturbed>>
\* Mutant: the upsert of the public row has nothing to update.
WriteFirstCell(s) ==
  /\ LocAt(s, "public")
  /\ cell' = IF cell = Nowhere THEN CellOf(locCalls[s].to) ELSE cell
  /\ LocGoTo(s, "pin")
  /\ UNCHANGED <<location, point, pin, page, granted, fixFresh, byPermission, locDisturbed>>

WriteCell(s) ==
  /\ LocAt(s, "public")
  /\ cell' = CellOf(locCalls[s].to)
  /\ LocGoTo(s, "pin")
  /\ UNCHANGED <<location, point, pin, page, granted, fixFresh, byPermission, locDisturbed>>
\* Mutant: the pin is the exact point.
WritePinExactly(s) ==
  /\ LocAt(s, "pin")
  /\ pin' = locCalls[s].to
  /\ LocEnter(s, LocIdle)
  /\ UNCHANGED <<location, point, cell, page, granted, fixFresh, byPermission, locDisturbed>>

WriteApproximatePoint(s) ==
  /\ LocAt(s, "pin")
  /\ pin' = CellOf(locCalls[s].to)
  /\ LocEnter(s, LocIdle)
  /\ UNCHANGED <<location, point, cell, page, granted, fixFresh, byPermission, locDisturbed>>

\* Time passes: the row ages with the fix it was written for, or after it.
LocAges(except) ==
  locCalls' = [s \in Slots |-> [locCalls[s] EXCEPT !.fresh = @ /\ except]]
AgeFix ==
  /\ fixFresh /\ fixFresh' = FALSE
  /\ location' = [location EXCEPT !.fresh = byPermission]
  /\ LocAges(byPermission)
  /\ UNCHANGED <<point, cell, pin, page, granted, byPermission, locDisturbed>>
AgeRow ==
  /\ location.fresh /\ ~fixFresh
  /\ location' = [location EXCEPT !.fresh = FALSE]
  /\ LocAges(FALSE)
  /\ UNCHANGED <<point, cell, pin, page, granted, fixFresh, byPermission, locDisturbed>>
AbandonUpdate(s) ==
  /\ ~LocAt(s, "idle")
  /\ LocEnter(s, LocIdle)
  /\ locDisturbed' = (locDisturbed \/ locCalls[s].step \in {"exact", "public", "pin"})
  /\ UNCHANGED <<location, point, cell, pin, page, granted, fixFresh, byPermission>>

LocNext ==
  \/ \E s \in Slots :
       \/ \E p \in Positions : Fix(s, p)
       \/ GrantFirst(s) \/ ReadLocation(s) \/ GateMove(s) \/ TouchLocation(s)
       \/ WriteExactPoint(s) \/ WriteCell(s) \/ WriteApproximatePoint(s) \/ AbandonUpdate(s)
  \/ \E keepsSent \in BOOLEAN : Reload(keepsSent)
  \/ Withdraw \/ AgeFix \/ AgeRow
LocSpec == LocInit /\ [][LocNext]_locVars

-----------------------------------------------------------------------------
(* Every variable keeps its type. *)
LocTypeOK ==
  /\ location \in [permission: {"NONE", "GRANTED", "DENIED"}, fresh: BOOLEAN]
  /\ point \in Points /\ {cell, pin} \subseteq {CellOf(p) : p \in Points}
  /\ page \in [accepted: Points, sent: BOOLEAN]
  /\ locCalls \in [Slots -> LocCall]
  /\ {granted, fixFresh, byPermission, locDisturbed} \subseteq BOOLEAN

(* Between calls the public cell and the pin are those of the exact point, and *)
(* the permission is what the member said last: the four writes of an update   *)
(* (locations.service.ts:126-170) come apart only when an update stops halfway *)
(* or overlaps another call.                                                   *)
PublicFollowsExact ==
  (\A s \in Slots : LocAt(s, "idle")) =>
    \/ locDisturbed
    \/ /\ cell = CellOf(point) /\ pin = CellOf(point)
       /\ granted <=> location.permission = "GRANTED"
=============================================================================
