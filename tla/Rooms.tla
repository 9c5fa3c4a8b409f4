-------------------------------- MODULE Rooms --------------------------------
(***************************************************************************)
(* The cell rooms of one discovery socket: which moves of the neighbours   *)
(* it hears.  Cells lie on a line; a neighbourhood reaches one cell.       *)
(***************************************************************************)
EXTENDS Handlers

CONSTANTS MaxCell, Unplaced       \* bound: the cells are 0 .. MaxCell; no point is stored
ASSUME RoomsAssumption == MaxCell \in Nat /\ Unplaced \notin Int

VARIABLES
  online,                 \* the socket: "off", "checked" while its session is, or "on"
  joined,                 \* the cell rooms it is in
  recorded,               \* client.data.cellRooms
  home,                   \* the cell of the member's exact point
  roomCalls,              \* Slots -> the sync in flight
  synced,                 \* history: a sync has read the point since its last write
  roomsDisturbed          \* history: on this socket a sync failed, or two overlapped
roomVars == <<online, joined, recorded, home, roomCalls, synced, roomsDisturbed>>

Cells == 0 .. MaxCell
\* cellNeighborhood.
Neighbourhood(c) == IF c = Unplaced THEN {} ELSE {d \in Cells : d - c \in {-1, 0, 1}}

RoomSteps == {"idle", "leave", "point", "join"}
\* first: it is the one handleConnection awaits.
RoomCall == [step: RoomSteps, rooms: SUBSET Cells, first: BOOLEAN]
RoomIdle == [step |-> "idle", rooms |-> {}, first |-> FALSE]
RoomAt(s, step) == roomCalls[s].step = step
RoomEnter(s, call) == roomCalls' = [roomCalls EXCEPT ![s] = call]
RoomsQuiet == \A s \in Slots : RoomAt(s, "idle")

RoomInit ==
  /\ online = "off" /\ joined = {} /\ recorded = {} /\ home = Unplaced
  /\ roomCalls = [s \in Slots |-> RoomIdle]
  /\ synced = FALSE /\ roomsDisturbed = FALSE

\* handleConnection checks the session of a new socket, then syncs its rooms.
ConnectSocket(s) ==
  /\ online = "off" /\ RoomAt(s, "idle")
  /\ online' = "checked"
  /\ joined' = {} /\ recorded' = {} /\ roomsDisturbed' = FALSE /\ synced' = FALSE
  /\ RoomEnter(s, [RoomIdle EXCEPT !.step = "leave", !.first = TRUE])
  /\ UNCHANGED home
\* syncPresence answers once the session is known.
SyncPresence(s) ==
  /\ online = "on" /\ RoomAt(s, "idle")
  /\ RoomEnter(s, [RoomIdle EXCEPT !.step = "leave"])
  /\ roomsDisturbed' = (roomsDisturbed \/ ~RoomsQuiet)
  /\ UNCHANGED <<online, joined, recorded, home, synced>>

\* Mutant: a sync leaves no room.
LeaveNone(s) ==
  /\ RoomAt(s, "leave")
  /\ online' = "on"
  /\ RoomEnter(s, [roomCalls[s] EXCEPT !.step = "point"])
  /\ UNCHANGED <<joined, recorded, home, synced, roomsDisturbed>>

\* syncCellRooms leaves the rooms on record, reads the point, joins, records.
LeaveRooms(s) ==
  /\ RoomAt(s, "leave")
  /\ online' = "on"
  /\ joined' = joined \ recorded
  /\ RoomEnter(s, [roomCalls[s] EXCEPT !.step = "point"])
  /\ UNCHANGED <<recorded, home, synced, roomsDisturbed>>
ReadHome(s) ==
  /\ RoomAt(s, "point")
  /\ synced' = TRUE
  /\ RoomEnter(s, [roomCalls[s] EXCEPT !.step = "join", !.rooms = Neighbourhood(home)])
  /\ UNCHANGED <<online, joined, recorded, home, roomsDisturbed>>
JoinRooms(s) ==
  /\ RoomAt(s, "join")
  /\ joined' = joined \cup roomCalls[s].rooms
  /\ recorded' = roomCalls[s].rooms
  /\ RoomEnter(s, RoomIdle)
  /\ UNCHANGED <<online, home, synced, roomsDisturbed>>
\* The socket closes: whatever its syncs still do is done to a dead socket.
CloseSocket ==
  /\ online # "off" /\ online' = "off"
  /\ joined' = {} /\ recorded' = {}
  /\ roomCalls' = [s \in Slots |-> RoomIdle]
  /\ UNCHANGED <<home, synced, roomsDisturbed>>
\* A failed read leaves the rooms left and the record as it was; the first sync's
\* closes the socket.
FailSync(s) ==
  /\ RoomAt(s, "point")
  /\ IF roomCalls[s].first THEN CloseSocket
     ELSE /\ RoomEnter(s, RoomIdle)
          /\ roomsDisturbed' = TRUE
          /\ UNCHANGED <<online, joined, recorded, home, synced>>
\* writeExactPoint.
MoveHome(c) ==
  /\ c # home /\ home' = c /\ synced' = FALSE
  /\ UNCHANGED <<online, joined, recorded, roomCalls, roomsDisturbed>>

RoomNext ==
  \/ \E s \in Slots : \/ ConnectSocket(s) \/ SyncPresence(s) \/ LeaveRooms(s)
                      \/ ReadHome(s) \/ JoinRooms(s) \/ FailSync(s)
  \/ CloseSocket
  \/ \E c \in Cells : MoveHome(c)
RoomSpec == RoomInit /\ [][RoomNext]_roomVars

-----------------------------------------------------------------------------
(* Every variable keeps its type. *)
RoomTypeOK ==
  /\ online \in {"off", "checked", "on"} /\ home \in Cells \cup {Unplaced}
  /\ {joined, recorded} \subseteq SUBSET Cells
  /\ roomCalls \in [Slots -> RoomCall]
  /\ {synced, roomsDisturbed} \subseteq BOOLEAN

(* A socket at rest is in the rooms on its record, those around the point its  *)
(* last sync read: it hears every move next to it and, once it has moved away, *)
(* none (discovery.gateway.ts:85-107).  Two syncs that overlap forget rooms    *)
(* the socket stays in, and a failed one the rooms it has left.                *)
HearsItsNeighbours ==
  online = "on" /\ RoomsQuiet =>
    roomsDisturbed \/ (joined = recorded /\ (synced => joined = Neighbourhood(home)))
=============================================================================
