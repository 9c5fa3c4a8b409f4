-------------------------------- MODULE Desk --------------------------------
(***************************************************************************)
(* One support ticket, on which its member and the staff act together.     *)
(* The row's status says whose turn it is; the messages, assignments and   *)
(* escalations are rows of their own.                                      *)
(***************************************************************************)
EXTENDS Handlers, Sequences

CONSTANTS
  Agents,                 \* the staff a ticket may be assigned to
  MaxAssignments          \* bound: assignments
ASSUME DeskAssumption == MaxAssignments \in Nat

VARIABLES
  ticket,                 \* the row: status and priority
  staffLast,              \* of its messages: is the last one the staff's?
  assignments,            \* its assignments, in order
  escalations,            \* its escalations: from (none: {}) and to
  deskCalls,              \* Slots -> the call in flight
  disturbed,              \* history: calls overlapped, or one stopped halfway
  chosen                  \* history: an operator set the status since the last message
deskVars == <<ticket, staffLast, assignments, escalations, deskCalls, disturbed, chosen>>

Statuses == {"OPEN", "PENDING", "RESOLVED", "CLOSED"}
Priorities == {"NORMAL", "HIGH"}
Escalation == [from: SUBSET Agents, to: Agents]
Assignee == IF assignments = <<>> THEN {} ELSE {assignments[Len(assignments)]}

DeskSteps == {"idle", "message", "turn", "assign", "escalate", "patch"}
\* status, priority: what the call will write; saw: the status it read.
DeskCall == [step: DeskSteps, staff: BOOLEAN, saw: Statuses, status: Statuses,
             priority: Priorities, to: SUBSET Agents, from: SUBSET Agents]
DeskIdle == [step |-> "idle", staff |-> FALSE, saw |-> "OPEN", status |-> "OPEN",
             priority |-> "NORMAL", to |-> {}, from |-> {}]
DeskAt(s, step) == deskCalls[s].step = step
DeskEnter(s, call) == deskCalls' = [deskCalls EXCEPT ![s] = call]
DeskAlone(s) == \A r \in Slots \ {s} : DeskAt(r, "idle")
DeskLeave(s) ==
  DeskEnter(s, DeskIdle) /\ disturbed' = (disturbed \/ ~DeskAlone(s))

\* createTicket writes the row and its first message together.
DeskInit ==
  /\ ticket = [status |-> "OPEN", priority |-> "NORMAL"]
  /\ staffLast = FALSE /\ assignments = <<>> /\ escalations = {}
  /\ deskCalls = [s \in Slots |-> DeskIdle]
  /\ disturbed = FALSE /\ chosen = FALSE

\* Mutant: a message is added to any ticket.
AddMessageToAny(s, staff) ==
  /\ DeskAt(s, "idle")
  /\ DeskEnter(s, [DeskIdle EXCEPT !.step = "message", !.staff = staff, !.saw = ticket.status])
  /\ UNCHANGED <<ticket, staffLast, assignments, escalations, disturbed, chosen>>

\* addMessage refuses a closed ticket, adds the message, then turns the status.
AddMessage(s, staff) ==
  /\ DeskAt(s, "idle") /\ ticket.status # "CLOSED"
  /\ DeskEnter(s, [DeskIdle EXCEPT !.step = "message", !.staff = staff, !.saw = ticket.status])
  /\ UNCHANGED <<ticket, staffLast, assignments, escalations, disturbed, chosen>>
CreateMessage(s) ==
  /\ DeskAt(s, "message")
  /\ staffLast' = deskCalls[s].staff
  /\ DeskEnter(s, [deskCalls[s] EXCEPT !.step = "turn"])
  /\ chosen' = FALSE
  /\ UNCHANGED <<ticket, assignments, escalations, disturbed>>
\* Mutant: the member's answer leaves the status.
TurnToMember(s) ==
  /\ DeskAt(s, "turn")
  /\ ticket' = [ticket EXCEPT !.status = IF deskCalls[s].staff THEN "PENDING" ELSE @]
  /\ DeskLeave(s)
  /\ UNCHANGED <<staffLast, assignments, escalations, chosen>>

TurnTicket(s) ==
  /\ DeskAt(s, "turn")
  /\ ticket' = [ticket EXCEPT !.status = IF deskCalls[s].staff THEN "PENDING" ELSE "OPEN"]
  /\ DeskLeave(s)
  /\ UNCHANGED <<staffLast, assignments, escalations, chosen>>

\* assign looks for the ticket and the agent, then adds a row.
Assign(s, agent) ==
  /\ DeskAt(s, "idle") /\ Len(assignments) < MaxAssignments
  /\ DeskEnter(s, [DeskIdle EXCEPT !.step = "assign", !.to = {agent}])
  /\ UNCHANGED <<ticket, staffLast, assignments, escalations, disturbed, chosen>>
CreateAssignment(s) ==
  /\ DeskAt(s, "assign") /\ Len(assignments) < MaxAssignments
  /\ \E agent \in deskCalls[s].to : assignments' = Append(assignments, agent)
  /\ DeskLeave(s)
  /\ UNCHANGED <<ticket, staffLast, escalations, chosen>>

\* Mutant: an escalation starts from nobody.
EscalateFromNobody(s, agent) ==
  /\ DeskAt(s, "idle")
  /\ DeskEnter(s, [DeskIdle EXCEPT !.step = "escalate", !.to = {agent}])
  /\ UNCHANGED <<ticket, staffLast, assignments, escalations, disturbed, chosen>>

\* escalate reads the assignee, then writes three rows in a transaction.
Escalate(s, agent) ==
  /\ DeskAt(s, "idle") /\ Len(assignments) < MaxAssignments
  /\ DeskEnter(s, [DeskIdle EXCEPT !.step = "escalate", !.to = {agent}, !.from = Assignee])
  /\ UNCHANGED <<ticket, staffLast, assignments, escalations, disturbed, chosen>>
CreateEscalation(s) ==
  /\ DeskAt(s, "escalate") /\ Len(assignments) < MaxAssignments
  /\ \E agent \in deskCalls[s].to :
       /\ assignments' = Append(assignments, agent)
       /\ escalations' = escalations \cup {[from |-> deskCalls[s].from, to |-> agent]}
  /\ ticket' = [status |-> "OPEN", priority |-> "HIGH"]
  /\ DeskLeave(s)
  /\ chosen' = TRUE
  /\ UNCHANGED staffLast

\* patchTicket writes both columns, as it read the one that was not sent.
PatchTicket(s, status, priority) ==
  /\ DeskAt(s, "idle")
  /\ DeskEnter(s, [DeskIdle EXCEPT !.step = "patch", !.saw = ticket.status,
                   !.status = status, !.priority = priority])
  /\ UNCHANGED <<ticket, staffLast, assignments, escalations, disturbed, chosen>>
WriteTicket(s) ==
  /\ DeskAt(s, "patch")
  /\ ticket' = [status |-> deskCalls[s].status, priority |-> deskCalls[s].priority]
  /\ DeskLeave(s)
  /\ chosen' = TRUE
  /\ UNCHANGED <<staffLast, assignments, escalations>>

AbandonTicketCall(s) ==
  /\ ~DeskAt(s, "idle")
  /\ DeskEnter(s, DeskIdle) /\ disturbed' = TRUE
  /\ UNCHANGED <<ticket, staffLast, assignments, escalations, chosen>>

DeskNext ==
  \E s \in Slots :
    \/ \E staff \in BOOLEAN : AddMessage(s, staff)
    \/ CreateMessage(s) \/ TurnTicket(s)
    \/ \E agent \in Agents : Assign(s, agent) \/ Escalate(s, agent)
    \/ CreateAssignment(s) \/ CreateEscalation(s)
    \/ \E status \in Statuses : PatchTicket(s, status, ticket.priority)
    \/ \E priority \in Priorities : PatchTicket(s, ticket.status, priority)
    \/ WriteTicket(s) \/ AbandonTicketCall(s)
DeskSpec == DeskInit /\ [][DeskNext]_deskVars

-----------------------------------------------------------------------------
(* Every variable keeps its type. *)
DeskTypeOK ==
  /\ ticket \in [status: Statuses, priority: Priorities]
  /\ staffLast \in BOOLEAN /\ assignments \in Seq(Agents)
  /\ escalations \subseteq Escalation
  /\ deskCalls \in [Slots -> DeskCall]
  /\ disturbed \in BOOLEAN /\ chosen \in BOOLEAN

(* A closed ticket opens again only by an escalation, by an operator who asks  *)
(* for it, or by a call that read it before it was closed: no message is added *)
(* to a closed ticket unawares (support.service.ts:166), and a patch of the    *)
(* priority brings an old status back only over a newer one (line 293).        *)
ReopenedOnPurpose ==
  [][ticket.status = "CLOSED" /\ ticket'.status # "CLOSED" =>
       \E s \in Slots : /\ deskCalls'[s] # deskCalls[s]
         /\ \/ DeskAt(s, "escalate") \/ deskCalls[s].saw # "CLOSED"
            \/ DeskAt(s, "patch") /\ deskCalls[s].status # "CLOSED"]_deskVars

(* Between calls the status shows the turn of the side that did not speak      *)
(* last, or what an operator chose since (support.service.ts:169-175): only    *)
(* calls that overlapped, or one that stopped halfway, leave it wrong.         *)
TurnIsTrue ==
  (\A s \in Slots : DeskAt(s, "idle")) =>
    disturbed \/ chosen \/ ticket.status = IF staffLast THEN "PENDING" ELSE "OPEN"

(* Each escalation starts where an assignment had put the ticket, and is an    *)
(* assignment itself (support.service.ts:252-269), unless calls overlapped.    *)
EscalationsFollowAssignments ==
  \A e \in escalations : disturbed \/
    \E i \in DOMAIN assignments :
      /\ assignments[i] = e.to
      /\ e.from = IF i = 1 THEN {} ELSE {assignments[i - 1]}

(* The desk's books agree: whose turn it is with the thread, and where it was  *)
(* escalated with who was assigned (support.service.ts:169-175, 252-269).      *)
DeskBooksAgree == TurnIsTrue /\ EscalationsFollowAssignments
=============================================================================
