------------------------------- MODULE Thread -------------------------------
(***************************************************************************)
(* One conversation and the two chat pages on it: the history over REST,   *)
(* the events over the messaging socket, and the marks of what was read.   *)
(***************************************************************************)
EXTENDS Handlers, Sequences

CONSTANTS
  Chatters,               \* the two participants
  Online,                 \* those whose page may connect
  NoChatter,              \* the page of a free slot
  PageSize,               \* policy.pageSize
  MaxSent                 \* bound: the messages sent
ASSUME ThreadAssumption ==
  /\ NoChatter \notin Chatters /\ Online \subseteq Chatters
  /\ PageSize \in Nat \ {0} /\ MaxSent \in Nat

VARIABLES
  sender,                 \* the messages in order of creation, as who sent them
  hidden,                 \* the messages a moderator has hidden
  socket,                 \* page -> "off", "connecting" until the server has joined it, "on"
  items,                  \* page -> message -> how often it is listed
  heard,                  \* page -> message.created events under way, as the messages
  readHeard,              \* page -> some message.read event is under way
  chatCalls,              \* Slots -> the request in flight
  cut                     \* history: page -> since it connected an event went out before the
                          \* server had joined it, or a request failed that it waited for
chatVars == <<sender, hidden, socket, items, heard, readHeard, chatCalls, cut>>

Messages == 1 .. Len(sender)
ChatSteps == {"idle", "list", "listed", "mark", "send", "publish", "sent"}
\* list: the page of messages that listMessages answers; id: the message sent.
ChatIdle == [step |-> "idle", page |-> NoChatter, list |-> {}, id |-> 0]
ChatAt(s, step) == chatCalls[s].step = step
ChatEnter(s, call) == chatCalls' = [chatCalls EXCEPT ![s] = call]
ChatGoTo(s, step) == ChatEnter(s, [chatCalls[s] EXCEPT !.step = step])
ChatBegin(s, p, step) ==
  ChatAt(s, "idle") /\ ChatEnter(s, [ChatIdle EXCEPT !.step = step, !.page = p])
Listed(p) == {m \in Messages : items[p][m] > 0}
\* What RealtimeEvents.publish reaches: the sockets in the members' rooms.
Reached == {p \in Chatters : socket[p] = "on"}
Pass == cut' = [p \in Chatters |-> cut[p] \/ socket[p] = "connecting"]

ChatInit ==
  /\ sender = <<>> /\ hidden = {}
  /\ socket = [p \in Chatters |-> "off"]
  /\ items = [p \in Chatters |-> [m \in 1 .. MaxSent |-> 0]]
  /\ heard = [p \in Chatters |-> {}] /\ readHeard = [p \in Chatters |-> FALSE]
  /\ chatCalls = [s \in Slots |-> ChatIdle]
  /\ cut = [p \in Chatters |-> FALSE]

-----------------------------------------------------------------------------
(* The page: its effect loads the history and connects, each "connect" loads *)
(* the history again.                                                        *)

LoadHistory(s, p) ==
  /\ socket[p] = "off" /\ ChatBegin(s, p, "list")
  /\ UNCHANGED <<sender, hidden, socket, items, heard, readHeard, cut>>
ConnectChat(s, p) ==
  /\ p \in Online /\ socket[p] = "off"
  /\ socket' = [socket EXCEPT ![p] = "connecting"]
  /\ ChatBegin(s, p, "list")
  /\ UNCHANGED <<sender, hidden, items, heard, readHeard, cut>>
\* handleConnection joins the member's room after it has read the session.
JoinMemberRoom(p) ==
  /\ socket[p] = "connecting" /\ socket' = [socket EXCEPT ![p] = "on"]
  /\ UNCHANGED <<sender, hidden, items, heard, readHeard, chatCalls, cut>>
DropChat(p) ==
  /\ socket[p] # "off" /\ socket' = [socket EXCEPT ![p] = "off"]
  /\ heard' = [heard EXCEPT ![p] = {}] /\ readHeard' = [readHeard EXCEPT ![p] = FALSE]
  /\ cut' = [cut EXCEPT ![p] = FALSE]
  /\ UNCHANGED <<sender, hidden, items, chatCalls>>

\* Mutant: an event is listed again.
HearAgain(s, p, m) ==
  /\ m \in heard[p] /\ heard' = [heard EXCEPT ![p] = @ \ {m}]
  /\ items' = [items EXCEPT ![p][m] = @ + 1]
  /\ ChatBegin(s, p, "mark")
  /\ UNCHANGED <<sender, hidden, socket, readHeard, cut>>

\* message.created lists the message unless it is listed, and marks it read.
HearCreated(s, p, m) ==
  /\ m \in heard[p] /\ heard' = [heard EXCEPT ![p] = @ \ {m}]
  /\ items' = IF m \in Listed(p) THEN items ELSE [items EXCEPT ![p][m] = @ + 1]
  /\ ChatBegin(s, p, "mark")
  /\ UNCHANGED <<sender, hidden, socket, readHeard, cut>>
\* Mutant: message.read loads nothing.
HearReadOnly(s, p) ==
  /\ readHeard[p] /\ readHeard' = [readHeard EXCEPT ![p] = FALSE]
  /\ ChatAt(s, "idle")
  /\ UNCHANGED <<sender, hidden, socket, items, heard, chatCalls, cut>>

\* message.read loads the history.
HearRead(s, p) ==
  /\ readHeard[p] /\ readHeard' = [readHeard EXCEPT ![p] = FALSE]
  /\ ChatBegin(s, p, "list")
  /\ UNCHANGED <<sender, hidden, socket, items, heard, cut>>
\* The history replaces the list; its last message is marked read.
ShowHistory(s) ==
  LET call == chatCalls[s] IN
  /\ ChatAt(s, "listed")
  /\ items' = [items EXCEPT ![call.page] =
                  [m \in 1 .. MaxSent |-> IF m \in call.list THEN 1 ELSE 0]]
  /\ ChatEnter(s, IF call.list = {} THEN ChatIdle
                  ELSE [ChatIdle EXCEPT !.step = "mark", !.page = call.page])
  /\ UNCHANGED <<sender, hidden, socket, heard, readHeard, cut>>
\* The sender appends what it sent, listed or not.
SendText(s, p) ==
  /\ ChatBegin(s, p, "send")
  /\ UNCHANGED <<sender, hidden, socket, items, heard, readHeard, cut>>
ShowSent(s) ==
  LET call == chatCalls[s] IN
  /\ ChatAt(s, "sent")
  /\ items' = [items EXCEPT ![call.page][call.id] = @ + 1]
  /\ ChatEnter(s, ChatIdle)
  /\ UNCHANGED <<sender, hidden, socket, heard, readHeard, cut>>

-----------------------------------------------------------------------------
(* MessagingService. *)

Newer(m) == {n \in Messages \ hidden : m < n}
\* Mutant: ascending order, the oldest are read.
OldestPage ==
  {m \in Messages \ hidden : Cardinality({n \in Messages \ hidden : n < m}) < PageSize}

\* The newest pageSize messages that are not hidden; no page asks for the ones before.
NewestPage == {m \in Messages \ hidden : Cardinality(Newer(m)) < PageSize}
ListMessages(s) ==
  /\ ChatAt(s, "list")
  /\ ChatEnter(s, [chatCalls[s] EXCEPT !.step = "listed", !.list = NewestPage])
  /\ UNCHANGED <<sender, hidden, socket, items, heard, readHeard, cut>>
\* send stores the message, builds its view, then publishes it to both.
StoreMessage(s) ==
  /\ ChatAt(s, "send") /\ Len(sender) < MaxSent
  /\ sender' = Append(sender, chatCalls[s].page)
  /\ ChatEnter(s, [chatCalls[s] EXCEPT !.step = "publish", !.id = Len(sender) + 1])
  /\ UNCHANGED <<hidden, socket, items, heard, readHeard, cut>>
PublishCreated(s) ==
  /\ ChatAt(s, "publish")
  /\ heard' = [p \in Chatters |-> heard[p] \cup {m \in {chatCalls[s].id} : p \in Reached}]
  /\ Pass
  /\ ChatGoTo(s, "sent")
  /\ UNCHANGED <<sender, hidden, socket, items, readHeard>>
\* markRead publishes message.read to both, had it anything to mark or not.
MarkMessages(s) ==
  /\ ChatAt(s, "mark")
  /\ readHeard' = [p \in Chatters |-> readHeard[p] \/ p \in Reached]
  /\ Pass
  /\ ChatEnter(s, ChatIdle)
  /\ UNCHANGED <<sender, hidden, socket, items, heard>>
\* ReportsService hides a reported message for good; no page is told.
HideMessage(m) ==
  /\ m \notin hidden /\ hidden' = hidden \cup {m}
  /\ UNCHANGED <<sender, socket, items, heard, readHeard, chatCalls, cut>>
\* A request fails; a message that was stored is not published any more.
FailChat(s) ==
  LET call == chatCalls[s] IN
  /\ ~ChatAt(s, "idle")
  /\ cut' = [p \in Chatters |-> cut[p] \/
                  (socket[p] # "off" /\ (p = call.page \/ call.step = "publish"))]
  /\ ChatEnter(s, ChatIdle)
  /\ UNCHANGED <<sender, hidden, socket, items, heard, readHeard>>

ChatNext ==
  \/ \E s \in Slots :
       \/ \E p \in Chatters :
            \/ LoadHistory(s, p) \/ ConnectChat(s, p) \/ HearRead(s, p) \/ SendText(s, p)
            \/ \E m \in Messages : HearCreated(s, p, m)
       \/ ShowHistory(s) \/ ShowSent(s) \/ ListMessages(s) \/ StoreMessage(s)
       \/ PublishCreated(s) \/ MarkMessages(s) \/ FailChat(s)
  \/ \E p \in Chatters : JoinMemberRoom(p) \/ DropChat(p)
  \/ \E m \in Messages : HideMessage(m)
ChatSpec == ChatInit /\ [][ChatNext]_chatVars

-----------------------------------------------------------------------------
(* Every variable keeps its type. *)
ChatTypeOK ==
  /\ sender \in Seq(Chatters) /\ Len(sender) <= MaxSent /\ hidden \subseteq Messages
  /\ socket \in [Chatters -> {"off", "connecting", "on"}]
  /\ items \in [Chatters -> [1 .. MaxSent -> Nat]]
  /\ \A p \in Chatters : heard[p] \subseteq Messages
  /\ chatCalls \in [Slots -> [step: ChatSteps, page: Chatters \cup {NoChatter},
                              list: SUBSET (1 .. MaxSent), id: 0 .. MaxSent]]
  /\ {readHeard, cut} \subseteq [Chatters -> BOOLEAN]

\* The last pageSize messages sent: a page of the history has those that are not hidden,
\* and may have older ones in the place of the hidden.
Recent == {m \in Messages : m + PageSize > Len(sender)}

(* A recent message that is not hidden is listed by a connected page, or is on *)
(* its way to it - to be published, heard, or in a history that is still to be *)
(* read - unless it went out before the server had joined the page's room, or  *)
(* a request failed: no order of histories, events and hidings loses it.       *)
(* Nothing is promised of older messages: a history takes them from the list   *)
(* and the page never asks for nextCursor                                      *)
(* (conversations/[id]/page.tsx:24-69, messaging.service.ts:57-85).            *)
MissingIsOnItsWay ==
  \A p \in Reached, m \in Recent \ hidden :
    m \in Listed(p) \/ m \in heard[p] \/ readHeard[p] \/ cut[p]
    \/ \E s \in Slots :
         \/ ChatAt(s, "publish") /\ chatCalls[s].id = m
         \/ /\ chatCalls[s].page = p
            /\ \/ chatCalls[s].step \in {"list", "mark"}
               \/ ChatAt(s, "listed") /\ m \in chatCalls[s].list

(* A page lists a message once, but its own twice when its event came before   *)
(* the answer to the request that sent it (page.tsx:55 and page.tsx:81).       *)
PeersMessagesOnce ==
  \A p \in Chatters, m \in Messages : items[p][m] <= IF sender[m] = p THEN 2 ELSE 1

(* A connected page lists, or has on its way, each of the last pageSize        *)
(* messages that is not hidden, lost requests and events aside, and lists none *)
(* of the peer's twice (conversations/[id]/page.tsx:24-69).                    *)
MessagesArriveOnce == MissingIsOnItsWay /\ PeersMessagesOnce
=============================================================================
