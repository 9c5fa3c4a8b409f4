---------------------------- MODULE ClientsProofs ----------------------------
(***************************************************************************)
(* Proofs about the pages of the browser, the phone and the staff, for any *)
(* number of requests in flight.                                           *)
(***************************************************************************)
EXTENDS Clients, FiniteSetTheorems, SequenceTheorems, WellFoundedInduction, TLAPS

-----------------------------------------------------------------------------
(* The chat pages of one conversation. *)

\* A message is lost to a page only if every order of histories and events leaves it
\* something to wait for; it is doubled only by the answer to the request that sent it,
\* which comes once.

\* The request that sent a message and has not shown it yet.
Sending(s, m) == chatCalls[s].step \in {"publish", "sent"} /\ chatCalls[s].id = m

\* The shape of the variables.
ChatCall == [step: ChatSteps, page: Chatters \cup {NoChatter},
             list: SUBSET (1 .. MaxSent), id: 0 .. MaxSent]
ChatShape ==
  /\ sender \in Seq(Chatters) /\ Len(sender) <= MaxSent
  /\ socket \in [Chatters -> {"off", "connecting", "on"}]
  /\ items \in [Chatters -> [1 .. MaxSent -> Nat]] /\ heard \in [Chatters -> SUBSET Nat]
  /\ chatCalls \in [Slots -> ChatCall]
  /\ readHeard \in [Chatters -> BOOLEAN] /\ cut \in [Chatters -> BOOLEAN]

\* What is hidden, and what a page lists, hears or is answered, was sent.
ShownWasSent ==
  /\ hidden \subseteq Messages
  /\ \A p \in Chatters : heard[p] \subseteq Messages
  /\ \A p \in Chatters, m \in 1 .. MaxSent : m \notin Messages => items[p][m] = 0
  /\ \A s \in Slots : chatCalls[s].list \subseteq Messages

\* A request in flight is a page's; the one that sent a message is its sender's, and the
\* only one with that message.
RequestsAreOwn ==
  /\ \A s \in Slots : ~ChatAt(s, "idle") => chatCalls[s].page \in Chatters
  /\ \A s \in Slots : chatCalls[s].step \in {"publish", "sent"} =>
       /\ chatCalls[s].id \in Messages
       /\ sender[chatCalls[s].id] = chatCalls[s].page
  /\ \A s, t \in Slots : /\ chatCalls[s].step \in {"publish", "sent"}
                         /\ chatCalls[t].step \in {"publish", "sent"}
                         /\ chatCalls[s].id = chatCalls[t].id
                         => s = t

\* What brings a page a message: MissingIsOnItsWay without what the page lists already.
OnItsWay(p, m) ==
  \/ m \in heard[p] \/ readHeard[p] \/ cut[p]
  \/ \E s \in Slots :
       \/ ChatAt(s, "publish") /\ chatCalls[s].id = m
       \/ /\ chatCalls[s].page = p
          /\ \/ chatCalls[s].step \in {"list", "mark"}
             \/ ChatAt(s, "listed") /\ m \in chatCalls[s].list
AllOnTheirWay ==
  \A p \in Chatters, m \in Recent \ hidden : socket[p] # "off" => OnItsWay(p, m)

\* A message is listed a second time only by the answer to the request that sent it.
DoubledByItsAnswer ==
  \A p \in Chatters, m \in Messages :
    \/ items[p][m] <= 1
    \/ /\ items[p][m] <= 2 /\ sender[m] = p
       /\ \A s \in Slots : ~Sending(s, m)

ChatIInv ==
  ChatShape /\ ShownWasSent /\ RequestsAreOwn /\ AllOnTheirWay /\ DoubledByItsAnswer

\* A page of the history has every recent message that is not hidden: of the messages after
\* it there are too few to fill the page.
LEMMA PageHasRecent ==
  ASSUME Len(sender) \in Nat, hidden \subseteq Messages PROVE Recent \ hidden \subseteq NewestPage
<1> USE ThreadAssumption
<1> SUFFICES ASSUME NEW m \in Recent \ hidden PROVE Cardinality(Newer(m)) < PageSize
  BY DEF Recent, NewestPage
<1> DEFINE after == (m + 1) .. Len(sender)
<1>1. m \in Nat /\ m <= Len(sender) /\ m + PageSize > Len(sender)
  BY DEF Recent, Messages
<1>2. IsFiniteSet(after) /\ Cardinality(after) = Len(sender) - m
  <2>1. IsFiniteSet(after)
    BY <1>1, FS_Interval
  <2>2. Cardinality(after) = IF m + 1 > Len(sender) THEN 0 ELSE Len(sender) - (m + 1) + 1
    <3>1. m + 1 \in Int /\ Len(sender) \in Int
      BY <1>1
    <3> HIDE DEF Messages
    <3> QED BY <3>1, FS_Interval
  <2> QED BY <1>1, <2>1, <2>2
<1>3. Newer(m) \in SUBSET after
  BY <1>1 DEF Newer, Messages
<1>4. Cardinality(Newer(m)) <= Cardinality(after) /\ IsFiniteSet(Newer(m))
  BY <1>2, <1>3, FS_Subset
<1>5. Cardinality(Newer(m)) \in Nat
  BY <1>4, FS_CardinalityType
<1> QED BY <1>1, <1>2, <1>4, <1>5

\* Every message has its count on every page.
LEMMA CountsAre ==
  ASSUME ChatShape
  PROVE  /\ Messages \subseteq 1 .. MaxSent /\ Messages \subseteq Nat
         /\ \A p \in Chatters, m \in 1 .. MaxSent : items[p][m] \in Nat
<1>1. Len(sender) \in Nat /\ Len(sender) <= MaxSent /\ MaxSent \in Nat
  BY ThreadAssumption DEF ChatShape
<1>2. ASSUME NEW p \in Chatters, NEW m \in 1 .. MaxSent PROVE items[p][m] \in Nat
  <2>1. items[p] \in [1 .. MaxSent -> Nat]
    BY DEF ChatShape
  <2>2. \A f \in [1 .. MaxSent -> Nat] : f[m] \in Nat
    OBVIOUS
  <2> QED BY <2>1, <2>2
<1> QED BY <1>1, <1>2 DEF Messages

LEMMA ChatInitial == ChatInit => ChatIInv
<1> SUFFICES ASSUME ChatInit PROVE ChatIInv
  OBVIOUS
<1> USE ThreadAssumption
<1>1. Len(sender) = 0 /\ Messages = {} /\ sender \in Seq(Chatters) /\ Recent = {}
  BY DEF ChatInit, Messages, Recent
<1>2. ChatShape
  <2>1. ChatIdle \in ChatCall
    BY DEF ChatIdle, ChatCall, ChatSteps
  <2> QED BY <1>1, <2>1 DEF ChatInit, ChatShape
<1>3. ShownWasSent
  BY <1>1 DEF ChatInit, ShownWasSent, ChatIdle
<1>4. RequestsAreOwn
  BY DEF ChatInit, RequestsAreOwn, ChatAt, ChatIdle
<1>5. AllOnTheirWay /\ DoubledByItsAnswer
  BY <1>1 DEF AllOnTheirWay, DoubledByItsAnswer
<1> QED BY <1>2, <1>3, <1>4, <1>5 DEF ChatIInv

\* Entering a call of the type changes that slot alone.
LEMMA ChatEntered ==
  ASSUME ChatShape, NEW s \in Slots, NEW entry \in ChatCall, ChatEnter(s, entry)
  PROVE  /\ chatCalls' \in [Slots -> ChatCall]
         /\ chatCalls'[s] = entry
         /\ \A t \in Slots : t # s => chatCalls'[t] = chatCalls[t]
BY DEF ChatShape, ChatEnter

LEMMA ChatCallsAreTyped ==
  ASSUME ChatIInv
  PROVE  /\ ChatIdle \in ChatCall
         /\ \A p \in Chatters, step \in ChatSteps : [ChatIdle EXCEPT !.step = step, !.page = p] \in ChatCall
         /\ \A s \in Slots, step \in ChatSteps : [chatCalls[s] EXCEPT !.step = step] \in ChatCall
         /\ \A s \in Slots : [chatCalls[s] EXCEPT !.step = "listed", !.list = NewestPage] \in ChatCall
         /\ \A s \in Slots : Len(sender) < MaxSent =>
              [chatCalls[s] EXCEPT !.step = "publish", !.id = Len(sender) + 1] \in ChatCall
<1> USE ThreadAssumption
<1>1. ChatIdle \in ChatCall
  BY DEF ChatIdle, ChatCall, ChatSteps
<1>2. /\ \A s \in Slots : chatCalls[s] \in ChatCall
      /\ NewestPage \in SUBSET (1 .. MaxSent)
      /\ Len(sender) < MaxSent => Len(sender) + 1 \in 0 .. MaxSent
  BY DEF ChatIInv, ChatShape, NewestPage, Messages
<1>3. "listed" \in ChatSteps /\ "publish" \in ChatSteps
  BY DEF ChatSteps
<1> QED BY <1>1, <1>2, <1>3 DEF ChatCall

\* A request of a page begins in a free slot.
LEMMA ChatBegun ==
  ASSUME ChatIInv, NEW s \in Slots, NEW p \in Chatters, NEW step \in ChatSteps,
         ChatBegin(s, p, step)
  PROVE  /\ chatCalls'[s].step = step /\ chatCalls'[s].page = p /\ chatCalls'[s].list = {}
         /\ \A t \in Slots : t # s => chatCalls'[t] = chatCalls[t]
         /\ chatCalls[s].step = "idle"
<1>1. ChatEnter(s, [ChatIdle EXCEPT !.step = step, !.page = p]) /\ ChatAt(s, "idle")
  BY DEF ChatBegin
<1>2. /\ [ChatIdle EXCEPT !.step = step, !.page = p].step = step
      /\ [ChatIdle EXCEPT !.step = step, !.page = p].page = p
      /\ [ChatIdle EXCEPT !.step = step, !.page = p].list = {}
  BY DEF ChatIdle
<1> QED BY <1>1, <1>2, ChatEntered, ChatCallsAreTyped DEF ChatIInv, ChatAt

\* A message that is listed once more changes its own count alone.
ListsMore(p, m) == items' = [items EXCEPT ![p][m] = @ + 1]
LEMMA ListsOneMore ==
  ASSUME ChatShape, NEW p \in Chatters, NEW m \in 1 .. MaxSent,
         ListsMore(p, m)
  PROVE  /\ items' \in [Chatters -> [1 .. MaxSent -> Nat]]
         /\ items'[p][m] = items[p][m] + 1 /\ items[p][m] \in Nat
         /\ \A q \in Chatters, n \in 1 .. MaxSent :
              q # p \/ n # m => items'[q][n] = items[q][n]
<1>1. items \in [Chatters -> [1 .. MaxSent -> Nat]]
  BY DEF ChatShape
<1>2. items' = [items EXCEPT ![p] = [items[p] EXCEPT ![m] = items[p][m] + 1]]
  BY DEF ListsMore
<1>3. items[p] \in [1 .. MaxSent -> Nat] /\ items[p][m] \in Nat /\ items[p][m] + 1 \in Nat
  <2>1. items[p] \in [1 .. MaxSent -> Nat]
    BY <1>1
  <2>2. \A f \in [1 .. MaxSent -> Nat] : f[m] \in Nat /\ f[m] + 1 \in Nat
    OBVIOUS
  <2> QED BY <2>1, <2>2
<1>4. [items[p] EXCEPT ![m] = items[p][m] + 1] \in [1 .. MaxSent -> Nat]
  BY <1>3
<1>5. /\ items'[p] = [items[p] EXCEPT ![m] = items[p][m] + 1]
      /\ \A q \in Chatters : q # p => items'[q] = items[q]
  BY <1>1, <1>2
<1>6. items' \in [Chatters -> [1 .. MaxSent -> Nat]]
  BY <1>1, <1>2, <1>4
<1> QED BY <1>3, <1>5, <1>6

\* A history lists what it has, each once, on its own page.
LEMMA HistoryIsShown ==
  ASSUME ChatIInv, NEW s \in Slots, ShowHistory(s)
  PROVE  /\ items' \in [Chatters -> [1 .. MaxSent -> Nat]]
         /\ \A q \in Chatters : items'[q] = items[q] \/
              \A m \in 1 .. MaxSent : /\ items'[q][m] \in {0, 1}
                                      /\ items'[q][m] = 1 => m \in chatCalls[s].list
         /\ \/ /\ chatCalls[s].list = {} /\ ChatEnter(s, ChatIdle)
            \/ /\ chatCalls[s].list # {}
               /\ ChatEnter(s, [ChatIdle EXCEPT !.step = "mark", !.page = chatCalls[s].page])
         /\ chatCalls[s].page \in Chatters /\ chatCalls[s].step = "listed"
<1> DEFINE once == [m \in 1 .. MaxSent |-> IF m \in chatCalls[s].list THEN 1 ELSE 0]
<1>1. /\ items \in [Chatters -> [1 .. MaxSent -> Nat]]
      /\ chatCalls[s].page \in Chatters /\ chatCalls[s].step = "listed"
  BY DEF ShowHistory, ChatIInv, ChatShape, RequestsAreOwn, ChatAt
<1>2. items' = [items EXCEPT ![chatCalls[s].page] = once]
  BY DEF ShowHistory
<1>3. once \in [1 .. MaxSent -> Nat]
  OBVIOUS
<1>4. items' \in [Chatters -> [1 .. MaxSent -> Nat]]
  BY <1>1, <1>2, <1>3
<1>5. \A q \in Chatters : items'[q] = items[q] \/ items'[q] = once
  BY <1>1, <1>2
<1>7. \A m \in 1 .. MaxSent : once[m] \in {0, 1} /\ (once[m] = 1 => m \in chatCalls[s].list)
  OBVIOUS
<1>8. \A q \in Chatters : items'[q] = items[q] \/
        \A m \in 1 .. MaxSent : items'[q][m] \in {0, 1} /\ (items'[q][m] = 1 => m \in chatCalls[s].list)
  <2> HIDE DEF once
  <2> QED BY <1>5, <1>7
<1>6. \/ /\ chatCalls[s].list = {} /\ ChatEnter(s, ChatIdle)
      \/ /\ chatCalls[s].list # {}
         /\ ChatEnter(s, [ChatIdle EXCEPT !.step = "mark", !.page = chatCalls[s].page])
  BY DEF ShowHistory
<1> QED BY <1>1, <1>4, <1>6, <1>8

\* The shape is kept by every step.
LEMMA ChatShapeKept ==
  ASSUME ChatIInv, [ChatNext]_chatVars PROVE ChatShape'
<1> USE ThreadAssumption
<1>0. {"idle", "list", "listed", "mark", "send", "publish", "sent"} = ChatSteps
  BY DEF ChatSteps
<1>1. ASSUME NEW s \in Slots, NEW p \in Chatters,
             LoadHistory(s, p) \/ ConnectChat(s, p) \/ HearRead(s, p) \/ SendText(s, p)
      PROVE  ChatShape'
  <2>1. chatCalls' \in [Slots -> ChatCall]
    BY <1>0, <1>1, ChatEntered, ChatCallsAreTyped
       DEF ChatIInv, LoadHistory, ConnectChat, HearRead, SendText, ChatBegin
  <2>2. socket' \in [Chatters -> {"off", "connecting", "on"}]
    BY <1>1 DEF LoadHistory, ConnectChat, HearRead, SendText, ChatIInv, ChatShape
  <2>3. readHeard' \in [Chatters -> BOOLEAN]
    BY <1>1 DEF LoadHistory, ConnectChat, HearRead, SendText, ChatIInv, ChatShape
  <2> QED BY <1>1, <2>1, <2>2, <2>3
          DEF LoadHistory, ConnectChat, HearRead, SendText, ChatIInv, ChatShape
<1>2. ASSUME NEW s \in Slots, NEW p \in Chatters, NEW m \in Messages, HearCreated(s, p, m)
      PROVE  ChatShape'
  <2>1. m \in Nat /\ m \in 1 .. MaxSent
    BY DEF ChatIInv, ChatShape, Messages
  <2>2. /\ sender' = sender /\ socket' = socket /\ readHeard' = readHeard /\ cut' = cut
    BY <1>2 DEF HearCreated
  <2>3. items' = items \/ ListsMore(p, m)
    BY <1>2 DEF HearCreated, ListsMore
  <2>4. items' \in [Chatters -> [1 .. MaxSent -> Nat]]
    BY <2>1, <2>3, ListsOneMore DEF ChatIInv, ChatShape
  <2>5. heard' \in [Chatters -> SUBSET Nat]
    BY <1>2, <2>1 DEF HearCreated, ChatIInv, ChatShape
  <2>6. chatCalls' \in [Slots -> ChatCall]
    BY <1>0, <1>2, ChatEntered, ChatCallsAreTyped DEF ChatIInv, HearCreated, ChatBegin
  <2> QED BY <2>2, <2>4, <2>5, <2>6 DEF ChatIInv, ChatShape
<1>3. ASSUME NEW s \in Slots, ShowHistory(s) PROVE ChatShape'
  <2>1. items' \in [Chatters -> [1 .. MaxSent -> Nat]]
    BY <1>3, HistoryIsShown
  <2>2. chatCalls' \in [Slots -> ChatCall]
    BY <1>0, <1>3, HistoryIsShown, ChatEntered, ChatCallsAreTyped DEF ChatIInv
  <2> QED BY <1>3, <2>1, <2>2 DEF ShowHistory, ChatIInv, ChatShape
<1>4. ASSUME NEW s \in Slots, ShowSent(s) PROVE ChatShape'
  <2>1. chatCalls[s].id \in 1 .. MaxSent /\ chatCalls[s].page \in Chatters
    BY <1>4 DEF ShowSent, ChatIInv, ChatShape, RequestsAreOwn, ChatAt, Messages
  <2>2. items' \in [Chatters -> [1 .. MaxSent -> Nat]]
    BY <1>4, <2>1, ListsOneMore DEF ShowSent, ChatIInv, ListsMore
  <2>3. chatCalls' \in [Slots -> ChatCall]
    BY <1>4, ChatEntered, ChatCallsAreTyped DEF ChatIInv, ShowSent
  <2> QED BY <1>4, <2>2, <2>3 DEF ShowSent, ChatIInv, ChatShape
<1>5. ASSUME NEW s \in Slots, ListMessages(s) PROVE ChatShape'
  <2>1. chatCalls' \in [Slots -> ChatCall]
    BY <1>5, ChatEntered, ChatCallsAreTyped DEF ChatIInv, ListMessages
  <2> QED BY <1>5, <2>1 DEF ListMessages, ChatIInv, ChatShape
<1>6. ASSUME NEW s \in Slots, StoreMessage(s) PROVE ChatShape'
  <2>1. chatCalls[s].page \in Chatters
    BY <1>6 DEF StoreMessage, ChatAt, ChatIInv, RequestsAreOwn
  <2>2. sender' \in Seq(Chatters) /\ Len(sender') <= MaxSent
    BY <1>6, <2>1 DEF StoreMessage, ChatIInv, ChatShape
  <2>3. chatCalls' \in [Slots -> ChatCall]
    BY <1>6, ChatEntered, ChatCallsAreTyped DEF ChatIInv, StoreMessage
  <2> QED BY <1>6, <2>2, <2>3 DEF StoreMessage, ChatIInv, ChatShape
<1>7. ASSUME NEW s \in Slots, PublishCreated(s) \/ MarkMessages(s) \/ FailChat(s)
      PROVE  ChatShape'
  <2>1. chatCalls' \in [Slots -> ChatCall]
    BY <1>0, <1>7, ChatEntered, ChatCallsAreTyped
       DEF ChatIInv, PublishCreated, MarkMessages, FailChat, ChatGoTo
  <2>2. chatCalls[s].id \in Nat
    BY DEF ChatIInv, ChatShape, ChatCall
  <2>3. /\ heard' \in [Chatters -> SUBSET Nat]
        /\ sender' = sender /\ socket' = socket /\ items' = items
    BY <1>7, <2>2 DEF PublishCreated, MarkMessages, FailChat, ChatIInv, ChatShape
  <2>4. /\ readHeard' \in [Chatters -> BOOLEAN] /\ cut' \in [Chatters -> BOOLEAN]
    BY <1>7 DEF PublishCreated, MarkMessages, FailChat, Pass, ChatIInv, ChatShape
  <2> QED BY <2>1, <2>3, <2>4 DEF ChatIInv, ChatShape
<1>8. ASSUME NEW p \in Chatters, JoinMemberRoom(p) \/ DropChat(p) PROVE ChatShape'
  BY <1>8 DEF JoinMemberRoom, DropChat, ChatIInv, ChatShape
<1>10. ASSUME NEW m \in Messages, HideMessage(m) PROVE ChatShape'
  BY <1>10 DEF HideMessage, ChatIInv, ChatShape
<1>9. CASE UNCHANGED chatVars
  BY <1>9 DEF chatVars, ChatIInv, ChatShape
<1> QED BY <1>1, <1>2, <1>3, <1>4, <1>5, <1>6, <1>7, <1>8, <1>9, <1>10 DEF ChatNext

\* Messages are only added; what was sent before was sent by the same page.
LEMMA SentStaysSent ==
  ASSUME ChatIInv, [ChatNext]_chatVars
  PROVE  /\ Len(sender) \in Nat /\ Messages \subseteq Messages'
         /\ \A m \in Messages : sender'[m] = sender[m]
         /\ Len(sender) <= Len(sender')
<1>1. Len(sender) \in Nat /\ sender \in Seq(Chatters)
  BY DEF ChatIInv, ChatShape
<1>2. ASSUME NEW s \in Slots, StoreMessage(s)
      PROVE  /\ Len(sender') = Len(sender) + 1
             /\ \A m \in Messages : sender'[m] = sender[m]
  <2>1. sender' = Append(sender, chatCalls[s].page) /\ chatCalls[s].page \in Chatters
    BY <1>2 DEF StoreMessage, ChatAt, ChatIInv, RequestsAreOwn
  <2> QED BY <1>1, <2>1 DEF Messages
<1>3. CASE \E s \in Slots : StoreMessage(s)
  BY <1>1, <1>2, <1>3 DEF Messages
<1>4. CASE sender' = sender
  BY <1>1, <1>4 DEF Messages
<1> QED
  BY <1>3, <1>4
     DEF ChatNext, chatVars, LoadHistory, ConnectChat, HearRead, SendText, HearCreated,
         ShowHistory, ShowSent, ListMessages, PublishCreated, MarkMessages, FailChat,
         JoinMemberRoom, DropChat, HideMessage

\* What is recent and not hidden was so before, if it was sent.
LEMMA RecentBefore ==
  ASSUME ChatIInv, [ChatNext]_chatVars, ChatShape', NEW m \in Messages, m \in Recent' \ hidden'
  PROVE  m \in Recent \ hidden
<1>1. hidden \subseteq hidden'
  BY DEF ChatNext, chatVars, LoadHistory, ConnectChat, HearRead, SendText, HearCreated,
         ShowHistory, ShowSent, ListMessages, StoreMessage, PublishCreated, MarkMessages,
         FailChat, JoinMemberRoom, DropChat, HideMessage
<1>2. m + PageSize > Len(sender') /\ m \in Int /\ Len(sender) \in Nat /\ Len(sender') \in Nat
  BY SentStaysSent DEF Recent, Messages, ChatShape
<1>3. Len(sender) <= Len(sender') /\ PageSize \in Int
  BY SentStaysSent, ThreadAssumption
<1>4. m + PageSize > Len(sender)
  BY <1>2, <1>3
<1> QED BY <1>1, <1>4 DEF Recent

\* What is listed, heard or answered stays a message that was sent.
LEMMA ShownKept ==
  ASSUME ChatIInv, [ChatNext]_chatVars, ChatShape' PROVE ShownWasSent'
<1> USE SentStaysSent
<1>0. /\ hidden \subseteq Messages'
      /\ \A p \in Chatters : heard[p] \subseteq Messages'
      /\ \A p \in Chatters, m \in 1 .. MaxSent : m \notin Messages' => items[p][m] = 0
      /\ \A s \in Slots : chatCalls[s].list \subseteq Messages'
  BY DEF ChatIInv, ShownWasSent
\* A page of the history has only what was sent.
<1>9. ASSUME NEW s \in Slots, NEW list \in {{}, chatCalls[s].list, NewestPage},
             \A t \in Slots : t # s => chatCalls'[t] = chatCalls[t], chatCalls'[s].list = list
      PROVE  \A t \in Slots : chatCalls'[t].list \subseteq Messages'
  <2>1. NewestPage \subseteq Messages'
    BY DEF NewestPage
  <2> QED BY <1>0, <1>9, <2>1
<1>1. ASSUME NEW s \in Slots, NEW p \in Chatters,
             LoadHistory(s, p) \/ ConnectChat(s, p) \/ HearRead(s, p) \/ SendText(s, p)
      PROVE  ShownWasSent'
  <2>1. chatCalls'[s].list = {} /\ \A t \in Slots : t # s => chatCalls'[t] = chatCalls[t]
    <3>1. \E step \in {"list", "send"} : ChatBegin(s, p, step)
      BY <1>1 DEF LoadHistory, ConnectChat, HearRead, SendText
    <3> QED BY <3>1, ChatBegun DEF ChatSteps
  <2>2. hidden' = hidden /\ heard' = heard /\ items' = items
    BY <1>1 DEF LoadHistory, ConnectChat, HearRead, SendText
  <2> QED BY <1>0, <1>9, <2>1, <2>2 DEF ShownWasSent
<1>2. ASSUME NEW s \in Slots, NEW p \in Chatters, NEW m \in Messages, HearCreated(s, p, m)
      PROVE  ShownWasSent'
  <2>1. chatCalls'[s].list = {} /\ \A t \in Slots : t # s => chatCalls'[t] = chatCalls[t]
    BY <1>2, ChatBegun DEF HearCreated, ChatSteps
  <2>2. hidden' = hidden /\ \A q \in Chatters : heard'[q] \subseteq Messages'
    BY <1>0, <1>2 DEF HearCreated, ChatIInv, ChatShape
  <2>3. m \in Messages' /\ m \in 1 .. MaxSent
    <3>1. m \in 1 .. MaxSent
      BY ThreadAssumption DEF ChatIInv, ChatShape, Messages
    <3> QED BY <3>1, SentStaysSent
  <2>4. items' = items \/ ListsMore(p, m)
    BY <1>2 DEF HearCreated, ListsMore
  <2>5. \A q \in Chatters, n \in 1 .. MaxSent : n # m => items'[q][n] = items[q][n]
    BY <2>3, <2>4, ListsOneMore DEF ChatIInv
  <2>6. \A q \in Chatters, n \in 1 .. MaxSent : n \notin Messages' => items'[q][n] = 0
    BY <1>0, <2>3, <2>5
  <2> QED BY <1>0, <1>9, <2>1, <2>2, <2>6 DEF ShownWasSent
<1>3. ASSUME NEW s \in Slots, ShowHistory(s) PROVE ShownWasSent'
  <2>1. chatCalls'[s].list = {} /\ \A t \in Slots : t # s => chatCalls'[t] = chatCalls[t]
    <3>1. \/ chatCalls' = [chatCalls EXCEPT ![s] = ChatIdle]
          \/ chatCalls' = [chatCalls EXCEPT ![s] =
               [ChatIdle EXCEPT !.step = "mark", !.page = chatCalls[s].page]]
      BY <1>3 DEF ShowHistory, ChatEnter
    <3>2. chatCalls \in [Slots -> ChatCall]
      BY DEF ChatIInv, ChatShape
    <3>3. /\ ChatIdle.list = {}
          /\ [ChatIdle EXCEPT !.step = "mark", !.page = chatCalls[s].page].list = {}
      BY DEF ChatIdle
    <3> QED BY <3>1, <3>2, <3>3
  <2>2. hidden' = hidden /\ heard' = heard
    BY <1>3 DEF ShowHistory
  <2>3. ASSUME NEW q \in Chatters, NEW m \in 1 .. MaxSent, m \notin Messages'
        PROVE  items'[q][m] = 0
    <3>1. items'[q] = items[q] \/ (items'[q][m] \in {0, 1} /\ (items'[q][m] = 1 => m \in chatCalls[s].list))
      BY <1>3, HistoryIsShown
    <3> QED BY <1>0, <2>3, <3>1
  <2> QED BY <1>0, <1>9, <2>1, <2>2, <2>3 DEF ShownWasSent
<1>4. ASSUME NEW s \in Slots, ShowSent(s) PROVE ShownWasSent'
  <2>1. chatCalls'[s].list = {} /\ \A t \in Slots : t # s => chatCalls'[t] = chatCalls[t]
    BY <1>4 DEF ShowSent, ChatEnter, ChatIdle, ChatIInv, ChatShape
  <2>2. /\ chatCalls[s].id \in Messages /\ chatCalls[s].id \in 1 .. MaxSent
        /\ chatCalls[s].page \in Chatters
    BY <1>4 DEF ShowSent, ChatAt, ChatIInv, RequestsAreOwn, ChatShape, Messages
  <2>3. /\ ListsMore(chatCalls[s].page, chatCalls[s].id)
        /\ hidden' = hidden /\ heard' = heard
    BY <1>4 DEF ShowSent, ListsMore
  <2>4. \A q \in Chatters, n \in 1 .. MaxSent : n # chatCalls[s].id => items'[q][n] = items[q][n]
    BY <2>2, <2>3, ListsOneMore DEF ChatIInv
  <2>5. \A q \in Chatters, n \in 1 .. MaxSent : n \notin Messages' => items'[q][n] = 0
    BY <1>0, <2>2, <2>4
  <2> QED BY <1>0, <1>9, <2>1, <2>3, <2>5 DEF ShownWasSent
<1>5. ASSUME NEW s \in Slots, ListMessages(s) \/ StoreMessage(s) PROVE ShownWasSent'
  <2>1. chatCalls[s] \in ChatCall
    BY DEF ChatIInv, ChatShape
  <2>2. /\ chatCalls'[s].list \in {NewestPage, chatCalls[s].list}
        /\ \A t \in Slots : t # s => chatCalls'[t] = chatCalls[t]
    <3>1. CASE ListMessages(s)
      BY <2>1, <3>1 DEF ListMessages, ChatEnter, ChatIInv, ChatShape, ChatCall
    <3>2. CASE StoreMessage(s)
      BY <2>1, <3>2 DEF StoreMessage, ChatEnter, ChatIInv, ChatShape, ChatCall
    <3> QED BY <1>5, <3>1, <3>2
  <2>3. hidden' = hidden /\ heard' = heard /\ items' = items
    BY <1>5 DEF ListMessages, StoreMessage
  <2> QED BY <1>0, <1>9, <2>2, <2>3 DEF ShownWasSent
<1>6. ASSUME NEW s \in Slots, PublishCreated(s) \/ MarkMessages(s) \/ FailChat(s)
      PROVE  ShownWasSent'
  <2>1. /\ chatCalls'[s].list \in {{}, chatCalls[s].list}
        /\ \A t \in Slots : t # s => chatCalls'[t] = chatCalls[t]
    BY <1>6 DEF PublishCreated, MarkMessages, FailChat, ChatGoTo, ChatEnter, ChatIdle,
                ChatIInv, ChatShape, ChatCall
  <2>2. \A q \in Chatters : heard'[q] \subseteq Messages'
    BY <1>0, <1>6 DEF PublishCreated, MarkMessages, FailChat, ChatAt, ChatIInv, RequestsAreOwn
  <2>3. hidden' = hidden /\ items' = items
    BY <1>6 DEF PublishCreated, MarkMessages, FailChat
  <2> QED BY <1>0, <1>9, <2>1, <2>2, <2>3 DEF ShownWasSent
<1>7. ASSUME NEW p \in Chatters, JoinMemberRoom(p) \/ DropChat(p) PROVE ShownWasSent'
  BY <1>0, <1>7 DEF JoinMemberRoom, DropChat, ShownWasSent, ChatIInv, ChatShape
<1>10. ASSUME NEW m \in Messages, HideMessage(m) PROVE ShownWasSent'
  BY <1>0, <1>10, SentStaysSent DEF HideMessage, ShownWasSent
<1>8. CASE UNCHANGED chatVars
  BY <1>0, <1>8 DEF chatVars, ShownWasSent
<1> QED BY <1>1, <1>2, <1>3, <1>4, <1>5, <1>6, <1>7, <1>8, <1>10 DEF ChatNext

\* A call that becomes neither publish nor sent, and one that stays what it sent, keep the
\* messages under way apart.
LEMMA OwnKept == ASSUME ChatIInv, [ChatNext]_chatVars PROVE RequestsAreOwn'
<1> USE SentStaysSent
<1>1. ASSUME NEW s \in Slots,
             \A t \in Slots : t # s => chatCalls'[t] = chatCalls[t],
             chatCalls'[s].step \notin {"publish", "sent"},
             chatCalls'[s].step # "idle" => chatCalls'[s].page \in Chatters
      PROVE  RequestsAreOwn'
  BY <1>1 DEF ChatIInv, RequestsAreOwn, ChatAt
<1>2. ASSUME NEW s \in Slots, NEW p \in Chatters,
             \/ LoadHistory(s, p) \/ ConnectChat(s, p) \/ HearRead(s, p) \/ SendText(s, p)
             \/ \E m \in Messages : HearCreated(s, p, m)
      PROVE  RequestsAreOwn'
  <2>1. /\ \A t \in Slots : t # s => chatCalls'[t] = chatCalls[t]
        /\ chatCalls'[s].step \in {"list", "send", "mark"} /\ chatCalls'[s].page = p
    <3>1. \E step \in {"list", "send", "mark"} : ChatBegin(s, p, step)
      BY <1>2 DEF LoadHistory, ConnectChat, HearRead, SendText, HearCreated
    <3> QED BY <3>1, ChatBegun DEF ChatSteps
  <2> QED BY <1>1, <2>1
<1>3. ASSUME NEW s \in Slots,
             \/ ShowHistory(s) \/ ShowSent(s) \/ ListMessages(s) \/ MarkMessages(s) \/ FailChat(s)
      PROVE  RequestsAreOwn'
  <2>1. /\ \A t \in Slots : t # s => chatCalls'[t] = chatCalls[t]
        /\ chatCalls'[s].step \in {"idle", "mark", "listed"}
        /\ chatCalls'[s].step # "idle" => chatCalls'[s].page = chatCalls[s].page
        /\ ~ChatAt(s, "idle")
    <3>1. CASE ListMessages(s)
      BY <3>1 DEF ListMessages, ChatEnter, ChatAt, ChatIInv, ChatShape, ChatCall
    <3>2. CASE ShowHistory(s)
      BY <3>2 DEF ShowHistory, ChatEnter, ChatIdle, ChatAt, ChatIInv, ChatShape
    <3>3. CASE ShowSent(s) \/ MarkMessages(s) \/ FailChat(s)
      BY <3>3 DEF ShowSent, MarkMessages, FailChat, ChatEnter, ChatIdle, ChatAt, ChatIInv, ChatShape
    <3> QED BY <1>3, <3>1, <3>2, <3>3
  <2>2. chatCalls[s].page \in Chatters
    BY <2>1 DEF ChatIInv, RequestsAreOwn
  <2> QED BY <1>1, <2>1, <2>2
<1>4. ASSUME NEW s \in Slots, StoreMessage(s) PROVE RequestsAreOwn'
  <2>1. /\ \A t \in Slots : t # s => chatCalls'[t] = chatCalls[t]
        /\ chatCalls'[s].step = "publish" /\ chatCalls'[s].page = chatCalls[s].page
        /\ chatCalls'[s].id = Len(sender) + 1
        /\ chatCalls[s].page \in Chatters
    BY <1>4 DEF StoreMessage, ChatEnter, ChatAt, ChatIInv, ChatShape, ChatCall, RequestsAreOwn
  <2>2. sender' = Append(sender, chatCalls[s].page) /\ sender \in Seq(Chatters)
    BY <1>4 DEF StoreMessage, ChatIInv, ChatShape
  <2>3. Len(sender) + 1 \in Messages' /\ sender'[Len(sender) + 1] = chatCalls[s].page
    BY <2>1, <2>2 DEF Messages
  <2>4. \A t \in Slots : chatCalls[t].step \in {"publish", "sent"} => chatCalls[t].id # Len(sender) + 1
    BY DEF ChatIInv, RequestsAreOwn, Messages
  <2> QED BY <2>1, <2>3, <2>4 DEF ChatIInv, RequestsAreOwn, ChatAt
<1>5. ASSUME NEW s \in Slots, PublishCreated(s) PROVE RequestsAreOwn'
  <2>1. /\ \A t \in Slots : t # s => chatCalls'[t] = chatCalls[t]
        /\ chatCalls'[s].step = "sent" /\ chatCalls'[s].page = chatCalls[s].page
        /\ chatCalls'[s].id = chatCalls[s].id /\ chatCalls[s].step = "publish"
    BY <1>5 DEF PublishCreated, ChatGoTo, ChatEnter, ChatAt, ChatIInv, ChatShape, ChatCall
  <2> QED BY <2>1 DEF ChatIInv, RequestsAreOwn, ChatAt
<1>6. CASE chatCalls' = chatCalls
  BY <1>6 DEF ChatIInv, RequestsAreOwn, ChatAt
<1> QED BY <1>2, <1>3, <1>4, <1>5, <1>6 DEF ChatNext, chatVars, JoinMemberRoom, DropChat, HideMessage

\* A slot that moves brings nothing before, or something as good after.
LEMMA WayOfOthers ==
  ASSUME NEW s \in Slots, NEW p, NEW m, OnItsWay(p, m),
         \A t \in Slots : t # s => chatCalls'[t] = chatCalls[t],
         m \in heard[p] => m \in heard'[p] \/ OnItsWay(p, m)',
         readHeard[p] => readHeard'[p] \/ OnItsWay(p, m)',
         cut[p] => cut'[p],
         \/ ChatAt(s, "publish") /\ chatCalls[s].id = m
         \/ /\ chatCalls[s].page = p
            /\ \/ chatCalls[s].step \in {"list", "mark"}
               \/ ChatAt(s, "listed") /\ m \in chatCalls[s].list
         => OnItsWay(p, m)'
  PROVE  OnItsWay(p, m)'
BY DEF OnItsWay, ChatAt

LEMMA WayKept == ASSUME ChatIInv, [ChatNext]_chatVars, ChatShape' PROVE AllOnTheirWay'
<1> USE SentStaysSent
<1>0. ASSUME NEW p \in Chatters, NEW m \in Recent' \ hidden', socket'[p] # "off"
      PROVE  OnItsWay(p, m)'
  <2> USE <1>0
  <2>0. /\ socket[p] # "off" /\ m \in Messages => OnItsWay(p, m)
        /\ chatCalls \in [Slots -> ChatCall] /\ m \in Messages'
    BY RecentBefore DEF ChatIInv, AllOnTheirWay, ChatShape, Recent
  <2>1. ASSUME NEW s \in Slots, NEW q \in Chatters, NEW step \in {"list", "send", "mark"},
               ChatBegin(s, q, step), sender' = sender, cut' = cut,
               m \in heard[p] => m \in heard'[p] \/ (q = p /\ step = "mark"),
               readHeard[p] => readHeard'[p] \/ (q = p /\ step = "list"),
               socket[p] = "off" => q = p /\ step = "list"
        PROVE  OnItsWay(p, m)'
    <3>1. /\ chatCalls'[s].step = step /\ chatCalls'[s].page = q
          /\ \A t \in Slots : t # s => chatCalls'[t] = chatCalls[t]
          /\ chatCalls[s].step = "idle"
      BY <2>1, ChatBegun DEF ChatSteps
    <3>2. q = p /\ step \in {"list", "mark"} => OnItsWay(p, m)'
      BY <3>1 DEF OnItsWay
    <3>3. socket[p] = "off" \/ OnItsWay(p, m)
      BY <2>0, <2>1 DEF Messages
    <3> QED BY <2>1, <3>1, <3>2, <3>3, WayOfOthers DEF ChatAt
  <2>2. ASSUME NEW s \in Slots, NEW q \in Chatters,
               LoadHistory(s, q) \/ ConnectChat(s, q) \/ HearRead(s, q) \/ SendText(s, q)
        PROVE  OnItsWay(p, m)'
    <3>1. CASE LoadHistory(s, q)
      BY <2>1, <3>1 DEF LoadHistory
    <3>2. CASE ConnectChat(s, q)
      <4>1. p # q => socket'[p] = socket[p]
        BY <3>2 DEF ConnectChat, ChatIInv, ChatShape
      <4> QED BY <2>1, <3>2, <4>1 DEF ConnectChat
    <3>3. CASE HearRead(s, q)
      <4>1. readHeard[p] => readHeard'[p] \/ q = p
        BY <3>3 DEF HearRead, ChatIInv, ChatShape
      <4> QED BY <2>1, <3>3, <4>1 DEF HearRead
    <3>4. CASE SendText(s, q)
      BY <2>1, <3>4 DEF SendText
    <3> QED BY <2>2, <3>1, <3>2, <3>3, <3>4
  <2>3. ASSUME NEW s \in Slots, NEW q \in Chatters, NEW n \in Messages, HearCreated(s, q, n)
        PROVE  OnItsWay(p, m)'
    <3>1. m \in heard[p] => m \in heard'[p] \/ q = p
      BY <2>3 DEF HearCreated, ChatIInv, ChatShape
    <3> QED BY <2>1, <2>3, <3>1 DEF HearCreated
  <2>4. ASSUME NEW s \in Slots, ShowHistory(s) PROVE OnItsWay(p, m)'
    <3>1. OnItsWay(p, m)
      BY <2>0, <2>4 DEF ShowHistory, Messages
    <3>2. /\ \A t \in Slots : t # s => chatCalls'[t] = chatCalls[t]
          /\ chatCalls[s].list # {} => chatCalls'[s].step = "mark" /\ chatCalls'[s].page = chatCalls[s].page
          /\ chatCalls[s].step = "listed"
      BY <2>0, <2>4 DEF ShowHistory, ChatEnter, ChatIdle, ChatAt
    <3>4. chatCalls[s].page = p /\ m \in chatCalls[s].list => OnItsWay(p, m)'
      BY <3>2 DEF OnItsWay
    <3> QED BY <2>4, <3>1, <3>2, <3>4, WayOfOthers DEF ShowHistory, ChatAt
  <2>5. ASSUME NEW s \in Slots, ShowSent(s) PROVE OnItsWay(p, m)'
    <3>1. OnItsWay(p, m)
      BY <2>0, <2>5 DEF ShowSent, Messages
    <3>2. /\ \A t \in Slots : t # s => chatCalls'[t] = chatCalls[t]
          /\ chatCalls[s].step = "sent"
      BY <2>0, <2>5 DEF ShowSent, ChatEnter, ChatAt
    <3> QED BY <2>5, <3>1, <3>2, WayOfOthers DEF ShowSent, ChatAt
  <2>6. ASSUME NEW s \in Slots, ListMessages(s) PROVE OnItsWay(p, m)'
    <3>1. OnItsWay(p, m) /\ m \in NewestPage
      <4>1. m \in Messages
        BY <2>0, <2>6 DEF ListMessages, Messages
      <4>2. m \in Recent \ hidden
        BY <4>1, RecentBefore
      <4> QED BY <2>0, <2>6, <4>1, <4>2, PageHasRecent DEF ListMessages, ChatIInv, ShownWasSent
    <3>2. /\ \A t \in Slots : t # s => chatCalls'[t] = chatCalls[t]
          /\ chatCalls[s].step = "list" /\ chatCalls'[s].step = "listed"
          /\ chatCalls'[s].list = NewestPage /\ chatCalls'[s].page = chatCalls[s].page
      BY <2>0, <2>6 DEF ListMessages, ChatEnter, ChatAt, ChatCall
    <3>3. chatCalls[s].page = p => OnItsWay(p, m)'
      BY <3>1, <3>2 DEF OnItsWay, ChatAt
    <3> QED BY <2>6, <3>1, <3>2, <3>3, WayOfOthers DEF ListMessages, ChatAt
  <2>7. ASSUME NEW s \in Slots, StoreMessage(s) PROVE OnItsWay(p, m)'
    <3>1. /\ \A t \in Slots : t # s => chatCalls'[t] = chatCalls[t]
          /\ chatCalls[s].step = "send" /\ chatCalls'[s].step = "publish"
          /\ chatCalls'[s].id = Len(sender) + 1
      BY <2>0, <2>7 DEF StoreMessage, ChatEnter, ChatAt, ChatCall
    <3>2. CASE m \in Messages
      <4>1. OnItsWay(p, m)
        BY <2>0, <2>7, <3>2 DEF StoreMessage
      <4> QED BY <2>7, <3>1, <4>1, WayOfOthers DEF StoreMessage, ChatAt
    <3>3. CASE m \notin Messages
      <4>1. m = Len(sender) + 1
        <5>1. sender' = Append(sender, chatCalls[s].page) /\ sender \in Seq(Chatters)
              /\ chatCalls[s].page \in Chatters
          BY <2>7 DEF StoreMessage, ChatAt, ChatIInv, ChatShape, RequestsAreOwn
        <5> QED BY <2>0, <3>3, <5>1 DEF Messages
      <4> QED BY <3>1, <4>1 DEF OnItsWay, ChatAt
    <3> QED BY <3>2, <3>3
  <2>8. ASSUME NEW s \in Slots, PublishCreated(s) PROVE OnItsWay(p, m)'
    <3>1. OnItsWay(p, m) /\ socket[p] # "off"
      BY <2>0, <2>8 DEF PublishCreated, Messages
    <3>2. /\ \A t \in Slots : t # s => chatCalls'[t] = chatCalls[t]
          /\ chatCalls[s].step = "publish"
      BY <2>0, <2>8 DEF PublishCreated, ChatGoTo, ChatEnter, ChatAt
    <3>3. /\ m \in heard[p] => m \in heard'[p]
          /\ cut[p] => cut'[p]
          /\ socket[p] = "connecting" => cut'[p]
          /\ socket[p] = "on" => chatCalls[s].id \in heard'[p]
      BY <2>8 DEF PublishCreated, Pass, Reached, ChatIInv, ChatShape
    <3>4. socket[p] \in {"connecting", "on"}
      BY <3>1 DEF ChatIInv, ChatShape
    <3>5. chatCalls[s].id = m => OnItsWay(p, m)'
      BY <3>3, <3>4 DEF OnItsWay
    <3> QED BY <2>8, <3>1, <3>2, <3>3, <3>5, WayOfOthers DEF PublishCreated, ChatAt
  <2>9. ASSUME NEW s \in Slots, MarkMessages(s) PROVE OnItsWay(p, m)'
    <3>1. OnItsWay(p, m) /\ socket[p] # "off"
      BY <2>0, <2>9 DEF MarkMessages, Messages
    <3>2. \A t \in Slots : t # s => chatCalls'[t] = chatCalls[t]
      BY <2>0, <2>9 DEF MarkMessages, ChatEnter
    <3>3. readHeard'[p] \/ cut'[p]
      BY <2>9, <3>1 DEF MarkMessages, Pass, Reached, ChatIInv, ChatShape
    <3> QED BY <3>3 DEF OnItsWay
  <2>10. ASSUME NEW s \in Slots, FailChat(s) PROVE OnItsWay(p, m)'
    <3>1. OnItsWay(p, m) /\ socket[p] # "off"
      BY <2>0, <2>10 DEF FailChat, Messages
    <3>2. \A t \in Slots : t # s => chatCalls'[t] = chatCalls[t]
      BY <2>0, <2>10 DEF FailChat, ChatEnter
    <3>3. /\ cut[p] => cut'[p]
          /\ chatCalls[s].page = p \/ chatCalls[s].step = "publish" => cut'[p]
      BY <2>10, <3>1 DEF FailChat, ChatIInv, ChatShape
    <3>4. cut'[p] => OnItsWay(p, m)'
      BY DEF OnItsWay
    <3> QED BY <2>10, <3>1, <3>2, <3>3, <3>4, WayOfOthers DEF FailChat, ChatAt
  <2>11. ASSUME NEW q \in Chatters, JoinMemberRoom(q) \/ DropChat(q) PROVE OnItsWay(p, m)'
    <3>1. /\ socket[p] # "off"
          /\ heard'[p] = heard[p] /\ readHeard'[p] = readHeard[p]
          /\ cut'[p] = cut[p]
      BY <2>11 DEF JoinMemberRoom, DropChat, ChatIInv, ChatShape
    <3>2. OnItsWay(p, m) /\ chatCalls' = chatCalls
      BY <2>0, <2>11, <3>1 DEF JoinMemberRoom, DropChat, Messages
    <3> QED BY <3>1, <3>2 DEF OnItsWay, ChatAt
  <2>13. ASSUME NEW n \in Messages, HideMessage(n) PROVE OnItsWay(p, m)'
    BY <2>0, <2>13 DEF HideMessage, OnItsWay, ChatAt, Messages
  <2>12. CASE UNCHANGED chatVars
    BY <2>0, <2>12 DEF chatVars, OnItsWay, ChatAt, Messages
  <2> QED BY <2>2, <2>3, <2>4, <2>5, <2>6, <2>7, <2>8, <2>9, <2>10, <2>11, <2>12, <2>13 DEF ChatNext
<1> QED BY <1>0 DEF AllOnTheirWay

\* A message that nobody is sending any more stays so; one that is being sent stays in its
\* sender's request until its answer is shown.
LEMMA DoubledKept ==
  ASSUME ChatIInv, [ChatNext]_chatVars, ChatShape' PROVE DoubledByItsAnswer'
<1> USE SentStaysSent
<1> DEFINE Fine(p, m) == \/ items[p][m] <= 1
                         \/ /\ items[p][m] <= 2 /\ sender[m] = p
                            /\ \A s \in Slots : ~Sending(s, m)
<1>0. /\ \A p \in Chatters, m \in Messages : Fine(p, m)
      /\ \A m \in Messages : m \in 1 .. MaxSent /\ m \in Nat
      /\ \A p \in Chatters, m \in Messages : items[p][m] \in Nat
      /\ chatCalls \in [Slots -> ChatCall] /\ ChatShape
  <2>1. \A p \in Chatters, m \in Messages : Fine(p, m)
    BY DEF ChatIInv, DoubledByItsAnswer
  <2>2. chatCalls \in [Slots -> ChatCall] /\ ChatShape
    BY DEF ChatIInv, ChatShape
  <2> QED BY <2>1, <2>2, CountsAre
\* A page that lists nothing more of a message, while nobody starts sending it.
<1>1. ASSUME NEW s \in Slots, NEW p \in Chatters, NEW m \in Messages,
             \A t \in Slots : t # s => chatCalls'[t] = chatCalls[t],
             Sending(s, m)' => Sending(s, m),
             items'[p] = items[p] \/ items'[p][m] <= 1
      PROVE  Fine(p, m)'
  <2>1. \A t \in Slots : Sending(t, m)' => Sending(t, m)
    BY <1>1 DEF Sending
  <2> QED BY <1>0, <1>1, <2>1
<1>2. ASSUME NEW s \in Slots, NEW q \in Chatters,
             LoadHistory(s, q) \/ ConnectChat(s, q) \/ HearRead(s, q) \/ SendText(s, q)
      PROVE  DoubledByItsAnswer'
  <2>1. \E step \in {"list", "send"} : ChatBegin(s, q, step)
    BY <1>2 DEF LoadHistory, ConnectChat, HearRead, SendText
  <2>2. /\ \A t \in Slots : t # s => chatCalls'[t] = chatCalls[t]
        /\ chatCalls'[s].step \notin {"publish", "sent"}
    BY <2>1, ChatBegun DEF ChatSteps
  <2>3. items' = items /\ Messages' = Messages
    BY <1>2 DEF LoadHistory, ConnectChat, HearRead, SendText, Messages
  <2> QED BY <1>1, <2>2, <2>3 DEF DoubledByItsAnswer, Sending
<1>3. ASSUME NEW s \in Slots, NEW q \in Chatters, NEW n \in Messages, HearCreated(s, q, n)
      PROVE  DoubledByItsAnswer'
  <2>1. /\ \A t \in Slots : t # s => chatCalls'[t] = chatCalls[t]
        /\ chatCalls'[s].step \notin {"publish", "sent"}
    BY <1>3, ChatBegun DEF HearCreated, ChatSteps
  <2>2. ASSUME NEW p \in Chatters, NEW m \in Messages
        PROVE  items'[p][m] <= 1 \/ items'[p][m] = items[p][m]
    <3>1. CASE items' = items
      BY <3>1
    <3>2. CASE n \notin Listed(q) /\ ListsMore(q, n)
      <4>1. /\ items'[q][n] = items[q][n] + 1
            /\ \A u \in Chatters, k \in 1 .. MaxSent : u # q \/ k # n => items'[u][k] = items[u][k]
        BY <1>0, <3>2, ListsOneMore
      <4>2. items[q][n] = 0
        BY <1>0, <3>2 DEF Listed
      <4> QED BY <1>0, <4>1, <4>2
    <3> QED BY <1>3, <3>1, <3>2 DEF HearCreated, ListsMore
  <2>3. Messages' = Messages /\ sender' = sender
    BY <1>3 DEF HearCreated, Messages
  <2>4. ASSUME NEW p \in Chatters, NEW m \in Messages PROVE Fine(p, m)'
    <3>1. Sending(s, m)' => Sending(s, m)
      BY <2>1 DEF Sending
    <3>2. CASE items'[p][m] <= 1
      BY <1>1, <2>1, <3>1, <3>2
    <3>3. CASE items'[p][m] = items[p][m]
      <4>1. \A t \in Slots : Sending(t, m)' => Sending(t, m)
        BY <2>1 DEF Sending
      <4> QED BY <1>0, <2>3, <3>3, <4>1
    <3> QED BY <2>2, <3>2, <3>3
  <2> QED BY <2>3, <2>4 DEF DoubledByItsAnswer
<1>4. ASSUME NEW s \in Slots, ShowHistory(s) PROVE DoubledByItsAnswer'
  <2>1. /\ \A t \in Slots : t # s => chatCalls'[t] = chatCalls[t]
        /\ chatCalls'[s].step \notin {"publish", "sent"}
    <3>1. \/ chatCalls' = [chatCalls EXCEPT ![s] = ChatIdle]
          \/ chatCalls' = [chatCalls EXCEPT ![s] =
               [ChatIdle EXCEPT !.step = "mark", !.page = chatCalls[s].page]]
      BY <1>4 DEF ShowHistory, ChatEnter
    <3>2. /\ ChatIdle.step = "idle"
          /\ [ChatIdle EXCEPT !.step = "mark", !.page = chatCalls[s].page].step = "mark"
      BY DEF ChatIdle
    <3> QED BY <1>0, <3>1, <3>2
  <2>3. \A p \in Chatters, m \in Messages : items'[p] = items[p] \/ items'[p][m] <= 1
    <3>1. ASSUME NEW p \in Chatters, NEW m \in Messages, items'[p] # items[p]
          PROVE  items'[p][m] <= 1
      <4>1. items'[p][m] \in {0, 1}
        BY <1>0, <1>4, <3>1, HistoryIsShown
      <4> QED BY <4>1
    <3> QED BY <3>1
  <2>4. Messages' = Messages
    BY <1>4 DEF ShowHistory, Messages
  <2> QED BY <1>1, <2>1, <2>3, <2>4 DEF DoubledByItsAnswer, Sending
<1>5. ASSUME NEW s \in Slots, ShowSent(s) PROVE DoubledByItsAnswer'
  <2>1. /\ \A t \in Slots : t # s => chatCalls'[t] = chatCalls[t]
        /\ chatCalls'[s].step = "idle"
    BY <1>0, <1>5 DEF ShowSent, ChatEnter, ChatIdle
  <2>2. PICK n \in Messages : /\ n = chatCalls[s].id /\ Sending(s, n)
                              /\ sender[n] = chatCalls[s].page
    BY <1>5 DEF ShowSent, ChatAt, Sending, ChatIInv, RequestsAreOwn
  <2>3. \A t \in Slots : t # s => ~Sending(t, n)
    BY <2>2 DEF Sending, ChatIInv, RequestsAreOwn
  <2>4. sender' = sender /\ Messages' = Messages
    BY <1>5 DEF ShowSent, Messages
  <2>5. ASSUME NEW p \in Chatters, NEW m \in Messages PROVE Fine(p, m)'
    <3>1. /\ items'[chatCalls[s].page][n] = items[chatCalls[s].page][n] + 1
          /\ p # chatCalls[s].page \/ m # n => items'[p][m] = items[p][m]
      <4>1. chatCalls[s].page \in Chatters
        BY <2>2, <1>5 DEF ShowSent, ChatIInv, RequestsAreOwn, ChatAt
      <4>2. ListsMore(chatCalls[s].page, n)
        BY <1>5, <2>2 DEF ShowSent, ListsMore
      <4>3. n \in 1 .. MaxSent /\ m \in 1 .. MaxSent
        BY <1>0
      <4> QED BY <1>0, <4>1, <4>2, <4>3, ListsOneMore
    <3>2. \A t \in Slots : Sending(t, m)' => Sending(t, m)
      BY <2>1 DEF Sending
    <3>3. CASE p # chatCalls[s].page \/ m # n
      BY <1>0, <2>4, <3>1, <3>2, <3>3
    <3>4. CASE p = chatCalls[s].page /\ m = n
      <4>1. items[p][m] <= 1 /\ items[p][m] \in Nat
        BY <1>0, <2>2, <3>4
      <4>2. \A t \in Slots : ~Sending(t, m)'
        BY <2>1, <2>3, <3>2, <3>4 DEF Sending
      <4> QED BY <2>2, <2>4, <3>1, <3>4, <4>1, <4>2
    <3> QED BY <3>3, <3>4
  <2> QED BY <2>4, <2>5 DEF DoubledByItsAnswer
<1>6. ASSUME NEW s \in Slots,
             ListMessages(s) \/ PublishCreated(s) \/ MarkMessages(s) \/ FailChat(s)
      PROVE  DoubledByItsAnswer'
  <2>1. /\ \A t \in Slots : t # s => chatCalls'[t] = chatCalls[t]
        /\ \A m : Sending(s, m)' => Sending(s, m)
    <3>1. CASE ListMessages(s)
      BY <1>0, <3>1 DEF ListMessages, ChatEnter, ChatCall, Sending
    <3>2. CASE PublishCreated(s)
      BY <1>0, <3>2 DEF PublishCreated, ChatGoTo, ChatEnter, ChatAt, ChatCall, Sending
    <3>3. CASE MarkMessages(s) \/ FailChat(s)
      BY <1>0, <3>3 DEF MarkMessages, FailChat, ChatEnter, ChatIdle, Sending
    <3> QED BY <1>6, <3>1, <3>2, <3>3
  <2>2. items' = items /\ Messages' = Messages
    BY <1>6 DEF ListMessages, PublishCreated, MarkMessages, FailChat, Messages
  <2> QED BY <1>1, <2>1, <2>2 DEF DoubledByItsAnswer
<1>7. ASSUME NEW s \in Slots, StoreMessage(s) PROVE DoubledByItsAnswer'
  <2>1. /\ \A t \in Slots : t # s => chatCalls'[t] = chatCalls[t]
        /\ chatCalls'[s].id = Len(sender) + 1
    BY <1>0, <1>7 DEF StoreMessage, ChatEnter, ChatCall
  <2>2. items' = items /\ Messages' = Messages \cup {Len(sender) + 1}
    <3>1. sender' = Append(sender, chatCalls[s].page) /\ sender \in Seq(Chatters)
          /\ chatCalls[s].page \in Chatters
      BY <1>7 DEF StoreMessage, ChatAt, ChatIInv, ChatShape, RequestsAreOwn
    <3> QED BY <1>7, <3>1 DEF StoreMessage, Messages
  <2>3. ASSUME NEW p \in Chatters, NEW m \in Messages' PROVE Fine(p, m)'
    <3>1. CASE m \in Messages
      <4>1. m # Len(sender) + 1
        BY <3>1 DEF Messages
      <4>2. Sending(s, m)' => Sending(s, m)
        BY <2>1, <4>1 DEF Sending
      <4> QED BY <1>1, <2>1, <2>2, <3>1, <4>2
    <3>2. CASE m \notin Messages
      <4>1. m \in 1 .. MaxSent
        <5>1. Len(sender') \in Nat /\ Len(sender') <= MaxSent /\ MaxSent \in Nat
          BY ThreadAssumption DEF ChatShape
        <5> QED BY <5>1 DEF Messages
      <4>2. items[p][m] = 0
        BY <3>2, <4>1 DEF ChatIInv, ShownWasSent
      <4> QED BY <2>2, <4>2
    <3> QED BY <3>1, <3>2
  <2> QED BY <2>3 DEF DoubledByItsAnswer
<1>8. CASE chatCalls' = chatCalls /\ items' = items /\ sender' = sender
  BY <1>8 DEF ChatIInv, DoubledByItsAnswer, Sending, Messages
<1> QED BY <1>2, <1>3, <1>4, <1>5, <1>6, <1>7, <1>8 DEF ChatNext, chatVars, JoinMemberRoom, DropChat, HideMessage

LEMMA ChatInductive == ASSUME ChatIInv, [ChatNext]_chatVars PROVE ChatIInv'
BY ChatShapeKept, ShownKept, OwnKept, WayKept, DoubledKept DEF ChatIInv

LEMMA ChatHolds == ChatSpec => []ChatIInv
BY ChatInitial, ChatInductive, PTL DEF ChatSpec

LEMMA ChatTyped == ChatIInv => ChatTypeOK
<1> SUFFICES ASSUME ChatIInv PROVE ChatTypeOK
  OBVIOUS
<1>1. /\ sender \in Seq(Chatters) /\ Len(sender) <= MaxSent
      /\ socket \in [Chatters -> {"off", "connecting", "on"}]
      /\ items \in [Chatters -> [1 .. MaxSent -> Nat]]
      /\ chatCalls \in [Slots -> [step: ChatSteps, page: Chatters \cup {NoChatter},
                                  list: SUBSET (1 .. MaxSent), id: 0 .. MaxSent]]
  BY DEF ChatIInv, ChatShape, ChatCall
<1>2. {readHeard, cut} \subseteq [Chatters -> BOOLEAN]
  BY DEF ChatIInv, ChatShape
<1>3. hidden \subseteq Messages /\ \A p \in Chatters : heard[p] \subseteq Messages
  BY DEF ChatIInv, ShownWasSent
<1> QED BY <1>1, <1>2, <1>3 DEF ChatTypeOK

LEMMA ChatPromised == ChatIInv => MessagesArriveOnce
<1> SUFFICES ASSUME ChatIInv PROVE MessagesArriveOnce
  OBVIOUS
<1>1. MissingIsOnItsWay
  BY DEF ChatIInv, AllOnTheirWay, OnItsWay, MissingIsOnItsWay, Reached
<1>2. PeersMessagesOnce
  <2>1. ASSUME NEW p \in Chatters, NEW m \in Messages
        PROVE  items[p][m] <= IF sender[m] = p THEN 2 ELSE 1
    <3>1. items[p][m] \in Nat
      BY CountsAre DEF ChatIInv
    <3> QED BY <3>1 DEF ChatIInv, DoubledByItsAnswer
  <2> QED BY <2>1 DEF PeersMessagesOnce
<1> QED BY <1>1, <1>2 DEF MessagesArriveOnce

(* A connected page lists, or has on its way, each of the last PageSize        *)
(* messages that is not hidden, and none of the peer's twice, however          *)
(* requests, histories, events and hidings are ordered, unless a request       *)
(* failed or an event came before the room was joined; of older messages       *)
(* nothing is promised (apps/web/src/app/conversations/[id]/page.tsx:24-69).   *)
THEOREM MessagesArrive == ChatSpec => []MessagesArriveOnce
BY ChatHolds, ChatPromised, PTL

-----------------------------------------------------------------------------
(* The discovery map. *)

\* Only the newest search may leave a result behind, and it is for what is asked once no
\* timer is left; only suggestions for the text in the box are still wanted.

\* The searches and the suggestions that no later one has superseded.
NewestSearch(s) == Kind(s, "search") /\ mapCalls[s].newest
NewestSuggest(s) == Kind(s, "suggest") /\ mapCalls[s].newest
NoSearchDue == timers \subseteq {"suggest"}

OneNewestSearch == \A s, t \in Slots : NewestSearch(s) /\ NewestSearch(t) => s = t
NewestIsAsked == NoSearchDue => \A s \in Slots : NewestSearch(s) => mapCalls[s].ask = wanted
RestIsAsked ==
  NoSearchDue /\ (\A s \in Slots : ~NewestSearch(s)) /\ shown # NoAsk =>
    shown = wanted \/ kept \/ (app = "phone" /\ crossed)

\* Suggestions are asked for, once, for the text in the box.
SuggestIsAsked ==
  /\ "suggest" \in timers => BoxOf(wanted) \in Typed
  /\ \A s \in Slots : NewestSuggest(s) =>
       /\ BoxOf(mapCalls[s].ask) = BoxOf(wanted) /\ BoxOf(wanted) \in Typed
       /\ "suggest" \notin timers

\* The phone has no suggestions.
PhoneSuggestsNone ==
  app = "phone" => /\ suggested = NoAsk /\ "suggest" \notin timers
                   /\ \A s \in Slots : ~Kind(s, "suggest")

MapIInv ==
  /\ MapTypeOK /\ OneNewestSearch /\ NewestIsAsked /\ RestIsAsked
  /\ SuggestIsAsked /\ PhoneSuggestsNone /\ SuggestsForTheText

LEMMA MapInitial == MapInit => MapIInv
<1> SUFFICES ASSUME MapInit PROVE MapIInv
  OBVIOUS
<1> USE MapAssumption
<1>1. MapIdle \in MapCall
  BY DEF MapIdle, MapCall
<1>2. \A s \in Slots : mapCalls[s].kind = "idle"
  BY DEF MapInit, MapIdle
<1>3. MapTypeOK
  BY <1>1 DEF MapInit, MapTypeOK
<1>4. BoxOf(wanted) \notin Typed
  BY DEF MapInit, BoxOf
<1> QED
  BY <1>2, <1>3, <1>4
     DEF MapInit, MapIInv, OneNewestSearch, NewestIsAsked, RestIsAsked, NewestSearch, NewestSuggest,
         Kind, SuggestIsAsked, PhoneSuggestsNone, SuggestsForTheText

\* Superseding a kind takes its requests their standing, and leaves the others.
LEMMA SupersededCalls ==
  ASSUME MapTypeOK, NEW what
  PROVE  /\ Superseded(what) \in [Slots -> MapCall]
         /\ \A s \in Slots :
              /\ Superseded(what)[s].kind = mapCalls[s].kind
              /\ Superseded(what)[s].ask = mapCalls[s].ask
              /\ mapCalls[s].kind = what => ~Superseded(what)[s].newest
              /\ mapCalls[s].kind # what => Superseded(what)[s] = mapCalls[s]
<1>1. mapCalls \in [Slots -> MapCall]
  BY DEF MapTypeOK
<1>2. ASSUME NEW row \in MapCall PROVE [row EXCEPT !.newest = FALSE] \in MapCall
  BY DEF MapCall
<1>3. ASSUME NEW s \in Slots
      PROVE  /\ Superseded(what)[s] =
                  IF mapCalls[s].kind = what THEN [mapCalls[s] EXCEPT !.newest = FALSE] ELSE mapCalls[s]
             /\ [mapCalls[s] EXCEPT !.newest = FALSE].kind = mapCalls[s].kind
             /\ [mapCalls[s] EXCEPT !.newest = FALSE].ask = mapCalls[s].ask
             /\ [mapCalls[s] EXCEPT !.newest = FALSE].newest = FALSE
  BY <1>1 DEF Superseded, Kind, MapCall
<1>4. Superseded(what) \in [Slots -> MapCall]
  BY <1>1, <1>2 DEF Superseded
<1> QED BY <1>3, <1>4

\* What is asked for has a box, and before the first fix there is none.
LEMMA BoxesOfAsks ==
  /\ BoxOf(NoAsk) = NoAsk /\ NoAsk \notin Typed
  /\ \A a \in Asks : a # NoAsk /\ BoxOf(a) \in Boxes
BY MapAssumption DEF BoxOf, Asks

LEMMA AskKeepsMap == ASSUME MapIInv, NEW a \in Asks, Ask(a) PROVE MapIInv'
<1> DEFINE boxMoves == BoxOf(a) # BoxOf(wanted)
<1>0. MapTypeOK /\ BoxesOfAsks!1
  BY BoxesOfAsks DEF MapIInv
<1>1. /\ wanted' = a /\ app' = app /\ shown' = shown /\ load' = load /\ kept' = kept
      /\ crossed' = crossed
      /\ suggested' = IF BoxOf(a) \in Typed THEN suggested ELSE NoAsk
  BY DEF Ask
<1>2. /\ \E search \in {"silent", "loud"} : timers' = {search} \cup
           (IF boxMoves THEN {t \in {"suggest"} : app = "web" /\ BoxOf(a) \in Typed}
            ELSE timers \cap {"suggest"})
      /\ mapCalls' = IF boxMoves THEN Superseded("suggest") ELSE mapCalls
  BY DEF Ask
<1>3. /\ mapCalls' \in [Slots -> MapCall]
      /\ \A s \in Slots : /\ mapCalls'[s].kind = mapCalls[s].kind
                          /\ mapCalls'[s].ask = mapCalls[s].ask
                          /\ mapCalls[s].kind # "suggest" => mapCalls'[s] = mapCalls[s]
                          /\ boxMoves /\ mapCalls[s].kind = "suggest" => ~mapCalls'[s].newest
                          /\ ~boxMoves => mapCalls'[s] = mapCalls[s]
  BY <1>0, <1>2, SupersededCalls DEF MapTypeOK
<1>4. MapTypeOK'
  <2>1. timers' \subseteq {"silent", "loud", "suggest"}
    BY <1>2
  <2>2. suggested' \in Boxes \cup {NoAsk}
    BY <1>0, <1>1 DEF MapTypeOK
  <2>3. {wanted', shown'} \subseteq Asks \cup {NoAsk}
    BY <1>0, <1>1 DEF MapTypeOK
  <2> QED BY <1>0, <1>1, <1>3, <2>1, <2>2, <2>3 DEF MapTypeOK
<1>5. ~NoSearchDue' /\ OneNewestSearch'
  BY <1>2, <1>3 DEF NoSearchDue, MapIInv, OneNewestSearch, NewestSearch, Kind
<1>6. SuggestIsAsked'
  <2>1. "suggest" \in timers' => BoxOf(a) \in Typed
    BY <1>2 DEF MapIInv, SuggestIsAsked
  <2>2. ASSUME NEW s \in Slots, NewestSuggest(s)'
        PROVE  /\ BoxOf(mapCalls'[s].ask) = BoxOf(a) /\ BoxOf(a) \in Typed
               /\ "suggest" \notin timers'
    <3>1. ~boxMoves /\ NewestSuggest(s) /\ mapCalls'[s] = mapCalls[s]
      BY <1>3, <2>2 DEF NewestSuggest, Kind
    <3> QED BY <1>2, <3>1 DEF MapIInv, SuggestIsAsked
  <2> QED BY <1>1, <2>1, <2>2 DEF SuggestIsAsked, BoxOf
<1>7. PhoneSuggestsNone'
  BY <1>1, <1>2, <1>3 DEF MapIInv, PhoneSuggestsNone, Kind
<1>8. SuggestsForTheText'
  <2>1. CASE BoxOf(a) \notin Typed
    BY <1>1, <2>1 DEF SuggestsForTheText, BoxOf
  <2>2. CASE BoxOf(a) \in Typed /\ boxMoves
    <3>1. app \in {"web", "phone"}
      BY <1>0 DEF MapTypeOK
    <3>2. CASE app = "web"
      BY <1>1, <1>2, <2>2, <3>2 DEF SuggestsForTheText, BoxOf
    <3>3. CASE app = "phone"
      BY <1>1, <2>2, <3>3 DEF SuggestsForTheText, BoxOf, MapIInv, PhoneSuggestsNone
    <3> QED BY <3>1, <3>2, <3>3
  <2>3. CASE BoxOf(a) \in Typed /\ ~boxMoves
    BY <1>1, <1>2, <1>3, <2>3 DEF SuggestsForTheText, BoxOf, MapIInv, Kind
  <2> QED BY <2>1, <2>2, <2>3
<1> QED BY <1>4, <1>5, <1>6, <1>7, <1>8 DEF MapIInv, NewestIsAsked, RestIsAsked

LEMMA SearchKeepsMap ==
  ASSUME MapIInv, NEW s \in Slots, NEW silent \in BOOLEAN, Search(s, silent),
         timers' \subseteq timers, "suggest" \in timers => "suggest" \in timers'
  PROVE  MapIInv'
<1> DEFINE begun == [kind |-> "search", ask |-> wanted, silent |-> silent, newest |-> TRUE]
<1>0. MapTypeOK
  BY DEF MapIInv
<1>1. /\ wanted' = wanted /\ app' = app /\ shown' = shown /\ kept' = kept /\ crossed' = crossed
      /\ suggested' = suggested /\ load' \in {"loading", load}
      /\ mapCalls[s].kind = "idle"
  BY DEF Search, Kind
<1>2. begun \in MapCall
  BY <1>0 DEF MapTypeOK, MapCall
<1>3. mapCalls' = [Superseded("search") EXCEPT ![s] = begun]
  BY DEF Search
<1>4. /\ mapCalls' \in [Slots -> MapCall] /\ mapCalls'[s] = begun
      /\ \A t \in Slots : t # s =>
           /\ mapCalls'[t].kind = mapCalls[t].kind
           /\ mapCalls[t].kind = "search" => ~mapCalls'[t].newest
           /\ mapCalls[t].kind # "search" => mapCalls'[t] = mapCalls[t]
  BY <1>0, <1>2, <1>3, SupersededCalls
<1>5. MapTypeOK'
  BY <1>0, <1>1, <1>4 DEF MapTypeOK
<1>6. /\ NewestSearch(s)' /\ mapCalls'[s].ask = wanted
      /\ \A t \in Slots : t # s => ~NewestSearch(t)'
  BY <1>4 DEF NewestSearch, Kind
<1>7. \A t \in Slots : NewestSuggest(t)' => NewestSuggest(t) /\ mapCalls'[t] = mapCalls[t]
  BY <1>4 DEF NewestSuggest, Kind
<1>8. \A t \in Slots : NewestSuggest(t) => NewestSuggest(t)'
  BY <1>1, <1>4 DEF NewestSuggest, Kind
<1>9. SuggestIsAsked' /\ PhoneSuggestsNone'
  BY <1>1, <1>4, <1>7 DEF MapIInv, SuggestIsAsked, PhoneSuggestsNone, BoxOf, Kind
<1>10. SuggestsForTheText'
  BY <1>1, <1>8 DEF MapIInv, SuggestsForTheText, BoxOf, NewestSuggest, Kind
<1>11. OneNewestSearch' /\ NewestIsAsked' /\ RestIsAsked'
  BY <1>1, <1>6 DEF OneNewestSearch, NewestIsAsked, RestIsAsked
<1> QED BY <1>5, <1>9, <1>10, <1>11 DEF MapIInv

\* What an answer that ends a search may show.
LEMMA SearchEndKeepsMap ==
  ASSUME MapIInv, NEW s \in Slots, Answer(s) \/ FailSearch(s) PROVE MapIInv'
<1>0. MapTypeOK
  BY DEF MapIInv
<1>1. /\ wanted' = wanted /\ app' = app /\ suggested' = suggested /\ timers' = timers
      /\ mapCalls[s].kind = "search" /\ mapCalls' = [mapCalls EXCEPT ![s] = MapIdle]
  BY DEF Answer, FailSearch, Kind, Finish
<1>2. /\ mapCalls' \in [Slots -> MapCall] /\ mapCalls'[s].kind = "idle"
      /\ \A t \in Slots : t # s => mapCalls'[t] = mapCalls[t]
  <2>1. MapIdle \in MapCall /\ MapIdle.kind = "idle"
    BY DEF MapIdle, MapCall
  <2> QED BY <1>0, <1>1, <2>1 DEF MapTypeOK
<1>3. mapCalls[s].newest \in BOOLEAN /\ mapCalls[s].ask \in Asks \cup {NoAsk}
  BY <1>0 DEF MapTypeOK, MapCall
<1>4. MapTypeOK'
  <2>1. /\ shown' \in Asks \cup {NoAsk} /\ load' \in {"loading", "success", "error"}
    BY <1>0, <1>3 DEF Answer, FailSearch, MapTypeOK
  <2>2. kept' \in BOOLEAN /\ crossed' \in BOOLEAN
    BY <1>0, <1>3 DEF Answer, FailSearch, MapTypeOK
  <2> QED BY <1>0, <1>1, <1>2, <2>1, <2>2 DEF MapTypeOK
<1>5. \A t \in Slots : (NewestSearch(t)' <=> t # s /\ NewestSearch(t))
                       /\ (NewestSuggest(t)' <=> NewestSuggest(t))
                       /\ (Kind(t, "suggest")' <=> Kind(t, "suggest"))
  BY <1>1, <1>2 DEF NewestSearch, NewestSuggest, Kind
<1>6. OneNewestSearch' /\ NewestIsAsked'
  BY <1>1, <1>2, <1>5 DEF MapIInv, OneNewestSearch, NewestIsAsked, NoSearchDue
<1>7. SuggestIsAsked' /\ PhoneSuggestsNone' /\ SuggestsForTheText'
  <2>1. \A t \in Slots : NewestSuggest(t) => mapCalls'[t] = mapCalls[t]
    BY <1>1, <1>2 DEF NewestSuggest, Kind
  <2> QED BY <1>1, <1>5, <2>1 DEF MapIInv, SuggestIsAsked, PhoneSuggestsNone, SuggestsForTheText,
                                  BoxOf, NewestSuggest
<1>8. RestIsAsked'
  <2>1. SUFFICES ASSUME NoSearchDue, \A t \in Slots : ~NewestSearch(t)', shown' # NoAsk
                 PROVE  shown' = wanted \/ kept' \/ (app = "phone" /\ crossed')
    BY <1>1 DEF RestIsAsked, NoSearchDue
  <2>2. CASE mapCalls[s].newest
    <3>1. mapCalls[s].ask = wanted
      BY <1>1, <2>1, <2>2 DEF MapIInv, NewestIsAsked, NewestSearch, Kind
    <3> QED BY <2>1, <2>2, <3>1 DEF Answer, FailSearch
  <2>3. CASE ~mapCalls[s].newest
    <3>1. \A t \in Slots : ~NewestSearch(t)
      BY <1>5, <2>1, <2>3 DEF NewestSearch
    <3>2. shown # NoAsk => shown = wanted \/ kept \/ (app = "phone" /\ crossed)
      BY <2>1, <3>1 DEF MapIInv, RestIsAsked
    <3>3. app \in {"web", "phone"}
      BY <1>0 DEF MapTypeOK
    <3>4. CASE Answer(s)
      <4>1. CASE app = "web"
        <5>1. shown' = shown /\ kept' = kept /\ crossed' = crossed
          BY <2>3, <3>4, <4>1 DEF Answer
        <5> QED BY <1>1, <2>1, <3>2, <5>1
      <4>2. CASE app = "phone"
        BY <2>3, <3>4, <4>2 DEF Answer
      <4> QED BY <3>3, <4>1, <4>2
    <3>5. CASE FailSearch(s)
      <4>1. shown' = shown /\ crossed' = crossed
        BY <2>3, <3>5 DEF FailSearch
      <4>2. kept => kept'
        BY <3>5 DEF FailSearch
      <4> QED BY <2>1, <3>2, <4>1, <4>2
    <3> QED BY <3>4, <3>5
  <2> QED BY <2>2, <2>3
<1> QED BY <1>4, <1>6, <1>7, <1>8 DEF MapIInv

LEMMA SuggestKeepsMap ==
  ASSUME MapIInv, NEW s \in Slots,
         DebouncedSuggest(s) \/ \E found \in BOOLEAN : Suggest(s, found)
  PROVE  MapIInv'
<1>0. MapTypeOK
  BY DEF MapIInv
<1>1. CASE DebouncedSuggest(s)
  <2> DEFINE begun == [kind |-> "suggest", ask |-> wanted, silent |-> FALSE, newest |-> TRUE]
  <2>1. /\ wanted' = wanted /\ app' = app /\ shown' = shown /\ load' = load
        /\ suggested' = suggested /\ kept' = kept /\ crossed' = crossed
        /\ timers' = timers \ {"suggest"} /\ "suggest" \in timers
        /\ mapCalls[s].kind = "idle"
    BY <1>1 DEF DebouncedSuggest, Kind
  <2>2. begun \in MapCall
    BY <1>0 DEF MapTypeOK, MapCall
  <2>3. /\ mapCalls' \in [Slots -> MapCall] /\ mapCalls'[s] = begun
        /\ \A t \in Slots : t # s => mapCalls'[t] = mapCalls[t]
    BY <1>0, <1>1, <2>2 DEF DebouncedSuggest, MapTypeOK
  <2>4. MapTypeOK'
    BY <1>0, <2>1, <2>3 DEF MapTypeOK
  <2>5. \A t \in Slots : (NewestSearch(t)' <=> NewestSearch(t))
                         /\ (NewestSearch(t) => mapCalls'[t] = mapCalls[t])
    BY <2>1, <2>3 DEF NewestSearch, Kind
  <2>6. OneNewestSearch' /\ NewestIsAsked' /\ RestIsAsked'
    BY <2>1, <2>5 DEF MapIInv, OneNewestSearch, NewestIsAsked, RestIsAsked, NoSearchDue
  <2>7. /\ BoxOf(wanted) \in Typed /\ app # "phone" /\ NewestSuggest(s)'
        /\ \A t \in Slots : ~NewestSuggest(t)
    BY <2>1, <2>3 DEF MapIInv, SuggestIsAsked, PhoneSuggestsNone, NewestSuggest, Kind
  <2>8. SuggestIsAsked' /\ PhoneSuggestsNone'
    BY <2>1, <2>3, <2>7 DEF SuggestIsAsked, PhoneSuggestsNone, NewestSuggest, Kind, BoxOf
  <2>9. SuggestsForTheText'
    BY <2>1, <2>7 DEF SuggestsForTheText, NewestSuggest, Kind, BoxOf
  <2> QED BY <2>4, <2>6, <2>8, <2>9 DEF MapIInv
<1>2. ASSUME NEW found \in BOOLEAN, Suggest(s, found) PROVE MapIInv'
  <2>1. /\ wanted' = wanted /\ app' = app /\ shown' = shown /\ load' = load
        /\ kept' = kept /\ crossed' = crossed /\ timers' = timers
        /\ mapCalls[s].kind = "suggest" /\ mapCalls' = [mapCalls EXCEPT ![s] = MapIdle]
        /\ suggested' = IF mapCalls[s].newest
                        THEN (IF found THEN BoxOf(mapCalls[s].ask) ELSE NoAsk) ELSE suggested
    BY <1>2 DEF Suggest, Kind, Finish
  <2>2. /\ mapCalls' \in [Slots -> MapCall] /\ mapCalls'[s].kind = "idle"
        /\ \A t \in Slots : t # s => mapCalls'[t] = mapCalls[t]
    <3>1. MapIdle \in MapCall /\ MapIdle.kind = "idle"
      BY DEF MapIdle, MapCall
    <3> QED BY <1>0, <2>1, <3>1 DEF MapTypeOK
  <2>3. NewestSuggest(s) => BoxOf(mapCalls[s].ask) = BoxOf(wanted) /\ BoxOf(wanted) \in Typed
    BY DEF MapIInv, SuggestIsAsked
  <2>4. MapTypeOK'
    <3>1. suggested' \in Boxes \cup {NoAsk}
      BY <1>0, <2>1, <2>3, MapAssumption DEF NewestSuggest, Kind, MapTypeOK
    <3> QED BY <1>0, <2>1, <2>2, <3>1 DEF MapTypeOK
  <2>5. \A t \in Slots : (NewestSearch(t)' <=> NewestSearch(t))
                         /\ (NewestSearch(t) => mapCalls'[t] = mapCalls[t])
    BY <2>1, <2>2 DEF NewestSearch, Kind
  <2>6. OneNewestSearch' /\ NewestIsAsked' /\ RestIsAsked'
    BY <2>1, <2>5 DEF MapIInv, OneNewestSearch, NewestIsAsked, RestIsAsked, NoSearchDue
  <2>7. \A t \in Slots : (NewestSuggest(t)' <=> t # s /\ NewestSuggest(t))
    BY <2>2 DEF NewestSuggest, Kind
  <2>8. SuggestIsAsked' /\ PhoneSuggestsNone'
    BY <2>1, <2>2, <2>7 DEF MapIInv, SuggestIsAsked, PhoneSuggestsNone, Kind, BoxOf
  <2>9. SuggestsForTheText'
    <3>1. CASE mapCalls[s].newest
      BY <2>1, <2>3, <3>1 DEF SuggestsForTheText, NewestSuggest, Kind, BoxOf
    <3>2. CASE ~mapCalls[s].newest
      <4>1. \A t \in Slots : NewestSuggest(t)' <=> NewestSuggest(t)
        BY <2>7, <3>2 DEF NewestSuggest
      <4> QED BY <2>1, <3>2, <4>1 DEF MapIInv, SuggestsForTheText, NewestSuggest, BoxOf
    <3> QED BY <3>1, <3>2
  <2> QED BY <2>4, <2>6, <2>8, <2>9 DEF MapIInv
<1> QED BY <1>1, <1>2

LEMMA MapInductive == ASSUME MapIInv, [MapNext]_mapVars PROVE MapIInv'
<1>1. ASSUME NEW a \in Asks, Ask(a) PROVE MapIInv'
  BY <1>1, AskKeepsMap
<1>2. ASSUME NEW s \in Slots, DebouncedSearch(s) \/ PressSearch(s) \/ PollNearby(s)
      PROVE  MapIInv'
  BY <1>2, SearchKeepsMap DEF DebouncedSearch, PressSearch, PollNearby
<1>3. ASSUME NEW s \in Slots, Answer(s) \/ FailSearch(s) PROVE MapIInv'
  BY <1>3, SearchEndKeepsMap
<1>4. ASSUME NEW s \in Slots, DebouncedSuggest(s) \/ \E found \in BOOLEAN : Suggest(s, found)
      PROVE  MapIInv'
  BY <1>4, SuggestKeepsMap
<1>5. CASE UNCHANGED mapVars
  BY <1>5 DEF mapVars, MapIInv, MapTypeOK, OneNewestSearch, NewestIsAsked, RestIsAsked,
              SuggestIsAsked, PhoneSuggestsNone, SuggestsForTheText, NewestSearch, NewestSuggest,
              NoSearchDue, Kind, BoxOf
<1> QED BY <1>1, <1>2, <1>3, <1>4, <1>5 DEF MapNext

LEMMA MapHolds == MapSpec => []MapIInv
BY MapInitial, MapInductive, PTL DEF MapSpec

LEMMA MapPromised == MapIInv => MapIsAsAsked
BY DEF MapIInv, MapIsAsAsked, ShowsWhatIsAsked, RestIsAsked, NewestSearch, NoSearchDue

(* The map at rest shows the result and the suggestions for what is asked, in  *)
(* whatever order its searches are answered (use-discovery-map.ts:224-311).    *)
THEOREM MapStaysAsAsked == MapSpec => []MapIsAsAsked
BY MapHolds, MapPromised, PTL

-----------------------------------------------------------------------------
(* The wizard for offering a service. *)

\* A step is reached only over the forms before it, and the API forgets none of them; a
\* lone call leaves the page with what the API keeps.

\* The forms that come before a step.
FormsBefore(step) ==
  {f \in Forms : \/ step = "review"
                 \/ step = "profile" /\ f = "categories"
                 \/ step = "service-area" /\ f # "service-area"}
Offer == [kind: OfferKinds, at: {"idle", "out", "back"}, form: Forms \cup {"review"},
          answer: Onboarding \cup {NoOnboarding}]
UnderWay(s) == offers[s].at # "idle"

WizardShape == WizardTypeOK /\ \A s \in Slots : ~UnderWay(s) => offers[s] = OfferIdle
OnlyWholeIsSubmitted == Submitted(onboarding) => onboarding.done = Forms
StepIsReached == FormsBefore(wizardStep) \subseteq onboarding.done

\* A save was pressed on a form the wizard had reached; a submission carried out found all.
PressedWhereReached ==
  \A s \in Slots :
    /\ UnderWay(s) /\ offers[s].kind = "save" =>
         /\ offers[s].form \in Forms /\ FormsBefore(offers[s].form) \subseteq onboarding.done
         /\ offers[s].at = "back" => offers[s].form \in onboarding.done
    /\ offers[s].at = "back" /\ offers[s].kind = "submit" => onboarding.done = Forms

\* An answer is of what the API kept at the time.
AnswersAreKept ==
  \A s \in Slots : offers[s].at = "back" =>
    /\ offers[s].answer \in Onboarding /\ offers[s].answer.done \subseteq onboarding.done
    /\ Submitted(offers[s].answer) => offers[s].answer.done = Forms
    /\ offers[s].answer.status # "NOT_STARTED" => onboarding.status # "NOT_STARTED"

\* Before the draft there is nothing to show or to press.
NothingBeforeDraft ==
  onboarding.status = "NOT_STARTED" =>
    onPage = NoOnboarding /\ \A s \in Slots : offers[s].kind \in {"none", "get", "start"}

\* While no calls overlapped and nothing was lost.
LoneCallsTell ==
  ~offerStrayed =>
    /\ \A s, t \in Slots : UnderWay(s) /\ UnderWay(t) => s = t
    /\ \A s \in Slots : offers[s].at = "back" => offers[s].answer = onboarding
    /\ \/ onPage \in {onboarding, NoOnboarding}
       \/ \E s \in Slots : /\ UnderWay(s)
                           /\ \/ offers[s].kind = "get"
                              \/ offers[s].at = "back" /\ offers[s].kind # "verify"

WizardIInv ==
  /\ WizardShape /\ OnlyWholeIsSubmitted /\ StepIsReached /\ PressedWhereReached
  /\ AnswersAreKept /\ NothingBeforeDraft /\ LoneCallsTell

LEMMA FollowingSteps ==
  /\ Following["categories"] = "profile" /\ Following["profile"] = "service-area"
  /\ Following["service-area"] = "review"
BY DEF Following, Forms

LEMMA StepsBefore ==
  /\ FormsBefore("categories") = {} /\ FormsBefore("profile") = {"categories"}
  /\ FormsBefore("service-area") = {"categories", "profile"} /\ FormsBefore("review") = Forms
  /\ \A f \in Forms : /\ Following[f] \in Forms \cup {"review"}
                      /\ FormsBefore(Following[f]) = FormsBefore(f) \cup {f}
<1>1. /\ FormsBefore("categories") = {} /\ FormsBefore("profile") = {"categories"}
      /\ FormsBefore("service-area") = {"categories", "profile"} /\ FormsBefore("review") = Forms
  BY DEF FormsBefore, Forms
<1>2. \A f \in Forms : Following[f] \in Forms \cup {"review"}
  BY FollowingSteps DEF Forms
<1>3. \A f \in Forms : FormsBefore(Following[f]) = FormsBefore(f) \cup {f}
  BY <1>1, FollowingSteps DEF Forms
<1> QED BY <1>1, <1>2, <1>3

\* The next form to fill in comes after forms that are done.
LEMMA IncompleteIsReached ==
  ASSUME NEW o, o.done \subseteq Forms
  PROVE  /\ nextIncompleteStep(o) \in Forms \cup {"review"}
         /\ FormsBefore(nextIncompleteStep(o)) \subseteq o.done
BY StepsBefore DEF nextIncompleteStep, Forms

LEMMA OfferIdleIsTyped ==
  /\ OfferIdle \in Offer /\ OfferIdle.at = "idle" /\ OfferIdle.kind = "none"
  /\ NoOnboarding \notin Onboarding /\ "NOT_STARTED" \in OnboardingStatuses
BY DEF OfferIdle, Offer, OfferKinds, NoOnboarding, Onboarding, OnboardingStatuses

LEMMA WizardInitial == WizardInit => WizardIInv
<1> SUFFICES ASSUME WizardInit PROVE WizardIInv
  OBVIOUS
<1> USE WizardAssumption
<1>1. PICK s \in Slots : offers = [[t \in Slots |-> OfferIdle] EXCEPT ![s].kind = "get", ![s].at = "out"]
  BY DEF WizardInit
<1>2. /\ offers \in [Slots -> Offer] /\ offers[s].at = "out" /\ offers[s].kind = "get"
      /\ \A t \in Slots : t # s => offers[t] = OfferIdle
  BY <1>1 DEF OfferIdle, Offer, OfferKinds
<1>3. WizardShape
  <2>1. /\ onboarding \in Onboarding /\ onPage \in Onboarding \cup {NoOnboarding}
        /\ pressedOffers \in 0..MaxPresses
    BY DEF WizardInit
  <2>0. offerStrayed \in BOOLEAN
    BY DEF WizardInit
  <2>2. wizardStep \in Forms \cup {"review"} /\ wizardMode \in {"loading", "success", "error"}
    BY DEF WizardInit, Forms
  <2> QED BY <1>2, <2>0, <2>1, <2>2 DEF WizardShape, WizardTypeOK, Offer, UnderWay
<1>4. \A t \in Slots : offers[t].at # "back" /\ offers[t].kind \in {"none", "get"}
  BY <1>2, OfferIdleIsTyped
<1>5. StepIsReached
  BY StepsBefore DEF WizardInit, StepIsReached
<1>6. PressedWhereReached /\ AnswersAreKept /\ NothingBeforeDraft /\ OnlyWholeIsSubmitted
  BY <1>4 DEF WizardInit, PressedWhereReached, AnswersAreKept, NothingBeforeDraft, OnlyWholeIsSubmitted
<1>7. LoneCallsTell
  BY <1>2, <1>4, OfferIdleIsTyped DEF WizardInit, LoneCallsTell, UnderWay
<1> QED BY <1>3, <1>5, <1>6, <1>7 DEF WizardIInv

\* A request in a slot leaves the others.
LEMMA OfferSent ==
  ASSUME WizardIInv, NEW s \in Slots, NEW what \in OfferKinds, SendOffer(s, what)
  PROVE  /\ offers' \in [Slots -> Offer]
         /\ offers'[s].kind = what /\ offers'[s].at = "out" /\ offers'[s].form = wizardStep
         /\ \A t \in Slots : t # s => offers'[t] = offers[t]
<1>1. offers \in [Slots -> Offer] /\ wizardStep \in Forms \cup {"review"}
  BY DEF WizardIInv, WizardShape, WizardTypeOK, Offer
<1> QED BY <1>1 DEF SendOffer, OfferIdle, Offer

LEMMA OfferEnded ==
  ASSUME WizardIInv, NEW s \in Slots, offers' = [offers EXCEPT ![s] = OfferIdle]
  PROVE  /\ offers' \in [Slots -> Offer] /\ offers'[s] = OfferIdle
         /\ \A t \in Slots : t # s => offers'[t] = offers[t]
<1>1. offers \in [Slots -> Offer]
  BY DEF WizardIInv, WizardShape, WizardTypeOK, Offer
<1> QED BY <1>1, OfferIdleIsTyped

LEMMA PressKeepsWizard ==
  ASSUME WizardIInv, NEW s \in Slots,
         Continue(s) \/ Submit(s) \/ PauseOrResume(s) \/ RequestVerification(s)
  PROVE  WizardIInv'
<1>1. PICK what \in {"save", "submit", "ACTIVE", "PAUSED", "verify"} :
        PressOffer(s, what) /\ (what = "save" => wizardStep # "review")
  BY DEF Continue, Submit, PauseOrResume, RequestVerification
<1>2. /\ onboarding' = onboarding /\ onPage' = onPage /\ wizardStep' = wizardStep
      /\ wizardMode' = "loading" /\ onPage # NoOnboarding /\ offers[s] = OfferIdle
      /\ pressedOffers' = pressedOffers + 1 /\ pressedOffers < MaxPresses
  BY <1>1 DEF PressOffer
<1>3. /\ offers' \in [Slots -> Offer]
      /\ offers'[s].kind = what /\ offers'[s].at = "out" /\ offers'[s].form = wizardStep
      /\ \A t \in Slots : t # s => offers'[t] = offers[t]
  <2>1. what \in OfferKinds
    BY DEF OfferKinds
  <2> QED BY <1>1, <2>1, OfferSent DEF PressOffer
<1>4. /\ offerStrayed' \in BOOLEAN
      /\ ~offerStrayed' => ~offerStrayed /\ \A t \in Slots : offers[t] = OfferIdle
  BY <1>1 DEF PressOffer, WizardIInv, WizardShape, WizardTypeOK
<1>5. WizardShape'
  <2>1. WizardTypeOK'
    BY <1>2, <1>3, <1>4, WizardAssumption DEF WizardIInv, WizardShape, WizardTypeOK, Offer
  <2> QED BY <1>3, <2>1 DEF WizardIInv, WizardShape, UnderWay
<1>6. OnlyWholeIsSubmitted' /\ StepIsReached'
  BY <1>2 DEF WizardIInv, OnlyWholeIsSubmitted, StepIsReached
<1>7. PressedWhereReached'
  <2>1. what = "save" => wizardStep \in Forms
    BY <1>1 DEF WizardIInv, WizardShape, WizardTypeOK
  <2> QED BY <1>2, <1>3, <2>1 DEF WizardIInv, PressedWhereReached, StepIsReached, UnderWay
<1>8. AnswersAreKept' /\ NothingBeforeDraft'
  BY <1>2, <1>3 DEF WizardIInv, AnswersAreKept, NothingBeforeDraft
<1>9. LoneCallsTell'
  <2>1. SUFFICES ASSUME ~offerStrayed' PROVE LoneCallsTell'
    BY DEF LoneCallsTell
  <2>2. \A t \in Slots : t # s => offers'[t].at = "idle"
    BY <1>3, <1>4, <2>1, OfferIdleIsTyped
  <2>3. \A t \in Slots : ~UnderWay(t)
    BY <1>4, <2>1, OfferIdleIsTyped DEF UnderWay
  <2>4. onPage \in {onboarding, NoOnboarding}
    BY <1>4, <2>1, <2>3 DEF WizardIInv, LoneCallsTell
  <2> QED BY <1>2, <1>3, <2>2, <2>4 DEF LoneCallsTell, UnderWay
<1> QED BY <1>5, <1>6, <1>7, <1>8, <1>9 DEF WizardIInv

\* Back goes to the form before.
LEMMA BackKeepsWizard == ASSUME WizardIInv, BackForm PROVE WizardIInv'
<1>1. /\ onboarding' = onboarding /\ onPage' = onPage /\ wizardMode' = wizardMode
      /\ offers' = offers /\ pressedOffers' = pressedOffers /\ offerStrayed' = offerStrayed
  BY DEF BackForm
<1>2. \E f \in Forms : Following[f] = wizardStep
  <2>1. wizardStep \in {"profile", "service-area", "review"}
    BY DEF BackForm, WizardIInv, WizardShape, WizardTypeOK, Forms
  <2> QED BY <2>1, FollowingSteps DEF Forms
<1>3. wizardStep' \in Forms /\ Following[wizardStep'] = wizardStep
  BY <1>2 DEF BackForm
<1>4. FormsBefore(wizardStep') \subseteq FormsBefore(wizardStep)
  BY <1>3, StepsBefore
<1>5. WizardShape' /\ StepIsReached'
  BY <1>1, <1>3, <1>4 DEF WizardIInv, WizardShape, WizardTypeOK, StepIsReached, UnderWay
<1>6. OnlyWholeIsSubmitted' /\ PressedWhereReached' /\ AnswersAreKept' /\ NothingBeforeDraft'
  BY <1>1 DEF WizardIInv, OnlyWholeIsSubmitted, PressedWhereReached, AnswersAreKept,
              NothingBeforeDraft, UnderWay
<1>7. LoneCallsTell'
  BY <1>1 DEF WizardIInv, LoneCallsTell, UnderWay
<1> QED BY <1>5, <1>6, <1>7 DEF WizardIInv

\* What the API makes of a call.
LEMMA ServedOnboarding ==
  ASSUME WizardIInv, NEW s \in Slots, ServeOffer(s)
  PROVE  /\ onboarding' \in Onboarding /\ onboarding.done \subseteq onboarding'.done
         /\ Submitted(onboarding') => onboarding'.done = Forms
         /\ onboarding'.status = "NOT_STARTED" => onboarding' = onboarding
         /\ offers[s].kind = "save" => offers[s].form \in onboarding'.done
         /\ offers[s].kind = "submit" => onboarding'.done = Forms
         /\ offers[s].kind = "verify" \/ offers[s].kind = "get" => onboarding' = onboarding
         /\ offers[s].at = "out"
<1> DEFINE o == offers[s]
<1>1. /\ onboarding \in Onboarding /\ o \in Offer /\ o.at = "out"
      /\ onboarding.status \in OnboardingStatuses /\ onboarding.done \subseteq Forms
      /\ Submitted(onboarding) => onboarding.done = Forms
      /\ o.kind \in OfferKinds
  BY DEF ServeOffer, WizardIInv, WizardShape, WizardTypeOK, Offer, OnlyWholeIsSubmitted, Onboarding
<1>2. CASE o.kind = "start" /\ onboarding.status = "NOT_STARTED"
  <2>1. onboarding' = [onboarding EXCEPT !.status = "DRAFT"]
    BY <1>2 DEF ServeOffer
  <2>2. onboarding'.status = "DRAFT" /\ onboarding'.done = onboarding.done /\ onboarding' \in Onboarding
    BY <1>1, <2>1 DEF Onboarding, OnboardingStatuses
  <2> QED BY <1>1, <1>2, <2>2 DEF Submitted
<1>3. CASE o.kind = "save"
  <2>1. onboarding' = [onboarding EXCEPT !.done = @ \cup {o.form}]
    BY <1>3 DEF ServeOffer
  <2>2. o.form \in Forms
    BY <1>1, <1>3 DEF WizardIInv, PressedWhereReached, UnderWay
  <2>3. /\ onboarding'.status = onboarding.status /\ onboarding' \in Onboarding
        /\ onboarding'.done = onboarding.done \cup {o.form}
    BY <1>1, <2>1, <2>2 DEF Onboarding
  <2>4. onboarding.status # "NOT_STARTED"
    BY <1>3 DEF WizardIInv, NothingBeforeDraft
  <2> QED BY <1>1, <1>3, <2>2, <2>3, <2>4 DEF Submitted, Onboarding
<1>4. CASE o.kind = "submit"
  <2>1. onboarding' = [onboarding EXCEPT !.status = "ACTIVE"] /\ onboarding.done = Forms
    BY <1>4 DEF ServeOffer
  <2>2. /\ onboarding'.status = "ACTIVE" /\ onboarding'.done = onboarding.done
        /\ onboarding' \in Onboarding
    BY <1>1, <2>1 DEF Onboarding, OnboardingStatuses
  <2> QED BY <1>1, <1>4, <2>1, <2>2
<1>5. CASE o.kind \in {"ACTIVE", "PAUSED"}
  <2>1. onboarding' = [onboarding EXCEPT !.status = o.kind] /\ onboarding.done = Forms
    BY <1>1, <1>5 DEF ServeOffer
  <2>2. /\ onboarding'.status = o.kind /\ onboarding'.done = onboarding.done
        /\ onboarding' \in Onboarding
    BY <1>1, <1>5, <2>1 DEF Onboarding, OnboardingStatuses
  <2> QED BY <1>1, <1>5, <2>1, <2>2
<1>6. CASE /\ o.kind \in {"none", "get", "start", "verify"}
           /\ ~(o.kind = "start" /\ onboarding.status = "NOT_STARTED")
  <2>1. onboarding' = onboarding
    BY <1>6 DEF ServeOffer
  <2> QED BY <1>1, <1>6, <2>1
<1> QED BY <1>1, <1>2, <1>3, <1>4, <1>5, <1>6 DEF OfferKinds

LEMMA ServeKeepsWizard == ASSUME WizardIInv, NEW s \in Slots, ServeOffer(s) PROVE WizardIInv'
<1>1. /\ onboarding' \in Onboarding /\ onboarding.done \subseteq onboarding'.done
      /\ Submitted(onboarding') => onboarding'.done = Forms
      /\ onboarding'.status = "NOT_STARTED" => onboarding' = onboarding
      /\ offers[s].kind = "save" => offers[s].form \in onboarding'.done
      /\ offers[s].kind = "submit" => onboarding'.done = Forms
      /\ offers[s].kind = "verify" \/ offers[s].kind = "get" => onboarding' = onboarding
      /\ offers[s].at = "out"
  BY ServedOnboarding
<1>2. /\ onPage' = onPage /\ wizardStep' = wizardStep /\ wizardMode' = wizardMode
      /\ pressedOffers' = pressedOffers /\ offerStrayed' = offerStrayed
  BY DEF ServeOffer
<1>3. /\ offers' \in [Slots -> Offer]
      /\ offers'[s].at = "back" /\ offers'[s].answer = onboarding'
      /\ offers'[s].kind = offers[s].kind /\ offers'[s].form = offers[s].form
      /\ \A t \in Slots : t # s => offers'[t] = offers[t]
  <2>1. offers \in [Slots -> Offer]
    BY DEF WizardIInv, WizardShape, WizardTypeOK, Offer
  <2>2. offers' = [offers EXCEPT ![s].at = "back", ![s].answer = onboarding']
    BY DEF ServeOffer
  <2> QED BY <1>1, <2>1, <2>2 DEF Offer
<1>4. WizardShape'
  <2>1. WizardTypeOK'
    BY <1>1, <1>2, <1>3 DEF WizardIInv, WizardShape, WizardTypeOK, Offer
  <2> QED BY <1>3, <2>1 DEF WizardIInv, WizardShape, UnderWay
<1>5. OnlyWholeIsSubmitted' /\ StepIsReached'
  BY <1>1, <1>2 DEF WizardIInv, OnlyWholeIsSubmitted, StepIsReached
<1>6. PressedWhereReached'
  <2>1. onboarding'.done \subseteq Forms
    BY <1>1 DEF Onboarding
  <2> QED BY <1>1, <1>3, <2>1 DEF WizardIInv, PressedWhereReached, UnderWay
<1>7. AnswersAreKept'
  BY <1>1, <1>3 DEF WizardIInv, AnswersAreKept
<1>8. NothingBeforeDraft'
  BY <1>1, <1>2, <1>3 DEF WizardIInv, NothingBeforeDraft
<1>9. LoneCallsTell'
  <2>1. SUFFICES ASSUME ~offerStrayed PROVE LoneCallsTell'
    BY <1>2 DEF LoneCallsTell
  <2>2. \A t \in Slots : t # s => offers[t].at = "idle"
    BY <1>1, <2>1 DEF WizardIInv, LoneCallsTell, UnderWay
  <2>3. \/ onPage' \in {onboarding', NoOnboarding}
        \/ offers'[s].kind = "get" \/ offers'[s].kind # "verify"
    BY <1>1, <1>2, <1>3, <2>1, <2>2 DEF WizardIInv, LoneCallsTell, UnderWay
  <2> QED BY <1>3, <2>2, <2>3 DEF LoneCallsTell, UnderWay
<1> QED BY <1>4, <1>5, <1>6, <1>7, <1>8, <1>9 DEF WizardIInv

\* A call that ends, with its answer shown or not, is the only running one while nothing
\* strayed.
LEMMA LoneEnds ==
  ASSUME WizardIInv, NEW s \in Slots, UnderWay(s), offers' = [offers EXCEPT ![s] = OfferIdle],
         onboarding' = onboarding, onPage' \in {onboarding, NoOnboarding} \/ offerStrayed',
         offerStrayed \in BOOLEAN, offerStrayed => offerStrayed'
  PROVE  LoneCallsTell'
<1>1. /\ offers'[s].at = "idle" /\ \A t \in Slots : t # s => offers'[t] = offers[t]
  BY OfferEnded, OfferIdleIsTyped
<1>2. SUFFICES ASSUME ~offerStrayed' PROVE LoneCallsTell'
  BY DEF LoneCallsTell
<1>3. \A t \in Slots : offers'[t].at = "idle"
  BY <1>1, <1>2 DEF WizardIInv, LoneCallsTell, UnderWay
<1> QED BY <1>2, <1>3 DEF LoneCallsTell, UnderWay

\* The invariants of the calls need no more than that the other slots stay as they are.
LEMMA CallEnds ==
  ASSUME WizardIInv, NEW s \in Slots, offers' = [offers EXCEPT ![s] = OfferIdle],
         onboarding' = onboarding
  PROVE  OnlyWholeIsSubmitted' /\ PressedWhereReached' /\ AnswersAreKept'
<1>1. /\ offers'[s] = OfferIdle /\ \A t \in Slots : t # s => offers'[t] = offers[t]
  BY OfferEnded
<1>2. offers'[s].at = "idle"
  BY <1>1, OfferIdleIsTyped
<1> QED BY <1>1, <1>2
        DEF WizardIInv, OnlyWholeIsSubmitted, PressedWhereReached, AnswersAreKept, UnderWay

LEMMA CallGoesOn ==
  ASSUME WizardIInv, NEW s \in Slots, NEW what \in {"get", "start"}, SendOffer(s, what),
         onboarding' = onboarding
  PROVE  OnlyWholeIsSubmitted' /\ PressedWhereReached' /\ AnswersAreKept'
<1>1. /\ offers'[s].kind = what /\ offers'[s].at = "out"
      /\ \A t \in Slots : t # s => offers'[t] = offers[t]
  BY OfferSent DEF OfferKinds
<1> QED BY <1>1
        DEF WizardIInv, OnlyWholeIsSubmitted, PressedWhereReached, AnswersAreKept, UnderWay

LEMMA LoadedKeepsWizard == ASSUME WizardIInv, NEW s \in Slots, Loaded(s) PROVE WizardIInv'
<1> DEFINE o == offers[s]
<1>1. /\ onboarding' = onboarding /\ pressedOffers' = pressedOffers
      /\ offerStrayed' = offerStrayed /\ offerStrayed \in BOOLEAN
      /\ o.at = "back" /\ o.kind \in {"get", "start"}
  BY DEF Loaded, WizardIInv, WizardShape, WizardTypeOK
<1>2. /\ o.answer \in Onboarding /\ o.answer.done \subseteq onboarding.done
      /\ Submitted(o.answer) => o.answer.done = Forms
      /\ o.answer.status # "NOT_STARTED" => onboarding.status # "NOT_STARTED"
      /\ ~offerStrayed => o.answer = onboarding
      /\ o.answer.done \subseteq Forms
  BY <1>1 DEF WizardIInv, AnswersAreKept, LoneCallsTell, Onboarding
<1>3. CASE o.answer.status = "NOT_STARTED"
  <2>1. /\ SendOffer(s, "start") /\ onPage' = onPage /\ wizardStep' = wizardStep
        /\ wizardMode' = wizardMode
    BY <1>3 DEF Loaded
  <2>2. /\ offers' \in [Slots -> Offer] /\ offers'[s].kind = "start" /\ offers'[s].at = "out"
        /\ \A t \in Slots : t # s => offers'[t] = offers[t]
    BY <2>1, OfferSent DEF OfferKinds
  <2>3. WizardTypeOK'
    BY <1>1, <2>1, <2>2 DEF WizardIInv, WizardShape, WizardTypeOK, Offer
  <2>4. WizardShape'
    BY <2>2, <2>3 DEF WizardIInv, WizardShape, UnderWay
  <2>5. OnlyWholeIsSubmitted' /\ PressedWhereReached' /\ AnswersAreKept'
    BY <1>1, <2>1, CallGoesOn
  <2>6. StepIsReached'
    BY <1>1, <2>1 DEF WizardIInv, StepIsReached
  <2>7. NothingBeforeDraft'
    BY <1>1, <2>1, <2>2 DEF WizardIInv, NothingBeforeDraft
  <2>8. LoneCallsTell'
    <3>1. SUFFICES ASSUME ~offerStrayed PROVE LoneCallsTell'
      BY <1>1 DEF LoneCallsTell
    <3>2. \A t \in Slots : t # s => offers'[t].at = "idle"
      BY <1>1, <2>2, <3>1 DEF WizardIInv, LoneCallsTell, UnderWay
    <3>3. onPage = NoOnboarding
      BY <1>2, <1>3, <3>1 DEF WizardIInv, NothingBeforeDraft
    <3> QED BY <2>1, <2>2, <3>2, <3>3 DEF LoneCallsTell, UnderWay
  <2> QED BY <2>4, <2>5, <2>6, <2>7, <2>8 DEF WizardIInv
<1>4. CASE o.answer.status # "NOT_STARTED"
  <2>1. /\ onPage' = o.answer /\ wizardMode' = "success"
        /\ wizardStep' = IF Submitted(o.answer) THEN "review" ELSE nextIncompleteStep(o.answer)
        /\ offers' = [offers EXCEPT ![s] = OfferIdle]
    BY <1>4 DEF Loaded
  <2>2. /\ offers' \in [Slots -> Offer] /\ offers'[s] = OfferIdle
        /\ \A t \in Slots : t # s => offers'[t] = offers[t]
    BY <2>1, OfferEnded
  <2>3. /\ wizardStep' \in Forms \cup {"review"}
        /\ FormsBefore(wizardStep') \subseteq o.answer.done
    BY <1>2, <2>1, IncompleteIsReached, StepsBefore
  <2>4. WizardShape'
    <3>1. WizardTypeOK'
      BY <1>1, <1>2, <2>1, <2>2, <2>3 DEF WizardIInv, WizardShape, WizardTypeOK, Offer
    <3> QED BY <2>2, <3>1 DEF WizardIInv, WizardShape, UnderWay
  <2>5. OnlyWholeIsSubmitted' /\ PressedWhereReached' /\ AnswersAreKept'
    BY <1>1, <2>1, CallEnds
  <2>6. StepIsReached'
    BY <1>1, <1>2, <2>3 DEF StepIsReached
  <2>7. NothingBeforeDraft'
    BY <1>1, <1>2, <1>4 DEF NothingBeforeDraft
  <2>8. LoneCallsTell'
    BY <1>1, <1>2, <2>1, LoneEnds DEF UnderWay
  <2> QED BY <2>4, <2>5, <2>6, <2>7, <2>8 DEF WizardIInv
<1> QED BY <1>3, <1>4

LEMMA SavedKeepsWizard == ASSUME WizardIInv, NEW s \in Slots, SavedForm(s) PROVE WizardIInv'
<1> DEFINE o == offers[s]
<1>1. /\ onboarding' = onboarding /\ pressedOffers' = pressedOffers
      /\ offerStrayed' = offerStrayed /\ offerStrayed \in BOOLEAN
      /\ o.at = "back" /\ o.kind \in {"save", "submit"}
      /\ onPage' = o.answer /\ wizardMode' = "success"
      /\ wizardStep' = IF o.kind = "save" THEN Following[o.form] ELSE "review"
      /\ offers' = [offers EXCEPT ![s] = OfferIdle]
  BY DEF SavedForm, WizardIInv, WizardShape, WizardTypeOK
<1>2. o.answer \in Onboarding /\ (~offerStrayed => o.answer = onboarding)
  BY <1>1 DEF WizardIInv, AnswersAreKept, LoneCallsTell
<1>3. /\ offers' \in [Slots -> Offer] /\ offers'[s] = OfferIdle
      /\ \A t \in Slots : t # s => offers'[t] = offers[t]
  BY <1>1, OfferEnded
<1>4. /\ wizardStep' \in Forms \cup {"review"}
      /\ FormsBefore(wizardStep') \subseteq onboarding.done
  <2>1. CASE o.kind = "save"
    <3>1. /\ o.form \in Forms /\ FormsBefore(o.form) \subseteq onboarding.done
          /\ o.form \in onboarding.done
      BY <1>1, <2>1 DEF WizardIInv, PressedWhereReached, UnderWay
    <3> QED BY <1>1, <2>1, <3>1, StepsBefore
  <2>2. CASE o.kind = "submit"
    BY <1>1, <2>2, StepsBefore DEF WizardIInv, PressedWhereReached
  <2> QED BY <1>1, <2>1, <2>2
<1>5. WizardShape'
  <2>1. WizardTypeOK'
    BY <1>1, <1>2, <1>3, <1>4 DEF WizardIInv, WizardShape, WizardTypeOK, Offer
  <2> QED BY <1>3, <2>1 DEF WizardIInv, WizardShape, UnderWay
<1>6. OnlyWholeIsSubmitted' /\ PressedWhereReached' /\ AnswersAreKept'
  BY <1>1, CallEnds
<1>7. StepIsReached'
  BY <1>1, <1>4 DEF StepIsReached
<1>8. NothingBeforeDraft'
  BY <1>1 DEF WizardIInv, NothingBeforeDraft
<1>9. LoneCallsTell'
  BY <1>1, <1>2, LoneEnds DEF UnderWay
<1> QED BY <1>5, <1>6, <1>7, <1>8, <1>9 DEF WizardIInv

LEMMA PatchedKeepsWizard == ASSUME WizardIInv, NEW s \in Slots, Patched(s) PROVE WizardIInv'
<1>1. /\ onboarding' = onboarding /\ pressedOffers' = pressedOffers /\ onPage' = onPage
      /\ wizardStep' = wizardStep /\ offerStrayed' = offerStrayed /\ wizardMode' = "loading"
      /\ offers[s].at = "back" /\ SendOffer(s, "get")
  BY DEF Patched
<1>2. /\ offers' \in [Slots -> Offer] /\ offers'[s].kind = "get" /\ offers'[s].at = "out"
      /\ \A t \in Slots : t # s => offers'[t] = offers[t]
  BY <1>1, OfferSent DEF OfferKinds
<1>3. WizardShape'
  <2>1. WizardTypeOK'
    BY <1>1, <1>2 DEF WizardIInv, WizardShape, WizardTypeOK, Offer
  <2> QED BY <1>2, <2>1 DEF WizardIInv, WizardShape, UnderWay
<1>4. OnlyWholeIsSubmitted' /\ PressedWhereReached' /\ AnswersAreKept'
  BY <1>1, CallGoesOn
<1>5. StepIsReached' /\ NothingBeforeDraft'
  BY <1>1, <1>2 DEF WizardIInv, StepIsReached, NothingBeforeDraft
<1>6. LoneCallsTell'
  <2>1. SUFFICES ASSUME ~offerStrayed PROVE LoneCallsTell'
    BY <1>1 DEF LoneCallsTell
  <2>2. \A t \in Slots : t # s => offers'[t].at = "idle"
    BY <1>1, <1>2, <2>1 DEF WizardIInv, LoneCallsTell, UnderWay
  <2> QED BY <1>2, <2>2 DEF LoneCallsTell, UnderWay
<1> QED BY <1>3, <1>4, <1>5, <1>6 DEF WizardIInv

LEMMA RestKeepsWizard ==
  ASSUME WizardIInv, NEW s \in Slots, Requested(s) \/ FailOffer(s) PROVE WizardIInv'
<1>1. /\ onboarding' = onboarding /\ pressedOffers' = pressedOffers /\ onPage' = onPage
      /\ wizardStep' = wizardStep /\ wizardMode' \in {"success", "error"}
      /\ offers[s].at # "idle" /\ offers' = [offers EXCEPT ![s] = OfferIdle]
  BY DEF Requested, FailOffer
<1>2. /\ offerStrayed \in BOOLEAN /\ offerStrayed' \in BOOLEAN /\ (offerStrayed => offerStrayed')
      /\ ~offerStrayed' => \/ offers[s].at = "back" /\ offers[s].kind = "verify"
                           \/ offers[s].at # "back" /\ offers[s].kind # "get"
  BY DEF Requested, FailOffer, WizardIInv, WizardShape, WizardTypeOK
<1>3. /\ offers' \in [Slots -> Offer] /\ offers'[s] = OfferIdle
      /\ \A t \in Slots : t # s => offers'[t] = offers[t]
  BY <1>1, OfferEnded
<1>4. WizardShape'
  <2>1. WizardTypeOK'
    BY <1>1, <1>2, <1>3 DEF WizardIInv, WizardShape, WizardTypeOK, Offer
  <2> QED BY <1>3, <2>1 DEF WizardIInv, WizardShape, UnderWay
<1>5. OnlyWholeIsSubmitted' /\ PressedWhereReached' /\ AnswersAreKept'
  BY <1>1, CallEnds
<1>6. StepIsReached' /\ NothingBeforeDraft'
  BY <1>1, <1>3, OfferIdleIsTyped DEF WizardIInv, StepIsReached, NothingBeforeDraft
<1>7. LoneCallsTell'
  <2>1. onPage' \in {onboarding, NoOnboarding} \/ offerStrayed'
    BY <1>1, <1>2 DEF WizardIInv, LoneCallsTell, UnderWay
  <2> QED BY <1>1, <1>2, <2>1, LoneEnds DEF UnderWay
<1> QED BY <1>4, <1>5, <1>6, <1>7 DEF WizardIInv

LEMMA WizardInductive == ASSUME WizardIInv, [WizardNext]_wizardVars PROVE WizardIInv'
<1>1. ASSUME NEW s \in Slots,
             Continue(s) \/ Submit(s) \/ PauseOrResume(s) \/ RequestVerification(s)
      PROVE  WizardIInv'
  BY <1>1, PressKeepsWizard
<1>2. ASSUME NEW s \in Slots,
             ServeOffer(s) \/ Loaded(s) \/ SavedForm(s) \/ Patched(s) \/ Requested(s) \/ FailOffer(s)
      PROVE  WizardIInv'
  BY <1>2, ServeKeepsWizard, LoadedKeepsWizard, SavedKeepsWizard, PatchedKeepsWizard, RestKeepsWizard
<1>3. CASE BackForm
  BY <1>3, BackKeepsWizard
<1>4. CASE UNCHANGED wizardVars
  BY <1>4 DEF wizardVars, WizardIInv, WizardShape, WizardTypeOK, OnlyWholeIsSubmitted,
              StepIsReached, PressedWhereReached, AnswersAreKept, NothingBeforeDraft,
              LoneCallsTell, UnderWay
<1> QED BY <1>1, <1>2, <1>3, <1>4 DEF WizardNext

LEMMA WizardHolds == WizardSpec => []WizardIInv
BY WizardInitial, WizardInductive, PTL DEF WizardSpec

LEMMA WizardPromised == WizardIInv => ReviewIsComplete
<1> SUFFICES ASSUME WizardIInv PROVE ReviewIsComplete
  OBVIOUS
<1>1. wizardStep = "review" => onboarding.done = Forms
  BY StepsBefore DEF WizardIInv, StepIsReached, WizardShape, WizardTypeOK, Onboarding
<1>2. (\A s \in Slots : offers[s] = OfferIdle) /\ ~offerStrayed => onPage \in {onboarding, NoOnboarding}
  BY OfferIdleIsTyped DEF WizardIInv, LoneCallsTell, UnderWay
<1> QED BY <1>1, <1>2 DEF ReviewIsComplete

(* The wizard asks for the submission only of an onboarding the API accepts,   *)
(* however its calls overlap and their answers are lost                        *)
(* (offer-service-wizard.tsx:108-138).                                         *)
THEOREM ReviewStaysComplete == WizardSpec => []ReviewIsComplete
BY WizardHolds, WizardPromised, PTL

-----------------------------------------------------------------------------
(* The page that shows stories and a live session. *)

\* Whatever a stage began is cancelled when another comes into view, so what is not
\* cancelled is the stage's own.

\* The requests and timers that still count, and the stage that needs one.
Asking == {p \in probes : ~p.cancelled}
WaitsForPlaylist == OnLive /\ live = "playlist" /\ ~ready

ProbeRow == [visit: 1..MaxVisits, cancelled: BOOLEAN, at: {"flight", "timer"}]
LoadRow == [visit: 1..MaxVisits, cancelled: BOOLEAN]
ViewerShape == ViewerTypeOK /\ Len(stories) <= MaxStories

AskedOnce ==
  IF WaitsForPlaylist THEN \E p \in probes : Asking = {p} /\ p.visit = visit ELSE Asking = {}

\* An import that is not cancelled is for the stage in view, which shows a video.
LoadsAreOwn ==
  \A l \in loads : ~l.cancelled => l = Load(visit) /\ (OnLive \/ Current.visual = "video")
PlaysOwnVideo ==
  /\ playing \in {0, visit} \/ (screen = "native" /\ (importLost \/ Load(visit) \in loads))
  /\ playing # 0 => OnLive \/ Current.visual = "video"
SoundsAsStory ==
  /\ track # 0 => track = visit /\ playsAddedAudio(Current)
  /\ muted <=> Current.visual = "video" /\ mutesOriginalAudio(Current)

ViewerIInv == ViewerShape /\ AskedOnce /\ LoadsAreOwn /\ PlaysOwnVideo /\ SoundsAsStory

\* What is in view is a story, or none.
LEMMA CurrentIsStory ==
  ASSUME stories \in Seq(StoryShapes) PROVE Current \in StoryShapes \cup {NoStory}
BY DEF Current

LEMMA ViewerInitial == ViewerInit => ViewerIInv
<1> SUFFICES ASSUME ViewerInit PROVE ViewerIInv
  OBVIOUS
<1> USE ViewerAssumption
<1>1. PICK n \in 0..MaxStories : stories \in [1..n -> StoryShapes]
  BY DEF ViewerInit
<1>2. stories \in Seq(StoryShapes) /\ Len(stories) <= MaxStories
  BY <1>1
<1>3. ViewerTypeOK
  <2>1. ready \in BOOLEAN /\ muted \in BOOLEAN /\ importLost \in BOOLEAN
    BY DEF ViewerInit
  <2>2. probes = {} /\ loads = {}
    BY DEF ViewerInit
  <2> QED BY <1>2, <2>1, <2>2 DEF ViewerInit, ViewerTypeOK
<1>4. ~OnLive /\ Current = NoStory
  BY DEF ViewerInit, OnLive, Current
<1>5. AskedOnce /\ LoadsAreOwn /\ PlaysOwnVideo /\ SoundsAsStory
  BY <1>4 DEF ViewerInit, AskedOnce, WaitsForPlaylist, Asking, LoadsAreOwn, PlaysOwnVideo,
              SoundsAsStory, NoStory
<1> QED BY <1>2, <1>3, <1>5 DEF ViewerIInv, ViewerShape

LEMMA CancelledRows ==
  /\ \A work \in SUBSET ProbeRow : /\ Cancelled(work) \subseteq ProbeRow
                                   /\ \A w \in Cancelled(work) : w.cancelled
  /\ \A work \in SUBSET LoadRow : /\ Cancelled(work) \subseteq LoadRow
                                  /\ \A w \in Cancelled(work) : w.cancelled
BY DEF Cancelled, ProbeRow, LoadRow

\* A new stage has its own work only, whatever was shown before.
LEMMA StageIsOwn ==
  ASSUME ViewerIInv, ChangeStage, viewing' \in {"loading", "open", "failed", "closed"},
         tab' \in {"activity", "live"}, index' \in 1..(MaxStories + 1)
  PROVE  ViewerIInv'
<1> USE ViewerAssumption
<1>0. /\ visit \in 0..MaxVisits /\ visit < MaxVisits /\ visit' = visit + 1
      /\ visit' \in 1..MaxVisits
      /\ screen' = screen /\ stories' = stories /\ live' = live /\ importLost' = importLost
      /\ ready' = FALSE
      /\ screen \in {"hls", "native", "phone"}
  BY DEF ChangeStage, ViewerIInv, ViewerShape, ViewerTypeOK
<1>1. probes \in SUBSET ProbeRow /\ loads \in SUBSET LoadRow
  BY DEF ViewerIInv, ViewerShape, ViewerTypeOK, ProbeRow, LoadRow
<1>2. /\ Probe(visit') \in ProbeRow /\ Load(visit') \in LoadRow
      /\ ~Probe(visit').cancelled /\ ~Load(visit').cancelled
  BY <1>0 DEF Probe, Load, ProbeRow, LoadRow
<1>3. /\ probes' \subseteq ProbeRow
      /\ \A p \in probes' : ~p.cancelled => p = Probe(visit') /\ OnLive' /\ live = "playlist"
      /\ OnLive' /\ live = "playlist" => Probe(visit') \in probes'
  <2>1. {p \in probes : p.at = "flight"} \in SUBSET ProbeRow
    BY <1>1
  <2>2. probes' = Cancelled({p \in probes : p.at = "flight"})
                    \cup {p \in {Probe(visit')} : OnLive' /\ live = "playlist"}
    BY DEF ChangeStage
  <2> QED BY <1>2, <2>1, <2>2, CancelledRows
<1>4. /\ loads' \subseteq LoadRow
      /\ \A l \in loads' : ~l.cancelled => l = Load(visit') /\ Current'.visual = "video"
      /\ Current'.visual = "video" /\ Web => Load(visit') \in loads'
  <2>1. loads' = Cancelled(loads) \cup {l \in {Load(visit')} : Current'.visual = "video" /\ Web}
    BY DEF ChangeStage
  <2> QED BY <1>1, <1>2, <2>1, CancelledRows
<1>5. playing' = IF Current'.visual = "video" /\ ~Web THEN visit'
                 ELSE IF Current'.visual = "video" /\ Current.visual = "video" /\ screen = "native"
                 THEN playing ELSE 0
  BY DEF ChangeStage
<1>6. muted' = (Current'.visual = "video" /\ mutesOriginalAudio(Current'))
  BY DEF ChangeStage
<1>7. track' = 0 \/ (track' = visit' /\ playsAddedAudio(Current'))
  BY DEF ChangeStage, ChangeTrack
<1>8. ViewerShape'
  <2>1. playing' \in 0..MaxVisits /\ track' \in 0..visit'
    BY <1>0, <1>5, <1>7 DEF ViewerIInv, ViewerShape, ViewerTypeOK
  <2>2. ready' \in BOOLEAN /\ muted' \in BOOLEAN /\ importLost' \in BOOLEAN
    BY <1>0, <1>6 DEF ViewerIInv, ViewerShape, ViewerTypeOK
  <2> QED BY <1>0, <1>3, <1>4, <2>1, <2>2
          DEF ViewerIInv, ViewerShape, ViewerTypeOK, ProbeRow, LoadRow
<1>9. AskedOnce'
  <2>1. WaitsForPlaylist' <=> OnLive' /\ live = "playlist"
    BY <1>0 DEF WaitsForPlaylist
  <2>2. CASE OnLive' /\ live = "playlist"
    <3>1. Asking' = {Probe(visit')}
      BY <1>2, <1>3, <2>2 DEF Asking
    <3>2. Probe(visit').visit = visit'
      BY DEF Probe
    <3> QED BY <1>3, <2>1, <2>2, <3>1, <3>2 DEF AskedOnce
  <2>3. CASE ~(OnLive' /\ live = "playlist")
    <3>1. Asking' = {}
      BY <1>3, <2>3 DEF Asking
    <3> QED BY <2>1, <2>3, <3>1 DEF AskedOnce
  <2> QED BY <2>2, <2>3
<1>10. LoadsAreOwn'
  BY <1>4 DEF LoadsAreOwn
<1>11. PlaysOwnVideo'
  <2>1. screen = "native" => Web
    BY DEF Web
  <2> QED BY <1>0, <1>4, <1>5, <2>1 DEF PlaysOwnVideo
<1>12. SoundsAsStory'
  BY <1>6, <1>7 DEF SoundsAsStory
<1> QED BY <1>8, <1>9, <1>10, <1>11, <1>12 DEF ViewerIInv

\* A step that leaves the page and its stories alone leaves the stage in view.
LEMMA StageStays ==
  ASSUME UNCHANGED <<stories, live, viewing, tab, index>>
  PROVE  OnLive' = OnLive /\ Current' = Current
BY DEF OnLive, Current

LEMMA ProbeKeepsViewer ==
  ASSUME ViewerIInv, NEW p \in probes, ProbeFinds(p) \/ ProbeMisses(p) \/ ProbeAgain(p)
  PROVE  ViewerIInv'
<1> USE ViewerAssumption
<1>0. /\ screen' = screen /\ stories' = stories /\ live' = live /\ viewing' = viewing
      /\ tab' = tab /\ index' = index /\ visit' = visit /\ track' = track /\ muted' = muted
      /\ importLost' = importLost
      /\ OnLive' = OnLive /\ Current' = Current
  BY StageStays DEF ProbeFinds, ProbeMisses, ProbeAgain
<1>1. /\ probes \subseteq ProbeRow /\ loads \subseteq LoadRow /\ p \in ProbeRow
      /\ p.visit \in 1..MaxVisits /\ visit \in 0..MaxVisits /\ playing \in 0..MaxVisits
      /\ p.cancelled \in BOOLEAN /\ ready \in BOOLEAN
  BY DEF ViewerIInv, ViewerShape, ViewerTypeOK, ProbeRow, LoadRow
<1>2. CASE ProbeFinds(p) /\ p.cancelled
  <2>1. /\ probes' = probes \ {p} /\ ready' = ready /\ loads' = loads /\ playing' = playing
    BY <1>1, <1>2 DEF ProbeFinds
  <2>2. Asking' = Asking
    BY <1>2, <2>1 DEF Asking
  <2>3. AskedOnce'
    BY <1>0, <2>1, <2>2 DEF ViewerIInv, AskedOnce, WaitsForPlaylist, Asking
  <2> QED BY <1>0, <2>1, <2>3 DEF ViewerIInv, ViewerShape, ViewerTypeOK, LoadsAreOwn, PlaysOwnVideo,
                                  SoundsAsStory
<1>3. CASE ProbeFinds(p) /\ ~p.cancelled
  <2>1. /\ probes' = probes \ {p} /\ ready' = TRUE
        /\ loads' = loads \cup {l \in {Load(visit)} : Web}
        /\ playing' = IF Web THEN playing ELSE visit
    BY <1>3 DEF ProbeFinds
  <2>2. WaitsForPlaylist /\ Asking = {p}
    BY <1>3 DEF ViewerIInv, AskedOnce, Asking
  <2>3. Asking' = {}
    BY <2>1, <2>2 DEF Asking
  <2>4. AskedOnce'
    BY <2>1, <2>3 DEF AskedOnce, WaitsForPlaylist
  <2>5. OnLive /\ visit \in 1..MaxVisits
    <3>1. p.visit = visit
      BY <2>2 DEF ViewerIInv, AskedOnce
    <3> QED BY <1>1, <2>2, <3>1 DEF WaitsForPlaylist
  <2>6. Load(visit) \in LoadRow
    BY <2>5 DEF Load, LoadRow
  <2>7. ViewerTypeOK'
    BY <1>0, <1>1, <2>1, <2>6 DEF ViewerIInv, ViewerShape, ViewerTypeOK, ProbeRow, LoadRow
  <2>8. LoadsAreOwn' /\ PlaysOwnVideo' /\ SoundsAsStory'
    BY <1>0, <2>1, <2>5 DEF ViewerIInv, LoadsAreOwn, PlaysOwnVideo, SoundsAsStory, Web
  <2> QED BY <1>0, <2>4, <2>7, <2>8 DEF ViewerIInv, ViewerShape
<1>4. CASE ProbeMisses(p) \/ ProbeAgain(p)
  <2>1. PICK q \in {[p EXCEPT !.at = "timer"], [p EXCEPT !.at = "flight"]} :
          probes' = (probes \ {p}) \cup {r \in {q} : ~p.cancelled \/ ProbeAgain(p)}
    <3>1. CASE ProbeMisses(p)
      <4>1. probes' = (probes \ {p}) \cup {[q EXCEPT !.at = "timer"] : q \in {q \in {p} : ~q.cancelled}}
            /\ p.at = "flight"
        BY <3>1 DEF ProbeMisses
      <4>2. ~ProbeAgain(p)
        BY <4>1 DEF ProbeAgain
      <4>3. probes' = (probes \ {p}) \cup {r \in {[p EXCEPT !.at = "timer"]} : ~p.cancelled}
        BY <4>1
      <4> QED BY <4>2, <4>3
    <3>2. CASE ProbeAgain(p)
      <4>1. probes' = (probes \ {p}) \cup {[p EXCEPT !.at = "flight"]}
        BY <3>2 DEF ProbeAgain
      <4> QED BY <3>2, <4>1
    <3> QED BY <1>4, <3>1, <3>2
  <2>2. q \in ProbeRow /\ q.cancelled = p.cancelled /\ q.visit = p.visit
    BY <1>1 DEF ProbeRow
  <2>3. ready' = ready /\ loads' = loads /\ playing' = playing
    BY <1>4 DEF ProbeMisses, ProbeAgain
  <2>4. WaitsForPlaylist' = WaitsForPlaylist
    BY <1>0, <2>3 DEF WaitsForPlaylist
  <2>5. AskedOnce'
    <3>1. CASE p.cancelled
      <4>1. Asking' = Asking
        BY <2>1, <2>2, <3>1 DEF Asking
      <4> QED BY <1>0, <2>4, <4>1 DEF ViewerIInv, AskedOnce, Asking
    <3>2. CASE ~p.cancelled
      <4>1. WaitsForPlaylist /\ Asking = {p} /\ p.visit = visit
        BY <3>2 DEF ViewerIInv, AskedOnce, Asking
      <4>2. Asking' = {q} /\ q \in probes'
        BY <2>1, <2>2, <3>2, <4>1 DEF Asking
      <4> QED BY <1>0, <2>2, <2>4, <4>1, <4>2 DEF AskedOnce
    <3> QED BY <3>1, <3>2
  <2>6. probes' \subseteq ProbeRow
    BY <1>1, <2>1, <2>2
  <2>7. ViewerShape'
    BY <1>0, <2>3, <2>6 DEF ViewerIInv, ViewerShape, ViewerTypeOK, ProbeRow
  <2>8. LoadsAreOwn' /\ PlaysOwnVideo' /\ SoundsAsStory'
    BY <1>0, <2>3 DEF ViewerIInv, LoadsAreOwn, PlaysOwnVideo, SoundsAsStory
  <2> QED BY <2>5, <2>7, <2>8 DEF ViewerIInv
<1> QED BY <1>2, <1>3, <1>4

LEMMA LoadKeepsViewer ==
  ASSUME ViewerIInv, NEW l \in loads, Attach(l) \/ FailImport(l) PROVE ViewerIInv'
<1>0. /\ screen' = screen /\ stories' = stories /\ live' = live /\ viewing' = viewing
      /\ tab' = tab /\ index' = index /\ visit' = visit /\ track' = track /\ muted' = muted
      /\ ready' = ready /\ probes' = probes /\ loads' = loads \ {l}
      /\ OnLive' = OnLive /\ Current' = Current
  BY StageStays DEF Attach, FailImport
<1>1. l.visit \in 1..MaxVisits /\ l.cancelled \in BOOLEAN
  BY DEF ViewerIInv, ViewerShape, ViewerTypeOK
<1>2. importLost \in BOOLEAN /\ importLost' \in BOOLEAN /\ (importLost => importLost')
  BY DEF Attach, FailImport, ViewerIInv, ViewerShape, ViewerTypeOK
<1>3. ViewerShape'
  <2>1. playing' \in 0..MaxVisits
    BY <1>1, ViewerAssumption DEF Attach, FailImport, ViewerIInv, ViewerShape, ViewerTypeOK
  <2>2. /\ loads' \subseteq [visit: 1..MaxVisits, cancelled: BOOLEAN]
        /\ ready' \in BOOLEAN /\ muted' \in BOOLEAN
    BY <1>0 DEF ViewerIInv, ViewerShape, ViewerTypeOK
  <2> QED BY <1>0, <1>2, <2>1, <2>2 DEF ViewerIInv, ViewerShape, ViewerTypeOK
<1>4. AskedOnce' /\ LoadsAreOwn' /\ SoundsAsStory'
  BY <1>0 DEF ViewerIInv, AskedOnce, WaitsForPlaylist, Asking, LoadsAreOwn, SoundsAsStory
<1>5. PlaysOwnVideo'
  <2>1. CASE Attach(l) /\ ~l.cancelled
    <3>1. /\ playing' = l.visit /\ l = Load(visit) /\ (OnLive \/ Current.visual = "video")
      BY <2>1 DEF Attach, ViewerIInv, LoadsAreOwn
    <3>2. l.visit = visit
      BY <3>1 DEF Load
    <3> QED BY <1>0, <3>1, <3>2 DEF PlaysOwnVideo
  <2>2. CASE Attach(l) /\ l.cancelled
    <3>1. playing' = playing /\ importLost' = importLost /\ l # Load(visit)
      BY <2>2 DEF Attach, Load
    <3> QED BY <1>0, <3>1 DEF ViewerIInv, PlaysOwnVideo
  <2>3. CASE FailImport(l)
    <3>1. playing' = playing /\ importLost'
      BY <2>3 DEF FailImport
    <3> QED BY <1>0, <3>1 DEF ViewerIInv, PlaysOwnVideo
  <2> QED BY <2>1, <2>2, <2>3
<1> QED BY <1>3, <1>4, <1>5 DEF ViewerIInv

LEMMA ViewerInductive == ASSUME ViewerIInv, [ViewerNext]_viewerVars PROVE ViewerIInv'
<1> USE ViewerAssumption
<1>0. /\ stories \in Seq(StoryShapes) /\ Len(stories) \in Nat /\ Len(stories) <= MaxStories
      /\ viewing \in {"loading", "open", "failed", "closed"} /\ tab \in {"activity", "live"}
      /\ index \in 1..(MaxStories + 1)
  BY DEF ViewerIInv, ViewerShape, ViewerTypeOK
<1>1. CASE OpenPage \/ ClosePage
  BY <1>0, <1>1, StageIsOwn DEF OpenPage, ClosePage
<1>2. CASE FailPage
  <2>1. /\ screen' = screen /\ stories' = stories /\ live' = live /\ viewing' = "failed"
        /\ tab' = tab /\ index' = index /\ visit' = visit /\ track' = track /\ muted' = muted
        /\ ready' = ready /\ probes' = probes /\ loads' = loads /\ playing' = playing
        /\ importLost' = importLost
    BY <1>2 DEF FailPage
  <2>2. OnLive' = OnLive /\ Current' = Current
    <3>1. ~OnLive /\ Current = NoStory /\ ~OnLive' /\ Current' = NoStory
      BY <1>2 DEF FailPage, OnLive, Current
    <3> QED BY <3>1 DEF OnLive
  <2>3. ViewerShape'
    BY <2>1 DEF ViewerIInv, ViewerShape, ViewerTypeOK
  <2> QED BY <2>1, <2>2, <2>3 DEF ViewerIInv, AskedOnce, WaitsForPlaylist, Asking, LoadsAreOwn,
                                  PlaysOwnVideo, SoundsAsStory
<1>3. ASSUME NEW i, Turn(i) PROVE ViewerIInv'
  BY <1>0, <1>3, StageIsOwn DEF Turn
<1>4. ASSUME NEW t \in {"activity", "live"}, ChooseTab(t) PROVE ViewerIInv'
  BY <1>0, <1>4, StageIsOwn DEF ChooseTab
<1>5. ASSUME NEW p \in probes, ProbeFinds(p) \/ ProbeMisses(p) \/ ProbeAgain(p)
      PROVE  ViewerIInv'
  BY <1>5, ProbeKeepsViewer
<1>6. ASSUME NEW l \in loads, Attach(l) \/ FailImport(l) PROVE ViewerIInv'
  BY <1>6, LoadKeepsViewer
<1>7. CASE UNCHANGED viewerVars
  <2>1. OnLive' = OnLive /\ Current' = Current
    BY <1>7, StageStays DEF viewerVars
  <2>2. ViewerShape'
    BY <1>7 DEF viewerVars, ViewerIInv, ViewerShape, ViewerTypeOK
  <2> QED BY <1>7, <2>1, <2>2 DEF viewerVars, ViewerIInv, AskedOnce, WaitsForPlaylist, Asking,
                                  LoadsAreOwn, PlaysOwnVideo, SoundsAsStory
<1> QED BY <1>1, <1>2, <1>3, <1>4, <1>5, <1>6, <1>7 DEF ViewerNext, BackStory, NextStory

LEMMA ViewerHolds == ViewerSpec => []ViewerIInv
BY ViewerInitial, ViewerInductive, PTL DEF ViewerSpec

LEMMA ViewerPromised == ViewerIInv => StagePlaysItsOwn
<1> SUFFICES ASSUME ViewerIInv PROVE StagePlaysItsOwn
  OBVIOUS
<1>1. Current \in StoryShapes \cup {NoStory}
  BY CurrentIsStory DEF ViewerIInv, ViewerShape, ViewerTypeOK
<1>2. OnLive => Current = NoStory
  BY DEF Current
<1>3. track \in {0, visit} /\ (playing # 0 => OnLive \/ Current.visual = "video")
      /\ (playing \in {0, visit} \/ (screen = "native" /\ (importLost \/ Load(visit) \in loads)))
  BY DEF ViewerIInv, SoundsAsStory, PlaysOwnVideo
<1>4. playing # 0 /\ ~muted /\ track # 0 => Current.mode = "OVERLAY"
  <2>1. SUFFICES ASSUME playing # 0, ~muted, track # 0 PROVE Current.mode = "OVERLAY"
    OBVIOUS
  <2>2. Current.added /\ (Current.visual = "image" \/ Current.mode # "KEEP")
    BY <2>1 DEF ViewerIInv, SoundsAsStory, playsAddedAudio
  <2>3. Current # NoStory /\ ~OnLive
    BY <1>2, <2>2 DEF NoStory
  <2>4. Current.visual = "video"
    BY <1>3, <2>1, <2>3
  <2>5. Current.mode # "MUTE"
    BY <2>1, <2>4 DEF ViewerIInv, SoundsAsStory, mutesOriginalAudio
  <2> QED BY <1>1, <2>2, <2>3, <2>4, <2>5 DEF StoryShapes
<1>5. WaitingAsksOn
  <2>1. \A p : Cardinality({p}) = 1
    BY FS_Singleton
  <2>2. Cardinality({}) = 0
    BY FS_EmptySet
  <2> QED BY <2>1, <2>2 DEF ViewerIInv, AskedOnce, Asking, WaitsForPlaylist, WaitingAsksOn
<1> QED BY <1>3, <1>4, <1>5 DEF StagePlaysItsOwn, PlaysWhatIsShown

(* The stage in view plays its own, however late an import, a request or a     *)
(* refusal comes (presence-viewer.tsx:78-121, 271-338).                        *)
THEOREM StagesPlayTheirOwn == ViewerSpec => []StagePlaysItsOwn
BY ViewerHolds, ViewerPromised, PTL

-----------------------------------------------------------------------------
(* The page that goes live. *)

\* A camera that a run offers is its own and not yet the page's, whatever runs meet; while
\* none ever met, a run holds what the page does not; and where a run that is alone is says
\* what the page shows and, as far as the page was told, what the server has.

CastRow == [kind: {"none", "restore", "goLive", "stop"}, live: BOOLEAN,
            step: {"idle", "ask", "create", "answer", "camera", "offer", "undo"},
            camera: 0..MaxStreams, here: BOOLEAN]
Offering(s) == casts[s].step = "offer"
Busy(s) == casts[s].step # "idle"

CastShape == CastTypeOK /\ \A s \in Slots : ~Busy(s) => casts[s] = CastIdle

CamerasApart ==
  /\ \A s \in Slots : Offering(s) => /\ casts[s].camera \in streams
                                     /\ casts[s].camera # closePublish
  /\ \A s, t \in Slots :
       Offering(s) /\ Offering(t) /\ casts[s].camera = casts[t].camera => s = t
  /\ \A s \in Slots : casts[s].step \in {"ask", "create", "answer", "camera"} => casts[s].camera = 0

LoneRunIsHere ==
  /\ met => everMet
  /\ ~met => /\ \A s, t \in Slots : Busy(s) /\ Busy(t) => s = t
             /\ \A s \in Slots : casts[s].here

LoneRunHolds ==
  /\ ~everMet => \A c \in streams : c = closePublish \/ \E s \in Slots : Offering(s) /\ casts[s].camera = c
  /\ ~met => \A s \in Slots : casts[s].step \in {"camera", "offer"} => closePublish = 0

\* What the page shows and sends at each step of a run that is alone.
Shown(c) ==
  /\ c.kind = "restore" /\ c.step \in {"ask", "create", "answer"} => ~shownLive /\ closePublish = 0
  /\ c.kind = "restore" /\ c.step \in {"camera", "offer"} => shownLive
  /\ c.kind = "goLive" /\ c.step \in {"ask", "create", "answer"} => ~shownLive /\ closePublish = 0
  /\ c.step = "undo" => closePublish = 0
  /\ c.kind = "stop" => closePublish = 0 /\ (c.step # "answer" => shownLive)
RestShown == closePublish # 0 => shownLive

\* What the server then has, when the page was told.
Told(c) ==
  /\ c.kind = "restore" /\ c.step = "answer" => (c.live <=> onAir > 0)
  /\ c.kind = "restore" /\ c.step \in {"camera", "offer"} => onAir > 0
  /\ c.kind = "goLive" /\ c.step \in {"ask", "create"} => onAir = 0
  /\ c.kind = "goLive" /\ c.step \in {"answer", "camera", "offer"} => onAir > 0
  /\ c.kind = "stop" /\ c.step # "answer" => onAir > 0
  /\ c.kind = "stop" /\ c.step = "answer" => onAir = 0
RestTold == shownLive <=> onAir > 0

LoneRunTells ==
  ~met => /\ \A s \in Slots : Shown(casts[s]) /\ (~untold => Told(casts[s]))
          /\ (\A s \in Slots : ~Busy(s)) => RestShown /\ (~untold => RestTold)

CastIInv == CastShape /\ CamerasApart /\ LoneRunIsHere /\ LoneRunHolds /\ LoneRunTells

LEMMA CastIdleIsTyped ==
  /\ CastIdle \in CastRow /\ CastIdle.step = "idle" /\ CastIdle.here = TRUE
  /\ Shown(CastIdle) /\ Told(CastIdle)
BY BroadcastAssumption DEF CastIdle, CastRow, Shown, Told

LEMMA CastInitial == CastInit => CastIInv
<1> SUFFICES ASSUME CastInit PROVE CastIInv
  OBVIOUS
<1> USE BroadcastAssumption
<1>1. \A s \in Slots : casts[s] = CastIdle
  BY DEF CastInit
<1>2. CastTypeOK
  <2>1. casts \in [Slots -> CastRow]
    BY CastIdleIsTyped DEF CastInit
  <2>2. {ingest, shownLive, castBusy, met, everMet, untold} \subseteq BOOLEAN /\ onAir \in Nat
    BY DEF CastInit
  <2>3. opened \in 0..MaxStreams /\ streams \subseteq 1..opened /\ closePublish \in {0} \cup streams
    BY DEF CastInit
  <2> QED BY <2>1, <2>2, <2>3 DEF CastTypeOK, CastRow
<1>3. \A s \in Slots : casts[s].step = "idle" /\ casts[s].here /\ Shown(casts[s]) /\ Told(casts[s])
  BY <1>1, CastIdleIsTyped
<1>4. CamerasApart /\ LoneRunIsHere /\ LoneRunHolds
  BY <1>3 DEF CastInit, CamerasApart, LoneRunIsHere, LoneRunHolds, Offering, Busy
<1>5. LoneRunTells
  BY <1>3 DEF CastInit, LoneRunTells, RestShown, RestTold
<1> QED BY <1>1, <1>2, <1>4, <1>5 DEF CastIInv, CastShape

\* A run's step leaves the other runs; each case below says what the run becomes.
LEMMA CastMoves ==
  ASSUME CastIInv, NEW s \in Slots
  PROVE  /\ casts[s] \in CastRow
         /\ \A row \in CastRow : casts' = [casts EXCEPT ![s] = row] =>
              /\ casts' \in [Slots -> CastRow] /\ casts'[s] = row
              /\ \A t \in Slots : t # s => casts'[t] = casts[t]
<1>1. casts \in [Slots -> CastRow]
  BY DEF CastIInv, CastShape, CastTypeOK, CastRow
<1> QED BY <1>1

\* The two ways a run ends or goes on, as one row.
LEMMA CastRows ==
  ASSUME CastIInv, NEW s \in Slots
  PROVE  /\ CastEnds(s) => casts' = [casts EXCEPT ![s] = CastIdle]
         /\ \A step \in {"create", "answer", "camera", "undo"} : CastGoTo(s, step) =>
              \E row \in CastRow :
                /\ casts' = [casts EXCEPT ![s] = row]
                /\ row.step = step /\ row.kind = casts[s].kind /\ row.camera = casts[s].camera
                /\ row.here = casts[s].here /\ row.live = casts[s].live
<1>1. casts[s] \in CastRow
  BY CastMoves
<1>2. ASSUME NEW step \in {"create", "answer", "camera", "undo"}, CastGoTo(s, step)
      PROVE  \E row \in CastRow :
                /\ casts' = [casts EXCEPT ![s] = row]
                /\ row.step = step /\ row.kind = casts[s].kind /\ row.camera = casts[s].camera
                /\ row.here = casts[s].here /\ row.live = casts[s].live
  <2>1. casts' = [casts EXCEPT ![s] = [casts[s] EXCEPT !.step = step]]
    BY <1>2 DEF CastGoTo
  <2>2. [casts[s] EXCEPT !.step = step] \in CastRow
    BY <1>1 DEF CastRow
  <2>3. /\ [casts[s] EXCEPT !.step = step].step = step
        /\ [casts[s] EXCEPT !.step = step].kind = casts[s].kind
        /\ [casts[s] EXCEPT !.step = step].camera = casts[s].camera
        /\ [casts[s] EXCEPT !.step = step].here = casts[s].here
        /\ [casts[s] EXCEPT !.step = step].live = casts[s].live
    BY <1>1 DEF CastRow
  <2> QED BY <2>1, <2>2, <2>3
<1> QED BY <1>2 DEF CastEnds

TypedStep == onAir' \in Nat /\ shownLive' \in BOOLEAN /\ castBusy' \in BOOLEAN /\ untold' \in BOOLEAN
ShownStep(row) == Shown(row)' /\ (row.step = "idle" => RestShown')
ToldStep(row) == Told(row)' /\ (row.step = "idle" => RestTold')
CameraStep(s, row) ==
  /\ opened' \in 0..MaxStreams /\ streams' \subseteq 1..opened' /\ closePublish' \in {0} \cup streams'
  /\ \A t \in Slots : t # s /\ Offering(t) =>
       /\ casts[t].camera \in streams' /\ casts[t].camera # closePublish'
       /\ row.step = "offer" => casts[t].camera # row.camera
  /\ row.step = "offer" => row.camera \in streams' /\ row.camera # closePublish'
  /\ row.step \in {"ask", "create", "answer", "camera"} => row.camera = 0
  /\ ~everMet => \A c \in streams' : c = closePublish' \/ (row.step = "offer" /\ c = row.camera)
  /\ ~met /\ row.step \in {"camera", "offer"} => closePublish' = 0

\* What a step of a run has to show: the cameras stay apart, and a run that is alone holds
\* and tells what it did.
LEMMA RunSteps ==
  ASSUME CastIInv, NEW s \in Slots, NEW row \in CastRow, Busy(s),
         casts' = [casts EXCEPT ![s] = row],
         row.step = "idle" => row = CastIdle, casts[s].here => row.here,
         ingest' = ingest, met' = met, everMet' = everMet, TypedStep, CameraStep(s, row),
         ~met => ShownStep(row), ~met /\ ~untold' => ToldStep(row)
  PROVE  CastIInv'
<1>1. /\ casts' \in [Slots -> CastRow] /\ casts'[s] = row
      /\ \A t \in Slots : t # s => casts'[t] = casts[t]
  BY CastMoves
<1>2. CastShape'
  <2>1. {ingest', shownLive', castBusy', met', everMet', untold'} \subseteq BOOLEAN /\ onAir' \in Nat
    BY DEF CastIInv, CastShape, CastTypeOK, TypedStep
  <2>2. CastTypeOK'
    BY <1>1, <2>1 DEF CastTypeOK, CastRow, CameraStep
  <2>3. \A t \in Slots : ~Busy(t)' => casts'[t] = CastIdle
    BY <1>1 DEF CastIInv, CastShape, Busy
  <2> QED BY <2>2, <2>3 DEF CastShape
<1>3. CamerasApart'
  <2>1. \A t \in Slots : t # s => casts'[t] = casts[t] /\ (Offering(t)' <=> Offering(t))
    BY <1>1 DEF Offering
  <2>2. \A t \in Slots : Offering(t)' => casts'[t].camera \in streams' /\ casts'[t].camera # closePublish'
    BY <1>1, <2>1 DEF Offering, CameraStep
  <2>3. ASSUME NEW t \in Slots, NEW u \in Slots, Offering(t)', Offering(u)',
               casts'[t].camera = casts'[u].camera
        PROVE  t = u
    <3>1. CASE t # s /\ u # s
      BY <2>1, <2>3, <3>1 DEF CastIInv, CamerasApart
    <3>2. CASE t = s \/ u = s
      BY <1>1, <2>1, <2>3, <3>2 DEF Offering, CameraStep
    <3> QED BY <3>1, <3>2
  <2>4. \A t \in Slots : casts'[t].step \in {"ask", "create", "answer", "camera"} => casts'[t].camera = 0
    BY <1>1 DEF CastIInv, CamerasApart, CameraStep
  <2> QED BY <2>2, <2>3, <2>4 DEF CamerasApart
<1>4. ~met => \A t \in Slots : t # s => casts'[t] = CastIdle /\ casts'[t].step = "idle"
  BY <1>1, CastIdleIsTyped DEF CastIInv, LoneRunIsHere, CastShape, Busy
<1>5. LoneRunIsHere'
  BY <1>1, <1>4, CastIdleIsTyped DEF CastIInv, LoneRunIsHere, Busy
<1>6. LoneRunHolds'
  <2>1. ~everMet => ~met
    BY DEF CastIInv, LoneRunIsHere
  <2> QED BY <1>1, <1>4, <2>1 DEF LoneRunHolds, Offering, CameraStep
<1>7. LoneRunTells'
  <2>1. SUFFICES ASSUME ~met PROVE LoneRunTells'
    BY DEF LoneRunTells
  <2>2. \A t \in Slots : t # s => Shown(casts[t])' /\ Told(casts[t])'
    BY <1>4, <2>1, CastIdleIsTyped DEF CastIdle, Shown, Told
  <2>3. Shown(casts[s])' /\ (~untold' => Told(casts[s])')
    BY <1>1, <2>1 DEF Shown, Told, ShownStep, ToldStep
  <2>4. (\A t \in Slots : ~Busy(t)') => RestShown' /\ (~untold' => RestTold')
    BY <1>1, <2>1 DEF Busy, ShownStep, ToldStep
  <2> QED BY <2>2, <2>3, <2>4 DEF LoneRunTells
<1> QED BY <1>2, <1>3, <1>5, <1>6, <1>7 DEF CastIInv

\* What is known of a run before its step.
LEMMA RunBefore ==
  ASSUME CastIInv, NEW s \in Slots, Busy(s)
  PROVE  /\ ingest \in BOOLEAN /\ onAir \in Nat /\ shownLive \in BOOLEAN
         /\ castBusy \in BOOLEAN /\ met \in BOOLEAN /\ everMet \in BOOLEAN /\ untold \in BOOLEAN
         /\ opened \in 0..MaxStreams /\ streams \subseteq 1..opened /\ closePublish \in {0} \cup streams
         /\ 0 \notin streams
         /\ \A t \in Slots : t # s /\ Offering(t) =>
              /\ casts[t].camera \in streams /\ casts[t].camera # closePublish
              /\ Offering(s) => casts[t].camera # casts[s].camera
         /\ Offering(s) => casts[s].camera \in streams /\ casts[s].camera # closePublish
         /\ casts[s].step \in {"ask", "create", "answer", "camera"} => casts[s].camera = 0
         /\ ~everMet => /\ ~met
                        /\ \A c \in streams : c = closePublish \/ (Offering(s) /\ c = casts[s].camera)
         /\ ~met => /\ casts[s].here /\ Shown(casts[s])
                    /\ casts[s].step \in {"camera", "offer"} => closePublish = 0
         /\ ~met /\ ~untold => Told(casts[s])
<1>1. /\ ingest \in BOOLEAN /\ onAir \in Nat /\ shownLive \in BOOLEAN
      /\ castBusy \in BOOLEAN /\ met \in BOOLEAN /\ everMet \in BOOLEAN /\ untold \in BOOLEAN
      /\ opened \in 0..MaxStreams /\ streams \subseteq 1..opened /\ closePublish \in {0} \cup streams
      /\ 0 \notin streams
  BY BroadcastAssumption DEF CastIInv, CastShape, CastTypeOK
<1>2. /\ \A t \in Slots : t # s /\ Offering(t) =>
              /\ casts[t].camera \in streams /\ casts[t].camera # closePublish
              /\ Offering(s) => casts[t].camera # casts[s].camera
      /\ Offering(s) => casts[s].camera \in streams /\ casts[s].camera # closePublish
      /\ casts[s].step \in {"ask", "create", "answer", "camera"} => casts[s].camera = 0
  BY DEF CastIInv, CamerasApart
<1>3. ~everMet => ~met
  BY DEF CastIInv, LoneRunIsHere
<1>4. ~everMet => \A c \in streams : c = closePublish \/ (Offering(s) /\ c = casts[s].camera)
  BY <1>3 DEF CastIInv, LoneRunHolds, LoneRunIsHere, Offering, Busy
<1>5. ~met => /\ casts[s].here /\ Shown(casts[s])
              /\ casts[s].step \in {"camera", "offer"} => closePublish = 0
  BY DEF CastIInv, LoneRunHolds, LoneRunIsHere, LoneRunTells
<1>6. ~met /\ ~untold => Told(casts[s])
  BY DEF CastIInv, LoneRunTells
<1> QED BY <1>1, <1>2, <1>3, <1>4, <1>5, <1>6

\* The cameras of a step that leaves them, or that turns the page's off.
LEMMA CamerasLeft ==
  ASSUME CastIInv, NEW s \in Slots, Busy(s), NEW row \in CastRow, ~Offering(s), row.step # "offer",
         row.step \in {"ask", "create", "answer", "camera"} => row.camera = 0,
         opened' = opened,
         \/ /\ streams' = streams /\ closePublish' = closePublish
            /\ ~met /\ row.step = "camera" => closePublish = 0
         \/ streams' = streams \ {closePublish} /\ closePublish' = 0
  PROVE  CameraStep(s, row)
<1>1. /\ opened' \in 0..MaxStreams /\ streams' \subseteq 1..opened' /\ closePublish' \in {0} \cup streams'
  BY RunBefore
<1>2. ASSUME NEW t \in Slots, t # s, Offering(t)
      PROVE  casts[t].camera \in streams' /\ casts[t].camera # closePublish'
  BY <1>2, RunBefore
<1>3. /\ ~everMet => \A c \in streams' : c = closePublish'
      /\ ~met /\ row.step = "camera" => closePublish' = 0
  BY RunBefore
<1> QED BY <1>1, <1>2, <1>3 DEF CameraStep

LEMMA RestoreKeepsCast ==
  ASSUME CastIInv, NEW s \in Slots, GetMyLive(s) \/ RestoreLive(s) PROVE CastIInv'
<1>0. casts[s].kind = "restore" /\ casts[s].step \in {"ask", "answer"} /\ Busy(s) /\ casts[s] \in CastRow
  BY CastMoves DEF GetMyLive, RestoreLive, CastAt, Busy
<1>1. CASE GetMyLive(s)
  <2>1. [casts[s] EXCEPT !.step = "answer", !.live = onAir > 0] \in CastRow
    <3>1. (onAir > 0) \in BOOLEAN
      OBVIOUS
    <3>2. \A there \in BOOLEAN : [casts[s] EXCEPT !.step = "answer", !.live = there] \in CastRow
      BY <1>0 DEF CastRow
    <3> QED BY <3>1, <3>2
  <2>2. casts[s].step = "ask" /\ casts' = [casts EXCEPT ![s] = [casts[s] EXCEPT !.step = "answer", !.live = onAir > 0]]
    BY <1>1 DEF GetMyLive, CastAt
  <2>5. PICK row \in CastRow :
          /\ casts' = [casts EXCEPT ![s] = row]
          /\ row.step = "answer" /\ (row.live <=> onAir > 0) /\ row.kind = "restore"
          /\ row.camera = casts[s].camera /\ row.here = casts[s].here
    BY <1>0, <2>1, <2>2 DEF CastRow
  <2>3. /\ UNCHANGED <<ingest, onAir, shownLive, castBusy, streams, opened, closePublish, met, everMet>>
        /\ untold' = (onAir > 1)
    BY <1>1 DEF GetMyLive, ServedLatest
  <2>4. (~met => ShownStep(row)) /\ (~met /\ ~untold' => ToldStep(row))
    BY <1>0, <2>2, <2>3, <2>5, RunBefore DEF Shown, Told, ShownStep, ToldStep
  <2>7. TypedStep
    BY <2>3, <1>0, RunBefore DEF TypedStep
  <2>8. CameraStep(s, row)
    BY <1>0, <2>2, <2>3, <2>5, RunBefore, CamerasLeft DEF Offering
  <2> QED BY <1>0, <2>3, <2>4, <2>5, <2>7, <2>8, RunSteps
<1>2. CASE RestoreLive(s)
  <2>1. casts[s].step = "answer" /\ UNCHANGED <<ingest, onAir, castBusy, opened, met, everMet, untold>>
    BY <1>2 DEF RestoreLive, CastAt
  <2>2. CASE ~casts[s].here \/ ~casts[s].live
    <3>1. casts' = [casts EXCEPT ![s] = CastIdle] /\ UNCHANGED <<shownLive, streams, closePublish>>
      BY <1>2, <2>2, CastRows DEF RestoreLive
    <3>2. (~met => ShownStep(CastIdle)) /\ (~met /\ ~untold' => ToldStep(CastIdle))
      BY <1>0, <2>1, <2>2, <3>1, RunBefore, CastIdleIsTyped DEF Shown, Told, RestShown, RestTold, ShownStep, ToldStep
    <3>7. TypedStep
      BY <1>0, <2>1, <3>1, <3>2, RunBefore DEF TypedStep
    <3>8. CameraStep(s, CastIdle)
      BY <1>0, <2>1, <3>1, <3>2, RunBefore, CamerasLeft, CastIdleIsTyped DEF Offering
    <3> QED BY <1>0, <2>1, <3>1, <3>2, <3>7, <3>8, RunSteps, CastIdleIsTyped
  <2>3. CASE casts[s].here /\ casts[s].live /\ ~ingest
    <3>1. /\ casts' = [casts EXCEPT ![s] = CastIdle] /\ UNCHANGED <<streams, closePublish>>
          /\ shownLive' = TRUE
      BY <1>2, <2>3, CastRows DEF RestoreLive
    <3>2. (~met => ShownStep(CastIdle)) /\ (~met /\ ~untold' => ToldStep(CastIdle))
      BY <1>0, <2>1, <2>3, <3>1, RunBefore, CastIdleIsTyped DEF Shown, Told, RestShown, RestTold, ShownStep, ToldStep
    <3>7. TypedStep
      BY <1>0, <2>1, <3>1, <3>2, RunBefore DEF TypedStep
    <3>8. CameraStep(s, CastIdle)
      BY <1>0, <2>1, <3>1, <3>2, RunBefore, CamerasLeft, CastIdleIsTyped DEF Offering
    <3> QED BY <1>0, <2>1, <3>1, <3>2, <3>7, <3>8, RunSteps, CastIdleIsTyped
  <2>4. CASE casts[s].here /\ casts[s].live /\ ingest
    <3>1. /\ CastGoTo(s, "camera") /\ shownLive' = TRUE
          /\ streams' = streams \ {closePublish} /\ closePublish' = 0
      BY <1>2, <2>4 DEF RestoreLive, ReleaseCamera
    <3>2. PICK row \in CastRow :
                /\ casts' = [casts EXCEPT ![s] = row]
                /\ row.step = "camera" /\ row.kind = "restore" /\ row.camera = casts[s].camera
                /\ row.here = casts[s].here /\ row.live = casts[s].live
      BY <1>0, <3>1, CastRows
    <3>3. (~met => ShownStep(row)) /\ (~met /\ ~untold' => ToldStep(row))
      BY <1>0, <2>1, <2>4, <3>1, <3>2, RunBefore DEF Shown, Told, ShownStep, ToldStep
    <3>7. TypedStep
      BY <1>0, <2>1, <3>1, <3>2, <3>3, RunBefore DEF TypedStep
    <3>8. CameraStep(s, row)
      BY <1>0, <2>1, <3>1, <3>2, <3>3, RunBefore, CamerasLeft DEF Offering
    <3> QED BY <1>0, <2>1, <3>1, <3>2, <3>3, <3>7, <3>8, RunSteps
  <2> QED BY <2>2, <2>3, <2>4
<1> QED BY <1>1, <1>2

LEMMA StartKeepsCast ==
  ASSUME CastIInv, NEW s \in Slots, StartLive(s) \/ CreateLive(s) \/ Started(s) PROVE CastIInv'
<1>0. /\ casts[s].kind = "goLive" /\ casts[s].step \in {"ask", "create", "answer"}
      /\ Busy(s) /\ casts[s] \in CastRow
  BY CastMoves DEF StartLive, CreateLive, Started, CastAt, Busy
<1>1. CASE StartLive(s)
  <2>1. /\ casts[s].step = "ask" /\ CastGoTo(s, "create") /\ onAir' = 0 /\ untold' = FALSE
        /\ UNCHANGED <<ingest, shownLive, castBusy, streams, opened, closePublish, met, everMet>>
    BY <1>1 DEF StartLive, CastAt
  <2>2. PICK row \in CastRow :
                /\ casts' = [casts EXCEPT ![s] = row]
                /\ row.step = "create" /\ row.kind = "goLive" /\ row.camera = casts[s].camera
                /\ row.here = casts[s].here /\ row.live = casts[s].live
    BY <1>0, <2>1, CastRows
  <2>3. (~met => ShownStep(row)) /\ ToldStep(row)
    BY <1>0, <2>1, <2>2, RunBefore DEF Shown, Told, ShownStep, ToldStep
  <2>7. TypedStep
    BY <1>0, <2>1, <2>2, <2>3, RunBefore DEF TypedStep
  <2>8. CameraStep(s, row)
    BY <1>0, <2>1, <2>2, <2>3, RunBefore, CamerasLeft DEF Offering
  <2> QED BY <1>0, <2>1, <2>2, <2>3, <2>7, <2>8, RunSteps
<1>3. CASE CreateLive(s)
  <2>1. /\ casts[s].step = "create" /\ CastGoTo(s, "answer") /\ onAir' = onAir + 1
        /\ UNCHANGED <<ingest, shownLive, castBusy, streams, opened, closePublish, met, everMet, untold>>
    BY <1>3 DEF CreateLive, CastAt
  <2>2. PICK row \in CastRow :
                /\ casts' = [casts EXCEPT ![s] = row]
                /\ row.step = "answer" /\ row.kind = "goLive" /\ row.camera = casts[s].camera
                /\ row.here = casts[s].here /\ row.live = casts[s].live
    BY <1>0, <2>1, CastRows
  <2>3. (~met => ShownStep(row)) /\ (~met /\ ~untold' => ToldStep(row))
    BY <1>0, <2>1, <2>2, RunBefore DEF Shown, Told, ShownStep, ToldStep
  <2>7. TypedStep
    BY <1>0, <2>1, <2>2, <2>3, RunBefore DEF TypedStep
  <2>8. CameraStep(s, row)
    BY <1>0, <2>1, <2>2, <2>3, RunBefore, CamerasLeft DEF Offering
  <2> QED BY <1>0, <2>1, <2>2, <2>3, <2>7, <2>8, RunSteps
<1>2. CASE Started(s)
  <2>1. casts[s].step = "answer" /\ UNCHANGED <<ingest, onAir, opened, met, everMet, untold>>
    BY <1>2 DEF Started, CastAt
  <2>2. CASE ingest
    <3>1. /\ CastGoTo(s, "camera") /\ UNCHANGED <<shownLive, castBusy>>
          /\ IF casts[s].here THEN streams' = streams \ {closePublish} /\ closePublish' = 0
             ELSE UNCHANGED <<streams, closePublish>>
      BY <1>2, <2>2 DEF Started, ReleaseCamera
    <3>2. PICK row \in CastRow :
                /\ casts' = [casts EXCEPT ![s] = row]
                /\ row.step = "camera" /\ row.kind = "goLive" /\ row.camera = casts[s].camera
                /\ row.here = casts[s].here /\ row.live = casts[s].live
      BY <1>0, <3>1, CastRows
    <3>3. (~met => ShownStep(row)) /\ (~met /\ ~untold' => ToldStep(row))
      BY <1>0, <2>1, <3>1, <3>2, RunBefore DEF Shown, Told, ShownStep, ToldStep
    <3>7. TypedStep
      BY <1>0, <2>1, <3>1, <3>2, <3>3, RunBefore DEF TypedStep
    <3>8. CameraStep(s, row)
      BY <1>0, <2>1, <3>1, <3>2, <3>3, RunBefore, CamerasLeft DEF Offering
    <3> QED BY <1>0, <2>1, <3>1, <3>2, <3>3, <3>7, <3>8, RunSteps
  <2>3. CASE ~ingest
    <3>1. /\ casts' = [casts EXCEPT ![s] = CastIdle] /\ UNCHANGED <<streams, closePublish>>
          /\ OnPage(s, TRUE, FALSE)
      BY <1>2, <2>3, CastRows DEF Started
    <3>2. shownLive' \in BOOLEAN /\ castBusy' \in BOOLEAN
      BY <1>0, <3>1, RunBefore DEF OnPage
    <3>3. (~met => ShownStep(CastIdle)) /\ (~met /\ ~untold' => ToldStep(CastIdle))
      BY <1>0, <2>1, <2>3, <3>1, RunBefore, CastIdleIsTyped DEF Shown, Told, RestShown, RestTold, ShownStep, ToldStep, OnPage
    <3>7. TypedStep
      BY <1>0, <2>1, <3>1, <3>2, <3>3, RunBefore DEF TypedStep
    <3>8. CameraStep(s, CastIdle)
      BY <1>0, <2>1, <3>1, <3>2, <3>3, RunBefore, CamerasLeft, CastIdleIsTyped DEF Offering
    <3> QED BY <1>0, <2>1, <3>1, <3>2, <3>3, <3>7, <3>8, RunSteps, CastIdleIsTyped
  <2> QED BY <2>2, <2>3
<1> QED BY <1>1, <1>2, <1>3

LEMMA CameraKeepsCast ==
  ASSUME CastIInv, NEW s \in Slots, OpenCamera(s) \/ PublishWhip(s) PROVE CastIInv'
<1>0. /\ casts[s].kind \in {"restore", "goLive"}
      /\ casts[s].step \in {"camera", "offer"} /\ Busy(s) /\ casts[s] \in CastRow
  BY CastMoves DEF OpenCamera, PublishWhip, CastAt, Busy
<1>1. CASE OpenCamera(s)
  <2>1. /\ casts[s].step = "camera" /\ opened < MaxStreams /\ opened' = opened + 1
        /\ streams' = streams \cup {opened'}
        /\ casts' = [casts EXCEPT ![s] = [casts[s] EXCEPT !.step = "offer", !.camera = opened']]
        /\ UNCHANGED <<ingest, onAir, shownLive, castBusy, closePublish, met, everMet, untold>>
    BY <1>1 DEF OpenCamera, CastAt
  <2>2. /\ opened \in Nat /\ opened' \in 0..MaxStreams /\ opened' \notin streams
        /\ opened' # closePublish /\ streams' \subseteq 1..opened'
    BY <1>0, <2>1, RunBefore, BroadcastAssumption
  <2>3. PICK row \in CastRow :
          /\ casts' = [casts EXCEPT ![s] = row]
          /\ row.step = "offer" /\ row.kind = casts[s].kind
          /\ row.camera = opened' /\ row.here = casts[s].here
    <3>1. [casts[s] EXCEPT !.step = "offer", !.camera = opened'] \in CastRow
      BY <1>0, <2>2 DEF CastRow
    <3>2. /\ [casts[s] EXCEPT !.step = "offer", !.camera = opened'].step = "offer"
          /\ [casts[s] EXCEPT !.step = "offer", !.camera = opened'].kind = casts[s].kind
          /\ [casts[s] EXCEPT !.step = "offer", !.camera = opened'].camera = opened'
          /\ [casts[s] EXCEPT !.step = "offer", !.camera = opened'].here = casts[s].here
      BY <1>0 DEF CastRow
    <3> QED BY <2>1, <3>1, <3>2
  <2>4. (~met => ShownStep(row)) /\ (~met /\ ~untold' => ToldStep(row))
    BY <1>0, <2>1, <2>3, RunBefore DEF Shown, Told, ShownStep, ToldStep
  <2>7. TypedStep
    BY <1>0, <2>1, RunBefore DEF TypedStep
  <2>8. CameraStep(s, row)
    <3>1. closePublish' \in {0} \cup streams'
      BY <1>0, <2>1, RunBefore
    <3>2. ASSUME NEW t \in Slots, t # s, Offering(t)
          PROVE  /\ casts[t].camera \in streams' /\ casts[t].camera # closePublish'
                 /\ casts[t].camera # row.camera
      BY <1>0, <2>1, <2>2, <2>3, <3>2, RunBefore
    <3>3. row.camera \in streams' /\ row.camera # closePublish'
      BY <2>1, <2>2, <2>3
    <3>4. /\ ~everMet => \A c \in streams' : c = closePublish' \/ c = row.camera
          /\ ~met => closePublish' = 0
      BY <1>0, <2>1, <2>3, RunBefore DEF Offering
    <3> QED BY <2>2, <2>3, <3>1, <3>2, <3>3, <3>4 DEF CameraStep
  <2> QED BY <1>0, <2>1, <2>3, <2>4, <2>7, <2>8, RunSteps
<1>2. CASE PublishWhip(s)
  <2>1. /\ casts[s].step = "offer" /\ UNCHANGED <<ingest, onAir, streams, opened, met, everMet, untold>>
        /\ closePublish' = IF casts[s].here THEN casts[s].camera ELSE closePublish
        /\ casts' = [casts EXCEPT ![s] = CastIdle]
        /\ IF casts[s].kind = "goLive" THEN OnPage(s, TRUE, FALSE) ELSE UNCHANGED <<shownLive, castBusy>>
    BY <1>2, CastRows DEF PublishWhip, CastAt
  <2>2. shownLive' \in BOOLEAN /\ castBusy' \in BOOLEAN
    BY <1>0, <2>1, RunBefore DEF OnPage
  <2>3. (~met => ShownStep(CastIdle)) /\ (~met /\ ~untold' => ToldStep(CastIdle))
    <3>1. Shown(CastIdle)' /\ Told(CastIdle)'
      BY CastIdleIsTyped DEF CastIdle, Shown, Told
    <3>2. ~met => shownLive' = TRUE
      BY <1>0, <2>1, RunBefore DEF Shown, OnPage
    <3>3. ~met /\ ~untold' => onAir' > 0
      BY <1>0, <2>1, RunBefore DEF Told
    <3> QED BY <3>1, <3>2, <3>3 DEF RestShown, RestTold, ShownStep, ToldStep
  <2>7. TypedStep
    BY <1>0, <2>1, <2>2, <2>3, RunBefore DEF TypedStep
  <2>8. CameraStep(s, CastIdle)
    <3>1. /\ opened' \in 0..MaxStreams /\ streams' \subseteq 1..opened'
          /\ closePublish' \in {0} \cup streams'
      BY <1>0, <2>1, RunBefore DEF Offering
    <3>2. ASSUME NEW t \in Slots, t # s, Offering(t)
          PROVE  casts[t].camera \in streams' /\ casts[t].camera # closePublish'
      BY <1>0, <2>1, <3>2, RunBefore DEF Offering
    <3>3. ~everMet => \A c \in streams' : c = closePublish'
      BY <1>0, <2>1, RunBefore DEF Offering
    <3> QED BY <3>1, <3>2, <3>3, CastIdleIsTyped DEF CameraStep
  <2> QED BY <1>0, <2>1, <2>2, <2>3, <2>7, <2>8, RunSteps, CastIdleIsTyped
<1> QED BY <1>1, <1>2

LEMMA GiveUpKeepsCast == ASSUME CastIInv, NEW s \in Slots, FailCamera(s) PROVE CastIInv'
<1> DEFINE left == streams \ {casts[s].camera}
<1>0. /\ casts[s].kind \in {"restore", "goLive"}
      /\ casts[s].step \in {"camera", "offer"} /\ Busy(s) /\ casts[s] \in CastRow
  BY CastMoves DEF FailCamera, GiveUp, CastAt, Busy
<1>1. UNCHANGED <<ingest, onAir, opened, met, everMet, untold>>
  BY DEF FailCamera, GiveUp
<1>2. CASE casts[s].kind = "restore"
  <2>1. /\ streams' = left /\ closePublish' = closePublish /\ casts' = [casts EXCEPT ![s] = CastIdle]
        /\ OnPage(s, shownLive, FALSE)
    BY <1>2, CastRows DEF FailCamera, GiveUp
  <2>2. shownLive' \in BOOLEAN /\ castBusy' \in BOOLEAN
    BY <1>0, <2>1, RunBefore DEF OnPage
  <2>3. (~met => ShownStep(CastIdle)) /\ (~met /\ ~untold' => ToldStep(CastIdle))
    BY <1>0, <1>1, <1>2, <2>1, RunBefore, CastIdleIsTyped DEF Shown, Told, RestShown, RestTold, ShownStep, ToldStep, OnPage
  <2>7. TypedStep
    BY <1>0, <1>1, <2>1, <2>2, <2>3, RunBefore DEF TypedStep
  <2>8. CameraStep(s, CastIdle)
    <3>1. /\ opened' \in 0..MaxStreams /\ streams' \subseteq 1..opened'
          /\ closePublish' \in {0} \cup streams'
      BY <1>0, <1>1, <2>1, RunBefore DEF Offering
    <3>2. ASSUME NEW t \in Slots, t # s, Offering(t)
          PROVE  casts[t].camera \in streams' /\ casts[t].camera # closePublish'
      BY <1>0, <2>1, <3>2, RunBefore DEF Offering
    <3>3. ~everMet => \A c \in streams' : c = closePublish'
      BY <1>0, <2>1, RunBefore DEF Offering
    <3> QED BY <3>1, <3>2, <3>3, CastIdleIsTyped DEF CameraStep
  <2> QED BY <1>0, <1>1, <2>1, <2>2, <2>3, <2>7, <2>8, RunSteps, CastIdleIsTyped
<1>3. CASE casts[s].kind = "goLive"
  <2>1. /\ CastGoTo(s, "undo") /\ UNCHANGED <<shownLive, castBusy>>
        /\ IF casts[s].here THEN streams' = left \ {closePublish} /\ closePublish' = 0
           ELSE streams' = left /\ closePublish' = closePublish
    BY <1>3 DEF FailCamera, GiveUp
  <2>2. PICK row \in CastRow :
                /\ casts' = [casts EXCEPT ![s] = row]
                /\ row.step = "undo" /\ row.kind = "goLive" /\ row.camera = casts[s].camera
                /\ row.here = casts[s].here /\ row.live = casts[s].live
    BY <1>3, <2>1, CastRows
  <2>3. (~met => ShownStep(row)) /\ (~met /\ ~untold' => ToldStep(row))
    BY <1>0, <1>1, <2>1, <2>2, RunBefore DEF Shown, Told, ShownStep, ToldStep
  <2>7. TypedStep
    BY <1>0, <1>1, <2>1, <2>2, <2>3, RunBefore DEF TypedStep
  <2>8. CameraStep(s, row)
    <3>1. /\ opened' \in 0..MaxStreams /\ streams' \subseteq 1..opened'
          /\ closePublish' \in {0} \cup streams'
      BY <1>0, <1>1, <2>1, RunBefore DEF Offering
    <3>2. ASSUME NEW t \in Slots, t # s, Offering(t)
          PROVE  casts[t].camera \in streams' /\ casts[t].camera # closePublish'
      BY <1>0, <2>1, <3>2, RunBefore DEF Offering
    <3>3. ~everMet => \A c \in streams' : c = closePublish'
      BY <1>0, <2>1, RunBefore DEF Offering
    <3> QED BY <2>2, <3>1, <3>2, <3>3 DEF CameraStep
  <2> QED BY <1>0, <1>1, <2>1, <2>2, <2>3, <2>7, <2>8, RunSteps
<1> QED BY <1>0, <1>2, <1>3

LEMMA EndKeepsCast ==
  ASSUME CastIInv, NEW s \in Slots, UndoLive(s) \/ EndLive(s) \/ Ended(s) PROVE CastIInv'
<1>0. /\ casts[s].kind \in {"goLive", "stop"}
      /\ casts[s].step \in {"undo", "ask", "answer"} /\ Busy(s) /\ casts[s] \in CastRow
  BY CastMoves DEF UndoLive, EndLive, Ended, CastAt, Busy
<1>1. CASE EndLive(s)
  <2>1. /\ casts[s].kind = "stop" /\ casts[s].step = "ask" /\ CastGoTo(s, "answer")
        /\ onAir > 0 /\ onAir' = onAir - 1 /\ untold' = (onAir > 1)
        /\ UNCHANGED <<ingest, shownLive, castBusy, streams, opened, closePublish, met, everMet>>
    BY <1>1 DEF EndLive, CastAt, ServedLatest
  <2>2. PICK row \in CastRow :
                /\ casts' = [casts EXCEPT ![s] = row]
                /\ row.step = "answer" /\ row.kind = "stop" /\ row.camera = casts[s].camera
                /\ row.here = casts[s].here /\ row.live = casts[s].live
    BY <2>1, CastRows
  <2>3. (~met => ShownStep(row)) /\ (~met /\ ~untold' => ToldStep(row))
    BY <1>0, <2>1, <2>2, RunBefore DEF Shown, Told, ShownStep, ToldStep
  <2>7. TypedStep
    BY <1>0, <2>1, <2>2, <2>3, RunBefore DEF TypedStep
  <2>8. CameraStep(s, row)
    BY <1>0, <2>1, <2>2, <2>3, RunBefore, CamerasLeft DEF Offering
  <2> QED BY <1>0, <2>1, <2>2, <2>3, <2>7, <2>8, RunSteps
<1>2. CASE Ended(s)
  <2>1. /\ casts[s].kind = "stop" /\ casts[s].step = "answer" /\ OnPage(s, FALSE, FALSE)
        /\ casts' = [casts EXCEPT ![s] = CastIdle]
        /\ UNCHANGED <<ingest, onAir, streams, opened, closePublish, met, everMet, untold>>
    BY <1>2, CastRows DEF Ended, CastAt
  <2>2. shownLive' \in BOOLEAN /\ castBusy' \in BOOLEAN
    BY <1>0, <2>1, RunBefore DEF OnPage
  <2>3. (~met => ShownStep(CastIdle)) /\ (~met /\ ~untold' => ToldStep(CastIdle))
    <3>1. Shown(CastIdle)' /\ Told(CastIdle)'
      BY CastIdleIsTyped DEF CastIdle, Shown, Told
    <3>2. ~met => shownLive' = FALSE /\ closePublish' = 0
      BY <1>0, <2>1, RunBefore DEF Shown, OnPage
    <3>3. ~met /\ ~untold' => onAir' = 0
      BY <1>0, <2>1, RunBefore DEF Told
    <3> QED BY <3>1, <3>2, <3>3 DEF RestShown, RestTold, ShownStep, ToldStep
  <2>7. TypedStep
    BY <1>0, <2>1, <2>2, <2>3, RunBefore DEF TypedStep
  <2>8. CameraStep(s, CastIdle)
    BY <1>0, <2>1, <2>2, <2>3, RunBefore, CamerasLeft, CastIdleIsTyped DEF Offering
  <2> QED BY <1>0, <2>1, <2>2, <2>3, <2>7, <2>8, RunSteps, CastIdleIsTyped
<1>3. CASE UndoLive(s)
  <2>1. /\ casts[s].step = "undo" /\ OnPage(s, FALSE, FALSE) /\ casts' = [casts EXCEPT ![s] = CastIdle]
        /\ UNCHANGED <<ingest, streams, opened, closePublish, met, everMet>>
    BY <1>3, CastRows DEF UndoLive, CastAt
  <2>2. shownLive' \in BOOLEAN /\ castBusy' \in BOOLEAN
    BY <1>0, <2>1, RunBefore DEF OnPage
  <2>3. \/ onAir > 0 /\ onAir' = onAir - 1 /\ untold' = (onAir > 1)
        \/ onAir' = onAir /\ untold' = (untold \/ onAir > 0)
    BY <1>3 DEF UndoLive, ServedLatest
  <2>4. onAir' \in Nat /\ untold' \in BOOLEAN /\ (~untold' => onAir' = 0)
    <3>1. onAir \in Nat
      BY <1>0, RunBefore
    <3>2. CASE onAir > 0 /\ onAir' = onAir - 1 /\ untold' = (onAir > 1)
      <4>1. ~untold' => ~(onAir > 1)
        BY <3>2
      <4>2. onAir' \in Nat /\ (~(onAir > 1) => onAir' = 0)
        BY <3>1, <3>2
      <4>3. untold' \in BOOLEAN
        BY <3>2
      <4> QED BY <4>1, <4>2, <4>3
    <3>3. CASE onAir' = onAir /\ untold' = (untold \/ onAir > 0)
      <4>1. ~untold' => ~(onAir > 0)
        BY <3>3
      <4>2. ~(onAir > 0) => onAir' = 0
        BY <3>1, <3>3
      <4>3. untold' \in BOOLEAN
        BY <3>3
      <4> QED BY <3>1, <3>3, <4>1, <4>2, <4>3
    <3> QED BY <2>3, <3>2, <3>3
  <2>5. (~met => ShownStep(CastIdle)) /\ (~met /\ ~untold' => ToldStep(CastIdle))
    <3>1. Shown(CastIdle)' /\ Told(CastIdle)'
      BY CastIdleIsTyped DEF CastIdle, Shown, Told
    <3>2. ~met => shownLive' = FALSE /\ closePublish' = 0
      BY <1>0, <2>1, RunBefore DEF Shown, OnPage
    <3> QED BY <2>4, <3>1, <3>2 DEF RestShown, RestTold, ShownStep, ToldStep
  <2>7. TypedStep
    BY <1>0, <2>1, <2>2, <2>4, <2>5, RunBefore DEF TypedStep
  <2>8. CameraStep(s, CastIdle)
    BY <1>0, <2>1, <2>2, <2>4, <2>5, RunBefore, CamerasLeft, CastIdleIsTyped DEF Offering
  <2> QED BY <1>0, <2>1, <2>2, <2>4, <2>5, <2>7, <2>8, RunSteps, CastIdleIsTyped
<1> QED BY <1>1, <1>2, <1>3

LEMMA FailKeepsCast == ASSUME CastIInv, NEW s \in Slots, FailCast(s) PROVE CastIInv'
<1>0. /\ casts[s].kind \in {"restore", "goLive", "stop"} /\ casts[s].step \in {"ask", "create", "answer"}
      /\ Busy(s) /\ casts[s] \in CastRow
  BY CastMoves DEF FailCast, CastAt, Busy
<1>1. /\ UNCHANGED <<ingest, onAir, opened, met, everMet>> /\ casts' = [casts EXCEPT ![s] = CastIdle]
      /\ IF casts[s].kind = "goLive" /\ casts[s].here
         THEN streams' = streams \ {closePublish} /\ closePublish' = 0
         ELSE UNCHANGED <<streams, closePublish>>
      /\ untold' = (untold \/ casts[s].step = "answer" \/ casts[s].kind = "restore")
  BY CastRows DEF FailCast, ReleaseCamera
<1>2. untold' \in BOOLEAN
  BY <1>0, <1>1, RunBefore
<1>3. /\ casts[s].kind = "restore" => UNCHANGED <<shownLive, castBusy>>
      /\ casts[s].kind = "goLive" => OnPage(s, FALSE, FALSE)
      /\ casts[s].kind = "stop" => OnPage(s, shownLive, FALSE)
  BY DEF FailCast
<1>4. shownLive' \in BOOLEAN /\ castBusy' \in BOOLEAN
  BY <1>0, <1>3, RunBefore DEF OnPage
<1>5. (~met => ShownStep(CastIdle)) /\ (~met /\ ~untold' => ToldStep(CastIdle))
  <2>1. Shown(CastIdle)' /\ Told(CastIdle)'
    BY CastIdleIsTyped DEF CastIdle, Shown, Told
  <2>2. ~met => closePublish' = 0
    BY <1>0, <1>1, RunBefore DEF Shown
  <2>3. ~untold' => ~untold /\ casts[s].step \in {"ask", "create"} /\ casts[s].kind \in {"goLive", "stop"}
    BY <1>0, <1>1
  <2>4. ASSUME ~met, ~untold' PROVE shownLive' <=> onAir' > 0
    <3>1. Shown(casts[s]) /\ Told(casts[s]) /\ casts[s].here /\ onAir' = onAir
      BY <1>0, <1>1, <2>3, <2>4, RunBefore
    <3>2. CASE casts[s].kind = "goLive"
      BY <1>3, <2>3, <2>4, <3>1, <3>2 DEF Told, OnPage
    <3>3. CASE casts[s].kind = "stop"
      <4>1. shownLive' = shownLive
        BY <1>3, <3>1, <3>3 DEF OnPage
      <4> QED BY <2>3, <2>4, <3>1, <3>3, <4>1 DEF Shown, Told
    <3> QED BY <2>3, <2>4, <3>2, <3>3
  <2> QED BY <2>1, <2>2, <2>4 DEF RestShown, RestTold, ShownStep, ToldStep
<1>7. TypedStep
  BY <1>0, <1>1, <1>2, <1>4, <1>5, RunBefore DEF TypedStep
<1>8. CameraStep(s, CastIdle)
  BY <1>0, <1>1, <1>2, <1>4, <1>5, RunBefore, CamerasLeft, CastIdleIsTyped DEF Offering
<1> QED BY <1>0, <1>1, <1>2, <1>4, <1>5, <1>7, <1>8, RunSteps, CastIdleIsTyped

\* A session that is ended or started elsewhere is not told to the page, which keeps what it has.
LEMMA ElsewhereKeepsCast == ASSUME CastIInv, LiveElsewhere PROVE CastIInv'
<1>1. /\ untold' = TRUE
      /\ UNCHANGED <<ingest, shownLive, castBusy, streams, opened, closePublish, casts, met, everMet>>
  BY DEF LiveElsewhere
<1>2. onAir' \in Nat
  BY DEF LiveElsewhere, CastIInv, CastShape, CastTypeOK
<1>3. CastShape'
  <2>1. {ingest', shownLive', castBusy', met', everMet', untold'} \subseteq BOOLEAN
    BY <1>1 DEF CastIInv, CastShape, CastTypeOK
  <2> QED BY <1>1, <1>2, <2>1 DEF CastIInv, CastShape, CastTypeOK, Busy
<1>4. CamerasApart' /\ LoneRunIsHere' /\ LoneRunHolds'
  BY <1>1 DEF CastIInv, CamerasApart, LoneRunIsHere, LoneRunHolds, Offering, Busy
<1>5. LoneRunTells'
  BY <1>1 DEF CastIInv, LoneRunTells, Shown, RestShown, Busy
<1> QED BY <1>3, <1>4, <1>5 DEF CastIInv

\* A run that begins is the only one, or runs meet.
LEMMA NoneRuns ==
  ASSUME CastIInv, Running = {}
  PROVE  \A s \in Slots : casts[s] = CastIdle /\ casts[s].step = "idle" /\ casts[s].here
BY CastIdleIsTyped DEF Running

LEMMA BeginKeepsCast ==
  ASSUME CastIInv, NEW s \in Slots, GoLive(s) \/ Stop(s) PROVE CastIInv'
<1> USE BroadcastAssumption
<1>0. /\ casts[s] = CastIdle /\ met' = (met \/ Running # {}) /\ castBusy' = TRUE
      /\ everMet' = (everMet \/ Running # {})
      /\ UNCHANGED <<ingest, onAir, shownLive, opened, untold>>
  BY DEF GoLive, Stop, Begin
<1>1. /\ opened \in 0..MaxStreams /\ streams \subseteq 1..opened /\ closePublish \in {0} \cup streams
      /\ {ingest, shownLive, castBusy, met, everMet, untold} \subseteq BOOLEAN /\ onAir \in Nat /\ 0 \notin streams
  BY DEF CastIInv, CastShape, CastTypeOK
<1>2. /\ GoLive(s) => ~shownLive /\ UNCHANGED <<streams, closePublish>>
      /\ Stop(s) => shownLive /\ streams' = streams \ {closePublish} /\ closePublish' = 0
  BY DEF GoLive, Stop, ReleaseCamera
<1>3. PICK what \in {"goLive", "stop"} :
         /\ casts' = [casts EXCEPT ![s] = [CastIdle EXCEPT !.kind = what, !.step = "ask"]]
         /\ what = "goLive" => GoLive(s)
         /\ what = "stop" => Stop(s)
  BY DEF GoLive, Stop, Begin
<1>4. PICK row \in CastRow : /\ casts' = [casts EXCEPT ![s] = row]
                             /\ row.kind = what /\ row.step = "ask" /\ row.camera = 0 /\ row.here
  <2>1. [CastIdle EXCEPT !.kind = what, !.step = "ask"] \in CastRow
    BY CastIdleIsTyped DEF CastRow
  <2>2. /\ [CastIdle EXCEPT !.kind = what, !.step = "ask"].kind = what
        /\ [CastIdle EXCEPT !.kind = what, !.step = "ask"].step = "ask"
        /\ [CastIdle EXCEPT !.kind = what, !.step = "ask"].camera = 0
        /\ [CastIdle EXCEPT !.kind = what, !.step = "ask"].here = TRUE
    BY DEF CastIdle
  <2> QED BY <1>3, <2>1, <2>2
<1>5. /\ casts' \in [Slots -> CastRow] /\ casts'[s] = row
      /\ \A t \in Slots : t # s => casts'[t] = casts[t]
  BY <1>4, CastMoves
<1>6. streams' \subseteq 1..opened' /\ closePublish' \in {0} \cup streams' /\ opened' \in 0..MaxStreams
  BY <1>0, <1>1, <1>2, <1>3
<1>7. CastShape'
  <2>1. met' \in BOOLEAN /\ everMet' \in BOOLEAN
    BY <1>0
  <2>2. {ingest', shownLive', castBusy', met', everMet', untold'} \subseteq BOOLEAN /\ onAir' \in Nat
    BY <1>0, <1>1, <2>1
  <2>3. CastTypeOK'
    BY <1>5, <1>6, <2>2 DEF CastTypeOK, CastRow
  <2>4. \A t \in Slots : ~Busy(t)' => casts'[t] = CastIdle
    BY <1>4, <1>5 DEF CastIInv, CastShape, Busy
  <2> QED BY <2>3, <2>4 DEF CastShape
<1>8. CamerasApart'
  <2>1. \A t \in Slots : Offering(t)' => t # s /\ Offering(t) /\ casts'[t] = casts[t]
    BY <1>4, <1>5 DEF Offering
  <2>2. ASSUME NEW t \in Slots, Offering(t)'
        PROVE  casts'[t].camera \in streams' /\ casts'[t].camera # closePublish'
    <3>1. casts[t].camera \in streams /\ casts[t].camera # closePublish
      BY <2>1, <2>2 DEF CastIInv, CamerasApart
    <3> QED BY <1>1, <1>2, <1>3, <2>1, <2>2, <3>1
  <2>3. \A t, u \in Slots : Offering(t)' /\ Offering(u)' /\ casts'[t].camera = casts'[u].camera => t = u
    BY <2>1 DEF CastIInv, CamerasApart
  <2>4. \A t \in Slots : casts'[t].step \in {"ask", "create", "answer", "camera"} => casts'[t].camera = 0
    BY <1>4, <1>5 DEF CastIInv, CamerasApart
  <2> QED BY <2>2, <2>3, <2>4 DEF CamerasApart
<1>9. ASSUME ~met'
      PROVE  /\ ~met
             /\ \A t \in Slots : casts[t] = CastIdle /\ casts[t].step = "idle" /\ casts[t].here
             /\ \A t \in Slots : t # s => casts'[t].step = "idle" /\ casts'[t].here
  <2>1. ~met /\ Running = {}
    BY <1>0, <1>1, <1>9
  <2>2. \A t \in Slots : casts[t] = CastIdle /\ casts[t].step = "idle" /\ casts[t].here
    BY <2>1, NoneRuns
  <2> QED BY <1>5, <2>1, <2>2
<1>10. LoneRunIsHere'
  <2>1. met' => everMet'
    BY <1>0 DEF CastIInv, LoneRunIsHere
  <2> QED BY <1>4, <1>5, <1>9, <2>1 DEF LoneRunIsHere, Busy
<1>11. LoneRunHolds'
  <2>1. ASSUME ~everMet' PROVE \A c \in streams' : c = closePublish'
    <3>1. ~everMet /\ Running = {}
      BY <1>0, <1>1, <2>1
    <3>2. \A c \in streams : c = closePublish
      BY <3>1, NoneRuns DEF CastIInv, LoneRunHolds, Offering
    <3> QED BY <1>2, <1>3, <3>2
  <2>2. ASSUME ~met' PROVE \A t \in Slots : casts'[t].step \notin {"camera", "offer"}
    BY <1>4, <1>5, <1>9, <2>2
  <2> QED BY <2>1, <2>2 DEF LoneRunHolds
<1>12. LoneRunTells'
  <2>1. SUFFICES ASSUME ~met' PROVE LoneRunTells'
    BY DEF LoneRunTells
  <2>2. RestShown /\ (~untold => RestTold)
    BY <1>9, <2>1 DEF CastIInv, LoneRunTells, Busy
  <2>3. Shown(casts[s])' /\ (~untold' => Told(casts[s])')
    BY <1>0, <1>1, <1>2, <1>3, <1>4, <1>5, <2>2 DEF Shown, Told, RestShown, RestTold
  <2>4. \A t \in Slots : t # s => Shown(casts[t])' /\ Told(casts[t])'
    <3>1. \A t \in Slots : t # s => casts'[t] = CastIdle
      BY <1>5, <1>9, <2>1
    <3> QED BY <3>1 DEF CastIdle, Shown, Told
  <2>5. Busy(s)'
    BY <1>4, <1>5 DEF Busy
  <2> QED BY <2>3, <2>4, <2>5 DEF LoneRunTells
<1> QED BY <1>7, <1>8, <1>10, <1>11, <1>12 DEF CastIInv

\* A page that is left turns its camera off and tells its runs that it is gone.
LEMMA LeaveKeepsCast ==
  ASSUME CastIInv, NEW s \in Slots, LeaveBroadcast(s) PROVE CastIInv'
<1> USE BroadcastAssumption
<1>0. /\ casts[s] = CastIdle /\ met' = (Running # {}) /\ castBusy' = FALSE /\ shownLive' = FALSE
      /\ everMet' = (everMet \/ Running # {})
      /\ streams' = streams \ {closePublish} /\ closePublish' = 0
      /\ UNCHANGED <<ingest, onAir, opened, untold>>
  BY DEF LeaveBroadcast, ReleaseCamera
<1>1. /\ opened \in 0..MaxStreams /\ streams \subseteq 1..opened /\ closePublish \in {0} \cup streams
      /\ {ingest, shownLive, castBusy, met, everMet, untold} \subseteq BOOLEAN /\ onAir \in Nat /\ 0 \notin streams
      /\ casts \in [Slots -> CastRow]
  BY DEF CastIInv, CastShape, CastTypeOK, CastRow
<1>2. PICK row \in CastRow : /\ row.kind = "restore" /\ row.step = "ask" /\ row.camera = 0 /\ row.here
                             /\ row = [CastIdle EXCEPT !.kind = "restore", !.step = "ask"]
  <2>1. [CastIdle EXCEPT !.kind = "restore", !.step = "ask"] \in CastRow
    BY CastIdleIsTyped DEF CastRow
  <2>2. /\ [CastIdle EXCEPT !.kind = "restore", !.step = "ask"].kind = "restore"
        /\ [CastIdle EXCEPT !.kind = "restore", !.step = "ask"].step = "ask"
        /\ [CastIdle EXCEPT !.kind = "restore", !.step = "ask"].camera = 0
        /\ [CastIdle EXCEPT !.kind = "restore", !.step = "ask"].here = TRUE
    BY DEF CastIdle
  <2> QED BY <2>1, <2>2
<1>3. casts' = [t \in Slots |-> IF t = s THEN row
                                ELSE IF casts[t] = CastIdle THEN CastIdle ELSE [casts[t] EXCEPT !.here = FALSE]]
  BY <1>2 DEF LeaveBroadcast
<1>4. ASSUME NEW t \in Slots, t # s
      PROVE  /\ casts'[t] \in CastRow /\ casts'[t].step = casts[t].step
             /\ casts'[t].camera = casts[t].camera
             /\ casts[t] = CastIdle => casts'[t] = CastIdle
  <2>1. casts[t] \in CastRow
    BY <1>1
  <2>2. CASE casts[t] = CastIdle
    BY <1>3, <1>4, <2>2, CastIdleIsTyped
  <2>3. CASE casts[t] # CastIdle
    <3>1. casts'[t] = [casts[t] EXCEPT !.here = FALSE]
      BY <1>3, <1>4, <2>3
    <3> QED BY <2>1, <2>3, <3>1 DEF CastRow
  <2> QED BY <2>2, <2>3
<1>5. casts'[s] = row /\ casts' \in [Slots -> CastRow]
  BY <1>3, <1>4
<1>6. CastShape'
  <2>1. met' \in BOOLEAN /\ everMet' \in BOOLEAN
    BY <1>0
  <2>2. {ingest', shownLive', castBusy', met', everMet', untold'} \subseteq BOOLEAN /\ onAir' \in Nat
    BY <1>0, <1>1, <2>1
  <2>3. CastTypeOK'
    <3>1. opened' \in 0..MaxStreams /\ streams' \subseteq 1..opened' /\ closePublish' \in {0} \cup streams'
      BY <1>0, <1>1
    <3> QED BY <1>5, <2>2, <3>1 DEF CastTypeOK, CastRow
  <2>4. ASSUME NEW t \in Slots, ~Busy(t)' PROVE casts'[t] = CastIdle
    <3>1. t # s
      BY <1>2, <1>5, <2>4 DEF Busy
    <3> QED BY <1>4, <2>4, <3>1 DEF CastIInv, CastShape, Busy
  <2> QED BY <2>3, <2>4 DEF CastShape
<1>7. CamerasApart'
  <2>1. \A t \in Slots : Offering(t)' => t # s /\ Offering(t) /\ casts'[t].camera = casts[t].camera
    BY <1>2, <1>4, <1>5 DEF Offering
  <2>2. ASSUME NEW t \in Slots, Offering(t)'
        PROVE  casts'[t].camera \in streams' /\ casts'[t].camera # closePublish'
    <3>1. casts[t].camera \in streams /\ casts[t].camera # closePublish
      BY <2>1, <2>2 DEF CastIInv, CamerasApart
    <3> QED BY <1>0, <1>1, <2>1, <2>2, <3>1
  <2>3. \A t, u \in Slots : Offering(t)' /\ Offering(u)' /\ casts'[t].camera = casts'[u].camera => t = u
    BY <2>1 DEF CastIInv, CamerasApart
  <2>4. \A t \in Slots : casts'[t].step \in {"ask", "create", "answer", "camera"} => casts'[t].camera = 0
    BY <1>2, <1>4, <1>5 DEF CastIInv, CamerasApart
  <2> QED BY <2>2, <2>3, <2>4 DEF CamerasApart
<1>8. ASSUME Running = {}
      PROVE  /\ \A t \in Slots : casts[t] = CastIdle /\ casts[t].step = "idle"
             /\ \A t \in Slots : t # s => casts'[t] = CastIdle /\ casts'[t].step = "idle" /\ casts'[t].here
  <2>1. \A t \in Slots : casts[t] = CastIdle /\ casts[t].step = "idle" /\ casts[t].here
    BY <1>8, NoneRuns
  <2> QED BY <1>4, <2>1, CastIdleIsTyped
<1>9. LoneRunIsHere'
  <2>1. met' => everMet'
    BY <1>0
  <2> QED BY <1>0, <1>2, <1>5, <1>8, <2>1 DEF LoneRunIsHere, Busy
<1>10. LoneRunHolds'
  <2>1. ASSUME ~everMet' PROVE \A c \in streams' : c = closePublish'
    <3>1. ~everMet /\ Running = {}
      BY <1>0, <1>1, <2>1
    <3>2. \A c \in streams : c = closePublish
      BY <1>8, <3>1 DEF CastIInv, LoneRunHolds, Offering
    <3> QED BY <1>0, <3>2
  <2> QED BY <1>0, <2>1 DEF LoneRunHolds
<1>11. LoneRunTells'
  <2>1. SUFFICES ASSUME ~met' PROVE LoneRunTells'
    BY DEF LoneRunTells
  <2>3. Shown(casts[s])' /\ Told(casts[s])'
    BY <1>0, <1>2, <1>5 DEF Shown, Told
  <2>4. \A t \in Slots : t # s => Shown(casts[t])' /\ Told(casts[t])'
    <3>1. \A t \in Slots : t # s => casts'[t] = CastIdle
      BY <1>0, <1>8, <2>1
    <3> QED BY <3>1 DEF CastIdle, Shown, Told
  <2>5. Busy(s)'
    BY <1>2, <1>5 DEF Busy
  <2> QED BY <2>3, <2>4, <2>5 DEF LoneRunTells
<1> QED BY <1>6, <1>7, <1>9, <1>10, <1>11 DEF CastIInv

LEMMA CastInductive == CastIInv /\ [CastNext]_castVars => CastIInv'
<1> SUFFICES ASSUME CastIInv, [CastNext]_castVars PROVE CastIInv'
  OBVIOUS
<1>1. CASE CastNext
  BY <1>1, RestoreKeepsCast, StartKeepsCast, CameraKeepsCast, GiveUpKeepsCast, EndKeepsCast,
     FailKeepsCast, BeginKeepsCast, LeaveKeepsCast, ElsewhereKeepsCast DEF CastNext
<1>2. CASE UNCHANGED castVars
  BY <1>2 DEF castVars, CastIInv, CastShape, CastTypeOK, CamerasApart, LoneRunIsHere, LoneRunHolds,
     LoneRunTells, Shown, Told, RestShown, RestTold, Offering, Busy
<1> QED BY <1>1, <1>2

LEMMA CastHolds == CastSpec => []CastIInv
BY CastInitial, CastInductive, PTL DEF CastSpec

LEMMA CastTyped == CastIInv => CastTypeOK
BY DEF CastIInv, CastShape

LEMMA CastPromised == CastIInv => BroadcastAgrees
<1> SUFFICES ASSUME CastIInv PROVE BroadcastAgrees
  OBVIOUS
<1>1. CameraIsHeld
  <2>1. SUFFICES ASSUME ~everMet, NEW c \in streams, c # closePublish
                 PROVE  c \in {casts[s].camera : s \in Running}
    BY DEF CameraIsHeld
  <2>2. PICK s \in Slots : Offering(s) /\ casts[s].camera = c
    BY <2>1 DEF CastIInv, LoneRunHolds
  <2>3. s \in Running
    BY <2>2, CastIdleIsTyped DEF Running, Offering
  <2> QED BY <2>2, <2>3
<1>2. LiveIsShown
  <2>1. SUFFICES ASSUME Running = {}, ~met
                 PROVE  (closePublish # 0 => shownLive) /\ (~untold => shownLive = (onAir > 0))
    BY DEF LiveIsShown
  <2>2. \A s \in Slots : ~Busy(s)
    BY <2>1, NoneRuns DEF Busy
  <2>3. RestShown /\ (~untold => RestTold)
    BY <2>1, <2>2 DEF CastIInv, LoneRunTells
  <2>4. shownLive \in BOOLEAN
    BY DEF CastIInv, CastShape, CastTypeOK
  <2> QED BY <2>3, <2>4 DEF RestShown, RestTold
<1> QED BY <1>1, <1>2 DEF BroadcastAgrees

\* The page that goes live and the server agree: a camera that is on can be turned off unless
\* runs ever met; a page at rest sends a camera only while it shows a live session, and shows
\* one exactly when the server has one.  Set aside are runs that met since the page was opened
\* with none out and, for what the server has, sessions that changed elsewhere and answers that
\* were lost since it last served the page (live-composer.tsx:40-112, 205-258).
THEOREM PageAgreesWithServer == CastSpec => []BroadcastAgrees
BY CastHolds, CastPromised, PTL

-----------------------------------------------------------------------------
(* The panels of the staff. *)

\* What loads a list is in flight while the panel says so; and the list is the server's, or
\* something in flight will make it so.  The acts out have room in the bound of rows.
PanelRow == [kind: {"none", "load", "act"}, step: {"idle", "out", "back"},
             filter: {"all", "some"}, tells: BOOLEAN, read: 0..MaxActs]
ActOut(c) == c.kind = "act" /\ c.step = "out"
ActsOut == {a \in Slots : ActOut(panelCalls[a])}
Weigh(c) == IF ActOut(c) THEN 1 ELSE 0
Cause(c) == c.kind = "load" \/ (c.kind = "act" /\ panel.marks)
Behind(c) == c.kind = "load" /\ c.step = "back" /\ c.read < rows
Renews(c) ==
  \/ c.kind = "load" /\ c.step = "out"
  \/ c.kind = "load" /\ c.step = "back" /\ c.read = rows
  \/ c.kind = "act" /\ c.step = "back" /\ (panel.after = "answer" => c.read = rows)
Fresh == listed = [filter |-> filter, read |-> rows]

PanelShape ==
  /\ panel \in AllPanels /\ staff \in {"unknown", "ready", "denied"}
  /\ filter \in {"all", "some"} /\ mode \in {"loading", "success", "error"}
  /\ rows \in Nat /\ presses \in 0..MaxActs
  /\ listed \in [filter: {"all", "some"}, read: -1..MaxActs]
  /\ panelCalls \in [Slots -> PanelRow] /\ overtaken \in BOOLEAN
ActsHaveRoom == rows + Cardinality(ActsOut) <= presses
CallFits(c) ==
  /\ c.read <= rows
  /\ c.kind = "act" => c.tells \in panel.tells
  /\ panel.filters = {"all"} => c.filter = "all"
CallsFit == (\A a \in Slots : CallFits(panelCalls[a])) /\ (panel.filters = {"all"} => filter = "all")
LoadingHasCause ==
  staff = "ready" /\ mode = "loading" => \E a \in Slots : Cause(panelCalls[a])
ListIsComing ==
  ~overtaken /\ (mode = "success" \/ \E a \in Slots : Behind(panelCalls[a])) =>
    Fresh \/ \E a \in Slots : Renews(panelCalls[a])

PanelIInv == PanelShape /\ ActsHaveRoom /\ CallsFit /\ LoadingHasCause /\ ListIsComing

LEMMA PanelIdleIsTyped ==
  /\ PanelIdle \in PanelRow /\ ~ActOut(PanelIdle)
  /\ PanelIdle.kind = "none" /\ PanelIdle.read = 0 /\ PanelIdle.filter = "all"
  /\ \A f \in {"all", "some"} :
       /\ LoadOf(f) \in PanelRow /\ ~ActOut(LoadOf(f)) /\ LoadOf(f).kind = "load"
       /\ LoadOf(f).step = "out" /\ LoadOf(f).read = 0 /\ LoadOf(f).filter = f
BY PanelsAssumption DEF PanelIdle, PanelRow, ActOut, LoadOf

LEMMA PanelsDiffer ==
  \A p \in AllPanels :
    /\ p.marks \in BOOLEAN /\ p.tells \subseteq BOOLEAN
    /\ p.marks = TRUE => FALSE \notin p.tells /\ p.after # "answer"
    /\ p.after = "answer" => p.filters = {"all"}
<1>1. \A p \in AllPanels :
        p \in {Queue, FlagsPanel, ProfessionalsTable, AuditLog, MembersTable, ThemeEditor}
  BY DEF AllPanels, ReportsQueue, VerificationQueue, StoriesQueue, CategoryManager,
         DiscoverySettings, AudioLibraryPanel, TemplatesPanel, BusinessesTable
<1>2. Queue.tells = {TRUE} /\ Queue.marks = TRUE /\ Queue.after = "load"
  BY DEF Queue, Panel
<1>3. FlagsPanel.tells = {FALSE} /\ FlagsPanel.marks = FALSE /\ FlagsPanel.after = "load"
  BY DEF FlagsPanel, Panel
<1>4. /\ ProfessionalsTable.tells = {} /\ ProfessionalsTable.marks = FALSE
      /\ ProfessionalsTable.after = "load"
  BY DEF ProfessionalsTable, Panel
<1>5. AuditLog.tells = {} /\ AuditLog.marks = FALSE /\ AuditLog.after = "load"
  BY DEF AuditLog, Panel
<1>6. /\ MembersTable.tells = {FALSE} /\ MembersTable.marks = FALSE
      /\ MembersTable.after = "load as pressed"
  BY DEF MembersTable, Panel
<1>7. /\ ThemeEditor.tells = {TRUE, FALSE} /\ ThemeEditor.marks = FALSE
      /\ ThemeEditor.filters = {"all"}
  BY DEF ThemeEditor, Panel
<1>8. ASSUME NEW p \in AllPanels PROVE p.marks \in BOOLEAN /\ p.tells \subseteq BOOLEAN
  BY <1>1, <1>2, <1>3, <1>4, <1>5, <1>6, <1>7
<1>9. ASSUME NEW p \in AllPanels, p.marks = TRUE
      PROVE  FALSE \notin p.tells /\ p.after # "answer"
  BY <1>1, <1>2, <1>3, <1>4, <1>5, <1>6, <1>7, <1>9
<1>10. ASSUME NEW p \in AllPanels, p.after = "answer" PROVE p.filters = {"all"}
  BY <1>1, <1>2, <1>3, <1>4, <1>5, <1>6, <1>7, <1>10
<1> QED BY <1>8, <1>9, <1>10

LEMMA PanelInitial == PanelInit => PanelIInv
<1> SUFFICES ASSUME PanelInit PROVE PanelIInv
  OBVIOUS
<1> USE PanelsAssumption
<1>1. \A a \in Slots : panelCalls[a] = PanelIdle
  BY DEF PanelInit
<1>2. PanelShape
  <2>1. panelCalls \in [Slots -> PanelRow]
    BY PanelIdleIsTyped DEF PanelInit
  <2>2. listed \in [filter: {"all", "some"}, read: -1..MaxActs]
    BY DEF PanelInit
  <2>3. panel \in AllPanels /\ staff = "unknown" /\ rows = 0 /\ filter = "all" /\ mode = "loading" /\ presses = 0
    BY DEF PanelInit
  <2>4. overtaken \in BOOLEAN
    BY DEF PanelInit
  <2> QED BY <2>1, <2>2, <2>3, <2>4 DEF PanelShape
<1>3. ActsHaveRoom
  <2>1. ActsOut = {}
    BY <1>1, PanelIdleIsTyped DEF ActsOut
  <2> QED BY <2>1, FS_EmptySet DEF PanelInit, ActsHaveRoom
<1>4. CallsFit
  BY <1>1, PanelIdleIsTyped DEF PanelInit, CallsFit, CallFits
<1>5. LoadingHasCause
  BY DEF PanelInit, LoadingHasCause
<1>6. ListIsComing
  BY <1>1, PanelIdleIsTyped DEF PanelInit, ListIsComing, Behind
<1> QED BY <1>2, <1>3, <1>4, <1>5, <1>6 DEF PanelIInv

\* The room of one call's slot.
LEMMA RoomOfSlot ==
  ASSUME PanelIInv, NEW a \in Slots
  PROVE  /\ panelCalls[a] \in PanelRow /\ CallFits(panelCalls[a])
         /\ Cardinality(ActsOut \ {a}) \in Nat
         /\ rows + Cardinality(ActsOut \ {a}) + Weigh(panelCalls[a]) <= presses
         /\ \A row \in PanelRow : PanelEnter(a, row) =>
              /\ panelCalls' \in [Slots -> PanelRow] /\ panelCalls'[a] = row
              /\ \A b \in Slots : b # a => panelCalls'[b] = panelCalls[b]
              /\ Cardinality(ActsOut)' = Cardinality(ActsOut \ {a}) + Weigh(row)
<1>0. panelCalls \in [Slots -> PanelRow]
  BY DEF PanelIInv, PanelShape
<1>1. IsFiniteSet(ActsOut) /\ IsFiniteSet(ActsOut \ {a}) /\ a \notin ActsOut \ {a}
  BY SlotsAssumption, FS_Subset DEF ActsOut
<1>2. Cardinality(ActsOut \ {a}) \in Nat /\ Cardinality(ActsOut) \in Nat
  BY <1>1, FS_CardinalityType
<1>3. Cardinality((ActsOut \ {a}) \cup {a}) = Cardinality(ActsOut \ {a}) + 1
  BY <1>1, FS_AddElement
<1>4. ActOut(panelCalls[a]) => ActsOut = (ActsOut \ {a}) \cup {a}
  BY DEF ActsOut
<1>5. ~ActOut(panelCalls[a]) => ActsOut = ActsOut \ {a}
  BY DEF ActsOut
<1>6. Cardinality(ActsOut) = Cardinality(ActsOut \ {a}) + Weigh(panelCalls[a])
  BY <1>2, <1>3, <1>4, <1>5 DEF Weigh
<1>7. ASSUME NEW row \in PanelRow, PanelEnter(a, row)
      PROVE  /\ panelCalls' \in [Slots -> PanelRow] /\ panelCalls'[a] = row
             /\ \A b \in Slots : b # a => panelCalls'[b] = panelCalls[b]
             /\ Cardinality(ActsOut)' = Cardinality(ActsOut \ {a}) + Weigh(row)
  <2>1. /\ panelCalls' \in [Slots -> PanelRow] /\ panelCalls'[a] = row
        /\ \A b \in Slots : b # a => panelCalls'[b] = panelCalls[b]
    BY <1>0, <1>7 DEF PanelEnter
  <2>2. CASE ActOut(row)
    <3>1. ActsOut' = (ActsOut \ {a}) \cup {a}
      BY <2>1, <2>2 DEF ActsOut, ActOut
    <3> QED BY <1>3, <2>1, <2>2, <3>1 DEF Weigh
  <2>3. CASE ~ActOut(row)
    <3>1. ActsOut' = ActsOut \ {a}
      BY <2>1, <2>3 DEF ActsOut, ActOut
    <3> QED BY <1>2, <2>1, <2>3, <3>1 DEF Weigh
  <2> QED BY <2>1, <2>2, <2>3
<1>8. rows + Cardinality(ActsOut) <= presses /\ rows \in Nat /\ presses \in Nat
  BY PanelsAssumption DEF PanelIInv, PanelShape, ActsHaveRoom
<1>9. Weigh(panelCalls[a]) \in Nat
  BY DEF Weigh
<1>10. rows + Cardinality(ActsOut \ {a}) + Weigh(panelCalls[a]) <= presses
  BY <1>2, <1>6, <1>8, <1>9
<1> QED BY <1>0, <1>2, <1>7, <1>10 DEF PanelIInv, CallsFit

\* What a step of a panel has to show: what its own call becomes; the other calls stand, and
\* only a served act makes any of them older.
StateTyped ==
  /\ staff \in {"unknown", "ready", "denied"} /\ filter \in {"all", "some"}
  /\ mode \in {"loading", "success", "error"} /\ rows \in Nat /\ presses \in 0..MaxActs
  /\ listed \in [filter: {"all", "some"}, read: -1..MaxActs] /\ overtaken \in BOOLEAN
RoomKept(a, row) == rows <= rows' /\ rows' + Cardinality(ActsOut \ {a}) + Weigh(row) <= presses'
FitKept(row) == CallFits(row)' /\ (panel.filters = {"all"} => filter' = "all")
CauseKept(a, row) ==
  staff' = "ready" /\ mode' = "loading" =>
    Cause(row) \/ \E b \in Slots : b # a /\ Cause(panelCalls[b])
ComingKept(a, row) ==
  ~overtaken' /\ (mode' = "success" \/ Behind(row)' \/ \E b \in Slots : b # a /\ Behind(panelCalls[b])') =>
    Fresh' \/ Renews(row)' \/ \E b \in Slots : b # a /\ rows' = rows /\ Renews(panelCalls[b])

LEMMA PanelSteps ==
  ASSUME PanelIInv, NEW a \in Slots, NEW row \in PanelRow, PanelEnter(a, row), panel' = panel,
         StateTyped', RoomKept(a, row), FitKept(row), CauseKept(a, row), ComingKept(a, row)
  PROVE  PanelIInv'
<1>1. /\ panelCalls' \in [Slots -> PanelRow] /\ panelCalls'[a] = row
      /\ \A b \in Slots : b # a => panelCalls'[b] = panelCalls[b]
      /\ Cardinality(ActsOut)' = Cardinality(ActsOut \ {a}) + Weigh(row)
      /\ Cardinality(ActsOut \ {a}) \in Nat /\ Weigh(row) \in Nat
  BY RoomOfSlot DEF Weigh
<1>2. PanelShape'
  BY <1>1 DEF PanelIInv, PanelShape, StateTyped
<1>3. ActsHaveRoom'
  BY <1>1 DEF ActsHaveRoom, RoomKept, StateTyped
<1>4. CallsFit'
  <2>1. ASSUME NEW b \in Slots PROVE CallFits(panelCalls[b])'
    <3>1. CASE b = a
      BY <1>1, <3>1 DEF CallFits, FitKept
    <3>2. CASE b # a
      <4>1. panelCalls'[b] = panelCalls[b] /\ CallFits(panelCalls[b]) /\ panelCalls[b] \in PanelRow
        BY <1>1, <3>2, RoomOfSlot
      <4>2. panelCalls[b].read \in Nat /\ rows \in Nat
        BY <4>1, PanelsAssumption DEF PanelRow, PanelIInv, PanelShape
      <4>3. rows <= rows' /\ rows' \in Nat
        BY DEF RoomKept, StateTyped
      <4> QED BY <4>1, <4>2, <4>3 DEF CallFits
    <3> QED BY <3>1, <3>2
  <2> QED BY <2>1 DEF CallsFit, FitKept
<1>5. LoadingHasCause'
  BY <1>1 DEF LoadingHasCause, Cause, CauseKept
<1>6. ListIsComing'
  <2>1. SUFFICES ASSUME ~overtaken', mode' = "success" \/ \E b \in Slots : Behind(panelCalls[b])'
                 PROVE  Fresh' \/ \E b \in Slots : Renews(panelCalls[b])'
    BY DEF ListIsComing
  <2>2. mode' = "success" \/ Behind(row)' \/ \E b \in Slots : b # a /\ Behind(panelCalls[b])'
    BY <1>1, <2>1 DEF Behind
  <2>3. Fresh' \/ Renews(row)' \/ \E b \in Slots : b # a /\ rows' = rows /\ Renews(panelCalls[b])
    BY <2>1, <2>2 DEF ComingKept
  <2>4. Renews(row)' => Renews(panelCalls[a])'
    BY <1>1 DEF Renews
  <2>5. ASSUME NEW b \in Slots, b # a, rows' = rows, Renews(panelCalls[b])
        PROVE  Renews(panelCalls[b])'
    BY <1>1, <2>5 DEF Renews
  <2> QED BY <2>3, <2>4, <2>5
<1> QED BY <1>2, <1>3, <1>4, <1>5, <1>6 DEF PanelIInv

\* What is known of a panel before a step, and of a call's slot.
LEMMA StateBefore ==
  ASSUME PanelIInv
  PROVE  StateTyped /\ panel \in AllPanels /\ (panel.filters = {"all"} => filter = "all")
BY DEF PanelIInv, PanelShape, CallsFit, StateTyped

LEMMA RoomBefore ==
  ASSUME PanelIInv, NEW a \in Slots
  PROVE  /\ Cardinality(ActsOut \ {a}) \in Nat /\ rows \in Nat /\ presses \in Nat
         /\ rows + Cardinality(ActsOut \ {a}) <= presses /\ rows \in 0..MaxActs
         /\ ActOut(panelCalls[a]) => rows + Cardinality(ActsOut \ {a}) + 1 <= presses
<1>1. /\ Cardinality(ActsOut \ {a}) \in Nat
      /\ rows + Cardinality(ActsOut \ {a}) + Weigh(panelCalls[a]) <= presses
  BY RoomOfSlot
<1>2. Weigh(panelCalls[a]) \in Nat /\ (ActOut(panelCalls[a]) => Weigh(panelCalls[a]) = 1)
  BY DEF Weigh
<1>3. rows \in Nat /\ presses \in 0..MaxActs
  BY StateBefore DEF StateTyped
<1> QED BY <1>1, <1>2, <1>3, PanelsAssumption

LEMMA CallBefore ==
  ASSUME PanelIInv, NEW a \in Slots
  PROVE  /\ panelCalls[a] \in PanelRow
         /\ panelCalls[a].read \in 0..MaxActs /\ panelCalls[a].read <= rows
         /\ panelCalls[a].read \in Nat /\ rows \in Nat /\ panelCalls[a].read \in -1..MaxActs
         /\ panelCalls[a].filter \in {"all", "some"} /\ panelCalls[a].tells \in BOOLEAN
         /\ panelCalls[a].kind = "act" => panelCalls[a].tells \in panel.tells
         /\ panel.filters = {"all"} => panelCalls[a].filter = "all"
<1>1. CallFits(panelCalls[a]) /\ rows \in Nat /\ panelCalls[a] \in PanelRow
  BY RoomOfSlot, StateBefore DEF StateTyped
<1>2. /\ panelCalls[a].read \in 0..MaxActs
      /\ panelCalls[a].filter \in {"all", "some"} /\ panelCalls[a].tells \in BOOLEAN
  BY <1>1 DEF PanelRow
<1>3. panelCalls[a].read \in Nat /\ panelCalls[a].read \in -1..MaxActs
  BY <1>2, PanelsAssumption
<1> QED BY <1>1, <1>2, <1>3 DEF CallFits

LEMMA LoadFits ==
  ASSUME PanelIInv, NEW a \in Slots, NEW f \in {"all", "some"},
         panel.filters = {"all"} => filter' = "all" /\ f = "all",
         UNCHANGED <<panel, rows, presses>>
  PROVE  /\ LoadOf(f) \in PanelRow /\ RoomKept(a, LoadOf(f)) /\ FitKept(LoadOf(f))
         /\ CauseKept(a, LoadOf(f)) /\ ComingKept(a, LoadOf(f))
<1>1. CallFits(LoadOf(f))'
  BY StateBefore, PanelIdleIsTyped DEF CallFits, LoadOf, StateTyped
<1>2. Renews(LoadOf(f))'
  BY DEF Renews, LoadOf
<1>3. Cause(LoadOf(f))
  BY DEF Cause, LoadOf
<1>4. Weigh(LoadOf(f)) = 0
  BY PanelIdleIsTyped DEF Weigh
<1>5. RoomKept(a, LoadOf(f))
  BY <1>4, RoomBefore DEF RoomKept
<1> QED BY <1>1, <1>2, <1>3, <1>5, PanelIdleIsTyped DEF FitKept, CauseKept, ComingKept

LEMMA IdleFits ==
  ASSUME PanelIInv, NEW a \in Slots, UNCHANGED <<panel, rows, filter, presses>>
  PROVE  /\ PanelIdle \in PanelRow /\ RoomKept(a, PanelIdle) /\ FitKept(PanelIdle)
         /\ ~Behind(PanelIdle)' /\ ~Cause(PanelIdle) /\ ~Renews(PanelIdle)
<1>1. CallFits(PanelIdle)'
  BY StateBefore, PanelIdleIsTyped DEF CallFits, StateTyped
<1>2. ~Behind(PanelIdle)'
  BY DEF Behind, PanelIdle
<1>3. ~Cause(PanelIdle) /\ ~Renews(PanelIdle)
  BY DEF Cause, Renews, PanelIdle
<1>4. Weigh(PanelIdle) = 0
  BY PanelIdleIsTyped DEF Weigh
<1>5. RoomKept(a, PanelIdle)
  BY <1>4, RoomBefore DEF RoomKept
<1> QED BY <1>1, <1>2, <1>3, <1>5, StateBefore, PanelIdleIsTyped DEF FitKept

\* The other calls stand.
LEMMA OthersStand ==
  ASSUME PanelIInv, NEW a \in Slots, NEW row \in PanelRow, PanelEnter(a, row), rows' = rows
  PROVE  \A b \in Slots : b # a => (Behind(panelCalls[b])' <=> Behind(panelCalls[b]))
<1>1. \A b \in Slots : b # a => panelCalls'[b] = panelCalls[b]
  BY RoomOfSlot
<1> QED BY <1>1 DEF Behind

LEMMA EnsureKeepsPanel == ASSUME PanelIInv, NEW a \in Slots, Ensure(a) PROVE PanelIInv'
<1>0. UNCHANGED <<panel, rows, filter, listed, mode, presses, overtaken>>
  BY DEF Ensure
<1>1. CASE staff' = "ready" /\ PanelEnter(a, LoadOf(filter))
  <2>1. StateTyped'
    BY <1>0, <1>1, StateBefore DEF StateTyped
  <2>2. filter \in {"all", "some"} /\ (panel.filters = {"all"} => filter' = "all" /\ filter = "all")
    BY <1>0, StateBefore DEF StateTyped
  <2> QED BY <1>0, <1>1, <2>1, <2>2, LoadFits, PanelSteps
<1>2. CASE staff' = "denied" /\ UNCHANGED panelCalls
  BY <1>0, <1>2 DEF PanelIInv, PanelShape, ActsHaveRoom, CallsFit, CallFits, LoadingHasCause,
     ListIsComing, ActsOut, Fresh, Renews, Behind
<1> QED BY <1>1, <1>2 DEF Ensure

LEMMA NarrowKeepsPanel ==
  ASSUME PanelIInv, NEW a \in Slots, NEW f \in {"all", "some"}, Narrow(a, f) PROVE PanelIInv'
<1>1. /\ panel.filters # {"all"} /\ filter' = f /\ mode' = "loading" /\ PanelEnter(a, LoadOf(f))
      /\ UNCHANGED <<panel, staff, rows, listed, presses, overtaken>>
  BY DEF Narrow
<1>2. StateTyped'
  BY <1>1, StateBefore DEF StateTyped
<1> QED BY <1>1, <1>2, LoadFits, PanelSteps

LEMMA ServeLoadKeepsPanel == ASSUME PanelIInv, NEW a \in Slots, ServeLoad(a) PROVE PanelIInv'
<1>1. /\ panelCalls[a].kind = "load" /\ panelCalls[a].step = "out"
      /\ PanelEnter(a, [panelCalls[a] EXCEPT !.step = "back", !.read = rows])
      /\ UNCHANGED <<panel, staff, rows, filter, listed, mode, presses, overtaken>>
  BY DEF ServeLoad, PanelAt
<1>2. [panelCalls[a] EXCEPT !.step = "back", !.read = rows] \in PanelRow
  BY CallBefore, RoomBefore DEF PanelRow
<1>3. PICK row \in PanelRow : /\ PanelEnter(a, row)
                              /\ row.kind = "load" /\ row.step = "back" /\ row.read = rows
                              /\ row.filter = panelCalls[a].filter
  <2>1. LET r == [panelCalls[a] EXCEPT !.step = "back", !.read = rows]
        IN r.kind = "load" /\ r.step = "back" /\ r.read = rows /\ r.filter = panelCalls[a].filter
    BY <1>1, CallBefore DEF PanelRow
  <2> QED BY <1>1, <1>2, <2>1
<1>4. StateTyped'
  BY <1>1, StateBefore DEF StateTyped
<1>5. RoomKept(a, row)
  BY <1>1, <1>3, RoomBefore DEF RoomKept, Weigh, ActOut
<1>6. FitKept(row)
  BY <1>1, <1>3, CallBefore, StateBefore DEF FitKept, CallFits
<1>7. CauseKept(a, row) /\ ComingKept(a, row)
  BY <1>1, <1>3 DEF CauseKept, ComingKept, Cause, Renews
<1> QED BY <1>1, <1>3, <1>4, <1>5, <1>6, <1>7, PanelSteps

LEMMA ShowListKeepsPanel == ASSUME PanelIInv, NEW a \in Slots, ShowList(a) PROVE PanelIInv'
<1>1. /\ panelCalls[a].kind = "load" /\ panelCalls[a].step = "back"
      /\ PanelEnter(a, PanelIdle) /\ mode' = "success"
      /\ listed' = [filter |-> panelCalls[a].filter, read |-> panelCalls[a].read]
      /\ overtaken' = (overtaken \/ panelCalls[a].read < listed.read \/ panelCalls[a].filter # filter)
      /\ UNCHANGED <<panel, staff, rows, filter, presses>>
  BY DEF ShowList, PanelAt
<1>2. StateTyped'
  <2>1. listed' \in [filter: {"all", "some"}, read: -1..MaxActs]
    BY <1>1, CallBefore
  <2>2. overtaken' \in BOOLEAN
    BY <1>1
  <2> QED BY <1>1, <2>1, <2>2, StateBefore DEF StateTyped
<1>3. ASSUME ~overtaken'
      PROVE  Fresh' \/ \E b \in Slots : b # a /\ Renews(panelCalls[b])
  <2>1. ~overtaken /\ ~(panelCalls[a].read < listed.read) /\ panelCalls[a].filter = filter
    BY <1>1, <1>3
  <2>2. CASE panelCalls[a].read = rows
    BY <1>1, <2>1, <2>2 DEF Fresh
  <2>3. CASE panelCalls[a].read # rows
    <3>1. panelCalls[a].read <= rows /\ panelCalls[a].read \in Nat /\ rows \in Nat
      BY CallBefore
    <3>2. Behind(panelCalls[a])
      BY <1>1, <2>3, <3>1 DEF Behind
    <3>3. ~Renews(panelCalls[a])
      BY <1>1, <2>3 DEF Renews
    <3>4. ~Fresh
      BY <2>1, <2>3, <3>1 DEF Fresh
    <3> QED BY <2>1, <3>2, <3>3, <3>4 DEF PanelIInv, ListIsComing
  <2> QED BY <2>2, <2>3
<1>4. CauseKept(a, PanelIdle) /\ ComingKept(a, PanelIdle)
  BY <1>1, <1>3 DEF CauseKept, ComingKept
<1>5. PanelIdle \in PanelRow /\ RoomKept(a, PanelIdle) /\ FitKept(PanelIdle)
  BY <1>1, IdleFits
<1> QED BY <1>1, <1>2, <1>4, <1>5, PanelSteps

LEMMA FailLoadKeepsPanel == ASSUME PanelIInv, NEW a \in Slots, FailLoad(a) PROVE PanelIInv'
<1>1. /\ PanelEnter(a, PanelIdle) /\ mode' = "error"
      /\ overtaken' = (overtaken \/ \E b \in Slots \ {a} : panelCalls[b] # PanelIdle)
      /\ UNCHANGED <<panel, staff, rows, filter, listed, presses>>
  BY DEF FailLoad
<1>2. StateTyped'
  <2>1. overtaken' \in BOOLEAN
    BY <1>1
  <2> QED BY <1>1, <2>1, StateBefore DEF StateTyped
<1>3. PanelIdle \in PanelRow /\ RoomKept(a, PanelIdle) /\ FitKept(PanelIdle) /\ ~Behind(PanelIdle)'
  BY <1>1, IdleFits
<1>4. ~overtaken' => \A b \in Slots : b # a => ~Behind(panelCalls[b])'
  <2>1. SUFFICES ASSUME ~overtaken', NEW b \in Slots, b # a PROVE ~Behind(panelCalls[b])'
    OBVIOUS
  <2>2. panelCalls[b] = PanelIdle
    BY <1>1, <2>1
  <2>3. ~Behind(panelCalls[b])
    BY <2>2, PanelIdleIsTyped DEF Behind
  <2> QED BY <1>1, <1>3, <2>1, <2>3, OthersStand
<1>5. CauseKept(a, PanelIdle) /\ ComingKept(a, PanelIdle)
  BY <1>1, <1>3, <1>4 DEF CauseKept, ComingKept
<1> QED BY <1>1, <1>2, <1>3, <1>5, PanelSteps

LEMMA PressKeepsPanel == ASSUME PanelIInv, NEW a \in Slots, PressAct(a) PROVE PanelIInv'
<1>1. /\ panelCalls[a] = PanelIdle /\ presses < MaxActs /\ presses' = presses + 1
      /\ mode' = IF panel.marks THEN "loading" ELSE mode
      /\ UNCHANGED <<panel, staff, rows, filter, listed, overtaken>>
  BY DEF PressAct
<1>2. PICK tells \in panel.tells :
        PanelEnter(a, [kind |-> "act", step |-> "out", filter |-> filter, tells |-> tells, read |-> 0])
  BY DEF PressAct
<1>3. PICK row \in PanelRow : /\ PanelEnter(a, row) /\ row.kind = "act" /\ row.step = "out"
                              /\ row.filter = filter /\ row.tells = tells /\ row.read = 0
  <2>1. tells \in BOOLEAN
    BY StateBefore, PanelsDiffer
  <2>2. [kind |-> "act", step |-> "out", filter |-> filter, tells |-> tells, read |-> 0] \in PanelRow
    <3>1. filter \in {"all", "some"} /\ 0 \in 0..MaxActs
      BY StateBefore, PanelsAssumption DEF StateTyped
    <3> QED BY <2>1, <3>1 DEF PanelRow
  <2> QED BY <1>2, <2>2
<1>4. Weigh(row) = 1 /\ (panel.marks => Cause(row)) /\ ~Behind(row)'
  BY <1>3 DEF Weigh, ActOut, Cause, Behind
<1>5. StateTyped'
  <2>1. presses \in 0..MaxActs
    BY StateBefore DEF StateTyped
  <2>2. presses' \in 0..MaxActs
    BY <1>1, <2>1, PanelsAssumption
  <2> QED BY <1>1, <2>2, StateBefore DEF StateTyped
<1>6. RoomKept(a, row)
  BY <1>1, <1>4, RoomBefore DEF RoomKept
<1>7. FitKept(row)
  <2>1. rows \in Nat /\ (panel.filters = {"all"} => filter = "all")
    BY StateBefore DEF StateTyped
  <2> QED BY <1>1, <1>2, <1>3, <2>1 DEF FitKept, CallFits
<1>8. ~Cause(panelCalls[a]) /\ ~Renews(panelCalls[a])
  BY <1>1 DEF Cause, Renews, PanelIdle
<1>9. CauseKept(a, row)
  BY <1>1, <1>4, <1>8 DEF PanelIInv, LoadingHasCause, CauseKept
<1>10. ComingKept(a, row)
  <2>1. \A b \in Slots : b # a => (Behind(panelCalls[b])' <=> Behind(panelCalls[b]))
    BY <1>1, <1>3, OthersStand
  <2>2. mode' = "success" => mode = "success"
    BY <1>1
  <2>3. Fresh => Fresh'
    BY <1>1 DEF Fresh
  <2> QED BY <1>1, <1>4, <1>8, <2>1, <2>2, <2>3 DEF PanelIInv, ListIsComing, ComingKept
<1> QED BY <1>1, <1>3, <1>5, <1>6, <1>7, <1>9, <1>10, PanelSteps

LEMMA ServeActKeepsPanel == ASSUME PanelIInv, NEW a \in Slots, ServeAct(a) PROVE PanelIInv'
<1>1. /\ panelCalls[a].kind = "act" /\ panelCalls[a].step = "out" /\ rows' = rows + 1
      /\ PanelEnter(a, [panelCalls[a] EXCEPT !.step = "back", !.read = rows + 1])
      /\ UNCHANGED <<panel, staff, filter, listed, mode, presses, overtaken>>
  BY DEF ServeAct, PanelAt
<1>2. rows \in Nat /\ rows + Cardinality(ActsOut \ {a}) + 1 <= presses /\ rows + 1 \in 0..MaxActs
  <2>1. ActOut(panelCalls[a])
    BY <1>1 DEF ActOut
  <2>2. presses \in 0..MaxActs
    BY StateBefore DEF StateTyped
  <2>3. /\ Cardinality(ActsOut \ {a}) \in Nat /\ rows \in Nat
        /\ rows + Cardinality(ActsOut \ {a}) + 1 <= presses
    BY <2>1, RoomBefore
  <2> HIDE DEF ActsOut
  <2> QED BY <2>2, <2>3, PanelsAssumption
<1>3. PICK row \in PanelRow : /\ PanelEnter(a, row) /\ row.kind = "act" /\ row.step = "back"
                              /\ row.filter = panelCalls[a].filter /\ row.tells = panelCalls[a].tells
                              /\ row.read = rows + 1
  <2>1. [panelCalls[a] EXCEPT !.step = "back", !.read = rows + 1] \in PanelRow
    BY <1>2, CallBefore DEF PanelRow
  <2>2. LET r == [panelCalls[a] EXCEPT !.step = "back", !.read = rows + 1]
        IN /\ r.kind = "act" /\ r.step = "back" /\ r.read = rows + 1
           /\ r.filter = panelCalls[a].filter /\ r.tells = panelCalls[a].tells
    BY <1>1, CallBefore DEF PanelRow
  <2> QED BY <1>1, <2>1, <2>2
<1>4. StateTyped'
  BY <1>1, <1>2, StateBefore DEF StateTyped
<1>5. RoomKept(a, row)
  <2>1. Weigh(row) = 0 /\ Cardinality(ActsOut \ {a}) \in Nat
    BY <1>3, RoomBefore DEF Weigh, ActOut
  <2> QED BY <1>1, <1>2, <2>1 DEF RoomKept
<1>6. FitKept(row)
  BY <1>1, <1>2, <1>3, CallBefore, StateBefore DEF FitKept, CallFits
<1>7. CauseKept(a, row)
  <2>1. Cause(panelCalls[a]) => Cause(row)
    BY <1>1, <1>3 DEF Cause
  <2> QED BY <1>1, <2>1 DEF PanelIInv, LoadingHasCause, CauseKept
<1>8. ComingKept(a, row)
  BY <1>1, <1>3 DEF ComingKept, Renews
<1> QED BY <1>1, <1>3, <1>4, <1>5, <1>6, <1>7, <1>8, PanelSteps

LEMMA EndActKeepsPanel == ASSUME PanelIInv, NEW a \in Slots, EndAct(a) PROVE PanelIInv'
<1>1. /\ panelCalls[a].kind = "act" /\ panelCalls[a].step = "back"
      /\ UNCHANGED <<panel, staff, rows, filter, presses>>
  BY DEF EndAct, PanelAt
<1>2. CASE panel.after # "answer"
  <2>1. PICK f \in {"all", "some"} : /\ PanelEnter(a, LoadOf(f)) /\ mode' = "loading"
                                     /\ panel.filters = {"all"} => filter' = "all" /\ f = "all"
                                     /\ UNCHANGED <<listed, overtaken>>
    <3>1. /\ PanelEnter(a, LoadOf(IF panel.after = "load" THEN filter ELSE panelCalls[a].filter))
          /\ mode' = "loading" /\ UNCHANGED <<listed, overtaken>>
      BY <1>2 DEF EndAct
    <3>2. filter \in {"all", "some"} /\ (panel.filters = {"all"} => filter = "all")
      BY StateBefore DEF StateTyped
    <3> QED BY <1>1, <3>1, <3>2, CallBefore
  <2>2. StateTyped'
    BY <1>1, <2>1, StateBefore DEF StateTyped
  <2> QED BY <1>1, <2>1, <2>2, LoadFits, PanelSteps
<1>3. CASE panel.after = "answer"
  <2>1. /\ listed' = [filter |-> panelCalls[a].filter, read |-> panelCalls[a].read]
        /\ overtaken' = (overtaken \/ panelCalls[a].read < listed.read)
        /\ PanelEnter(a, PanelIdle) /\ UNCHANGED mode
    BY <1>3 DEF EndAct
  <2>2. StateTyped'
    <3>1. listed' \in [filter: {"all", "some"}, read: -1..MaxActs]
      BY <2>1, CallBefore
    <3>2. overtaken' \in BOOLEAN
      BY <2>1
    <3> QED BY <1>1, <2>1, <3>1, <3>2, StateBefore DEF StateTyped
  <2>3. panel.filters = {"all"} /\ panel.marks = FALSE
    BY <1>3, StateBefore, PanelsDiffer
  <2>4. panelCalls[a].filter = "all" /\ filter = "all"
    BY <2>3, CallBefore, StateBefore
  <2>5. PanelIdle \in PanelRow /\ RoomKept(a, PanelIdle) /\ FitKept(PanelIdle) /\ ~Behind(PanelIdle)'
    BY <1>1, IdleFits
  <2>6. CauseKept(a, PanelIdle)
    <3>1. ~Cause(panelCalls[a])
      BY <1>1, <2>3 DEF Cause
    <3> QED BY <1>1, <2>1, <3>1 DEF PanelIInv, LoadingHasCause, CauseKept
  <2>7. ASSUME ~overtaken', mode' = "success" \/ \E b \in Slots : b # a /\ Behind(panelCalls[b])'
        PROVE  Fresh' \/ \E b \in Slots : b # a /\ Renews(panelCalls[b])
    <3>1. ~overtaken /\ ~(panelCalls[a].read < listed.read)
      BY <2>1, <2>7
    <3>2. CASE panelCalls[a].read = rows
      BY <1>1, <2>1, <2>4, <3>2 DEF Fresh
    <3>3. CASE panelCalls[a].read # rows
      <4>1. panelCalls[a].read <= rows /\ panelCalls[a].read \in Nat /\ rows \in Nat
        BY CallBefore
      <4>2. ~Renews(panelCalls[a])
        BY <1>1, <1>3, <3>3 DEF Renews
      <4>3. ~Fresh
        BY <3>1, <3>3, <4>1 DEF Fresh
      <4>4. \A b \in Slots : b # a => (Behind(panelCalls[b])' <=> Behind(panelCalls[b]))
        BY <1>1, <2>1, <2>5, OthersStand
      <4> QED BY <2>1, <2>7, <3>1, <4>2, <4>3, <4>4 DEF PanelIInv, ListIsComing
    <3> QED BY <3>2, <3>3
  <2>8. ComingKept(a, PanelIdle)
    BY <1>1, <2>5, <2>7 DEF ComingKept
  <2> QED BY <1>1, <2>1, <2>2, <2>5, <2>6, <2>8, PanelSteps
<1> QED BY <1>2, <1>3

LEMMA FailActKeepsPanel == ASSUME PanelIInv, NEW a \in Slots, FailAct(a) PROVE PanelIInv'
<1>1. /\ panelCalls[a].kind = "act" /\ PanelEnter(a, PanelIdle)
      /\ mode' = IF panelCalls[a].tells THEN "error" ELSE mode
      /\ overtaken' = (overtaken \/ panelCalls[a].step = "back")
      /\ UNCHANGED <<panel, staff, rows, filter, listed, presses>>
  BY DEF FailAct
<1>2. StateTyped'
  <2>1. overtaken' \in BOOLEAN
    BY <1>1
  <2>2. mode' = "error" \/ mode' = mode
    BY <1>1
  <2> QED BY <1>1, <2>1, <2>2, StateBefore DEF StateTyped
<1>3. PanelIdle \in PanelRow /\ RoomKept(a, PanelIdle) /\ FitKept(PanelIdle) /\ ~Behind(PanelIdle)'
  BY <1>1, IdleFits
<1>4. CauseKept(a, PanelIdle)
  <2>1. SUFFICES ASSUME staff' = "ready", mode' = "loading"
                 PROVE  \E b \in Slots : b # a /\ Cause(panelCalls[b])
    BY DEF CauseKept
  <2>2. ~panelCalls[a].tells /\ mode = "loading" /\ staff = "ready"
    BY <1>1, <2>1
  <2>3. panelCalls[a].tells \in BOOLEAN /\ panelCalls[a].tells \in panel.tells
    BY <1>1, CallBefore
  <2>4. FALSE \in panel.tells
    BY <2>2, <2>3
  <2>5. panel.marks = FALSE
    BY <2>4, StateBefore, PanelsDiffer
  <2>6. ~Cause(panelCalls[a])
    BY <1>1, <2>5 DEF Cause
  <2> QED BY <2>2, <2>6 DEF PanelIInv, LoadingHasCause
<1>5. ASSUME ~overtaken', mode' = "success" \/ \E b \in Slots : b # a /\ Behind(panelCalls[b])'
      PROVE  Fresh' \/ \E b \in Slots : b # a /\ Renews(panelCalls[b])
  <2>1. ~overtaken /\ panelCalls[a].step # "back"
    BY <1>1, <1>5
  <2>2. ~Renews(panelCalls[a])
    BY <1>1, <2>1 DEF Renews
  <2>3. \A b \in Slots : b # a => (Behind(panelCalls[b])' <=> Behind(panelCalls[b]))
    BY <1>1, <1>3, OthersStand
  <2>4. mode' = "success" => mode = "success"
    BY <1>1
  <2>5. Fresh => Fresh'
    BY <1>1 DEF Fresh
  <2> QED BY <1>5, <2>1, <2>2, <2>3, <2>4, <2>5 DEF PanelIInv, ListIsComing
<1>6. ComingKept(a, PanelIdle)
  BY <1>1, <1>3, <1>5 DEF ComingKept
<1> QED BY <1>1, <1>2, <1>3, <1>4, <1>6, PanelSteps

LEMMA PanelInductive == PanelIInv /\ [PanelNext]_panelVars => PanelIInv'
<1> SUFFICES ASSUME PanelIInv, [PanelNext]_panelVars PROVE PanelIInv'
  OBVIOUS
<1>1. CASE PanelNext
  BY <1>1, EnsureKeepsPanel, NarrowKeepsPanel, ServeLoadKeepsPanel, ShowListKeepsPanel,
     FailLoadKeepsPanel, PressKeepsPanel, ServeActKeepsPanel, EndActKeepsPanel, FailActKeepsPanel
     DEF PanelNext
<1>2. CASE UNCHANGED panelVars
  BY <1>2 DEF panelVars, PanelIInv, PanelShape, ActsHaveRoom, CallsFit, CallFits, LoadingHasCause,
     ListIsComing, ActsOut, Fresh, Renews, Behind, Cause
<1> QED BY <1>1, <1>2

LEMMA PanelHolds == PanelSpec => []PanelIInv
BY PanelInitial, PanelInductive, PTL DEF PanelSpec

LEMMA PanelTyped == PanelIInv => PanelTypeOK
<1> SUFFICES ASSUME PanelIInv PROVE PanelTypeOK
  OBVIOUS
<1>1. IsFiniteSet(ActsOut)
  BY SlotsAssumption, FS_Subset DEF ActsOut
<1>2. Cardinality(ActsOut) \in Nat
  BY <1>1, FS_CardinalityType
<1>3. rows \in 0..MaxActs
  BY <1>2, PanelsAssumption DEF PanelIInv, PanelShape, ActsHaveRoom
<1> QED BY <1>3 DEF PanelIInv, PanelShape, PanelTypeOK, PanelRow

LEMMA PanelPromised == PanelIInv => PanelsSettle
<1> SUFFICES ASSUME PanelIInv, staff = "ready", \A a \in Slots : panelCalls[a] = PanelIdle
             PROVE  /\ mode # "loading"
                    /\ mode = "success" /\ ~overtaken => listed = [filter |-> filter, read |-> rows]
  BY DEF PanelsSettle
<1>1. \A a \in Slots : ~Cause(panelCalls[a]) /\ ~Renews(panelCalls[a])
  BY DEF Cause, Renews, PanelIdle
<1> QED BY <1>1 DEF PanelIInv, LoadingHasCause, ListIsComing, Fresh

\* A panel of the staff at rest is not left loading, and shows the list of its filter as the
\* last act left it (reports-queue.tsx:47-57, audit-log.tsx:18-43, members-table.tsx:108-115).
THEOREM PanelsComeToRest == PanelSpec => []PanelsSettle
BY PanelHolds, PanelPromised, PTL

-----------------------------------------------------------------------------
(* The pages that sign in. *)

\* A receipt names the account it was sent to, and a call the one it is for.  While nobody
\* strays there is one call, the page waits for it where it was pressed, and the challenge of
\* each stage is the one that the stage asks for.
SignKinds == {"password", "send", "verify", "second", "sendReset", "verifyReset", "newPassword",
              "register", "sso"}
SignRow == [kind: {"none"} \cup SignKinds, of: Accounts \cup {Nobody}, fits: BOOLEAN]
Held(c) == c = NoCode \/ c \in [for: {"LOGIN", "TWO_FACTOR", "PASSWORD_RESET"}, of: Accounts]

SignShape ==
  /\ SignTypeOK
  /\ \A s \in Slots : signCalls[s] # SignIdle => signCalls[s].kind \in SignKinds /\ signCalls[s].of \in Accounts
  /\ Held(challenge) /\ Held(secondFactor)
  /\ secondFactor # NoCode => secondFactor.for = "TWO_FACTOR"
  /\ session # Nobody /\ surface # "phone" => stage = "left"
OneIsOut == ~strayed => \A s, t \in Out : s = t
OutAsPressed ==
  ~strayed => \A s \in Out : /\ loading /\ signCalls[s].of = pressed /\ signCalls[s].fits = TRUE
                             /\ signCalls[s].kind = "send" => /\ stage = "signIn"
                                                              /\ signCalls[s].of = typed["identifier"]
StageAsked ==
  ~strayed => /\ stage = "signIn" /\ challenge # NoCode => challenge = Receipt("LOGIN", typed["identifier"])
              /\ stage = "twoFactor" => challenge.for = "TWO_FACTOR"
              /\ stage = "forgotVerify" => challenge.for = "PASSWORD_RESET"
              /\ session # Nobody /\ surface # "phone" => session = pressed

SignIInv == SignShape /\ NeverBlank /\ OneIsOut /\ OutAsPressed /\ StageAsked

LEMMA SignIdleIsTyped ==
  /\ SignIdle \in SignRow /\ SignIdle.kind = "none"
  /\ NoCode \in Codes /\ NoCode.for = "NONE" /\ Held(NoCode)
  /\ \A purpose \in {"LOGIN", "TWO_FACTOR", "PASSWORD_RESET"}, who \in Accounts :
       /\ Receipt(purpose, who) \in Codes /\ Held(Receipt(purpose, who))
       /\ Receipt(purpose, who) # NoCode /\ Receipt(purpose, who).for = purpose
BY DEF SignIdle, SignRow, NoCode, Codes, Held, Receipt

LEMMA SignInitial == SignInit => SignIInv
<1> SUFFICES ASSUME SignInit PROVE SignIInv
  OBVIOUS
<1>1. \A s \in Slots : signCalls[s] = SignIdle
  BY DEF SignInit
<1>2. Out = {}
  BY <1>1 DEF Out
<1>3. stage \in {"signIn", "forgotSend", "register"} /\ surface \in DOMAIN Opening
  BY DEF SignInit, Opening
<1>4. SignTypeOK
  <2>1. (CHOOSE who \in Accounts : TRUE) \in Accounts
    BY SignInAssumption
  <2>2. typed \in [{"email", "identifier"} -> Accounts]
    BY <2>1 DEF SignInit
  <2>3. signCalls \in [Slots -> SignRow]
    BY SignIdleIsTyped DEF SignInit
  <2>4. {ticket, session, pressed} \subseteq Accounts \cup {Nobody}
    BY DEF SignInit
  <2>5. challenge \in Codes /\ secondFactor \in Codes
    BY SignIdleIsTyped DEF SignInit
  <2>6. loading \in BOOLEAN /\ strayed \in BOOLEAN
    BY DEF SignInit
  <2>7. method \in {"password", "code"}
    BY DEF SignInit
  <2> QED BY <1>3, <2>2, <2>3, <2>4, <2>5, <2>6, <2>7 DEF SignTypeOK, SignRow, SignKinds
<1>5. SignShape
  BY <1>1, <1>4, SignIdleIsTyped DEF SignShape, SignInit
<1>6. NeverBlank
  BY <1>3 DEF NeverBlank
<1>7. StageAsked
  BY <1>3 DEF StageAsked, SignInit
<1> QED BY <1>2, <1>5, <1>6, <1>7 DEF SignIInv, OneIsOut, OutAsPressed

\* What is known of the page before a step.
LEMMA SignBefore ==
  ASSUME SignIInv
  PROVE  /\ surface \in DOMAIN Opening
         /\ stage \in {"signIn", "twoFactor", "forgotSend", "forgotVerify", "forgotReset", "done",
                       "register", "left"}
         /\ method \in {"password", "code"} /\ typed \in [{"email", "identifier"} -> Accounts]
         /\ typed["email"] \in Accounts /\ typed["identifier"] \in Accounts
         /\ challenge \in Codes /\ secondFactor \in Codes /\ Held(challenge) /\ Held(secondFactor)
         /\ ticket \in Accounts \cup {Nobody} /\ session \in Accounts \cup {Nobody}
         /\ pressed \in Accounts \cup {Nobody}
         /\ loading \in BOOLEAN /\ strayed \in BOOLEAN /\ signCalls \in [Slots -> SignRow]
         /\ secondFactor # NoCode => secondFactor.for = "TWO_FACTOR"
         /\ session # Nobody /\ surface # "phone" => stage = "left"
BY DEF SignIInv, SignShape, SignTypeOK, SignRow, SignKinds

LEMMA HeldNames ==
  ASSUME NEW c, Held(c), c # NoCode
  PROVE  c.of \in Accounts /\ c.for \in {"LOGIN", "TWO_FACTOR", "PASSWORD_RESET"}
         /\ c = Receipt(c.for, c.of)
BY DEF Held, Receipt

\* A press on a page that is not locked: nothing else is out, unless someone strayed.
LEMMA PressKeepsSign ==
  ASSUME SignIInv, NEW s \in Slots, NEW what \in SignKinds, NEW who \in Accounts, NEW fits \in BOOLEAN,
         Press(s, what, who, fits), stage # "left", ~strayed => fits = TRUE,
         what = "send" => stage = "signIn" /\ who = typed["identifier"],
         secondFactor' \in {secondFactor, NoCode}
  PROVE  SignIInv'
<1>1. /\ ~loading /\ loading' = TRUE /\ signCalls[s] = SignIdle /\ pressed' = who
      /\ signCalls' = [signCalls EXCEPT ![s] = [kind |-> what, of |-> who, fits |-> fits]]
      /\ UNCHANGED <<surface, stage, method, typed, challenge, ticket, session, strayed>>
  BY DEF Press
<1>2. PICK row \in SignRow : /\ signCalls' = [signCalls EXCEPT ![s] = row] /\ row.kind = what
                             /\ row.of = who /\ row.fits = fits
  <2>1. [kind |-> what, of |-> who, fits |-> fits] \in SignRow
    BY DEF SignRow
  <2> QED BY <1>1, <2>1
<1>3. /\ signCalls' \in [Slots -> SignRow] /\ signCalls'[s] = row
      /\ \A t \in Slots : t # s => signCalls'[t] = signCalls[t]
  BY <1>2, SignBefore
<1>4. secondFactor' \in Codes /\ Held(secondFactor') /\ (secondFactor' # NoCode => secondFactor'.for = "TWO_FACTOR")
  BY SignBefore, SignIdleIsTyped
<1>5. SignShape'
  <2>1. SignTypeOK'
    BY <1>1, <1>3, <1>4, SignBefore DEF SignTypeOK, SignRow, SignKinds
  <2>2. \A t \in Slots : signCalls'[t] # SignIdle => signCalls'[t].kind \in SignKinds /\ signCalls'[t].of \in Accounts
    BY <1>2, <1>3 DEF SignIInv, SignShape
  <2>3. Held(challenge)'
    BY <1>1, SignBefore DEF Held
  <2>4. Held(secondFactor)'
    BY <1>4 DEF Held
  <2>5. (session # Nobody /\ surface # "phone" => stage = "left")'
    BY <1>1, SignBefore
  <2> QED BY <1>4, <2>1, <2>2, <2>3, <2>4, <2>5 DEF SignShape
<1>6. NeverBlank'
  BY <1>1 DEF SignIInv, NeverBlank
<1>7. ~strayed => Out' \subseteq {s}
  <2>1. ~strayed => Out = {}
    BY <1>1 DEF SignIInv, OutAsPressed
  <2> QED BY <1>3, <2>1 DEF Out
<1>8. OneIsOut'
  BY <1>1, <1>7 DEF OneIsOut
<1>9. OutAsPressed'
  BY <1>1, <1>2, <1>3, <1>7 DEF OutAsPressed
<1>10. StageAsked'
  BY <1>1, SignBefore DEF SignIInv, StageAsked
<1> QED BY <1>5, <1>6, <1>8, <1>9, <1>10 DEF SignIInv

LEMMA PressesKeepSign ==
  ASSUME SignIInv, NEW s \in Slots,
         \/ SubmitPassword(s) \/ SendCode(s) \/ VerifyCode(s) \/ VerifySecondFactor(s)
         \/ ResendSecondFactor(s) \/ SendResetCode(s) \/ VerifyResetCode(s)
         \/ SubmitNewPassword(s) \/ Register(s) \/ \E who \in Accounts : StartSso(s, who)
  PROVE  SignIInv'
<1>0. /\ typed["email"] \in Accounts /\ typed["identifier"] \in Accounts /\ strayed \in BOOLEAN
      /\ Held(challenge) /\ Held(secondFactor)
      /\ secondFactor # NoCode => secondFactor.for = "TWO_FACTOR"
      /\ ticket \in Accounts \cup {Nobody}
  BY SignBefore
<1>1. CASE SubmitPassword(s)
  BY <1>0, <1>1, PressKeepsSign DEF SubmitPassword, AtSignIn, SignKinds
<1>2. CASE SendCode(s)
  BY <1>0, <1>2, PressKeepsSign DEF SendCode, AtSignIn, SignKinds
<1>3. CASE VerifyCode(s)
  <2>1. PICK fits \in BOOLEAN : fits = (challenge = Receipt("LOGIN", typed["identifier"]))
    OBVIOUS
  <2>2. stage = "signIn" /\ challenge # NoCode /\ secondFactor' = secondFactor
    BY <1>3 DEF VerifyCode, AtSignIn
  <2>3. Press(s, "verify", typed["identifier"], fits)
    BY <1>3, <2>1 DEF VerifyCode
  <2>4. ~strayed => fits = TRUE
    BY <2>1, <2>2 DEF SignIInv, StageAsked
  <2> QED BY <1>0, <2>2, <2>3, <2>4, PressKeepsSign DEF SignKinds
<1>4. CASE VerifySecondFactor(s)
  <2>1. CASE surface = "phone"
    <3>1. PICK fits \in BOOLEAN : fits = (challenge.for = "TWO_FACTOR")
      OBVIOUS
    <3>2. stage = "twoFactor" /\ challenge # NoCode /\ secondFactor' = secondFactor
      BY <1>4, <2>1 DEF VerifySecondFactor, AtSecondStep
    <3>3. Press(s, "second", challenge.of, fits)
      BY <1>4, <2>1, <3>1 DEF VerifySecondFactor
    <3>4. ~strayed => fits = TRUE
      BY <3>1, <3>2 DEF SignIInv, StageAsked
    <3>5. challenge.of \in Accounts
      BY <1>0, <3>2, HeldNames
    <3> QED BY <3>2, <3>3, <3>4, <3>5, PressKeepsSign DEF SignKinds
  <2>2. CASE surface # "phone"
    <3>1. PICK fits \in BOOLEAN : fits = (secondFactor.for = "TWO_FACTOR")
      OBVIOUS
    <3>2. stage = "signIn" /\ secondFactor # NoCode /\ secondFactor' = secondFactor
      BY <1>4, <2>2 DEF VerifySecondFactor, AtSecondStep
    <3>3. Press(s, "second", secondFactor.of, fits)
      BY <1>4, <2>2, <3>1 DEF VerifySecondFactor
    <3>4. fits = TRUE
      BY <1>0, <3>1, <3>2
    <3>5. secondFactor.of \in Accounts
      BY <1>0, <3>2, HeldNames
    <3> QED BY <3>2, <3>3, <3>4, <3>5, PressKeepsSign DEF SignKinds
  <2> QED BY <2>1, <2>2
<1>5. CASE ResendSecondFactor(s)
  <2>1. stage = "signIn"
    BY <1>5 DEF ResendSecondFactor, AtSecondStep
  <2> QED BY <1>0, <1>5, <2>1, PressKeepsSign DEF ResendSecondFactor, SignKinds
<1>6. CASE SendResetCode(s)
  BY <1>0, <1>6, PressKeepsSign DEF SendResetCode, SignKinds
<1>7. CASE VerifyResetCode(s)
  <2>1. PICK fits \in BOOLEAN : fits = (challenge.for = "PASSWORD_RESET")
    OBVIOUS
  <2>2. stage = "forgotVerify" /\ challenge # NoCode /\ secondFactor' = secondFactor
    BY <1>7 DEF VerifyResetCode
  <2>3. Press(s, "verifyReset", challenge.of, fits)
    BY <1>7, <2>1 DEF VerifyResetCode
  <2>4. ~strayed => fits = TRUE
    BY <2>1, <2>2 DEF SignIInv, StageAsked
  <2>5. challenge.of \in Accounts
    BY <1>0, <2>2, HeldNames
  <2> QED BY <2>2, <2>3, <2>4, <2>5, PressKeepsSign DEF SignKinds
<1>8. CASE SubmitNewPassword(s)
  <2>1. ticket \in Accounts /\ stage = "forgotReset"
    BY <1>0, <1>8 DEF SubmitNewPassword
  <2> QED BY <1>8, <2>1, PressKeepsSign DEF SubmitNewPassword, SignKinds
<1>9. CASE Register(s)
  BY <1>0, <1>9, PressKeepsSign DEF Register, SignKinds
<1>10. ASSUME NEW who \in Accounts, StartSso(s, who) PROVE SignIInv'
  BY <1>0, <1>10, PressKeepsSign DEF StartSso, SignKinds
<1> QED BY <1>1, <1>2, <1>3, <1>4, <1>5, <1>6, <1>7, <1>8, <1>9, <1>10

\* What an answer that arrives finds, and what it leaves out.
LEMMA ArrivesAlone ==
  ASSUME SignIInv, NEW s \in Slots, NEW kinds, Arrives(s, kinds), "none" \notin kinds
  PROVE  /\ stage # "left" /\ signCalls[s].kind \in kinds /\ s \in Out /\ signCalls[s].of \in Accounts
         /\ signCalls' \in [Slots -> SignRow] /\ loading' = FALSE
         /\ \A t \in Slots : signCalls'[t] # SignIdle =>
              signCalls'[t].kind \in SignKinds /\ signCalls'[t].of \in Accounts
         /\ ~strayed => Out' = {}
         /\ ~strayed => /\ signCalls[s].of = pressed /\ signCalls[s].fits = TRUE
                        /\ signCalls[s].kind = "send" => /\ stage = "signIn"
                                                         /\ signCalls[s].of = typed["identifier"]
<1>1. /\ stage # "left" /\ signCalls[s].kind \in kinds /\ loading' = FALSE
      /\ signCalls' = [signCalls EXCEPT ![s] = SignIdle]
  BY DEF Arrives, Left, Unlock
<1>2. s \in Out /\ signCalls[s].of \in Accounts
  <2>1. signCalls[s] # SignIdle
    BY <1>1, SignIdleIsTyped
  <2> QED BY <2>1 DEF Out, SignIInv, SignShape
<1>3. /\ signCalls' \in [Slots -> SignRow] /\ signCalls'[s] = SignIdle
      /\ \A t \in Slots : t # s => signCalls'[t] = signCalls[t]
  BY <1>1, SignBefore, SignIdleIsTyped
<1>4. ~strayed => Out' = {}
  <2>1. SUFFICES ASSUME ~strayed, NEW t \in Slots, signCalls'[t] # SignIdle PROVE FALSE
    BY DEF Out
  <2>2. t # s /\ t \in Out
    BY <1>3, <2>1 DEF Out
  <2> QED BY <1>2, <2>1, <2>2 DEF SignIInv, OneIsOut
<1>5. ~strayed => /\ signCalls[s].of = pressed /\ signCalls[s].fits = TRUE
                  /\ signCalls[s].kind = "send" => /\ stage = "signIn"
                                                   /\ signCalls[s].of = typed["identifier"]
  BY <1>2 DEF SignIInv, OutAsPressed
<1>6. \A t \in Slots : signCalls'[t] # SignIdle => signCalls'[t].kind \in SignKinds /\ signCalls'[t].of \in Accounts
  BY <1>3 DEF SignIInv, SignShape
<1> QED BY <1>1, <1>2, <1>3, <1>4, <1>5, <1>6

\* What an answer has to show: the page it moves to has what it asks for.
LEMMA ArrivalsKeepSign ==
  ASSUME SignIInv, NEW s \in Slots, NEW kinds, Arrives(s, kinds), "none" \notin kinds,
         UNCHANGED <<surface, method, typed, pressed, strayed>>,
         stage' \in {"signIn", "twoFactor", "forgotSend", "forgotVerify", "forgotReset", "done",
                     "register", "left"},
         challenge' \in Codes, Held(challenge'), secondFactor' \in Codes, Held(secondFactor'),
         secondFactor' # NoCode => secondFactor'.for = "TWO_FACTOR",
         ticket' \in Accounts \cup {Nobody}, session' \in Accounts \cup {Nobody},
         session' # Nobody /\ surface # "phone" => stage' = "left",
         NeverBlank', StageAsked'
  PROVE  SignIInv'
<1>1. /\ signCalls' \in [Slots -> SignRow] /\ loading' = FALSE /\ (~strayed => Out' = {})
      /\ \A t \in Slots : signCalls'[t] # SignIdle =>
           signCalls'[t].kind \in SignKinds /\ signCalls'[t].of \in Accounts
  BY ArrivesAlone
<1>2. SignShape'
  <2>1. SignTypeOK'
    BY <1>1, SignBefore DEF SignTypeOK, SignRow, SignKinds
  <2>2. Held(challenge)' /\ Held(secondFactor)'
    BY DEF Held
  <2> QED BY <1>1, <2>1, <2>2 DEF SignShape
<1>3. OneIsOut' /\ OutAsPressed'
  BY <1>1 DEF OneIsOut, OutAsPressed
<1> QED BY <1>2, <1>3 DEF SignIInv

LEMMA SignedInKeepsSign == ASSUME SignIInv, NEW s \in Slots, SignedIn(s) PROVE SignIInv'
<1>1. /\ Arrives(s, {"password", "verify", "second", "register", "sso"})
      /\ session' = signCalls[s].of /\ stage' = IF surface = "phone" THEN stage ELSE "left"
      /\ UNCHANGED <<surface, method, typed, challenge, secondFactor, ticket, pressed, strayed>>
  BY DEF SignedIn
<1>2. signCalls[s].of \in Accounts /\ (~strayed => signCalls[s].of = pressed)
  BY <1>1, ArrivesAlone
<1>3. NeverBlank'
  BY <1>1 DEF SignIInv, NeverBlank
<1>4. StageAsked'
  BY <1>1, <1>2 DEF SignIInv, StageAsked
<1> QED BY <1>1, <1>2, <1>3, <1>4, SignBefore, ArrivalsKeepSign

LEMMA AskSecondFactorKeepsSign == ASSUME SignIInv, NEW s \in Slots, AskSecondFactor(s) PROVE SignIInv'
<1>1. /\ Arrives(s, {"password"})
      /\ UNCHANGED <<surface, method, typed, ticket, session, pressed, strayed>>
  BY DEF AskSecondFactor
<1>2. signCalls[s].of \in Accounts /\ stage # "left"
  BY <1>1, ArrivesAlone
<1>3. PICK receipt : /\ receipt \in Codes /\ Held(receipt) /\ receipt # NoCode /\ receipt.for = "TWO_FACTOR"
                     /\ receipt = Receipt("TWO_FACTOR", signCalls[s].of)
  BY <1>2, SignIdleIsTyped
<1>4. CASE surface = "phone"
  <2>1. challenge' = receipt /\ stage' = "twoFactor" /\ UNCHANGED secondFactor
    BY <1>3, <1>4 DEF AskSecondFactor
  <2>2. NeverBlank' /\ StageAsked'
    BY <1>1, <1>3, <1>4, <2>1 DEF NeverBlank, StageAsked
  <2> QED BY <1>1, <1>3, <1>4, <2>1, <2>2, SignBefore, ArrivalsKeepSign
<1>5. CASE surface # "phone"
  <2>1. secondFactor' = receipt /\ UNCHANGED <<challenge, stage>>
    BY <1>3, <1>5 DEF AskSecondFactor
  <2>2. NeverBlank' /\ StageAsked'
    BY <1>1, <2>1 DEF SignIInv, NeverBlank, StageAsked
  <2> QED BY <1>1, <1>3, <2>1, <2>2, SignBefore, ArrivalsKeepSign
<1> QED BY <1>4, <1>5

LEMMA CodesKeepSign ==
  ASSUME SignIInv, NEW s \in Slots, CodeSent(s) \/ ResetCodeSent(s) PROVE SignIInv'
<1>1. CASE CodeSent(s)
  <2>1. /\ Arrives(s, {"send"}) /\ challenge' = Receipt("LOGIN", signCalls[s].of)
        /\ UNCHANGED <<surface, stage, method, typed, secondFactor, ticket, session, pressed, strayed>>
    BY <1>1 DEF CodeSent
  <2>2. /\ signCalls[s].of \in Accounts /\ stage # "left"
        /\ ~strayed => stage = "signIn" /\ signCalls[s].of = typed["identifier"]
    <3>1. signCalls[s].kind = "send"
      BY <2>1 DEF Arrives
    <3>2. s \in Out /\ signCalls[s].of \in Accounts /\ stage # "left"
      BY <2>1, ArrivesAlone
    <3> QED BY <3>1, <3>2 DEF SignIInv, OutAsPressed
  <2>3. challenge' \in Codes /\ Held(challenge') /\ challenge' # NoCode
    BY <2>1, <2>2, SignIdleIsTyped
  <2>4. NeverBlank' /\ StageAsked'
    BY <2>1, <2>2, <2>3 DEF SignIInv, NeverBlank, StageAsked
  <2> QED BY <2>1, <2>3, <2>4, SignBefore, ArrivalsKeepSign
<1>2. CASE ResetCodeSent(s)
  <2>1. /\ Arrives(s, {"sendReset"}) /\ challenge' = Receipt("PASSWORD_RESET", signCalls[s].of)
        /\ stage' = "forgotVerify"
        /\ UNCHANGED <<surface, method, typed, secondFactor, ticket, session, pressed, strayed>>
    BY <1>2 DEF ResetCodeSent
  <2>2. signCalls[s].of \in Accounts /\ stage # "left"
    BY <2>1, ArrivesAlone
  <2>3. challenge' \in Codes /\ Held(challenge') /\ challenge' # NoCode /\ challenge'.for = "PASSWORD_RESET"
    BY <2>1, <2>2, SignIdleIsTyped
  <2>5. session # Nobody => surface = "phone"
    BY <2>2, SignBefore
  <2>4. NeverBlank' /\ StageAsked'
    BY <2>1, <2>3, <2>5 DEF NeverBlank, StageAsked
  <2> QED BY <2>1, <2>3, <2>4, <2>5, SignBefore, ArrivalsKeepSign
<1> QED BY <1>1, <1>2

LEMMA TicketsKeepSign ==
  ASSUME SignIInv, NEW s \in Slots, TakeTicket(s) \/ PasswordSet(s) \/ FailSignCall(s) PROVE SignIInv'
<1>1. CASE TakeTicket(s)
  <2>1. /\ Arrives(s, {"verifyReset"}) /\ ticket' = signCalls[s].of /\ stage' = "forgotReset"
        /\ UNCHANGED <<surface, method, typed, challenge, secondFactor, session, pressed, strayed>>
    BY <1>1 DEF TakeTicket
  <2>2. signCalls[s].of \in Accounts /\ stage # "left"
    BY <2>1, ArrivesAlone
  <2>3. session # Nobody => surface = "phone"
    BY <2>2, SignBefore
  <2>4. NeverBlank' /\ StageAsked'
    BY <2>1, <2>2, <2>3, SignInAssumption DEF NeverBlank, StageAsked
  <2> QED BY <2>1, <2>2, <2>3, <2>4, SignBefore, ArrivalsKeepSign
<1>2. CASE PasswordSet(s)
  <2>1. /\ Arrives(s, {"newPassword"}) /\ stage' = "done"
        /\ UNCHANGED <<surface, method, typed, challenge, secondFactor, ticket, session, pressed, strayed>>
    BY <1>2 DEF PasswordSet
  <2>2. stage # "left"
    BY <2>1, ArrivesAlone
  <2>3. session # Nobody => surface = "phone"
    BY <2>2, SignBefore
  <2>4. NeverBlank' /\ StageAsked'
    BY <2>1, <2>3 DEF NeverBlank, StageAsked
  <2> QED BY <2>1, <2>3, <2>4, SignBefore, ArrivalsKeepSign
<1>3. CASE FailSignCall(s)
  <2>1. /\ Arrives(s, {signCalls[s].kind} \ {"none"})
        /\ UNCHANGED <<surface, stage, method, typed, challenge, secondFactor, ticket, session,
                       pressed, strayed>>
    BY <1>3 DEF FailSignCall
  <2>2. NeverBlank' /\ StageAsked'
    BY <2>1 DEF SignIInv, NeverBlank, StageAsked
  <2> QED BY <2>1, <2>2, SignBefore, ArrivalsKeepSign
<1> QED BY <1>1, <1>2, <1>3

\* The tabs, the links and the fields leave the calls; who goes elsewhere while one is out
\* strays.
LEMMA GoingKeepsSign ==
  ASSUME SignIInv, Goes, Unlock, UNCHANGED <<surface, typed, signCalls, session, pressed>>,
         method' \in {"password", "code"}, stage # "left",
         stage' \in {"signIn", "forgotSend"} \cup {stage},
         stage' = "signIn" => challenge' = NoCode \/ stage = "signIn",
         challenge' \in {challenge, NoCode}, challenge' = challenge \/ stage' = "signIn",
         secondFactor' \in {secondFactor, NoCode}, ticket' \in {ticket, Nobody},
         ticket' = ticket \/ stage' = "signIn"
  PROVE  SignIInv'
<1>1. strayed' = (strayed \/ Out # {}) /\ loading' = FALSE
  BY DEF Goes, Unlock
<1>2. /\ Held(challenge') /\ challenge' \in Codes /\ Held(secondFactor') /\ secondFactor' \in Codes
      /\ secondFactor' # NoCode => secondFactor'.for = "TWO_FACTOR"
      /\ ticket' \in Accounts \cup {Nobody} /\ strayed' \in BOOLEAN
      /\ session # Nobody => surface = "phone"
  BY <1>1, SignBefore, SignIdleIsTyped
<1>3. SignShape'
  <2>1. SignTypeOK'
    BY <1>1, <1>2, SignBefore DEF SignTypeOK, SignRow, SignKinds
  <2>2. Held(challenge)' /\ Held(secondFactor)'
    BY <1>2 DEF Held
  <2> QED BY <1>2, <2>1, <2>2 DEF SignIInv, SignShape
<1>4. NeverBlank'
  BY DEF SignIInv, NeverBlank
<1>5. ~strayed' => ~strayed /\ Out' = {}
  BY <1>1 DEF Out
<1>6. OneIsOut' /\ OutAsPressed'
  BY <1>5 DEF OneIsOut, OutAsPressed
<1>7. StageAsked'
  BY <1>2, <1>5 DEF SignIInv, StageAsked
<1> QED BY <1>3, <1>4, <1>6, <1>7 DEF SignIInv

LEMMA GoesKeepSign ==
  ASSUME SignIInv, \/ \E m \in {"password", "code"} : ChooseMethod(m)
                   \/ ForgetPassword \/ Reset
  PROVE  SignIInv'
<1>0. method \in {"password", "code"} /\ (session # Nobody /\ surface # "phone" => stage = "left")
  BY SignBefore
<1>1. ASSUME NEW m \in {"password", "code"}, ChooseMethod(m) PROVE SignIInv'
  BY <1>1, GoingKeepsSign DEF ChooseMethod
<1>2. CASE ForgetPassword
  BY <1>0, <1>2, GoingKeepsSign DEF ForgetPassword, AtSignIn
<1>3. CASE Reset
  <2>1. stage # "left"
    BY <1>3 DEF Reset, AtSecondStep
  <2> QED BY <1>0, <1>3, <2>1, GoingKeepsSign DEF Reset
<1> QED BY <1>1, <1>2, <1>3

LEMMA TypingKeepsSign ==
  ASSUME SignIInv, NEW who \in Accounts, TypeEmail(who) \/ TypeIdentifier(who) PROVE SignIInv'
<1>1. PICK f \in {"email", "identifier"} :
        /\ typed' = [typed EXCEPT ![f] = who] /\ ~loading
        /\ challenge' \in {challenge, NoCode}
        /\ challenge' = challenge \/ stage = "signIn"
        /\ f = "identifier" => /\ stage = "signIn" => challenge' = NoCode
                               /\ stage \in {"signIn", "forgotSend"}
        /\ f = "email" => challenge' = challenge
        /\ UNCHANGED <<surface, stage, method, secondFactor, ticket, loading, signCalls, session,
                       pressed, strayed>>
  <2>1. CASE TypeEmail(who)
    BY <2>1 DEF TypeEmail
  <2>2. CASE TypeIdentifier(who)
    BY <2>2 DEF TypeIdentifier, AtSignIn
  <2> QED BY <2>1, <2>2
<1>2. /\ typed' \in [{"email", "identifier"} -> Accounts]
      /\ f = "email" => typed'["identifier"] = typed["identifier"]
  BY <1>1, SignBefore
<1>3. Held(challenge') /\ challenge' \in Codes
  BY <1>1, SignBefore, SignIdleIsTyped
<1>4. SignShape'
  <2>1. SignTypeOK'
    BY <1>1, <1>2, <1>3, SignBefore DEF SignTypeOK, SignRow, SignKinds
  <2>2. Held(challenge)' /\ Held(secondFactor)'
    BY <1>1, <1>3, SignBefore DEF Held
  <2> QED BY <1>1, <2>1, <2>2 DEF SignIInv, SignShape
<1>5. NeverBlank'
  BY <1>1 DEF SignIInv, NeverBlank
<1>6. ~strayed => Out' = {} /\ Out = {}
  BY <1>1 DEF SignIInv, OutAsPressed, Out
<1>7. OneIsOut' /\ OutAsPressed'
  BY <1>1, <1>6 DEF OneIsOut, OutAsPressed
<1>8. StageAsked'
  BY <1>1, <1>2 DEF SignIInv, StageAsked
<1> QED BY <1>4, <1>5, <1>7, <1>8 DEF SignIInv

LEMMA SignInductive == SignIInv /\ [SignNext]_signVars => SignIInv'
<1> SUFFICES ASSUME SignIInv, [SignNext]_signVars PROVE SignIInv'
  OBVIOUS
<1>1. CASE SignNext
  BY <1>1, PressesKeepSign, SignedInKeepsSign, AskSecondFactorKeepsSign, CodesKeepSign,
     TicketsKeepSign, GoesKeepSign, TypingKeepsSign DEF SignNext
<1>2. CASE UNCHANGED signVars
  BY <1>2 DEF signVars, SignIInv, SignShape, SignTypeOK, NeverBlank, OneIsOut, OutAsPressed,
     StageAsked, Out, Held
<1> QED BY <1>1, <1>2

LEMMA SignHolds == SignSpec => []SignIInv
BY SignInitial, SignInductive, PTL DEF SignSpec

LEMMA SignTyped == SignIInv => SignTypeOK
BY DEF SignIInv, SignShape

LEMMA SignPromised == SignIInv => StagesFit
<1> SUFFICES ASSUME SignIInv PROVE StagesFit
  OBVIOUS
<1>1. CodesFit
  <2>1. SUFFICES ASSUME ~strayed
                 PROVE  /\ Cardinality(Out) <= 1
                        /\ \A s \in Out : signCalls[s].fits
                        /\ session # Nobody /\ surface # "phone" => session = pressed
    BY DEF CodesFit
  <2>2. CASE Out = {}
    BY <2>1, <2>2, FS_EmptySet DEF SignIInv, StageAsked
  <2>3. ASSUME NEW s \in Out PROVE Cardinality(Out) <= 1
    <3>1. Out = {s}
      BY <2>1, <2>3 DEF SignIInv, OneIsOut
    <3>2. Cardinality({s}) = 1
      BY FS_Singleton
    <3> QED BY <3>1, <3>2
  <2>4. \A s \in Out : signCalls[s].fits
    BY <2>1 DEF SignIInv, OutAsPressed
  <2> QED BY <2>1, <2>2, <2>3, <2>4 DEF SignIInv, StageAsked
<1> QED BY <1>1 DEF SignIInv, StagesFit

\* The stages of signing in have what they show, and a code is checked for what it was sent
\* for (auth.tsx:202-338, sign-in-form.tsx:67-148).
THEOREM StagesHaveTheirCodes == SignSpec => []StagesFit
BY SignHolds, SignPromised, PTL

-----------------------------------------------------------------------------
(* The page that publishes. *)

\* A file is picked once, and stays fresh until it is on the page; while the kind is not
\* switched under a publication, a file has one publication at most, which the page waits for
\* or has left behind with the file.

PostRow == [step: {"idle", "presign", "put", "complete", "create", "answer"},
            file: Nat, kind: Kinds, here: BOOLEAN]
Posted(s) == posts[s].step # "idle"
Here(s) == Posted(s) /\ posts[s].here = TRUE
Of(s, f) == Posted(s) /\ posts[s].file = f

ComposerShape ==
  /\ device \in {"web", "phone"} /\ kind \in Kinds /\ media \in 0..Len(files)
  /\ files \in Seq(Kinds) /\ Len(files) <= MaxFiles
  /\ publishing \in BOOLEAN /\ mixed \in BOOLEAN /\ switched \in BOOLEAN
  /\ picks \in [Slots -> Nat] /\ posts \in [Slots -> PostRow]
  /\ \A s \in Slots : picks[s] <= Len(files) /\ posts[s].file <= Len(files)
  /\ stored \subseteq DOMAIN files /\ unheard \subseteq DOMAIN files
  /\ made \in [1..MaxFiles -> Seq(Kinds)]
  /\ \A s \in Slots : IF Posted(s) THEN posts[s].file # NoFile ELSE posts[s] = PostIdle
StoredFirst ==
  /\ \A s \in Slots : posts[s].step \in {"create", "answer"} => posts[s].file \in stored
  /\ \A f \in 1..MaxFiles : made[f] # <<>> => f \in stored
KindsMatch ==
  ~mixed => /\ media # NoFile => files[media] = kind
            /\ \A s \in Slots : Posted(s) => files[posts[s].file] = posts[s].kind
            /\ \A f \in 1..MaxFiles : \A i \in DOMAIN made[f] : made[f][i] = files[f]
PicksAreFresh ==
  /\ \A s, t \in Slots : picks[s] # NoFile /\ picks[s] = picks[t] => s = t
  /\ \A s \in Slots : picks[s] # NoFile => /\ picks[s] # media /\ made[picks[s]] = <<>>
                                           /\ \A t \in Slots : ~Of(t, picks[s])
PageWaits ==
  ~switched => /\ \A s, t \in Slots : Here(s) /\ Here(t) => s = t
               /\ publishing <=> \E s \in Slots : Here(s)
MadeOnce ==
  ~switched =>
    /\ \A s, t \in Slots : Posted(s) /\ Posted(t) /\ posts[s].file = posts[t].file => s = t
    /\ \A s \in Slots : Of(s, media) => posts[s].here = TRUE
    /\ \A f \in 1..MaxFiles : f \notin unheard /\ made[f] # <<>> =>
         /\ Len(made[f]) = 1
         /\ \A s \in Slots : Of(s, f) => posts[s].step = "answer"
         /\ media = f => \E s \in Slots : Of(s, f) /\ posts[s].here = TRUE

ComposerIInv == ComposerShape /\ StoredFirst /\ KindsMatch /\ PicksAreFresh /\ PageWaits /\ MadeOnce

LEMMA PostIdleIsTyped ==
  PostIdle \in PostRow /\ PostIdle.step = "idle" /\ PostIdle.file = 0 /\ NoFile = 0
BY DEF PostIdle, PostRow, NoFile, Kinds

LEMMA ComposerInitial == ComposerInit => ComposerIInv
<1> SUFFICES ASSUME ComposerInit PROVE ComposerIInv
  OBVIOUS
<1>1. /\ \A s \in Slots : posts[s] = PostIdle /\ picks[s] = 0 /\ ~Posted(s)
      /\ \A f \in 1..MaxFiles : made[f] = <<>>
      /\ media = 0 /\ files = <<>> /\ kind = "IMAGE" /\ stored = {} /\ unheard = {}
      /\ publishing = FALSE /\ mixed = FALSE /\ switched = FALSE
  BY PostIdleIsTyped DEF ComposerInit, Posted
<1>2. ComposerShape
  <2>1. files \in Seq(Kinds) /\ Len(files) = 0 /\ DOMAIN files = {}
    BY <1>1
  <2>2. posts \in [Slots -> PostRow] /\ picks \in [Slots -> Nat] /\ made \in [1..MaxFiles -> Seq(Kinds)]
    BY PostIdleIsTyped DEF ComposerInit
  <2>3. device \in {"web", "phone"} /\ kind \in Kinds
    BY <1>1 DEF ComposerInit, Kinds
  <2>4. \A s \in Slots : picks[s] <= Len(files) /\ posts[s].file <= Len(files)
    BY <1>1, <2>1, PostIdleIsTyped
  <2>5. publishing \in BOOLEAN /\ mixed \in BOOLEAN /\ switched \in BOOLEAN
    BY <1>1
  <2>6. MaxFiles \in Nat
    BY ComposerAssumption
  <2> QED BY <1>1, <2>1, <2>2, <2>3, <2>4, <2>5, <2>6 DEF ComposerShape
<1>3. StoredFirst /\ KindsMatch /\ PicksAreFresh
  BY <1>1, PostIdleIsTyped DEF StoredFirst, KindsMatch, PicksAreFresh
<1>4. PageWaits /\ MadeOnce
  BY <1>1 DEF PageWaits, MadeOnce, Here, Of
<1> QED BY <1>2, <1>3, <1>4 DEF ComposerIInv

\* A publication moves on, and the others stand.
LEMMA PostMoves ==
  ASSUME ComposerIInv, NEW s \in Slots
  PROVE  /\ posts[s] \in PostRow
         /\ \A row \in PostRow : posts' = [posts EXCEPT ![s] = row] =>
              /\ posts' \in [Slots -> PostRow] /\ posts'[s] = row
              /\ \A t \in Slots : t # s => posts'[t] = posts[t]
<1>1. posts \in [Slots -> PostRow]
  BY DEF ComposerIInv, ComposerShape
<1> QED BY <1>1

LEMMA PostRows ==
  ASSUME ComposerIInv, NEW s \in Slots
  PROVE  \A step \in {"put", "complete", "create", "answer"} : PostGoTo(s, step) =>
           \E row \in PostRow :
             /\ posts' = [posts EXCEPT ![s] = row] /\ row.step = step
             /\ row.file = posts[s].file /\ row.kind = posts[s].kind /\ row.here = posts[s].here
<1>1. posts[s] \in PostRow
  BY PostMoves
<1> SUFFICES ASSUME NEW step \in {"put", "complete", "create", "answer"}, PostGoTo(s, step)
             PROVE  \E row \in PostRow :
             /\ posts' = [posts EXCEPT ![s] = row] /\ row.step = step
             /\ row.file = posts[s].file /\ row.kind = posts[s].kind /\ row.here = posts[s].here
  OBVIOUS
<1>2. posts' = [posts EXCEPT ![s] = [posts[s] EXCEPT !.step = step]]
  BY DEF PostGoTo
<1>3. [posts[s] EXCEPT !.step = step] \in PostRow
  BY <1>1 DEF PostRow
<1>4. LET r == [posts[s] EXCEPT !.step = step]
      IN r.step = step /\ r.file = posts[s].file /\ r.kind = posts[s].kind /\ r.here = posts[s].here
  BY <1>1 DEF PostRow
<1> QED BY <1>2, <1>3, <1>4

\* The server's part of a publication.
LEMMA ServeKeepsComposer ==
  ASSUME ComposerIInv, NEW s \in Slots, NEW row \in PostRow, ServeSteps(s),
         posts' = [posts EXCEPT ![s] = row], Posted(s), row.step # "idle",
         row.file = posts[s].file, row.kind = posts[s].kind, row.here = posts[s].here,
         stored' \in {stored, stored \cup {posts[s].file}},
         row.step \in {"create", "answer"} => row.file \in stored',
         \/ made' = made /\ posts[s].step # "answer"
         \/ /\ posts[s].step = "create" /\ row.step = "answer"
            /\ made' = [made EXCEPT ![posts[s].file] = Append(@, posts[s].kind)]
  PROVE  ComposerIInv'
<1> DEFINE g == posts[s].file
<1>1. /\ posts' \in [Slots -> PostRow] /\ posts'[s] = row /\ posts[s] \in PostRow
      /\ \A t \in Slots : t # s => posts'[t] = posts[t]
  BY PostMoves
<1>2. UNCHANGED <<device, kind, media, files, publishing, picks, mixed, switched, unheard>>
  BY DEF ServeSteps
<1>3. /\ \A t \in Slots : Posted(t)' <=> Posted(t)
      /\ \A t \in Slots : posts'[t].file = posts[t].file /\ posts'[t].kind = posts[t].kind
                          /\ posts'[t].here = posts[t].here
      /\ \A t \in Slots : Here(t)' <=> Here(t)
      /\ \A t \in Slots, f \in Nat : Of(t, f)' <=> Of(t, f)
  BY <1>1 DEF Posted, Here, Of
<1>4. g \in DOMAIN files /\ g \in 1..MaxFiles /\ posts[s].kind \in Kinds
  <2>1. g \in Nat /\ g # 0 /\ g <= Len(files) /\ Len(files) <= MaxFiles /\ posts[s].kind \in Kinds
        /\ Len(files) \in Nat /\ DOMAIN files = 1..Len(files)
    BY <1>1, PostIdleIsTyped DEF ComposerIInv, ComposerShape, PostRow
  <2> QED BY <2>1, ComposerAssumption
<1>5. /\ made' \in [1..MaxFiles -> Seq(Kinds)]
      /\ \A f \in 1..MaxFiles : f # g => made'[f] = made[f]
      /\ made'[g] = made[g] \/ (posts[s].step = "create" /\ row.step = "answer"
                                /\ made'[g] = Append(made[g], posts[s].kind))
      /\ (made'[g] = made[g] /\ posts[s].step # "answer") \/ row.step = "answer"
  <2>1. made \in [1..MaxFiles -> Seq(Kinds)]
    BY DEF ComposerIInv, ComposerShape
  <2>2. Append(made[g], posts[s].kind) \in Seq(Kinds)
    BY <1>4, <2>1
  <2> QED BY <1>4, <2>1, <2>2
<1>6. ComposerShape'
  <2>1. stored' \subseteq DOMAIN files
    BY <1>4 DEF ComposerIInv, ComposerShape
  <2>2. ASSUME NEW t \in Slots
        PROVE  IF Posted(t)' THEN posts'[t].file # NoFile ELSE posts'[t] = PostIdle
    <3>1. CASE t = s
      BY <1>1, <1>3, <3>1, PostIdleIsTyped DEF ComposerIInv, ComposerShape, Posted
    <3>2. CASE t # s
      BY <1>1, <1>3, <3>2 DEF ComposerIInv, ComposerShape
    <3> QED BY <3>1, <3>2
  <2> QED BY <1>1, <1>2, <1>3, <1>5, <2>1, <2>2 DEF ComposerIInv, ComposerShape
<1>7. StoredFirst'
  <2>1. ASSUME NEW t \in Slots, posts'[t].step \in {"create", "answer"} PROVE posts'[t].file \in stored'
    BY <1>1, <2>1 DEF ComposerIInv, StoredFirst
  <2>2. ASSUME NEW f \in 1..MaxFiles, made'[f] # <<>> PROVE f \in stored'
    <3>1. CASE made'[f] = made[f]
      BY <2>2, <3>1 DEF ComposerIInv, StoredFirst
    <3>2. CASE made'[f] # made[f]
      BY <1>5, <2>2, <3>2
    <3> QED BY <3>1, <3>2
  <2> QED BY <2>1, <2>2 DEF StoredFirst
<1>8. KindsMatch'
  <2>1. SUFFICES ASSUME ~mixed PROVE KindsMatch'
    BY <1>2 DEF KindsMatch
  <2>2. /\ media # NoFile => files[media] = kind
        /\ \A t \in Slots : Posted(t) => files[posts[t].file] = posts[t].kind
        /\ \A f \in 1..MaxFiles : \A i \in DOMAIN made[f] : made[f][i] = files[f]
    BY <2>1 DEF ComposerIInv, KindsMatch
  <2>3. ASSUME NEW f \in 1..MaxFiles, NEW i \in DOMAIN made'[f] PROVE made'[f][i] = files[f]
    <3>1. CASE made'[f] = made[f]
      BY <2>2, <2>3, <3>1
    <3>2. CASE made'[f] # made[f]
      <4>1. f = g /\ made'[g] = Append(made[g], posts[s].kind)
        BY <1>5, <3>2
      <4>2. made[g] \in Seq(Kinds) /\ files[g] = posts[s].kind
        BY <1>4, <2>2 DEF ComposerIInv, ComposerShape
      <4>3. /\ DOMAIN made'[g] = 1..(Len(made[g]) + 1)
            /\ made'[g][Len(made[g]) + 1] = posts[s].kind
            /\ \A k \in 1..Len(made[g]) : made'[g][k] = made[g][k]
            /\ DOMAIN made[g] = 1..Len(made[g]) /\ Len(made[g]) \in Nat
        BY <1>4, <4>1, <4>2
      <4> QED BY <1>4, <2>2, <2>3, <4>1, <4>2, <4>3
    <3> QED BY <3>1, <3>2
  <2> QED BY <1>2, <1>3, <2>2, <2>3 DEF KindsMatch
<1>9. PicksAreFresh'
  <2>1. ASSUME NEW t \in Slots, picks[t] # NoFile
        PROVE  /\ picks[t] # media /\ made'[picks[t]] = <<>> /\ \A u \in Slots : ~Of(u, picks[t])'
    <3>1. picks[t] # media /\ made[picks[t]] = <<>> /\ \A u \in Slots : ~Of(u, picks[t])
      BY <2>1 DEF ComposerIInv, PicksAreFresh
    <3>2. picks[t] # g
      BY <3>1 DEF Of
    <3>3. picks[t] \in 1..MaxFiles /\ picks[t] \in Nat
      <4>1. picks[t] \in Nat /\ picks[t] # 0 /\ picks[t] <= Len(files) /\ Len(files) <= MaxFiles
            /\ Len(files) \in Nat
        BY <2>1, PostIdleIsTyped DEF ComposerIInv, ComposerShape
      <4> QED BY <4>1, ComposerAssumption
    <3>4. \A u \in Slots : Of(u, picks[t])' <=> Of(u, picks[t])
      BY <1>2, <1>3 DEF Of
    <3> QED BY <1>5, <3>1, <3>2, <3>3, <3>4
  <2> QED BY <1>2, <2>1 DEF ComposerIInv, PicksAreFresh
<1>10. PageWaits'
  BY <1>2, <1>3 DEF ComposerIInv, PageWaits
<1>11. MadeOnce'
  <2>1. SUFFICES ASSUME ~switched PROVE MadeOnce'
    BY <1>2 DEF MadeOnce
  <2>2. /\ \A t, u \in Slots : Posted(t) /\ Posted(u) /\ posts[t].file = posts[u].file => t = u
        /\ \A t \in Slots : Of(t, media) => posts[t].here = TRUE
        /\ \A f \in 1..MaxFiles : f \notin unheard /\ made[f] # <<>> =>
             /\ Len(made[f]) = 1
             /\ \A t \in Slots : Of(t, f) => posts[t].step = "answer"
             /\ media = f => \E t \in Slots : Of(t, f) /\ posts[t].here = TRUE
    BY <2>1 DEF ComposerIInv, MadeOnce
  <2>3. media \in Nat
    BY DEF ComposerIInv, ComposerShape
  <2>4. ASSUME NEW f \in 1..MaxFiles, f \notin unheard, made'[f] # <<>>
        PROVE  /\ Len(made'[f]) = 1
               /\ \A t \in Slots : Of(t, f)' => posts'[t].step = "answer"
               /\ media = f => \E t \in Slots : Of(t, f)' /\ posts'[t].here = TRUE
    <3>1. CASE f # g
      <4>1. made'[f] = made[f] /\ ~Of(s, f) /\ f \in Nat
        BY <1>5, <3>1 DEF Of
      <4> QED BY <1>1, <1>3, <2>2, <2>4, <3>1, <4>1
    <3>2. CASE f = g
      <4>1. made[g] = <<>>
        <5>1. posts[s].step # "answer"
          BY DEF Posted
        <5> QED BY <1>4, <2>2, <2>4, <3>2, <5>1 DEF Of
      <4>2. made'[g] = Append(made[g], posts[s].kind) /\ row.step = "answer"
        BY <1>5, <2>4, <3>2, <4>1
      <4>3. Len(made'[g]) = 1
        BY <1>4, <4>1, <4>2
      <4>4. \A t \in Slots : Of(t, g) => t = s
        BY <2>2 DEF Of
      <4>5. Of(s, g) /\ g \in Nat
        BY <1>4 DEF Of
      <4> QED BY <1>1, <1>3, <2>2, <3>2, <4>2, <4>3, <4>4, <4>5
    <3> QED BY <3>1, <3>2
  <2>5. \A t \in Slots : Of(t, media)' => posts'[t].here = TRUE
    BY <1>2, <1>3, <2>2 DEF Of
  <2>6. \A t, u \in Slots : Posted(t)' /\ Posted(u)' /\ posts'[t].file = posts'[u].file => t = u
    BY <1>3, <2>2
  <2> QED BY <1>2, <2>4, <2>5, <2>6 DEF MadeOnce
<1> QED BY <1>6, <1>7, <1>8, <1>9, <1>10, <1>11 DEF ComposerIInv

LEMMA ServesKeepComposer ==
  ASSUME ComposerIInv, NEW s \in Slots,
         Presign(s) \/ PutObject(s) \/ CompleteMedia(s) \/ CreateStory(s)
  PROVE  ComposerIInv'
<1>1. CASE Presign(s)
  <2>1. /\ posts[s].step = "presign" /\ PostGoTo(s, "put") /\ UNCHANGED <<stored, made>> /\ ServeSteps(s)
    BY <1>1 DEF Presign, PostAt
  <2>2. PICK row \in PostRow : /\ posts' = [posts EXCEPT ![s] = row] /\ row.step = "put"
                               /\ row.file = posts[s].file /\ row.kind = posts[s].kind
                               /\ row.here = posts[s].here
    BY <2>1, PostRows
  <2> QED BY <2>1, <2>2, ServeKeepsComposer DEF Posted
<1>2. CASE PutObject(s)
  <2>1. /\ posts[s].step = "put" /\ PostGoTo(s, "complete") /\ UNCHANGED made /\ ServeSteps(s)
        /\ stored' \in {stored, stored \cup {posts[s].file}}
    BY <1>2 DEF PutObject, PostAt
  <2>2. PICK row \in PostRow : /\ posts' = [posts EXCEPT ![s] = row] /\ row.step = "complete"
                               /\ row.file = posts[s].file /\ row.kind = posts[s].kind
                               /\ row.here = posts[s].here
    BY <2>1, PostRows
  <2> QED BY <2>1, <2>2, ServeKeepsComposer DEF Posted
<1>3. CASE CompleteMedia(s)
  <2>1. /\ posts[s].step = "complete" /\ posts[s].file \in stored /\ PostGoTo(s, "create")
        /\ UNCHANGED <<stored, made>> /\ ServeSteps(s)
    BY <1>3 DEF CompleteMedia, PostAt
  <2>2. PICK row \in PostRow : /\ posts' = [posts EXCEPT ![s] = row] /\ row.step = "create"
                               /\ row.file = posts[s].file /\ row.kind = posts[s].kind
                               /\ row.here = posts[s].here
    BY <2>1, PostRows
  <2> QED BY <2>1, <2>2, ServeKeepsComposer DEF Posted
<1>4. CASE CreateStory(s)
  <2>1. /\ posts[s].step = "create" /\ PostGoTo(s, "answer") /\ UNCHANGED stored /\ ServeSteps(s)
        /\ made' = [made EXCEPT ![posts[s].file] = Append(@, posts[s].kind)]
    BY <1>4 DEF CreateStory, PostAt
  <2>2. PICK row \in PostRow : /\ posts' = [posts EXCEPT ![s] = row] /\ row.step = "answer"
                               /\ row.file = posts[s].file /\ row.kind = posts[s].kind
                               /\ row.here = posts[s].here
    BY <2>1, PostRows
  <2>3. posts[s].file \in stored
    BY <2>1 DEF ComposerIInv, StoredFirst
  <2> QED BY <2>1, <2>2, <2>3, ServeKeepsComposer DEF Posted
<1> QED BY <1>1, <1>2, <1>3, <1>4

\* The numbers of the files in a page's state.
LEMMA FilesNumbered ==
  ASSUME ComposerIInv
  PROVE  /\ Len(files) \in Nat /\ MaxFiles \in Nat /\ Len(files) <= MaxFiles /\ DOMAIN files = 1..Len(files)
         /\ media \in Nat /\ media <= Len(files) /\ NoFile = 0
         /\ \A s \in Slots : /\ Posted(s) => posts[s].file \in 1..Len(files) /\ posts[s].file \in 1..MaxFiles
                             /\ picks[s] # NoFile => picks[s] \in 1..Len(files) /\ picks[s] \in 1..MaxFiles
<1>1. /\ Len(files) \in Nat /\ MaxFiles \in Nat /\ Len(files) <= MaxFiles /\ DOMAIN files = 1..Len(files)
      /\ media \in 0..Len(files) /\ NoFile = 0
  BY ComposerAssumption, PostIdleIsTyped DEF ComposerIInv, ComposerShape
<1>2. ASSUME NEW s \in Slots, Posted(s) PROVE posts[s].file \in 1..Len(files) /\ posts[s].file \in 1..MaxFiles
  <2>1. posts[s].file \in Nat /\ posts[s].file # 0 /\ posts[s].file <= Len(files)
    BY <1>1, <1>2, PostMoves DEF ComposerIInv, ComposerShape, PostRow
  <2> QED BY <1>1, <2>1
<1>3. ASSUME NEW s \in Slots, picks[s] # NoFile PROVE picks[s] \in 1..Len(files) /\ picks[s] \in 1..MaxFiles
  <2>1. picks[s] \in Nat /\ picks[s] # 0 /\ picks[s] <= Len(files)
    BY <1>1, <1>3 DEF ComposerIInv, ComposerShape
  <2> QED BY <1>1, <2>1
<1> QED BY <1>1, <1>2, <1>3

\* A publication ends, with its story or without.
LEMMA EndKeepsComposer ==
  ASSUME ComposerIInv, NEW s \in Slots, Published(s) \/ FailPublish(s) PROVE ComposerIInv'
<1>1. /\ Posted(s) /\ posts' = [posts EXCEPT ![s] = PostIdle]
      /\ UNCHANGED <<device, kind, files, picks, stored, made, mixed, switched>>
      /\ ~posts[s].here => UNCHANGED <<media, publishing>>
      /\ posts[s].here => media' \in {NoFile, media} /\ publishing' = FALSE
      /\ media' \in {NoFile, media} /\ publishing' \in {publishing, FALSE}
      /\ unheard' \in {unheard, unheard \cup {posts[s].file}}
      /\ posts[s].here /\ media' # NoFile /\ posts[s].step = "answer" => posts[s].file \in unheard'
  <2>1. CASE Published(s)
    BY <2>1 DEF Published, EndPost, PostAt, Posted
  <2>2. CASE FailPublish(s)
    BY <2>2 DEF FailPublish, EndPost, PostAt, Posted
  <2> QED BY <2>1, <2>2
<1>2. /\ posts' \in [Slots -> PostRow] /\ posts'[s] = PostIdle /\ posts[s] \in PostRow
      /\ \A t \in Slots : t # s => posts'[t] = posts[t]
  BY <1>1, PostMoves, PostIdleIsTyped
<1>3. /\ \A t \in Slots : Posted(t)' <=> Posted(t) /\ t # s
      /\ \A t \in Slots : Here(t)' <=> Here(t) /\ t # s
      /\ \A t \in Slots, f \in Nat : (posts'[t].step # "idle" /\ posts'[t].file = f) <=> Of(t, f) /\ t # s
  BY <1>2, PostIdleIsTyped DEF Posted, Here, Of
<1>4. ComposerShape'
  <2>1. unheard' \subseteq DOMAIN files
    BY <1>1, FilesNumbered DEF ComposerIInv, ComposerShape
  <2>2. ASSUME NEW t \in Slots
        PROVE  /\ IF Posted(t)' THEN posts'[t].file # NoFile ELSE posts'[t] = PostIdle
               /\ posts'[t].file <= Len(files)
    <3>1. CASE t = s
      BY <1>2, <1>3, <3>1, PostIdleIsTyped, FilesNumbered
    <3>2. CASE t # s
      BY <1>2, <1>3, <3>2 DEF ComposerIInv, ComposerShape
    <3> QED BY <3>1, <3>2
  <2>3. media' \in 0..Len(files) /\ publishing' \in BOOLEAN
    <3>1. media' \in 0..Len(files)
      BY <1>1, FilesNumbered
    <3>2. publishing \in BOOLEAN
      BY DEF ComposerIInv, ComposerShape
    <3>3. publishing' \in BOOLEAN
      BY <1>1, <3>2
    <3> QED BY <3>1, <3>3
  <2> QED BY <1>1, <1>2, <2>1, <2>2, <2>3 DEF ComposerIInv, ComposerShape
<1>5. StoredFirst'
  <2>1. ASSUME NEW t \in Slots, posts'[t].step \in {"create", "answer"} PROVE posts'[t].file \in stored
    BY <1>2, <2>1, PostIdleIsTyped DEF ComposerIInv, StoredFirst
  <2> QED BY <1>1, <2>1 DEF ComposerIInv, StoredFirst
<1>6. KindsMatch'
  BY <1>1, <1>2, <1>3 DEF ComposerIInv, KindsMatch
<1>7. PicksAreFresh'
  <2>1. ASSUME NEW t \in Slots, picks[t] # NoFile
        PROVE  /\ picks[t] # media' /\ made[picks[t]] = <<>> /\ \A u \in Slots : ~Of(u, picks[t])'
    <3>1. picks[t] # media /\ made[picks[t]] = <<>> /\ \A u \in Slots : ~Of(u, picks[t])
      BY <2>1 DEF ComposerIInv, PicksAreFresh
    <3>2. \A u \in Slots : ~Of(u, picks[t])'
      BY <1>1, <1>2, <1>3, <3>1 DEF Of
    <3> QED BY <1>1, <2>1, <3>1, <3>2
  <2> QED BY <1>1, <2>1 DEF ComposerIInv, PicksAreFresh
<1>8. PageWaits'
  <2>1. SUFFICES ASSUME ~switched PROVE PageWaits'
    BY <1>1 DEF PageWaits
  <2>2. /\ \A t, u \in Slots : Here(t) /\ Here(u) => t = u
        /\ publishing <=> \E t \in Slots : Here(t)
    BY <2>1 DEF ComposerIInv, PageWaits
  <2>3. publishing' <=> \E t \in Slots : Here(t)'
    <3>1. CASE Here(s)
      BY <1>1, <1>3, <2>2, <3>1 DEF Here
    <3>2. CASE ~Here(s)
      <4>1. publishing' = publishing
        BY <1>1, <1>2, <3>2 DEF Here, PostRow
      <4> QED BY <1>3, <2>2, <3>2, <4>1
    <3> QED BY <3>1, <3>2
  <2> QED BY <1>3, <2>2, <2>3 DEF PageWaits
<1>9. MadeOnce'
  <2>1. SUFFICES ASSUME ~switched PROVE MadeOnce'
    BY <1>1 DEF MadeOnce
  <2>2. /\ \A t, u \in Slots : Posted(t) /\ Posted(u) /\ posts[t].file = posts[u].file => t = u
        /\ \A t \in Slots : Of(t, media) => posts[t].here = TRUE
        /\ \A f \in 1..MaxFiles : f \notin unheard /\ made[f] # <<>> =>
             /\ Len(made[f]) = 1
             /\ \A t \in Slots : Of(t, f) => posts[t].step = "answer"
             /\ media = f => \E t \in Slots : Of(t, f) /\ posts[t].here = TRUE
    BY <2>1 DEF ComposerIInv, MadeOnce
  <2>3. \A t, u \in Slots : Posted(t)' /\ Posted(u)' /\ posts'[t].file = posts'[u].file => t = u
    BY <1>2, <1>3, <2>2
  <2>4. ASSUME NEW t \in Slots, Of(t, media)' PROVE posts'[t].here = TRUE
    <3>1. t # s /\ Posted(t) /\ posts[t].file = media' /\ posts'[t] = posts[t]
      BY <1>2, <1>3, <2>4 DEF Of
    <3>2. media' = media
      BY <1>1, <3>1, FilesNumbered
    <3> QED BY <2>2, <3>1, <3>2 DEF Of
  <2>5. ASSUME NEW f \in 1..MaxFiles, f \notin unheard', made[f] # <<>>
        PROVE  /\ Len(made[f]) = 1
               /\ \A t \in Slots : Of(t, f)' => posts'[t].step = "answer"
               /\ media' = f => \E t \in Slots : Of(t, f)' /\ posts'[t].here = TRUE
    <3>1. f \notin unheard
      BY <1>1, <2>5
    <3>2. \A t \in Slots : Of(t, f)' => posts'[t].step = "answer"
      BY <1>2, <1>3, <2>2, <2>5, <3>1 DEF Of
    <3>3. ASSUME media' = f PROVE \E t \in Slots : Of(t, f)' /\ posts'[t].here = TRUE
      <4>1. media = f /\ media' # NoFile
        BY <1>1, <3>3, FilesNumbered
      <4>2. PICK t \in Slots : Of(t, f) /\ posts[t].here = TRUE
        BY <2>2, <2>5, <3>1, <4>1
      <4>3. t # s
        <5>1. SUFFICES ASSUME t = s PROVE FALSE
          OBVIOUS
        <5>2. posts[s].step = "answer" /\ posts[s].file = f
          BY <2>2, <2>5, <3>1, <4>2, <5>1 DEF Of
        <5> QED BY <1>1, <2>5, <4>1, <4>2, <5>1, <5>2
      <4> QED BY <1>2, <4>2, <4>3 DEF Of, Posted
    <3> QED BY <2>2, <2>5, <3>1, <3>2, <3>3
  <2> QED BY <1>1, <2>3, <2>4, <2>5 DEF MadeOnce
<1> QED BY <1>4, <1>5, <1>6, <1>7, <1>8, <1>9 DEF ComposerIInv

\* A press publishes a file that waits for no answer.
LEMMA PublishKeepsComposer == ASSUME ComposerIInv, NEW s \in Slots, Publish(s) PROVE ComposerIInv'
<1>1. /\ posts[s] = PostIdle /\ media # NoFile /\ ~publishing /\ publishing' = TRUE
      /\ posts' = [posts EXCEPT ![s] = [step |-> "presign", file |-> media, kind |-> kind, here |-> TRUE]]
      /\ UNCHANGED <<device, kind, media, files, picks, stored, made, mixed, switched, unheard>>
  BY DEF Publish
<1>2. PICK row \in PostRow : /\ posts' = [posts EXCEPT ![s] = row] /\ row.step = "presign"
                             /\ row.file = media /\ row.kind = kind /\ row.here = TRUE
  <2>1. [step |-> "presign", file |-> media, kind |-> kind, here |-> TRUE] \in PostRow
    BY FilesNumbered DEF PostRow, ComposerIInv, ComposerShape
  <2> QED BY <1>1, <2>1
<1>3. /\ posts' \in [Slots -> PostRow] /\ posts'[s] = row
      /\ \A t \in Slots : t # s => posts'[t] = posts[t]
  BY <1>2, PostMoves
<1>4. ~Posted(s) /\ ~Here(s) /\ Posted(s)' /\ Here(s)'
  BY <1>1, <1>2, <1>3, PostIdleIsTyped DEF Posted, Here
<1>5. ComposerShape'
  <2>1. ASSUME NEW t \in Slots
        PROVE  /\ IF Posted(t)' THEN posts'[t].file # NoFile ELSE posts'[t] = PostIdle
               /\ posts'[t].file <= Len(files)
    <3>1. CASE t = s
      BY <1>1, <1>2, <1>3, <1>4, <3>1, FilesNumbered
    <3>2. CASE t # s
      BY <1>3, <3>2 DEF ComposerIInv, ComposerShape, Posted
    <3> QED BY <3>1, <3>2
  <2> QED BY <1>1, <1>3, <2>1 DEF ComposerIInv, ComposerShape
<1>6. StoredFirst'
  <2>1. ASSUME NEW t \in Slots, posts'[t].step \in {"create", "answer"} PROVE posts'[t].file \in stored
    BY <1>2, <1>3, <2>1 DEF ComposerIInv, StoredFirst
  <2> QED BY <1>1, <2>1 DEF ComposerIInv, StoredFirst
<1>7. KindsMatch'
  <2>1. ASSUME ~mixed, NEW t \in Slots, Posted(t)' PROVE files[posts'[t].file] = posts'[t].kind
    BY <1>1, <1>2, <1>3, <2>1 DEF ComposerIInv, KindsMatch, Posted
  <2> QED BY <1>1, <2>1 DEF ComposerIInv, KindsMatch
<1>8. PicksAreFresh'
  <2>1. ASSUME NEW t \in Slots, picks[t] # NoFile
        PROVE  picks[t] # media /\ made[picks[t]] = <<>> /\ \A u \in Slots : ~Of(u, picks[t])'
    <3>1. picks[t] # media /\ made[picks[t]] = <<>> /\ \A u \in Slots : ~Of(u, picks[t])
      BY <2>1 DEF ComposerIInv, PicksAreFresh
    <3>2. \A u \in Slots : ~Of(u, picks[t])'
      BY <1>1, <1>2, <1>3, <3>1 DEF Of, Posted
    <3> QED BY <3>1, <3>2
  <2> QED BY <1>1, <2>1 DEF ComposerIInv, PicksAreFresh
<1>9. ~switched => \A t \in Slots : ~Here(t) /\ ~Of(t, media)
  BY <1>1 DEF ComposerIInv, PageWaits, MadeOnce, Here, Of
<1>10. PageWaits'
  <2>1. ASSUME ~switched, NEW t \in Slots, Here(t)' PROVE t = s
    BY <1>3, <1>9, <2>1 DEF Here, Posted
  <2> QED BY <1>1, <1>4, <2>1 DEF PageWaits
<1>11. MadeOnce'
  <2>1. SUFFICES ASSUME ~switched PROVE MadeOnce'
    BY <1>1 DEF MadeOnce
  <2>2. /\ \A t, u \in Slots : Posted(t) /\ Posted(u) /\ posts[t].file = posts[u].file => t = u
        /\ \A f \in 1..MaxFiles : f \notin unheard /\ made[f] # <<>> =>
             /\ Len(made[f]) = 1
             /\ \A t \in Slots : Of(t, f) => posts[t].step = "answer"
             /\ media = f => \E t \in Slots : Of(t, f) /\ posts[t].here = TRUE
    BY <2>1 DEF ComposerIInv, MadeOnce
  <2>3. ASSUME NEW t \in Slots, NEW u \in Slots, Posted(t)', Posted(u)', posts'[t].file = posts'[u].file
        PROVE  t = u
    <3>1. CASE t # s /\ u # s
      BY <1>3, <2>2, <2>3, <3>1 DEF Posted
    <3>2. CASE t = s \/ u = s
      BY <1>2, <1>3, <1>9, <2>1, <2>3, <3>2 DEF Posted, Of
    <3> QED BY <3>1, <3>2
  <2>4. ASSUME NEW t \in Slots, Of(t, media)' PROVE posts'[t].here = TRUE
    BY <1>1, <1>2, <1>3, <1>9, <2>1, <2>4 DEF Of, Posted
  <2>5. ASSUME NEW f \in 1..MaxFiles, f \notin unheard, made[f] # <<>>
        PROVE  /\ Len(made[f]) = 1 /\ media # f
               /\ \A t \in Slots : Of(t, f)' => posts'[t].step = "answer"
    <3>1. media # f /\ Len(made[f]) = 1
      BY <1>9, <2>1, <2>2, <2>5
    <3>2. \A t \in Slots : Of(t, f)' => posts'[t].step = "answer"
      BY <1>2, <1>3, <2>2, <2>5, <3>1 DEF Of, Posted
    <3> QED BY <3>1, <3>2
  <2> QED BY <1>1, <2>3, <2>4, <2>5 DEF MadeOnce
<1> QED BY <1>5, <1>6, <1>7, <1>8, <1>10, <1>11 DEF ComposerIInv

\* What the page picks, takes and lets go, while the publications stand.
FreshFile(f) == made[f] = <<>> /\ \A t \in Slots : ~Of(t, f)

LEMMA PageKeepsComposer ==
  ASSUME ComposerIInv,
         UNCHANGED <<device, kind, publishing, posts, stored, made, switched, unheard>>,
         files' \in Seq(Kinds), Len(files) <= Len(files'), Len(files') <= MaxFiles,
         \A i \in 1..Len(files) : files'[i] = files[i],
         picks' \in [Slots -> Nat], \A s \in Slots : picks'[s] <= Len(files'),
         \A s, t \in Slots : picks'[s] # NoFile /\ picks'[s] = picks'[t] => s = t,
         media' \in 0..Len(files'),
         \A s \in Slots : picks'[s] # NoFile => picks'[s] # media' /\ FreshFile(picks'[s]),
         media' \in {media, NoFile} \/ FreshFile(media'),
         mixed' \in BOOLEAN, ~mixed' => ~mixed /\ (media' # NoFile => files'[media'] = kind)
  PROVE  ComposerIInv'
<1>0. Len(files') \in Nat /\ DOMAIN files' = 1..Len(files')
  OBVIOUS
<1>1. /\ \A t \in Slots : Posted(t)' <=> Posted(t)
      /\ \A t \in Slots : Here(t)' <=> Here(t)
      /\ \A t \in Slots : posts'[t] = posts[t]
  BY DEF Posted, Here
<1>2. ComposerShape'
  <2>1. stored' \subseteq DOMAIN files' /\ unheard' \subseteq DOMAIN files'
    BY <1>0, FilesNumbered DEF ComposerIInv, ComposerShape
  <2>2. \A s \in Slots : posts'[s].file <= Len(files')
    <3>1. SUFFICES ASSUME NEW s \in Slots PROVE posts[s].file <= Len(files')
      BY <1>1
    <3>2. posts[s].file <= Len(files) /\ posts[s].file \in Nat
      BY PostMoves DEF ComposerIInv, ComposerShape, PostRow
    <3> QED BY <1>0, <3>2, FilesNumbered
  <2> QED BY <1>1, <2>1, <2>2 DEF ComposerIInv, ComposerShape
<1>3. StoredFirst'
  BY <1>1 DEF ComposerIInv, StoredFirst
<1>4. KindsMatch'
  <2>1. SUFFICES ASSUME ~mixed' PROVE KindsMatch'
    BY DEF KindsMatch
  <2>2. /\ ~mixed
        /\ \A t \in Slots : Posted(t) => files[posts[t].file] = posts[t].kind
        /\ \A f \in 1..MaxFiles : \A i \in DOMAIN made[f] : made[f][i] = files[f]
    BY <2>1 DEF ComposerIInv, KindsMatch
  <2>3. \A t \in Slots : Posted(t)' => files'[posts'[t].file] = posts'[t].kind
    BY <1>1, <2>2, FilesNumbered
  <2>4. ASSUME NEW f \in 1..MaxFiles, NEW i \in DOMAIN made[f] PROVE made[f][i] = files'[f]
    <3>1. made[f] # <<>>
      BY <2>4
    <3>2. f \in 1..Len(files)
      BY <3>1, FilesNumbered DEF ComposerIInv, StoredFirst, ComposerShape
    <3> QED BY <2>2, <2>4, <3>2
  <2> QED BY <2>1, <2>3, <2>4 DEF KindsMatch
<1>5. PicksAreFresh'
  <2>1. ASSUME NEW s \in Slots, picks'[s] # NoFile
        PROVE  picks'[s] # media' /\ made[picks'[s]] = <<>> /\ \A u \in Slots : ~Of(u, picks[s])'
    BY <1>1, <2>1 DEF FreshFile, Of
  <2> QED BY <2>1 DEF PicksAreFresh
<1>6. PageWaits'
  BY <1>1 DEF ComposerIInv, PageWaits
<1>7. MadeOnce'
  <2>1. SUFFICES ASSUME ~switched PROVE MadeOnce'
    BY DEF MadeOnce
  <2>2. /\ \A t, u \in Slots : Posted(t) /\ Posted(u) /\ posts[t].file = posts[u].file => t = u
        /\ \A t \in Slots : Of(t, media) => posts[t].here = TRUE
        /\ \A f \in 1..MaxFiles : f \notin unheard /\ made[f] # <<>> =>
             /\ Len(made[f]) = 1
             /\ \A t \in Slots : Of(t, f) => posts[t].step = "answer"
             /\ media = f => \E t \in Slots : Of(t, f) /\ posts[t].here = TRUE
    BY <2>1 DEF ComposerIInv, MadeOnce
  <2>3. ASSUME NEW t \in Slots, Of(t, media)' PROVE posts'[t].here = TRUE
    <3>1. Posted(t) /\ posts[t].file = media'
      BY <1>1, <2>3 DEF Of
    <3>2. media' = media
      BY <3>1, FilesNumbered DEF FreshFile, Of
    <3> QED BY <1>1, <2>2, <3>1, <3>2 DEF Of
  <2>4. ASSUME NEW f \in 1..MaxFiles, f \notin unheard, made[f] # <<>>
        PROVE  /\ Len(made[f]) = 1
               /\ \A t \in Slots : Of(t, f)' => posts'[t].step = "answer"
               /\ media' = f => \E t \in Slots : Of(t, f)' /\ posts'[t].here = TRUE
    <3>1. \A t \in Slots : Of(t, f)' <=> Of(t, f)
      BY <1>1 DEF Of
    <3>2. media' = f => media = f
      BY <2>4, FilesNumbered DEF FreshFile
    <3> QED BY <1>1, <2>2, <2>4, <3>1, <3>2
  <2> QED BY <1>1, <2>2, <2>3, <2>4 DEF MadeOnce
<1> QED BY <1>2, <1>3, <1>4, <1>5, <1>6, <1>7 DEF ComposerIInv

\* A file that is new to the page.
LEMMA NewFileIsFresh ==
  ASSUME ComposerIInv, NEW k \in Kinds, NewFile(k)
  PROVE  /\ files' \in Seq(Kinds) /\ Len(files') = Len(files) + 1 /\ Len(files) <= Len(files')
         /\ Len(files') <= MaxFiles /\ Len(files') \in Nat
         /\ \A i \in 1..Len(files) : files'[i] = files[i]
         /\ files'[Len(files')] = k
         /\ FreshFile(Len(files')) /\ Len(files') # NoFile /\ media # Len(files')
         /\ \A s \in Slots : picks[s] # Len(files') /\ picks[s] <= Len(files')
<1>1. files \in Seq(Kinds) /\ Len(files) < MaxFiles /\ files' = Append(files, k)
  BY DEF NewFile, ComposerIInv, ComposerShape
<1>2. /\ files' \in Seq(Kinds) /\ Len(files') = Len(files) + 1
      /\ \A i \in 1..Len(files) : files'[i] = files[i]
      /\ files'[Len(files) + 1] = k
  BY <1>1
<1>3. Len(files) \in Nat /\ Len(files') \in Nat /\ Len(files) <= Len(files') /\ Len(files') <= MaxFiles
      /\ Len(files') \in 1..MaxFiles /\ Len(files') \notin 1..Len(files) /\ Len(files') # 0
  BY <1>1, <1>2, FilesNumbered
<1>4. \A t \in Slots : ~Of(t, Len(files'))
  BY <1>3, FilesNumbered DEF Of
<1>5. made[Len(files')] = <<>>
  BY <1>3, FilesNumbered DEF ComposerIInv, StoredFirst, ComposerShape
<1>6. media # Len(files')
  BY <1>2, <1>3, FilesNumbered
<1>7. \A s \in Slots : picks[s] # Len(files') /\ picks[s] <= Len(files')
  <2>1. SUFFICES ASSUME NEW s \in Slots PROVE picks[s] # Len(files') /\ picks[s] <= Len(files')
    OBVIOUS
  <2>2. picks[s] \in Nat /\ picks[s] <= Len(files)
    BY DEF ComposerIInv, ComposerShape
  <2> QED BY <1>2, <1>3, <2>2
<1> QED BY <1>2, <1>3, <1>4, <1>5, <1>6, <1>7, FilesNumbered DEF FreshFile

\* What is known of the picks.
LEMMA PicksBefore ==
  ASSUME ComposerIInv
  PROVE  /\ picks \in [Slots -> Nat] /\ kind \in Kinds /\ mixed \in BOOLEAN
         /\ files \in Seq(Kinds)
         /\ \A s, t \in Slots : picks[s] # NoFile /\ picks[s] = picks[t] => s = t
         /\ \A s \in Slots : picks[s] <= Len(files)
         /\ \A s \in Slots : picks[s] # NoFile => picks[s] # media /\ FreshFile(picks[s])
         /\ ~mixed => (media # NoFile => files[media] = kind)
BY DEF ComposerIInv, ComposerShape, PicksAreFresh, KindsMatch, FreshFile

LEMMA AcceptKeepsComposer ==
  ASSUME ComposerIInv, NEW s \in Slots, (\E k \in Kinds : Accept(s, k)) \/ PickMedia(s)
  PROVE  ComposerIInv'
<1>1. PICK k \in Kinds :
        /\ NewFile(k) /\ picks[s] = NoFile
        /\ UNCHANGED <<device, kind, publishing, posts, stored, made, switched, unheard>>
        /\ \/ /\ picks' = [picks EXCEPT ![s] = Len(files')] /\ UNCHANGED <<media, mixed>>
           \/ /\ media' = Len(files') /\ mixed' = (mixed \/ files'[Len(files')] # kind) /\ UNCHANGED picks
  BY PicksBefore DEF Accept, PickMedia, SetMedia
<1> DEFINE n == Len(files')
<1>2. /\ files' \in Seq(Kinds) /\ n = Len(files) + 1 /\ Len(files) <= n
      /\ n <= MaxFiles /\ n \in Nat
      /\ \A i \in 1..Len(files) : files'[i] = files[i]
      /\ files'[n] = k
      /\ FreshFile(n) /\ n # NoFile /\ media # n
      /\ \A t \in Slots : picks[t] # n /\ picks[t] <= n
  BY <1>1, NewFileIsFresh
<1>3. /\ picks \in [Slots -> Nat]
      /\ \A t, u \in Slots : picks[t] # NoFile /\ picks[t] = picks[u] => t = u
      /\ \A t \in Slots : picks[t] # NoFile => picks[t] # media /\ FreshFile(picks[t])
      /\ media \in Nat /\ media <= Len(files) /\ Len(files) \in Nat /\ NoFile = 0 /\ mixed \in BOOLEAN
      /\ ~mixed => (media # NoFile => files[media] = kind)
  BY PicksBefore, FilesNumbered
<1> HIDE DEF n
<1>4. CASE picks' = [picks EXCEPT ![s] = n] /\ UNCHANGED <<media, mixed>>
  <2>1. /\ picks' \in [Slots -> Nat] /\ picks'[s] = n
        /\ \A t \in Slots : t # s => picks'[t] = picks[t]
    BY <1>2, <1>3, <1>4
  <2>2. /\ \A t \in Slots : picks'[t] <= n
        /\ \A t, u \in Slots : picks'[t] # NoFile /\ picks'[t] = picks'[u] => t = u
        /\ \A t \in Slots : picks'[t] # NoFile => picks'[t] # media /\ FreshFile(picks'[t])
    <3>1. \A t \in Slots : picks'[t] <= n
      BY <1>2, <2>1
    <3>2. ASSUME NEW t \in Slots, NEW u \in Slots, picks'[t] # NoFile, picks'[t] = picks'[u] PROVE t = u
      BY <1>2, <1>3, <2>1, <3>2
    <3>3. ASSUME NEW t \in Slots, picks'[t] # NoFile PROVE picks'[t] # media /\ FreshFile(picks'[t])
      BY <1>2, <1>3, <2>1, <3>3
    <3> QED BY <3>1, <3>2, <3>3
  <2>3. media \in 0..n /\ (media # NoFile => files'[media] = files[media])
    BY <1>2, <1>3
  <2> QED BY <1>1, <1>2, <1>3, <1>4, <2>1, <2>2, <2>3, PageKeepsComposer DEF n
<1>5. CASE media' = n /\ mixed' = (mixed \/ files'[n] # kind) /\ UNCHANGED picks
  <2>1. mixed' \in BOOLEAN
    BY <1>5
  <2>2. ~mixed' => ~mixed /\ files'[n] = kind
    BY <1>5
  <2>3. n \in 0..n
    BY <1>2
  <2> QED BY <1>1, <1>2, <1>3, <1>5, <2>1, <2>2, <2>3, PageKeepsComposer DEF n
<1> QED BY <1>1, <1>4, <1>5 DEF n

LEMMA PickedKeepsComposer ==
  ASSUME ComposerIInv, NEW s \in Slots, Picked(s) \/ CancelPick(s) PROVE ComposerIInv'
<1>1. /\ picks[s] # NoFile /\ picks' = [picks EXCEPT ![s] = NoFile] /\ files' = files
      /\ UNCHANGED <<device, kind, publishing, posts, stored, made, switched, unheard>>
      /\ \/ media' = picks[s] /\ mixed' = (mixed \/ files[picks[s]] # kind)
         \/ UNCHANGED <<media, mixed>>
  BY DEF Picked, CancelPick, SetMedia
<1>2. /\ picks \in [Slots -> Nat]
      /\ \A t, u \in Slots : picks[t] # NoFile /\ picks[t] = picks[u] => t = u
      /\ \A t \in Slots : picks[t] # NoFile => picks[t] # media /\ FreshFile(picks[t])
      /\ \A t \in Slots : picks[t] <= Len(files)
      /\ media \in Nat /\ media <= Len(files) /\ Len(files) \in Nat /\ NoFile = 0 /\ mixed \in BOOLEAN
      /\ ~mixed => (media # NoFile => files[media] = kind)
      /\ files \in Seq(Kinds) /\ Len(files) <= MaxFiles
  BY PicksBefore, FilesNumbered
<1>3. /\ picks' \in [Slots -> Nat] /\ picks'[s] = NoFile
      /\ \A t \in Slots : t # s => picks'[t] = picks[t]
  BY <1>1, <1>2
<1>4. /\ \A t \in Slots : picks'[t] <= Len(files)
      /\ \A t, u \in Slots : picks'[t] # NoFile /\ picks'[t] = picks'[u] => t = u
      /\ \A t \in Slots : picks'[t] # NoFile => /\ picks'[t] # media /\ picks'[t] # picks[s]
                                                /\ FreshFile(picks'[t])
  BY <1>1, <1>2, <1>3
<1>5. CASE media' = picks[s] /\ mixed' = (mixed \/ files[picks[s]] # kind)
  <2>1. mixed' \in BOOLEAN
    BY <1>5
  <2>2. ~mixed' => ~mixed /\ files[media'] = kind
    BY <1>5
  <2>3. picks[s] \in Nat /\ picks[s] <= Len(files)
    BY <1>2
  <2>4. media' \in 0..Len(files) /\ FreshFile(media')
    BY <1>1, <1>2, <1>5, <2>3
  <2> QED BY <1>1, <1>2, <1>3, <1>4, <1>5, <2>1, <2>2, <2>4, PageKeepsComposer
<1>6. CASE UNCHANGED <<media, mixed>>
  <2>1. media \in 0..Len(files)
    BY <1>2
  <2> QED BY <1>1, <1>2, <1>3, <1>4, <1>6, <2>1, PageKeepsComposer
<1> QED BY <1>1, <1>5, <1>6

LEMMA ChooseKeepsComposer == ASSUME ComposerIInv, ChooseDifferent PROVE ComposerIInv'
<1>1. /\ media' = NoFile
      /\ UNCHANGED <<device, kind, files, publishing, picks, posts, stored, made, mixed, switched,
                     unheard>>
  BY DEF ChooseDifferent
<1>2. /\ picks \in [Slots -> Nat]
      /\ \A t, u \in Slots : picks[t] # NoFile /\ picks[t] = picks[u] => t = u
      /\ \A t \in Slots : picks[t] # NoFile => picks[t] # NoFile /\ FreshFile(picks[t])
      /\ \A t \in Slots : picks[t] <= Len(files)
      /\ NoFile \in 0..Len(files) /\ mixed \in BOOLEAN /\ Len(files) <= Len(files)
      /\ files \in Seq(Kinds) /\ Len(files) <= MaxFiles
  BY PicksBefore, FilesNumbered
<1> QED BY <1>1, <1>2, PageKeepsComposer

\* Another kind unlocks the page, and a page that is left forgets its runs.
LEMMA SwitchKeepsComposer == ASSUME ComposerIInv, SwitchKind PROVE ComposerIInv'
<1>1. /\ kind' \in Kinds /\ media' = NoFile /\ publishing' = FALSE
      /\ switched' = (switched \/ \E s \in Posting : posts[s].here)
      /\ UNCHANGED <<device, files, picks, posts, stored, made, mixed, unheard>>
  BY DEF SwitchKind
<1>2. /\ \A t \in Slots : Posted(t)' <=> Posted(t)
      /\ \A t \in Slots : Here(t)' <=> Here(t)
      /\ \A t \in Slots : posts'[t] = posts[t]
  BY <1>1 DEF Posted, Here
<1>3. ComposerShape'
  <2>1. media' \in 0..Len(files)
    BY <1>1, FilesNumbered
  <2>2. switched' \in BOOLEAN
    BY <1>1
  <2> QED BY <1>1, <1>2, <2>1, <2>2 DEF ComposerIInv, ComposerShape
<1>4. StoredFirst' /\ KindsMatch'
  BY <1>1, <1>2 DEF ComposerIInv, StoredFirst, KindsMatch
<1>5. PicksAreFresh'
  BY <1>1 DEF ComposerIInv, PicksAreFresh, Of, Posted
<1>6. ~switched' => ~switched /\ \A t \in Slots : ~Here(t)
  BY <1>1 DEF Posting, Here, Posted
<1>7. PageWaits'
  BY <1>1, <1>2, <1>6 DEF PageWaits
<1>8. MadeOnce'
  <2>1. SUFFICES ASSUME ~switched' PROVE MadeOnce'
    BY DEF MadeOnce
  <2>2. \A t \in Slots : ~Of(t, media)'
    BY <1>1, <1>2, FilesNumbered DEF Of
  <2>3. \A f \in 1..MaxFiles : media' # f
    BY <1>1, FilesNumbered
  <2>4. \A t \in Slots, f \in 1..MaxFiles : Of(t, f)' <=> Of(t, f)
    BY <1>2 DEF Of
  <2> QED BY <1>1, <1>2, <1>6, <2>1, <2>2, <2>3, <2>4 DEF ComposerIInv, MadeOnce
<1> QED BY <1>3, <1>4, <1>5, <1>7, <1>8 DEF ComposerIInv

LEMMA LeaveKeepsComposer == ASSUME ComposerIInv, LeaveComposer PROVE ComposerIInv'
<1>1. /\ kind' = "IMAGE" /\ media' = NoFile /\ publishing' = FALSE
      /\ picks' = [s \in Slots |-> NoFile]
      /\ posts' = [s \in Slots |-> IF posts[s].step = "idle" THEN PostIdle
                                   ELSE [posts[s] EXCEPT !.here = FALSE]]
      /\ UNCHANGED <<device, files, stored, made, mixed, switched, unheard>>
  BY DEF LeaveComposer, PostAt
<1>2. ASSUME NEW s \in Slots
      PROVE  /\ posts'[s] \in PostRow /\ posts'[s].step = posts[s].step /\ posts'[s].file = posts[s].file
             /\ posts'[s].kind = posts[s].kind
             /\ posts[s].step # "idle" => posts'[s].here = FALSE
             /\ posts[s].step = "idle" => posts'[s] = PostIdle
  <2>1. posts[s] \in PostRow
    BY PostMoves
  <2>2. CASE posts[s].step = "idle"
    BY <1>1, <2>2, PostIdleIsTyped DEF ComposerIInv, ComposerShape, Posted
  <2>3. CASE posts[s].step # "idle"
    <3>1. posts'[s] = [posts[s] EXCEPT !.here = FALSE]
      BY <1>1, <2>3
    <3> QED BY <2>1, <2>3, <3>1 DEF PostRow
  <2> QED BY <2>2, <2>3
<1>3. /\ \A t \in Slots : Posted(t)' <=> Posted(t)
      /\ \A t \in Slots : ~Here(t)'
      /\ \A t \in Slots, f \in Nat : (posts'[t].step # "idle" /\ posts'[t].file = f) <=> Of(t, f)
  BY <1>2 DEF Posted, Here, Of
<1>4. ComposerShape'
  <2>1. media' \in 0..Len(files) /\ kind' \in Kinds /\ NoFile = 0 /\ 0 <= Len(files)
    BY <1>1, FilesNumbered DEF Kinds
  <2>2. posts' \in [Slots -> PostRow] /\ picks' \in [Slots -> Nat]
    BY <1>1, <1>2, <2>1
  <2>3. ASSUME NEW s \in Slots
        PROVE  /\ picks'[s] <= Len(files) /\ posts'[s].file <= Len(files)
               /\ IF Posted(s)' THEN posts'[s].file # NoFile ELSE posts'[s] = PostIdle
    BY <1>1, <1>2, <1>3, <2>1 DEF ComposerIInv, ComposerShape, Posted
  <2> QED BY <1>1, <2>1, <2>2, <2>3 DEF ComposerIInv, ComposerShape
<1>5. StoredFirst'
  <2>1. ASSUME NEW s \in Slots, posts'[s].step \in {"create", "answer"} PROVE posts'[s].file \in stored
    <3>1. posts[s].step \in {"create", "answer"} /\ posts'[s].file = posts[s].file
      BY <1>2, <2>1
    <3> QED BY <3>1 DEF ComposerIInv, StoredFirst
  <2> QED BY <1>1, <2>1 DEF ComposerIInv, StoredFirst
<1>6. KindsMatch'
  <2>1. ASSUME NEW s \in Slots, ~mixed, Posted(s)' PROVE files[posts'[s].file] = posts'[s].kind
    BY <1>2, <1>3, <2>1 DEF ComposerIInv, KindsMatch
  <2>2. ASSUME NEW f \in 1..MaxFiles, ~mixed, NEW i \in DOMAIN made[f] PROVE made[f][i] = files[f]
    BY <2>2 DEF ComposerIInv, KindsMatch
  <2> QED BY <1>1, <2>1, <2>2 DEF KindsMatch
<1>7. PicksAreFresh'
  BY <1>1 DEF PicksAreFresh
<1>8. PageWaits'
  BY <1>1, <1>3 DEF PageWaits
<1>9. MadeOnce'
  <2>1. SUFFICES ASSUME ~switched PROVE MadeOnce'
    BY <1>1 DEF MadeOnce
  <2>2. ASSUME NEW t \in Slots, Of(t, media)' PROVE FALSE
    <3>1. Posted(t) /\ posts[t].file = NoFile
      BY <1>1, <1>2, <2>2 DEF Of, Posted
    <3>2. posts[t].file \in 1..Len(files) /\ NoFile = 0
      BY <3>1, FilesNumbered
    <3> QED BY <3>1, <3>2
  <2>3. \A f \in 1..MaxFiles : media' # f
    BY <1>1, FilesNumbered
  <2>4. \A t \in Slots, f \in 1..MaxFiles : Of(t, f)' <=> Of(t, f)
    BY <1>2 DEF Of, Posted
  <2>5. ASSUME NEW t \in Slots, NEW u \in Slots, Posted(t)', Posted(u)', posts'[t].file = posts'[u].file
        PROVE  t = u
    <3>1. Posted(t) /\ Posted(u) /\ posts[t].file = posts[u].file
      BY <1>2, <1>3, <2>5
    <3> QED BY <2>1, <3>1 DEF ComposerIInv, MadeOnce
  <2>6. ASSUME NEW f \in 1..MaxFiles, f \notin unheard, made[f] # <<>>
        PROVE  Len(made[f]) = 1 /\ \A t \in Slots : Of(t, f)' => posts'[t].step = "answer"
    BY <1>2, <2>1, <2>4, <2>6 DEF ComposerIInv, MadeOnce
  <2> QED BY <1>1, <2>2, <2>3, <2>5, <2>6 DEF MadeOnce
<1> QED BY <1>4, <1>5, <1>6, <1>7, <1>8, <1>9 DEF ComposerIInv

LEMMA ComposerInductive == ComposerIInv /\ [ComposerNext]_composerVars => ComposerIInv'
<1> SUFFICES ASSUME ComposerIInv, [ComposerNext]_composerVars PROVE ComposerIInv'
  OBVIOUS
<1>1. CASE ComposerNext
  BY <1>1, ServesKeepComposer, EndKeepsComposer, PublishKeepsComposer, AcceptKeepsComposer,
     PickedKeepsComposer, ChooseKeepsComposer, SwitchKeepsComposer, LeaveKeepsComposer DEF ComposerNext
<1>2. CASE UNCHANGED composerVars
  BY <1>2 DEF composerVars, ComposerIInv, ComposerShape, StoredFirst, KindsMatch, PicksAreFresh,
     PageWaits, MadeOnce, Posted, Here, Of
<1> QED BY <1>1, <1>2

LEMMA ComposerHolds == ComposerSpec => []ComposerIInv
BY ComposerInitial, ComposerInductive, PTL DEF ComposerSpec

LEMMA ComposerTyped == ComposerIInv => ComposerTypeOK
<1> SUFFICES ASSUME ComposerIInv PROVE ComposerTypeOK
  OBVIOUS
<1>1. picks \in [Slots -> 0..Len(files)]
  <2>1. picks \in [Slots -> Nat] /\ \A s \in Slots : picks[s] <= Len(files)
    BY DEF ComposerIInv, ComposerShape
  <2> QED BY <2>1, FilesNumbered
<1>2. ASSUME NEW s \in Slots
      PROVE  posts[s] \in [step: {"idle", "presign", "put", "complete", "create", "answer"},
                           file: 0..Len(files), kind: Kinds, here: BOOLEAN]
  <2>1. posts[s] \in PostRow /\ posts[s].file <= Len(files)
    BY PostMoves DEF ComposerIInv, ComposerShape
  <2>2. posts[s].file \in 0..Len(files)
    BY <2>1, FilesNumbered DEF PostRow
  <2> QED BY <2>1, <2>2 DEF PostRow
<1>3. posts \in [Slots -> [step: {"idle", "presign", "put", "complete", "create", "answer"},
                           file: 0..Len(files), kind: Kinds, here: BOOLEAN]]
  BY <1>2 DEF ComposerIInv, ComposerShape
<1>4. {publishing, mixed, switched} \subseteq BOOLEAN
  BY DEF ComposerIInv, ComposerShape
<1> QED BY <1>1, <1>3, <1>4 DEF ComposerIInv, ComposerShape, ComposerTypeOK

LEMMA ComposerPromised == ComposerIInv => PublishesItsFile
<1> SUFFICES ASSUME ComposerIInv PROVE PublishesItsFile
  OBVIOUS
<1>1. StoriesHaveTheirFile
  <2>1. ASSUME NEW f \in 1..MaxFiles
        PROVE  /\ made[f] # <<>> => f \in stored
               /\ Len(made[f]) > 1 => switched \/ f \in unheard
               /\ \A i \in DOMAIN made[f] : made[f][i] = files[f] \/ mixed
    <3>1. made[f] # <<>> => f \in stored
      BY DEF ComposerIInv, StoredFirst
    <3>2. ASSUME Len(made[f]) > 1, ~switched, f \notin unheard PROVE FALSE
      <4>1. made[f] # <<>>
        <5>1. Len(<<>>) = 0
          OBVIOUS
        <5> QED BY <3>2, <5>1
      <4>2. Len(made[f]) = 1
        BY <3>2, <4>1 DEF ComposerIInv, MadeOnce
      <4> QED BY <3>2, <4>2
    <3>3. \A i \in DOMAIN made[f] : made[f][i] = files[f] \/ mixed
      BY DEF ComposerIInv, KindsMatch
    <3> QED BY <3>1, <3>2, <3>3
  <2> QED BY <2>1 DEF StoriesHaveTheirFile
<1>2. LockedWhilePublishing
  <2> DEFINE here == {s \in Posting : posts[s].here}
  <2>1. SUFFICES ASSUME ~switched PROVE Cardinality(here) <= 1 /\ (publishing <=> here # {})
    BY DEF LockedWhilePublishing
  <2>2. here = {s \in Slots : Here(s)}
    <3>1. \A s \in Slots : posts[s].here \in BOOLEAN
      BY PostMoves DEF PostRow
    <3> QED BY <3>1 DEF Posting, Here, Posted
  <2>3. /\ \A s, t \in Slots : Here(s) /\ Here(t) => s = t
        /\ publishing <=> \E s \in Slots : Here(s)
    BY <2>1 DEF ComposerIInv, PageWaits
  <2>4. publishing <=> here # {}
    BY <2>2, <2>3
  <2>5. Cardinality(here) <= 1
    <3>1. CASE here = {}
      BY <3>1, FS_EmptySet
    <3>2. ASSUME NEW s \in here PROVE Cardinality(here) <= 1
      <4>1. here = {s}
        BY <2>2, <2>3, <3>2
      <4>2. Cardinality({s}) = 1
        BY FS_Singleton
      <4> QED BY <4>1, <4>2
    <3> QED BY <3>1, <3>2
  <2> QED BY <2>4, <2>5
<1> QED BY <1>1, <1>2 DEF PublishesItsFile

\* A story is made of a file that was stored, as what the file is and once, and the page is
\* locked while it publishes (media.service.ts:86-98, story-composer.tsx:88-165).
THEOREM StoriesAreOfTheirFile == ComposerSpec => []PublishesItsFile
BY ComposerHolds, ComposerPromised, PTL
-----------------------------------------------------------------------------
(* The shared client: one call, the guards it passes, and the answer it reads. *)

\* What the service behind a route asks once more is what the roles of the route grant.
Gates == {<<Admin, "ADMIN">>, <<Moderators, "admin:moderate">>, <<Support, "admin:support">>,
          <<Support, "admin:read">>, <<AnyStaff, "admin:read">>}
Gated(r) == r.asks = "nothing" \/ (~r.open /\ <<r.roles, r.asks>> \in Gates)
Rows(table) == {table[i] : i \in 1..Len(table)}
AllGated(table) == table \in Seq(Rows(table)) /\ \A i \in 1..Len(table) : Gated(table[i])

LEMMA OpenGated == \A verb, path, gives : Gated(Open(verb, path, gives)) /\ Gated(Own(verb, path, gives))
BY DEF Gated, Open, Own, Route

LEMMA StaffGated ==
  \A verb, path, gives, roles, asks :
    asks = "nothing" \/ <<roles, asks>> \in Gates => Gated(Staff(verb, path, gives, roles, asks))
BY DEF Gated, Staff, Route

LEMMA JoinGated == ASSUME NEW s, NEW t, AllGated(s), AllGated(t) PROVE AllGated(s \o t)
<1>1. s \in Seq(Rows(s) \cup Rows(t)) /\ t \in Seq(Rows(s) \cup Rows(t))
  BY DEF AllGated
<1>2. s \o t \in Seq(Rows(s) \cup Rows(t)) /\ Len(s \o t) = Len(s) + Len(t)
  BY <1>1
<1>3. \A i \in 1..Len(s \o t) : (s \o t)[i] = IF i <= Len(s) THEN s[i] ELSE t[i - Len(s)]
  BY <1>1
<1>4. \A i \in 1..Len(s \o t) : Gated((s \o t)[i])
  BY <1>1, <1>2, <1>3 DEF AllGated
<1>5. ASSUME NEW u \in Seq(Rows(s) \cup Rows(t)) PROVE u \in Seq(Rows(u))
  BY DEF Rows
<1> QED BY <1>2, <1>4, <1>5 DEF AllGated

\* Controller by controller.
LEMMA RoutesGated == AllGated(Routes)
<1>1. AllGated(ConfigurationRoutes)
  BY OpenGated, StaffGated DEF Gates, Rows, AllGated, ConfigurationRoutes
<1>2. AllGated(AdminConfigRoutes)
  BY OpenGated, StaffGated DEF Gates, Rows, AllGated, AdminConfigRoutes
<1>3. AllGated(AuditRoutes)
  BY OpenGated, StaffGated DEF Gates, Rows, AllGated, AuditRoutes
<1>4. AllGated(UserRoutes)
  BY OpenGated, StaffGated DEF Gates, Rows, AllGated, UserRoutes
<1>5. AllGated(AdminMemberRoutes)
  BY OpenGated, StaffGated DEF Gates, Rows, AllGated, AdminMemberRoutes
<1>6. AllGated(SignInRoutes)
  BY OpenGated, StaffGated DEF Gates, Rows, AllGated, SignInRoutes
<1>7. AllGated(AccountRoutes)
  BY OpenGated, StaffGated DEF Gates, Rows, AllGated, AccountRoutes
<1>8. AllGated(MediaRoutes)
  BY OpenGated, StaffGated DEF Gates, Rows, AllGated, MediaRoutes
<1>9. AllGated(LocationRoutes)
  BY OpenGated, StaffGated DEF Gates, Rows, AllGated, LocationRoutes
<1>10. AllGated(ProfileRoutes)
  BY OpenGated, StaffGated DEF Gates, Rows, AllGated, ProfileRoutes
<1>11. AllGated(CategoryRoutes)
  BY OpenGated, StaffGated DEF Gates, Rows, AllGated, CategoryRoutes
<1>12. AllGated(ProfessionalRoutes)
  BY OpenGated, StaffGated DEF Gates, Rows, AllGated, ProfessionalRoutes
<1>13. AllGated(BusinessRoutes)
  BY OpenGated, StaffGated DEF Gates, Rows, AllGated, BusinessRoutes
<1>14. AllGated(DiscoveryRoutes)
  BY OpenGated, StaffGated DEF Gates, Rows, AllGated, DiscoveryRoutes
<1>15. AllGated(VerificationRoutes)
  BY OpenGated, StaffGated DEF Gates, Rows, AllGated, VerificationRoutes
<1>16. AllGated(ConnectionRoutes)
  BY OpenGated, StaffGated DEF Gates, Rows, AllGated, ConnectionRoutes
<1>17. AllGated(ReportRoutes)
  BY OpenGated, StaffGated DEF Gates, Rows, AllGated, ReportRoutes
<1>18. AllGated(NotificationRoutes)
  BY OpenGated, StaffGated DEF Gates, Rows, AllGated, NotificationRoutes
<1>19. AllGated(MessagingRoutes)
  BY OpenGated, StaffGated DEF Gates, Rows, AllGated, MessagingRoutes
<1>20. AllGated(MemberSupportRoutes)
  BY OpenGated, StaffGated DEF Gates, Rows, AllGated, MemberSupportRoutes
<1>21. AllGated(StaffSupportRoutes)
  BY OpenGated, StaffGated DEF Gates, Rows, AllGated, StaffSupportRoutes
<1>22. AllGated(OpsRoutes)
  BY OpenGated, StaffGated DEF Gates, Rows, AllGated, OpsRoutes
<1>23. AllGated(ServiceRoutes)
  BY OpenGated, StaffGated DEF Gates, Rows, AllGated, ServiceRoutes
<1>24. AllGated(ReviewRoutes)
  BY OpenGated, StaffGated DEF Gates, Rows, AllGated, ReviewRoutes
<1>25. AllGated(MemberStoryRoutes)
  BY OpenGated, StaffGated DEF Gates, Rows, AllGated, MemberStoryRoutes
<1>26. AllGated(StaffStoryRoutes)
  BY OpenGated, StaffGated DEF Gates, Rows, AllGated, StaffStoryRoutes
<1>27. AllGated(HealthRoutes)
  BY OpenGated, StaffGated DEF Gates, Rows, AllGated, HealthRoutes
<1> QED BY <1>1, <1>2, <1>3, <1>4, <1>5, <1>6, <1>7, <1>8, <1>9, <1>10, <1>11, <1>12, <1>13, <1>14,
           <1>15, <1>16, <1>17, <1>18, <1>19, <1>20, <1>21, <1>22, <1>23, <1>24, <1>25, <1>26, <1>27, JoinGated DEF Routes
\* A set of numbers that is not empty has a first one.
LEMMA FirstHit ==
  ASSUME NEW hits \in SUBSET Nat, hits # {}
  PROVE  \E i \in hits : \A j \in hits : i <= j
<1>1. IsWellFoundedOn(OpToRel(<, Nat), Nat)
  BY NatLessThanWellFounded
<1>2. PICK i \in hits : \A j \in hits : ~(<<j, i>> \in OpToRel(<, Nat))
  BY <1>1, WFMin
<1>3. \A j \in hits : ~(j < i)
  BY <1>2 DEF OpToRel
<1> QED BY <1>3

\* A method is answered by a route of the table, or by none.
LEMMA RouteFound ==
  ASSUME NEW m \in Methods
  PROVE  RouteOf[m] = NoRoute \/ \E i \in 1..Len(Routes) : RouteOf[m] = Routes[i]
<1> DEFINE hits == {i \in DOMAIN Routes : Matches(Routes[i], m)}
<1>1. RouteOf[m] = IF hits = {} THEN NoRoute ELSE Routes[CHOOSE i \in hits : \A j \in hits : i <= j]
  BY DEF RouteOf
<1>2. DOMAIN Routes = 1..Len(Routes) /\ Len(Routes) \in Nat
  BY RoutesGated DEF AllGated
<1>3. hits \in SUBSET Nat /\ hits \subseteq DOMAIN Routes
  BY <1>2
<1> HIDE DEF hits
<1>4. CASE hits = {}
  BY <1>1, <1>4
<1>5. CASE hits # {}
  <2>1. \E i \in hits : \A j \in hits : i <= j
    BY <1>3, <1>5, FirstHit
  <2>2. (CHOOSE i \in hits : \A j \in hits : i <= j) \in hits
    BY <2>1
  <2> QED BY <1>1, <1>2, <1>3, <1>5, <2>2
<1> QED BY <1>4, <1>5

LEMMA RouteGated == ASSUME NEW m \in Methods PROVE Gated(RouteOf[m])
<1>1. Gated(NoRoute)
  BY OpenGated DEF NoRoute
<1>2. \A i \in 1..Len(Routes) : Gated(Routes[i])
  BY RoutesGated DEF AllGated
<1> QED BY <1>1, <1>2, RouteFound

\* Whoever the roles of a route let in, the service serves.
LEMMA GrantedServe ==
  ASSUME NEW r, Gated(r), NEW roles \in SUBSET StaffRoles, r.open \/ RolesAllow(r, roles)
  PROVE  ServiceAllows(r, roles)
<1>1. CASE r.asks = "nothing"
  BY <1>1 DEF ServiceAllows
<1>2. CASE ~r.open /\ r.roles = Admin /\ r.asks = "ADMIN"
  BY <1>2 DEF ServiceAllows, RolesAllow, Admin
<1>3. CASE ~r.open /\ r.asks \in {"admin:moderate", "admin:support", "admin:read"}
  <2>1. ServiceAllows(r, roles) <=> \E role \in roles : Granted(role) \cap {"*", r.asks} # {}
    BY <1>3 DEF ServiceAllows
  <2> QED BY <1>3, <2>1 DEF Gated, Gates, RolesAllow, Admin, Support, Moderators, AnyStaff, Granted, StaffRoles
<1> QED BY <1>1, <1>2, <1>3 DEF Gated, Gates

-----------------------------------------------------------------------------
\* A call past the guards was entitled and its user has the roles of the route; a call on
\* its way to them is entitled if the account is.
CallOfMethod == ~At("idle") => call.method \in Methods
SentAsEntitled == At("sent") /\ Entitled(call.method, call.bearer, account) => call.entitled
GuardedByRoles ==
  At("guarded") => RouteOf[call.method].open \/ (call.entitled /\ RolesAllow(RouteOf[call.method], call.user.roles))
ServedIfGuarded == call.outcome # "FORBIDDEN BY SERVICE"
ApiIInv == ApiTypeOK /\ CallOfMethod /\ SentAsEntitled /\ GuardedByRoles /\ ServedIfGuarded

CallSteps == {"idle", "sent", "guarded", "answered"}
User == [known: BOOLEAN, roles: SUBSET StaffRoles]
CallRow == [step: CallSteps, method: Methods \cup {NoMethod}, bearer: Token, user: User,
            entitled: BOOLEAN, outcome: Outcomes]

LEMMA CallTyped ==
  /\ ApiTypeOK <=> account \in Account /\ token \in Token /\ turns \in 0..MaxTurns /\ call \in CallRow
  /\ NoToken \in Token /\ NoUser \in User
  /\ \A roles \in SUBSET StaffRoles : Member(roles) \in User
BY DEF ApiTypeOK, CallRow, CallSteps, User, NoToken, Token, NoUser, Member

LEMMA CallTypedNext ==
  account' \in Account /\ token' \in Token /\ turns' \in 0..MaxTurns /\ call' \in CallRow => ApiTypeOK'
BY DEF ApiTypeOK, CallRow, CallSteps, User

LEMMA EndsIdle ==
  ASSUME NEW outcome \in Outcomes \ {"FORBIDDEN BY SERVICE"}, Ends(outcome), ApiIInv,
         UNCHANGED <<account, token, turns>>
  PROVE  ApiIInv'
<1>1. call' \in CallRow
  BY CallTyped DEF Ends, CallRow, CallSteps
<1>2. call'.step = "idle" /\ call'.outcome = outcome
  BY DEF Ends
<1> QED BY <1>1, <1>2, CallTyped
        DEF ApiIInv, ApiTypeOK, CallRow, CallSteps, User, At, CallOfMethod, SentAsEntitled, GuardedByRoles,
            ServedIfGuarded

LEMMA ApiInitial == ApiInit => ApiIInv
<1> SUFFICES ASSUME ApiInit PROVE ApiIInv
  OBVIOUS
<1>1. account \in Account /\ token \in Token /\ turns \in 0..MaxTurns
  BY ApiAssumption DEF ApiInit, Account, Standings, Token
<1>2. call \in CallRow
  BY CallTyped DEF ApiInit, CallRow, CallSteps, Outcomes
<1> QED BY <1>1, <1>2, CallTyped
        DEF ApiInit, ApiIInv, At, CallOfMethod, SentAsEntitled, GuardedByRoles, ServedIfGuarded

LEMMA MakeCallHolds == ASSUME ApiIInv, NEW m \in Methods, MakeCall(m) PROVE ApiIInv'
<1>1. /\ call' = [step |-> "sent", method |-> m, bearer |-> token, user |-> NoUser,
                  entitled |-> Entitled(m, token, account), outcome |-> "none"]
      /\ UNCHANGED <<account, token, turns>>
  BY DEF MakeCall
<1>2. Entitled(m, token, account) \in BOOLEAN
  BY DEF Entitled, Authenticated
<1>3. call' \in CallRow
  BY <1>1, <1>2, CallTyped DEF ApiIInv, CallRow, CallSteps, Outcomes
<1>4. SentAsEntitled'
  BY <1>1 DEF SentAsEntitled
<1>5. CallOfMethod' /\ GuardedByRoles' /\ ServedIfGuarded'
  BY <1>1 DEF At, CallOfMethod, GuardedByRoles, ServedIfGuarded
<1>6. ApiTypeOK'
  BY <1>1, <1>3, CallTyped, CallTypedNext DEF ApiIInv
<1> QED BY <1>4, <1>5, <1>6 DEF ApiIInv

\* The guards let a user through whom the account behind the token allows.
LEMMA GuardHolds == ASSUME ApiIInv, Guard PROVE ApiIInv'
<1> DEFINE route == RouteOf[call.method]
           good == Authenticated(call.bearer, account)
           user == IF good THEN Member(account.roles) ELSE NoUser
           passed == [call EXCEPT !.step = "guarded", !.user = user]
<1>1. call \in CallRow /\ call.method \in Methods /\ At("sent") /\ UNCHANGED <<account, token, turns>>
      /\ account \in Account
  BY CallTyped DEF ApiIInv, Guard, GuardWith, CallOfMethod, At
<1>2. TokenRefusal \in Outcomes \ {"FORBIDDEN BY SERVICE"}
      /\ {"NO_ROUTE", "FORBIDDEN"} \subseteq Outcomes \ {"FORBIDDEN BY SERVICE"}
  BY DEF TokenRefusal, Outcomes
<1>3. CASE call' = passed /\ (~route.open => good /\ RolesAllow(route, account.roles))
  <2>1. user \in User
    BY <1>1, CallTyped DEF Account
  <2>2. passed \in CallRow /\ passed.step = "guarded" /\ passed.user = user /\ passed.method = call.method
        /\ passed.entitled = call.entitled /\ passed.outcome = call.outcome
    BY <1>1, <2>1 DEF CallRow, CallSteps
  <2>3. ~route.open => user.roles = account.roles /\ Entitled(call.method, call.bearer, account)
    BY <1>3 DEF Member, Entitled
  <2>4. GuardedByRoles'
    BY <1>1, <1>3, <2>2, <2>3 DEF ApiIInv, GuardedByRoles, SentAsEntitled
  <2>5. CallOfMethod' /\ SentAsEntitled' /\ ServedIfGuarded'
    BY <1>1, <1>3, <2>2 DEF ApiIInv, CallOfMethod, SentAsEntitled, ServedIfGuarded, At
  <2>6. ApiTypeOK'
    BY <1>1, <1>3, <2>2, CallTyped, CallTypedNext DEF ApiIInv
  <2> QED BY <2>4, <2>5, <2>6 DEF ApiIInv
<1>4. \/ Ends("NO_ROUTE") \/ Ends(TokenRefusal) \/ Ends("FORBIDDEN")
      \/ call' = passed /\ (~route.open => good /\ RolesAllow(route, account.roles))
  BY DEF Guard, GuardWith
<1> QED BY <1>1, <1>2, <1>3, <1>4, EndsIdle

\* The service has nothing against a user the guards let through.
LEMMA HandleHolds == ASSUME ApiIInv, Handle PROVE ApiIInv'
<1>1. call \in CallRow /\ call.method \in Methods /\ At("guarded") /\ UNCHANGED <<account, token, turns>>
  BY CallTyped DEF ApiIInv, Handle, CallOfMethod, At
<1>2. ServiceAllows(RouteOf[call.method], call.user.roles)
  <2>1. call.user.roles \in SUBSET StaffRoles
    BY <1>1 DEF CallRow, User
  <2> QED BY <1>1, <2>1, RouteGated, GrantedServe DEF ApiIInv, GuardedByRoles
<1>3. CASE Ends("REFUSED")
  BY <1>1, <1>3, EndsIdle DEF Outcomes
<1>4. CASE call' = [call EXCEPT !.step = "answered"]
  <2>1. [call EXCEPT !.step = "answered"] \in CallRow /\ call'.step = "answered"
        /\ call'.method = call.method /\ call'.outcome = call.outcome
    BY <1>1, <1>4 DEF CallRow, CallSteps
  <2>2. CallOfMethod' /\ SentAsEntitled' /\ GuardedByRoles' /\ ServedIfGuarded'
    BY <1>1, <2>1 DEF ApiIInv, CallOfMethod, SentAsEntitled, GuardedByRoles, ServedIfGuarded, At
  <2>3. ApiTypeOK'
    BY <1>1, <1>4, <2>1, CallTyped, CallTypedNext DEF ApiIInv
  <2> QED BY <2>2, <2>3 DEF ApiIInv
<1> QED BY <1>2, <1>3, <1>4 DEF Handle

LEMMA CallEndsHolds == ASSUME ApiIInv, Receive \/ LoseCall PROVE ApiIInv'
BY EndsIdle DEF Receive, LoseCall, Outcomes
\* What an administrator changes may entitle the account to a call that is on its way.
LEMMA ChangeHolds ==
  ASSUME ApiIInv, NEW holder \in Account, ChangeAccount(holder)
  PROVE  ApiIInv'
<1> DEFINE entitled == call.entitled \/ (At("sent") /\ Entitled(call.method, call.bearer, holder))
<1>1. call \in CallRow /\ turns \in 0..MaxTurns
  BY CallTyped DEF ApiIInv
<1>2. /\ turns' \in 0..MaxTurns /\ account' = holder /\ token' = token
      /\ call' = [call EXCEPT !.entitled = entitled]
  BY <1>1, ApiAssumption DEF ChangeAccount
<1>3. entitled \in BOOLEAN
  BY <1>1 DEF CallRow, Entitled, Authenticated
<1> HIDE DEF entitled
<1>4. /\ call' \in CallRow /\ call'.step = call.step /\ call'.method = call.method /\ call'.bearer = call.bearer
      /\ call'.user = call.user /\ call'.outcome = call.outcome /\ call'.entitled = entitled
  BY <1>1, <1>2, <1>3 DEF CallRow
<1>5. ApiTypeOK'
  BY <1>2, <1>4, CallTyped, CallTypedNext DEF ApiIInv
<1>6. SentAsEntitled'
  BY <1>2, <1>4 DEF SentAsEntitled, At, entitled
<1>7. GuardedByRoles'
  BY <1>4 DEF ApiIInv, GuardedByRoles, At, entitled
<1>8. CallOfMethod' /\ ServedIfGuarded'
  BY <1>4 DEF ApiIInv, CallOfMethod, ServedIfGuarded, At
<1> QED BY <1>5, <1>6, <1>7, <1>8 DEF ApiIInv

LEMMA AccountsHold ==
  ASSUME ApiIInv, (\E roles \in SUBSET StaffRoles : GiveRoles(roles)) \/ Suspend \/ Restore \/ RevokeSession
  PROVE  ApiIInv'
<1>1. account \in Account
  BY CallTyped DEF ApiIInv
<1>2. /\ \A roles \in SUBSET StaffRoles : [account EXCEPT !.roles = roles] \in Account
      /\ \A standing \in Standings : [account EXCEPT !.standing = standing] \in Account
  BY <1>1 DEF Account
<1> QED BY <1>2, ChangeHolds DEF GiveRoles, Suspend, Restore, RevokeSession, Standings

\* Another token in the storage leaves the call as it is.
LEMMA TokenHolds ==
  ASSUME ApiIInv, token' \in Token, turns' \in 0..MaxTurns, UNCHANGED <<account, call>>
  PROVE  ApiIInv'
<1>1. ApiTypeOK'
  BY CallTyped, CallTypedNext DEF ApiIInv
<1>2. CallOfMethod' /\ SentAsEntitled' /\ GuardedByRoles' /\ ServedIfGuarded'
  BY DEF ApiIInv, CallOfMethod, SentAsEntitled, GuardedByRoles, ServedIfGuarded, At
<1> QED BY <1>1, <1>2 DEF ApiIInv

\* A token whose time is up entitles to nothing.
LEMMA ExpireHolds == ASSUME ApiIInv, ExpireToken PROVE ApiIInv'
<1>1. call \in CallRow /\ turns \in 0..MaxTurns /\ token \in Token /\ account \in Account
  BY CallTyped DEF ApiIInv
<1>2. /\ turns' \in 0..MaxTurns /\ account' = account /\ token' = [token EXCEPT !.kind = "stale"]
      /\ call' = [call EXCEPT !.bearer.kind = IF @ = "good" THEN "stale" ELSE @]
  BY <1>1, ApiAssumption DEF ExpireToken
<1>3. PICK left \in {"none", "stale"} : call' = [call EXCEPT !.bearer = [@ EXCEPT !.kind = left]]
  <2>1. (IF call.bearer.kind = "good" THEN "stale" ELSE call.bearer.kind) \in {"none", "stale"}
    BY <1>1 DEF CallRow, Token
  <2> QED BY <1>2, <2>1
<1>4. token' \in Token /\ [call.bearer EXCEPT !.kind = left] \in Token
      /\ [call.bearer EXCEPT !.kind = left].kind = left
  BY <1>1, <1>2 DEF CallRow, Token
<1>5. /\ call' \in CallRow /\ call'.step = call.step /\ call'.method = call.method /\ call'.bearer.kind = left
      /\ call'.user = call.user /\ call'.outcome = call.outcome /\ call'.entitled = call.entitled
  BY <1>1, <1>3, <1>4 DEF CallRow
<1>6. ApiTypeOK'
  BY <1>1, <1>2, <1>4, <1>5, CallTyped, CallTypedNext
<1>7. SentAsEntitled'
  BY <1>5 DEF SentAsEntitled, Entitled, Authenticated
<1>8. CallOfMethod' /\ GuardedByRoles' /\ ServedIfGuarded'
  BY <1>5 DEF ApiIInv, CallOfMethod, GuardedByRoles, ServedIfGuarded, At
<1> QED BY <1>6, <1>7, <1>8 DEF ApiIInv

LEMMA TokensHold == ASSUME ApiIInv, ExpireToken \/ DropToken \/ TakeToken PROVE ApiIInv'
<1>1. turns \in 0..MaxTurns /\ account \in Account
  BY CallTyped DEF ApiIInv
<1>2. CASE DropToken
  <2>1. turns' \in 0..MaxTurns /\ token' \in Token
    BY <1>1, <1>2, CallTyped, ApiAssumption DEF DropToken
  <2> QED BY <1>2, <2>1, TokenHolds DEF DropToken
<1>3. CASE TakeToken
  <2>1. turns' \in 0..MaxTurns /\ token' \in Token
    BY <1>1, <1>3, ApiAssumption DEF TakeToken, Token, Account
  <2> QED BY <1>3, <2>1, TokenHolds DEF TakeToken
<1> QED BY <1>2, <1>3, ExpireHolds

LEMMA ApiInductive == ApiIInv /\ [ApiNext]_apiVars => ApiIInv'
<1>1. ASSUME ApiIInv, UNCHANGED apiVars PROVE ApiIInv'
  <2>1. token \in Token /\ turns \in 0..MaxTurns
    BY <1>1, CallTyped DEF ApiIInv
  <2> QED BY <1>1, <2>1, TokenHolds DEF apiVars
<1> QED BY <1>1, MakeCallHolds, GuardHolds, HandleHolds, CallEndsHolds, AccountsHold, TokensHold DEF ApiNext

(* However the account and its tokens are changed under a call, a handler that *)
(* is not public runs for somebody who was entitled to it after the call was   *)
(* made, and nobody whom the roles of a route let in is turned away by the     *)
(* permission its service asks for (auth.guard.ts:59-89, roles.guard.ts:42,    *)
(* staff-auth.ts:6-28).                                                        *)
THEOREM RightsStayCurrent ==
  ApiSpec => []RightsAreCurrent /\ [](call.outcome # "FORBIDDEN BY SERVICE") /\ []ApiTypeOK
<1>1. ApiIInv => RightsAreCurrent /\ call.outcome # "FORBIDDEN BY SERVICE" /\ ApiTypeOK
  BY DEF ApiIInv, GuardedByRoles, RightsAreCurrent, ServedIfGuarded
<1> QED BY ApiInitial, ApiInductive, <1>1, PTL DEF ApiSpec

-----------------------------------------------------------------------------
\* The two tables, of the client and of the controllers, agree: a closed fact without a
\* constant in it, which the steps below take as a hypothesis.
RoutesFit ==
  \A m \in Methods : RouteOf[m] # NoRoute /\ RouteOf[m].path = m.path /\ RouteOf[m].gives = m.reads

UnderstoodSoFar == ApiIInv /\ call.outcome \notin {"NO_ROUTE", "UNREADABLE"}

LEMMA UnderstoodStays ==
  ASSUME RoutesFit
  PROVE  /\ ApiInit => UnderstoodSoFar
         /\ UnderstoodSoFar /\ [ApiNext]_apiVars => UnderstoodSoFar'
<1>1. ApiInit => UnderstoodSoFar
  BY ApiInitial DEF ApiInit, UnderstoodSoFar
<1>2. \A outcome : Ends(outcome) => call'.outcome = outcome
  BY DEF Ends
<1>3. ASSUME UnderstoodSoFar, [ApiNext]_apiVars PROVE call'.outcome \notin {"NO_ROUTE", "UNREADABLE"}
  <2>0. call \in CallRow /\ call.outcome \notin {"NO_ROUTE", "UNREADABLE"} /\ CallOfMethod
    BY <1>3, CallTyped DEF UnderstoodSoFar, ApiIInv
  <2>1. CASE \E m \in Methods : MakeCall(m)
    BY <2>1 DEF MakeCall
  <2>2. CASE Guard
    <3>1. RouteOf[call.method] # NoRoute
      BY <2>0, <2>2 DEF Guard, GuardWith, CallOfMethod, At, RoutesFit
    <3>2. TokenRefusal \notin {"NO_ROUTE", "UNREADABLE"}
      BY DEF TokenRefusal
    <3>0. \A user : [call EXCEPT !.step = "guarded", !.user = user].outcome = call.outcome
      BY <2>0 DEF CallRow
    <3>3. \/ \E outcome \in {TokenRefusal, "FORBIDDEN"} : call'.outcome = outcome
          \/ call'.outcome = call.outcome
      BY <1>2, <2>2, <3>0, <3>1 DEF Guard, GuardWith
    <3> QED BY <2>0, <3>2, <3>3
  <2>3. CASE Handle
    <3>0. [call EXCEPT !.step = "answered"].outcome = call.outcome
      BY <2>0 DEF CallRow
    <3>1. call'.outcome \in {"REFUSED", "FORBIDDEN BY SERVICE"} \/ call'.outcome = call.outcome
      BY <1>2, <2>3, <3>0 DEF Handle
    <3> QED BY <2>0, <3>1
  <2>4. CASE Receive
    <3>1. RouteOf[call.method].gives = call.method.reads
      BY <2>0, <2>4 DEF Receive, CallOfMethod, At, RoutesFit
    <3> QED BY <2>4, <3>1 DEF Receive, Ends
  <2>5. CASE LoseCall
    BY <2>5 DEF LoseCall, Ends
  <2>6. CASE (\E roles \in SUBSET StaffRoles : GiveRoles(roles)) \/ Suspend \/ Restore \/ RevokeSession
    <3>1. call'.outcome = call.outcome
      BY <2>0, <2>6 DEF GiveRoles, Suspend, Restore, RevokeSession, ChangeAccount, CallRow
    <3> QED BY <2>0, <3>1
  <2>7. CASE ExpireToken \/ DropToken \/ TakeToken \/ UNCHANGED apiVars
    <3>1. call'.outcome = call.outcome
      BY <2>0, <2>7 DEF ExpireToken, DropToken, TakeToken, apiVars, CallRow
    <3> QED BY <2>0, <3>1
  <2> QED BY <1>3, <2>1, <2>2, <2>3, <2>4, <2>5, <2>6, <2>7 DEF ApiNext
<1> QED BY <1>1, <1>3, ApiInductive DEF UnderstoodSoFar

(* Where the table of the client fits the table of the controllers, every call *)
(* is understood and runs for somebody who may make it, whatever is changed    *)
(* under it (auth.guard.ts:18-91, client.ts:1580-1636).                        *)
THEOREM CallsStayRightful ==
  ASSUME RoutesFit PROVE ApiSpec => []CallsAreRightful
<1>1. UnderstoodSoFar => CallsAreRightful
  BY DEF UnderstoodSoFar, ApiIInv, GuardedByRoles, ServedIfGuarded, CallOfMethod, CallsAreRightful,
         CallsAreUnderstood, RightsAreCurrent, RoutesFit, At
<1>2. ApiInit => UnderstoodSoFar
  BY UnderstoodStays
<1>3. UnderstoodSoFar /\ [ApiNext]_apiVars => UnderstoodSoFar'
  BY UnderstoodStays
<1> QED BY <1>1, <1>2, <1>3, PTL DEF ApiSpec

-----------------------------------------------------------------------------
(* The whole. *)

PartKnown == part \in Parts

LEMMA ClientsBegin ==
  ClientsInit =>
    /\ PartKnown
    /\ MapInit /\ ChatInit /\ ApiInit /\ PanelInit /\ SignInit /\ ComposerInit
    /\ CastInit /\ ViewerInit /\ WizardInit
BY DEF ClientsInit, PartKnown

\* A step of the applications is, for each page, a step of it or none.
LEMMA ClientsSteps ==
  [ClientsNext]_clientVars =>
    /\ [MapNext]_mapVars /\ [ChatNext]_chatVars /\ [ApiNext]_apiVars /\ [PanelNext]_panelVars
    /\ [SignNext]_signVars /\ [ComposerNext]_composerVars /\ [CastNext]_castVars
    /\ [ViewerNext]_viewerVars /\ [WizardNext]_wizardVars
    /\ (part' = part)
BY DEF ClientsNext, Alone, clientVars

(* The applications implement the specification of each of their pages: what   *)
(* was proved of a page alone is true of it among the others, as pages keep    *)
(* their state in components of their own (the useState and useRef of          *)
(* src/apps/web/src, src/apps/admin/src and src/apps/mobile/src).              *)
THEOREM ClientsImplement ==
  ClientsSpec =>
    /\ MapSpec /\ ChatSpec /\ ApiSpec /\ PanelSpec /\ SignSpec /\ ComposerSpec
    /\ CastSpec /\ ViewerSpec /\ WizardSpec
<1>1. ClientsSpec => MapSpec /\ ChatSpec /\ ApiSpec
  BY ClientsBegin, ClientsSteps, PTL DEF ClientsSpec, MapSpec, ChatSpec, ApiSpec
<1>2. ClientsSpec => PanelSpec /\ SignSpec /\ ComposerSpec
  BY ClientsBegin, ClientsSteps, PTL DEF ClientsSpec, PanelSpec, SignSpec, ComposerSpec
<1>3. ClientsSpec => CastSpec /\ ViewerSpec /\ WizardSpec
  BY ClientsBegin, ClientsSteps, PTL DEF ClientsSpec, CastSpec, ViewerSpec, WizardSpec
<1> QED BY <1>1, <1>2, <1>3

(* Every variable of every page keeps its type, for any number of requests in  *)
(* flight and every value of the other constants.                              *)
THEOREM ClientsTypeCorrect == ClientsSpec => []ClientsTypeOK
<1>1. ClientsSpec => []PartKnown
  <2>1. PartKnown /\ [ClientsNext]_clientVars => PartKnown'
    BY ClientsSteps DEF PartKnown
  <2> QED BY ClientsBegin, <2>1, PTL DEF ClientsSpec
<1>2. ClientsSpec => [](MapTypeOK /\ ChatTypeOK /\ ApiTypeOK)
  <2>1. MapIInv => MapTypeOK
    BY DEF MapIInv
  <2> QED BY <2>1, ClientsImplement, MapHolds, ChatHolds, ChatTyped, RightsStayCurrent, PTL
<1>3. ClientsSpec => [](PanelTypeOK /\ SignTypeOK /\ ComposerTypeOK)
  BY ClientsImplement, PanelHolds, PanelTyped, SignHolds, SignTyped, ComposerHolds, ComposerTyped, PTL
<1>4. ClientsSpec => [](CastTypeOK /\ ViewerTypeOK /\ WizardTypeOK)
  <2>1. ViewerIInv => ViewerTypeOK
    BY DEF ViewerIInv, ViewerShape
  <2>2. WizardIInv => WizardTypeOK
    BY DEF WizardIInv, WizardShape
  <2> QED BY <2>1, <2>2, ClientsImplement, CastHolds, CastTyped, ViewerHolds, WizardHolds, PTL
<1>5. /\ PartKnown
      /\ MapTypeOK /\ ChatTypeOK /\ ApiTypeOK
      /\ PanelTypeOK /\ SignTypeOK /\ ComposerTypeOK
      /\ CastTypeOK /\ ViewerTypeOK /\ WizardTypeOK
      => ClientsTypeOK
  BY DEF ClientsTypeOK, PartKnown
<1> QED BY <1>1, <1>2, <1>3, <1>4, <1>5, PTL

(* What the pages promise holds of the applications, each with the exceptions  *)
(* its property names: the map as asked, the newest messages once, rights that *)
(* are current, panels that settle, stages with their codes, stories of their  *)
(* file, a page that agrees with its broadcast as far as it is told, stages    *)
(* that play their own and a complete review.                                  *)
THEOREM ClientsKeepPromises ==
  ClientsSpec =>
    /\ []MapIsAsAsked /\ []MessagesArriveOnce /\ []RightsAreCurrent /\ []PanelsSettle
    /\ []StagesFit /\ []PublishesItsFile /\ []BroadcastAgrees /\ []StagePlaysItsOwn
    /\ []ReviewIsComplete
BY ClientsImplement, MapStaysAsAsked, MessagesArrive, RightsStayCurrent, PanelsComeToRest,
   StagesHaveTheirCodes, StoriesAreOfTheirFile, PageAgreesWithServer, StagesPlayTheirOwn, ReviewStaysComplete
=============================================================================
