------------------------- MODULE ConnectionsProofs -------------------------
(***************************************************************************)
(* Proofs about Connections, for any members and any number of calls in    *)
(* flight.  What a call still holds from an earlier read is never current; *)
(* the proofs rest on the parts of it that no other call can undo: who has *)
(* asked (willing), which conversations exist, and which blocks were there *)
(* all along (barred).                                                     *)
(***************************************************************************)
EXTENDS Connections, TLAPS

\* Every row names two different members of its pair, and its requester asked.
RowsAsked ==
  \A p \in Pairs :
    connection[p].status # "NONE" =>
      /\ connection[p].requester \in p
      /\ connection[p].addressee \in p
      /\ connection[p].requester # connection[p].addressee
      /\ <<connection[p].requester, p>> \in willing

AcceptedOpen ==
  \A p \in Pairs : connection[p].status = "ACCEPTED" => p \in conversations

ConversationsAgreed ==
  \A p \in conversations : \A m \in p : <<m, p>> \in willing

\* What a call may rely on at each of its steps, whatever the others do.
CallOK(h) ==
  LET c == handler[h]
      p == PairOf(c.actor, c.peer)
  IN
  /\ c.pc # "idle" => c.actor \in Members /\ c.peer \in Members /\ c.actor # c.peer
  /\ c.pc \in {"accept_blocks", "accept_write"} =>
       /\ <<c.peer, p>> \in willing
       /\ c.row.requester = c.peer
       /\ c.row.addressee = c.actor
  /\ c.pc \in {"accept_blocks", "accept_write", "reject_write", "cancel_write"} =>
       connection[p].status # "NONE"
  /\ c.pc \in {"send_row", "send_blocks", "send_write", "notify_accepted"} =>
       p \in conversations
  /\ c.pc = "notify_requested" => <<c.actor, p>> \in willing
  /\ c.pc = "notify_message" => <<c.actor, c.peer>> \in messages

CallsOK == \A h \in Handlers : CallOK(h)

\* A barred call is one whose pair is blocked, at a step before its check.
BarredOK ==
  \A h \in barred :
    /\ Blocked(handler[h].actor, handler[h].peer)
    /\ handler[h].pc \in {"request_blocks", "accept_blocks", "reject_write", "cancel_write",
                          "block_write", "send_row", "send_blocks"}

IInv ==
  /\ TypeOK
  /\ RowsAsked
  /\ AcceptedOpen
  /\ ConversationsAgreed
  /\ CallsOK
  /\ NotifiedTruthfully
  /\ BarredOK

----------------------------------------------------------------------------
\* Two different members make a pair.
LEMMA PairIsPair ==
  ASSUME NEW m \in Members, NEW n \in Members, m # n
  PROVE  PairOf(m, n) \in Pairs /\ m \in PairOf(m, n) /\ n \in PairOf(m, n)
BY DEF PairOf, Pairs

\* isBlockedEitherWay does not depend on who asks.
LEMMA PairOfCommutes ==
  ASSUME NEW m, NEW n
  PROVE  PairOf(m, n) = PairOf(n, m)
BY DEF PairOf

\* The initial state satisfies the invariant.
LEMMA InitIInv == Init => IInv
BY NobodyIsNoMember
   DEF Init, IInv, TypeOK, RowsAsked, AcceptedOpen, ConversationsAgreed, CallsOK, CallOK,
       NotifiedTruthfully, BarredOK, NoRow, Row, Statuses, Idle, Call, Steps

----------------------------------------------------------------------------
\* Every step preserves the types.
LEMMA TypeStep ==
  ASSUME TypeOK, CallsOK, [Next]_vars
  PROVE  TypeOK'
<1> USE DEF TypeOK
<1>1. ASSUME NEW h \in Handlers, NEW m \in Members, NEW n \in Members, Arrive(h, m, n)
      PROVE  TypeOK'
  <2>1. m # n
    BY <1>1 DEF Arrive, Request, Accept, Reject, Cancel, Block, Send
  <2>2. connection[PairOf(m, n)] \in Row
    BY <2>1, PairIsPair
  <2>3. NoRow \in Row
    BY DEF NoRow, Row, Statuses
  <2>4. UNCHANGED Database
    BY <1>1 DEF Arrive, Request, Accept, Reject, Cancel, Block, Send
  <2>5. \E pc \in Steps, row \in Row : Begin(h, pc, m, n, row)
    BY <1>1, <2>2, <2>3 DEF Arrive, Request, Accept, Reject, Cancel, Block, Send, Steps
  <2>6. handler' \in [Handlers -> Call] /\ barred' \subseteq Handlers
    BY <2>5 DEF Begin, Call
  <2> QED
    BY <2>4, <2>6 DEF Database
<1>2. ASSUME NEW h \in Handlers, Proceed(h)
      PROVE  TypeOK'
  <2> DEFINE p == PairOfCall(h)
  <2>1. handler[h] \in Call /\ handler[h].row \in Row /\ handler[h].pc # "idle"
    BY <1>2 DEF Proceed, Call, RequestChecksBlocks, RequestReadsRow, RequestWrites,
         AcceptChecksBlocks, AcceptWrites, RejectWrites, CancelWrites, BlockWrites,
         SendReadsRow, SendChecksBlocks, SendWrites, Notify, Abandon, KindOf
  <2>2. /\ handler[h].actor \in Members
        /\ handler[h].peer \in Members
        /\ handler[h].actor # handler[h].peer
    BY <2>1 DEF CallsOK, CallOK
  <2>3. p \in Pairs
    BY <2>2, PairIsPair DEF PairOfCall
  <2>4. Idle \in Call
    BY DEF Idle, Call, Steps, NoRow, Row, Statuses
  <2>5. \A pc \in Steps : Goto(h, pc) => handler' \in [Handlers -> Call]
    BY <2>1 DEF Goto, Call
  <2>6. End(h) => handler' \in [Handlers -> Call] /\ barred' \subseteq Handlers
    BY <2>4 DEF End
  <2>7. CASE RequestChecksBlocks(h)
    BY <2>5, <2>6, <2>7 DEF RequestChecksBlocks, Database, Steps
  <2>8. CASE RequestReadsRow(h)
    <3>1. handler' \in [Handlers -> Call] /\ barred' \subseteq Handlers
      BY <2>1, <2>3, <2>6, <2>8 DEF RequestReadsRow, Call, Steps
    <3> QED
      BY <2>8, <3>1 DEF RequestReadsRow, Database
  <2>9. CASE RequestWrites(h)
    <3>1. [status |-> "PENDING", requester |-> handler[h].actor,
           addressee |-> handler[h].peer] \in Row
      BY <2>2 DEF Row, Statuses
    <3> QED
      BY <2>2, <2>3, <2>5, <2>9, <3>1 DEF RequestWrites, Steps
  <2>10. CASE AcceptChecksBlocks(h)
    BY <2>5, <2>6, <2>10 DEF AcceptChecksBlocks, Database, Steps
  <2>11. CASE AcceptWrites(h)
    <3>1. connection' \in [Pairs -> Row]
      BY <2>3, <2>11 DEF AcceptWrites, Row, Statuses
    <3> QED
      BY <2>2, <2>3, <2>5, <2>11, <3>1 DEF AcceptWrites, Steps
  <2>12. CASE RejectWrites(h)
    BY <2>3, <2>6, <2>12 DEF RejectWrites, Row, Statuses
  <2>13. CASE CancelWrites(h)
    BY <2>3, <2>6, <2>13 DEF CancelWrites, Row, Statuses
  <2>14. CASE BlockWrites(h)
    <3>1. connection' \in [Pairs -> Row]
      BY <2>3, <2>14 DEF BlockWrites, Row, Statuses
    <3> QED
      BY <2>2, <2>6, <2>14, <3>1 DEF BlockWrites
  <2>15. CASE SendReadsRow(h)
    BY <2>5, <2>6, <2>15 DEF SendReadsRow, Database, Steps
  <2>16. CASE SendChecksBlocks(h)
    BY <2>5, <2>6, <2>16 DEF SendChecksBlocks, Database, Steps
  <2>17. CASE SendWrites(h)
    BY <2>2, <2>5, <2>17 DEF SendWrites, Steps
  <2>18. CASE Notify(h)
    <3>1. [to |-> handler[h].peer, kind |-> KindOf[handler[h].pc], about |-> handler[h].actor]
            \in Notification
      BY <2>2, <2>18 DEF Notify, KindOf, Notification
    <3> QED
      BY <2>6, <2>18, <3>1 DEF Notify
  <2>19. CASE Abandon(h)
    BY <2>6, <2>19 DEF Abandon
  <2> QED
    BY <1>2, <2>7, <2>8, <2>9, <2>10, <2>11, <2>12, <2>13, <2>14, <2>15, <2>16, <2>17,
       <2>18, <2>19 DEF Proceed
<1>3. ASSUME NEW m \in Members, NEW n \in Members, Unblock(m, n)
      PROVE  TypeOK'
  BY <1>3 DEF Unblock
<1>4. CASE UNCHANGED vars
  BY <1>4 DEF vars
<1> QED
  BY <1>1, <1>2, <1>3, <1>4 DEF Next

----------------------------------------------------------------------------
\* What a call relies on only grows: nobody takes back a request or an
\* acceptance, closes a conversation, deletes a message or deletes a row.
Grows ==
  /\ willing \subseteq willing'
  /\ conversations \subseteq conversations'
  /\ messages \subseteq messages'
  /\ \A p \in Pairs : connection[p].status # "NONE" => connection'[p].status # "NONE"

LEMMA OnlyGrows ==
  ASSUME IInv, [Next]_vars
  PROVE  Grows
<1>1. ASSUME NEW h \in Handlers, Proceed(h)
      PROVE  Grows
  <2>1. CASE UNCHANGED Database
    BY <2>1 DEF Grows, Database
  <2>2. CASE RequestWrites(h)
    BY <2>2 DEF Grows, RequestWrites, IInv, TypeOK
  <2>3. CASE AcceptWrites(h)
    BY <2>3 DEF Grows, AcceptWrites, IInv, TypeOK, Row
  <2>4. CASE RejectWrites(h)
    BY <2>4 DEF Grows, RejectWrites, IInv, TypeOK, Row
  <2>5. CASE CancelWrites(h)
    BY <2>5 DEF Grows, CancelWrites, IInv, TypeOK, Row
  <2>6. CASE BlockWrites(h)
    BY <2>6 DEF Grows, BlockWrites, IInv, TypeOK, Row
  <2>7. CASE SendWrites(h)
    BY <2>7 DEF Grows, SendWrites
  <2>8. CASE Notify(h)
    BY <2>8 DEF Grows, Notify
  <2> QED
    BY <1>1, <2>1, <2>2, <2>3, <2>4, <2>5, <2>6, <2>7, <2>8
       DEF Proceed, Database, RequestChecksBlocks, RequestReadsRow, AcceptChecksBlocks,
           SendReadsRow, SendChecksBlocks, Abandon
<1>2. ASSUME NEW h \in Handlers, NEW m \in Members, NEW n \in Members, Arrive(h, m, n)
      PROVE  UNCHANGED Database
  BY <1>2 DEF Arrive, Request, Accept, Reject, Cancel, Block, Send
<1>3. ASSUME NEW m \in Members, NEW n \in Members, Unblock(m, n)
      PROVE  UNCHANGED <<willing, conversations, messages, connection>>
  BY <1>3 DEF Unblock
<1> QED
  BY <1>1, <1>2, <1>3 DEF Next, vars, Grows, Database

\* So a call that is not the one that moves keeps what it may rely on.
LEMMA OthersKeep ==
  ASSUME IInv, [Next]_vars, NEW g \in Handlers, handler'[g] = handler[g]
  PROVE  CallOK(g)'
<1>1. CallOK(g)
  BY DEF IInv, CallsOK
<1>2. handler[g].pc # "idle" => PairOf(handler[g].actor, handler[g].peer) \in Pairs
  BY <1>1, PairIsPair DEF CallOK
<1> QED
  BY <1>1, <1>2, OnlyGrows DEF CallOK, Grows

\* The last step of most calls: the slot is idle and no longer barred.
LEMMA EndKeepsCalls ==
  ASSUME IInv, [Next]_vars, NEW h \in Handlers, End(h)
  PROVE  CallsOK'
<1> SUFFICES ASSUME NEW g \in Handlers
             PROVE  CallOK(g)'
  BY DEF CallsOK
<1>1. CASE g = h
  BY <1>1 DEF End, Idle, CallOK, IInv, TypeOK
<1>2. CASE g # h
  BY <1>2, OthersKeep DEF End, IInv, TypeOK, CallsOK
<1> QED
  BY <1>1, <1>2

LEMMA EndKeepsBarred ==
  ASSUME IInv, NEW h \in Handlers, End(h), blocks \subseteq blocks'
  PROVE  BarredOK'
BY DEF End, IInv, TypeOK, BarredOK, Blocked, BlockedIn

\* A call that goes on has the same members and the same row.
LEMMA GotoIs ==
  ASSUME TypeOK, NEW h \in Handlers, NEW pc, Goto(h, pc)
  PROVE  /\ handler'[h].pc = pc
         /\ handler'[h].actor = handler[h].actor
         /\ handler'[h].peer = handler[h].peer
         /\ handler'[h].row = handler[h].row
         /\ \A g \in Handlers : g # h => handler'[g] = handler[g]
BY DEF Goto, TypeOK, Call

LEMMA GotoKeepsCalls ==
  ASSUME IInv, [Next]_vars, NEW h \in Handlers, NEW pc, Goto(h, pc), CallOK(h)'
  PROVE  CallsOK'
BY GotoIs, OthersKeep DEF IInv, CallsOK

\* A barred call that goes on has not got past its check.
LEMMA GotoKeepsBarred ==
  ASSUME IInv, NEW h \in Handlers, NEW pc, Goto(h, pc), UNCHANGED <<blocks, barred>>,
         h \notin barred
  PROVE  BarredOK'
BY GotoIs DEF IInv, TypeOK, BarredOK, Blocked, BlockedIn

\* The part of the invariant that speaks of the database alone.
DataOK == RowsAsked /\ AcceptedOpen /\ ConversationsAgreed /\ NotifiedTruthfully

LEMMA ReadsKeepData ==
  ASSUME IInv, UNCHANGED Database
  PROVE  DataOK'
BY DEF IInv, DataOK, Database, RowsAsked, AcceptedOpen, ConversationsAgreed, NotifiedTruthfully

\* A row that an earlier call wrote, given another status that asks less of it.
LEMMA StatusKeepsData ==
  ASSUME IInv, NEW p \in Pairs, connection[p].status # "NONE",
         NEW s \in {"REJECTED", "CANCELLED"},
         connection' = [connection EXCEPT ![p].status = s],
         UNCHANGED <<conversations, messages, notified, willing>>
  PROVE  DataOK'
<1> USE DEF IInv, TypeOK
<1>1. RowsAsked'
  BY DEF RowsAsked, Row
<1>2. AcceptedOpen'
  BY DEF AcceptedOpen, Row
<1> QED
  BY <1>1, <1>2 DEF DataOK, ConversationsAgreed, NotifiedTruthfully

----------------------------------------------------------------------------
\* A call that comes in has read nothing but, for accept, reject and cancel, a
\* pending row whose requester is therefore known to have asked.
LEMMA ArriveStep ==
  ASSUME IInv, [Next]_vars, NEW h \in Handlers, NEW m \in Members, NEW n \in Members,
         Arrive(h, m, n)
  PROVE  DataOK' /\ CallsOK' /\ BarredOK'
<1> DEFINE p == PairOf(m, n)
<1>1. m # n /\ p \in Pairs /\ m \in p /\ n \in p /\ p = PairOf(n, m) /\ UNCHANGED Database
  BY PairIsPair, PairOfCommutes DEF Arrive, Request, Accept, Reject, Cancel, Block, Send
<1>2. PICK pc \in {"request_blocks", "accept_blocks", "reject_write", "cancel_write",
                   "block_write", "send_row"}, row \in Row :
        /\ Begin(h, pc, m, n, row)
        /\ pc = "accept_blocks" =>
             row = connection[p] /\ row.addressee = m
        /\ pc \in {"accept_blocks", "reject_write", "cancel_write"} =>
             connection[p].status = "PENDING"
        /\ pc = "send_row" => p \in conversations
  <2>1. NoRow \in Row /\ connection[p] \in Row
    BY <1>1 DEF NoRow, Row, Statuses, IInv, TypeOK
  <2> QED
    BY <2>1 DEF Arrive, Request, Accept, Reject, Cancel, Block, Send
<1>3. /\ handler'[h] = [pc |-> pc, actor |-> m, peer |-> n, row |-> row]
      /\ \A g \in Handlers : g # h => handler'[g] = handler[g]
  BY <1>2 DEF Begin, IInv, TypeOK
<1>4. CallOK(h)'
  <2>1. pc = "accept_blocks" =>
          <<n, p>> \in willing /\ row.requester = n /\ row.addressee = m
    BY <1>1, <1>2 DEF IInv, RowsAsked, PairOf
  <2> QED
    BY <1>1, <1>2, <1>3, <2>1 DEF CallOK, Database
<1>5. CallsOK'
  BY <1>3, <1>4, OthersKeep DEF IInv, CallsOK
<1>6. BarredOK'
  <2> SUFFICES ASSUME NEW g \in barred'
               PROVE  /\ BlockedIn(blocks', handler'[g].actor, handler'[g].peer)
                      /\ handler'[g].pc \in
                           {"request_blocks", "accept_blocks", "reject_write", "cancel_write",
                            "block_write", "send_row", "send_blocks"}
    BY DEF BarredOK, Blocked, BlockedIn
  <2>1. handler[h].pc = "idle" /\ barred \subseteq Handlers
    BY <1>2 DEF Begin, IInv, TypeOK
  <2>2. h \notin barred
    BY <2>1 DEF IInv, BarredOK
  <2>3. CASE g = h
    <3>1. Blocked(m, n)
      BY <1>2, <2>2, <2>3 DEF Begin
    <3> QED
      BY <1>1, <1>2, <1>3, <2>3, <3>1 DEF Blocked, BlockedIn, Database
  <2>4. CASE g # h
    <3>1. g \in barred /\ g \in Handlers
      BY <1>2, <2>1, <2>4 DEF Begin
    <3> QED
      BY <1>1, <1>3, <2>4, <3>1 DEF IInv, BarredOK, Blocked, BlockedIn, Database
  <2> QED
    BY <2>3, <2>4
<1> QED
  BY <1>1, <1>5, <1>6, ReadsKeepData

\* The statements of a call, one by one.
LEMMA ProceedStep ==
  ASSUME IInv, [Next]_vars, NEW h \in Handlers, Proceed(h)
  PROVE  DataOK' /\ CallsOK' /\ BarredOK'
<1> DEFINE c == handler[h]
           p == PairOf(c.actor, c.peer)
<1>1. CallOK(h) /\ TypeOK
  BY DEF IInv, CallsOK
<1>2. c.pc # "idle"
  BY DEF Proceed, RequestChecksBlocks, RequestReadsRow, RequestWrites, AcceptChecksBlocks,
     AcceptWrites, RejectWrites, CancelWrites, BlockWrites, SendReadsRow, SendChecksBlocks,
     SendWrites, Notify, Abandon, KindOf
<1>3. /\ c.actor \in Members /\ c.peer \in Members /\ c.actor # c.peer
      /\ p \in Pairs /\ c.actor \in p /\ c.peer \in p /\ p = PairOf(c.peer, c.actor)
      /\ p = PairOfCall(h)
      /\ c \in Call
  BY <1>1, <1>2, PairIsPair, PairOfCommutes DEF CallOK, PairOfCall, TypeOK
<1>4. h \in barred => Blocked(c.actor, c.peer) /\ c.pc \in
        {"request_blocks", "accept_blocks", "reject_write", "cancel_write", "block_write",
         "send_row", "send_blocks"}
  BY DEF IInv, BarredOK
<1>5. ASSUME UNCHANGED Database, End(h)
      PROVE  DataOK' /\ CallsOK' /\ BarredOK'
  BY <1>5, ReadsKeepData, EndKeepsCalls, EndKeepsBarred DEF Database
<1>6. CASE RequestChecksBlocks(h)
  <2>1. CASE Blocked(c.actor, c.peer)
    BY <1>5, <1>6, <2>1 DEF RequestChecksBlocks
  <2>2. CASE ~Blocked(c.actor, c.peer)
    <3>1. Goto(h, "request_row") /\ UNCHANGED barred /\ UNCHANGED Database /\ h \notin barred
      BY <1>4, <1>6, <2>2 DEF RequestChecksBlocks
    <3>2. CallOK(h)'
      BY <1>1, <1>3, <3>1, GotoIs DEF CallOK
    <3> QED
      BY <3>1, <3>2, ReadsKeepData, GotoKeepsCalls, GotoKeepsBarred DEF Database
  <2> QED
    BY <2>1, <2>2
<1>7. CASE RequestReadsRow(h)
  <2>1. CASE End(h)
    BY <1>5, <1>7, <2>1 DEF RequestReadsRow
  <2>2. CASE ~End(h)
    <3>1. /\ handler' = [handler EXCEPT ![h].pc = "request_write",
                                        ![h].row = connection[PairOfCall(h)]]
          /\ UNCHANGED barred /\ UNCHANGED Database
          /\ c.pc = "request_row"
      BY <1>7, <2>2 DEF RequestReadsRow
    <3>2. CallOK(h)'
      BY <1>1, <1>3, <3>1 DEF CallOK, Call, TypeOK
    <3>3. CallsOK'
      BY <1>1, <3>1, <3>2, OthersKeep DEF CallsOK, TypeOK
    <3>4. BarredOK'
      <4>1. h \notin barred
        BY <1>4, <3>1
      <4> QED
        BY <3>1, <4>1 DEF BarredOK, IInv, TypeOK, Database, Blocked, BlockedIn
    <3> QED
      BY <3>1, <3>3, <3>4, ReadsKeepData
  <2> QED
    BY <2>1, <2>2
<1>8. CASE RequestWrites(h)
  <2> DEFINE row == [status |-> "PENDING", requester |-> c.actor, addressee |-> c.peer]
  <2>1. /\ c.pc = "request_write"
        /\ connection' = [connection EXCEPT ![p] = row]
        /\ willing' = willing \cup {<<c.actor, p>>}
        /\ Goto(h, "notify_requested")
        /\ UNCHANGED <<conversations, blocks, messages, notified, barred>>
    BY <1>3, <1>8 DEF RequestWrites
  <2>2. RowsAsked'
    BY <1>1, <1>3, <2>1 DEF RowsAsked, TypeOK, IInv
  <2>3. AcceptedOpen'
    BY <1>1, <2>1 DEF AcceptedOpen, TypeOK, IInv
  <2>4. ConversationsAgreed' /\ NotifiedTruthfully'
    BY <2>1 DEF ConversationsAgreed, NotifiedTruthfully, IInv
  <2>5. CallOK(h)'
    BY <1>1, <1>3, <2>1, GotoIs DEF CallOK
  <2> QED
    BY <1>4, <2>1, <2>2, <2>3, <2>4, <2>5, GotoKeepsCalls, GotoKeepsBarred DEF DataOK
<1>9. CASE AcceptChecksBlocks(h)
  <2>1. CASE Blocked(c.row.requester, c.row.addressee)
    BY <1>5, <1>9, <2>1 DEF AcceptChecksBlocks
  <2>2. CASE ~Blocked(c.row.requester, c.row.addressee)
    <3>1. /\ Goto(h, "accept_write") /\ UNCHANGED barred /\ UNCHANGED Database
          /\ c.pc = "accept_blocks"
      BY <1>9, <2>2 DEF AcceptChecksBlocks
    <3>2. h \notin barred
      BY <1>1, <1>4, <2>2, <3>1 DEF CallOK, Blocked, BlockedIn
    <3>3. CallOK(h)'
      BY <1>1, <1>3, <3>1, GotoIs DEF CallOK, Database
    <3> QED
      BY <3>1, <3>2, <3>3, ReadsKeepData, GotoKeepsCalls, GotoKeepsBarred DEF Database
  <2> QED
    BY <2>1, <2>2
<1>10. CASE AcceptWrites(h)
  <2>1. /\ c.pc = "accept_write"
        /\ connection' = [connection EXCEPT ![p].status = "ACCEPTED"]
        /\ conversations' = conversations \cup {p}
        /\ willing' = willing \cup {<<c.actor, p>>}
        /\ Goto(h, "notify_accepted")
        /\ UNCHANGED <<blocks, messages, notified, barred>>
    BY <1>3, <1>10 DEF AcceptWrites
  <2>2. <<c.peer, p>> \in willing /\ connection[p].status # "NONE"
    BY <1>1, <2>1 DEF CallOK
  <2>3. RowsAsked'
    BY <1>1, <1>3, <2>1, <2>2 DEF RowsAsked, TypeOK, IInv, Row
  <2>4. AcceptedOpen'
    BY <1>1, <1>3, <2>1 DEF AcceptedOpen, TypeOK, IInv, Row
  <2>5. ConversationsAgreed'
    <3>1. \A m \in p : m = c.actor \/ m = c.peer
      BY DEF PairOf
    <3> QED
      BY <2>1, <2>2, <3>1 DEF ConversationsAgreed, IInv
  <2>6. NotifiedTruthfully'
    BY <2>1 DEF NotifiedTruthfully, IInv
  <2>7. CallOK(h)'
    BY <1>1, <1>3, <2>1, GotoIs DEF CallOK
  <2> QED
    BY <1>4, <2>1, <2>3, <2>4, <2>5, <2>6, <2>7, GotoKeepsCalls, GotoKeepsBarred DEF DataOK
<1>11. CASE RejectWrites(h)
  <2>1. connection[p].status # "NONE"
    BY <1>1, <1>11 DEF CallOK, RejectWrites
  <2>2. DataOK'
    BY <1>3, <1>11, <2>1, StatusKeepsData DEF RejectWrites
  <2> QED
    BY <1>11, <2>2, EndKeepsCalls, EndKeepsBarred DEF RejectWrites
<1>12. CASE CancelWrites(h)
  <2>1. connection[p].status # "NONE"
    BY <1>1, <1>12 DEF CallOK, CancelWrites
  <2>2. DataOK'
    BY <1>3, <1>12, <2>1, StatusKeepsData DEF CancelWrites
  <2> QED
    BY <1>12, <2>2, EndKeepsCalls, EndKeepsBarred DEF CancelWrites
<1>13. CASE BlockWrites(h)
  <2>1. DataOK'
    <3>1. CASE connection[p].status = "PENDING"
      BY <1>3, <1>13, <3>1, StatusKeepsData DEF BlockWrites
    <3>2. CASE connection[p].status # "PENDING"
      BY <1>3, <1>13, <3>2
         DEF BlockWrites, IInv, DataOK, RowsAsked, AcceptedOpen, ConversationsAgreed,
             NotifiedTruthfully
    <3> QED
      BY <3>1, <3>2
  <2> QED
    BY <1>13, <2>1, EndKeepsCalls, EndKeepsBarred DEF BlockWrites
<1>14. CASE SendReadsRow(h)
  <2>1. CASE End(h)
    BY <1>5, <1>14, <2>1 DEF SendReadsRow
  <2>2. CASE ~End(h)
    <3>1. /\ Goto(h, "send_blocks") /\ UNCHANGED barred /\ UNCHANGED Database
          /\ c.pc = "send_row"
      BY <1>14, <2>2 DEF SendReadsRow
    <3>2. CallOK(h)'
      BY <1>1, <1>3, <3>1, GotoIs DEF CallOK, Database
    <3>3. BarredOK'
      BY <1>1, <3>1 DEF Goto, BarredOK, IInv, TypeOK, Database, Blocked, BlockedIn
    <3> QED
      BY <3>1, <3>2, <3>3, ReadsKeepData, GotoKeepsCalls
  <2> QED
    BY <2>1, <2>2
<1>15. CASE SendChecksBlocks(h)
  <2>1. CASE Blocked(c.actor, c.peer)
    BY <1>5, <1>15, <2>1 DEF SendChecksBlocks
  <2>2. CASE ~Blocked(c.actor, c.peer)
    <3>1. /\ Goto(h, "send_write") /\ UNCHANGED barred /\ UNCHANGED Database /\ h \notin barred
          /\ c.pc = "send_blocks"
      BY <1>4, <1>15, <2>2 DEF SendChecksBlocks
    <3>2. CallOK(h)'
      BY <1>1, <1>3, <3>1, GotoIs DEF CallOK, Database
    <3> QED
      BY <3>1, <3>2, ReadsKeepData, GotoKeepsCalls, GotoKeepsBarred DEF Database
  <2> QED
    BY <2>1, <2>2
<1>16. CASE SendWrites(h)
  <2>1. /\ c.pc = "send_write"
        /\ messages' = messages \cup {<<c.actor, c.peer>>}
        /\ Goto(h, "notify_message")
        /\ UNCHANGED <<connection, conversations, blocks, notified, willing, barred>>
    BY <1>16 DEF SendWrites
  <2>2. DataOK'
    BY <2>1 DEF IInv, DataOK, RowsAsked, AcceptedOpen, ConversationsAgreed, NotifiedTruthfully
  <2>3. CallOK(h)'
    BY <1>1, <1>3, <2>1, GotoIs DEF CallOK
  <2> QED
    BY <1>4, <2>1, <2>2, <2>3, GotoKeepsCalls, GotoKeepsBarred
<1>17. CASE Notify(h)
  <2> DEFINE x == [to |-> c.peer, kind |-> KindOf[c.pc], about |-> c.actor]
  <2>1. /\ c.pc \in {"notify_requested", "notify_accepted", "notify_message"}
        /\ notified' = notified \cup {x}
        /\ End(h)
        /\ UNCHANGED <<connection, conversations, blocks, messages, willing>>
    BY <1>17 DEF Notify, KindOf
  <2>2. /\ x.kind = "requested" => <<x.about, p>> \in willing
        /\ x.kind = "accepted" => p \in conversations
        /\ x.kind = "message" => <<x.about, x.to>> \in messages
    BY <1>1, <2>1 DEF CallOK, KindOf
  <2>3. NotifiedTruthfully'
    <3>1. PairOf(x.to, x.about) = p
      BY <1>3
    <3> QED
      BY <2>1, <2>2, <3>1 DEF NotifiedTruthfully, IInv
  <2>4. DataOK'
    BY <2>1, <2>3 DEF IInv, DataOK, RowsAsked, AcceptedOpen, ConversationsAgreed
  <2> QED
    BY <2>1, <2>4, EndKeepsCalls, EndKeepsBarred
<1>18. CASE Abandon(h)
  BY <1>5, <1>18 DEF Abandon, Database
<1> QED
  BY <1>6, <1>7, <1>8, <1>9, <1>10, <1>11, <1>12, <1>13, <1>14, <1>15, <1>16, <1>17, <1>18
     DEF Proceed

----------------------------------------------------------------------------
\* unblock releases the calls that nothing blocks any more.
LEMMA UnblockStep ==
  ASSUME IInv, [Next]_vars, NEW m \in Members, NEW n \in Members, Unblock(m, n)
  PROVE  DataOK' /\ CallsOK' /\ BarredOK'
<1>1. UNCHANGED <<connection, conversations, messages, notified, handler, willing>>
  BY DEF Unblock
<1>2. DataOK'
  BY <1>1 DEF IInv, DataOK, RowsAsked, AcceptedOpen, ConversationsAgreed, NotifiedTruthfully
<1>3. CallsOK'
  BY <1>1, OthersKeep DEF CallsOK
<1>4. BarredOK'
  BY DEF Unblock, IInv, BarredOK, Blocked
<1> QED
  BY <1>2, <1>3, <1>4

\* The invariant is inductive.
LEMMA NextIInv == IInv /\ [Next]_vars => IInv'
<1> SUFFICES ASSUME IInv, [Next]_vars
             PROVE  IInv'
  OBVIOUS
<1>1. TypeOK'
  BY TypeStep DEF IInv
<1>2. CASE UNCHANGED vars
  BY <1>2 DEF vars, IInv, TypeOK, RowsAsked, AcceptedOpen, ConversationsAgreed, CallsOK, CallOK,
     NotifiedTruthfully, BarredOK, Blocked
<1>3. CASE Next
  <2>1. DataOK' /\ CallsOK' /\ BarredOK'
    BY <1>3, ProceedStep, ArriveStep, UnblockStep DEF Next
  <2> QED
    BY <1>1, <2>1 DEF IInv, DataOK
<1> QED
  BY <1>2, <1>3

\* In every run of every instance the invariant holds.
THEOREM Invariance == Spec => []IInv
BY InitIInv, NextIInv, PTL DEF Spec

\* The tables and the calls in flight always have their types: no handler
\* writes a status the schema's enum lacks, or a row of one member only.
THEOREM TypeCorrect == Spec => []TypeOK
<1>1. IInv => TypeOK
  BY DEF IInv
<1> QED
  BY <1>1, Invariance, PTL

\* Whatever other calls cancel, reject or ask between an accept's read and its
\* write, an accepted pair has its conversation and both of them said yes.
THEOREM Consented == Spec => []BothConsented
<1>1. IInv => BothConsented
  BY DEF IInv, BothConsented, AcceptedOpen, ConversationsAgreed
<1> QED
  BY <1>1, Invariance, PTL

\* A block that was there when a request, an accept or a message arrived, and
\* that stays, keeps that call from writing.
THEOREM BlocksHold == Spec => []BarredNeverWrites
<1>1. IInv => BarredNeverWrites
  BY DEF IInv, BarredOK, BarredNeverWrites
<1> QED
  BY <1>1, Invariance, PTL

\* Every notification of a connection or a message tells of a committed write.
THEOREM NotificationsTrue == Spec => []NotifiedTruthfully
<1>1. IInv => NotifiedTruthfully
  BY DEF IInv
<1> QED
  BY <1>1, Invariance, PTL

----------------------------------------------------------------------------
\* Every statement of every call is a step of Consent, or none: a request and
\* its re-request Ask, an accept Agrees with what the requester once asked, a
\* message is Spoken in a conversation that was open before.
LEMMA StepRefines ==
  ASSUME IInv, Next
  PROVE  C!Next \/ UNCHANGED <<willing, conversations, messages>>
<1>1. ASSUME NEW h \in Handlers, Proceed(h)
      PROVE  C!Next \/ UNCHANGED <<willing, conversations, messages>>
  <2> DEFINE m == handler[h].actor
             n == handler[h].peer
  <2>1. CallOK(h)
    BY DEF IInv, CallsOK
  <2>2. CASE RequestWrites(h)
    <3>1. m \in Members /\ n \in Members /\ m # n
      BY <2>1, <2>2 DEF CallOK, RequestWrites
    <3>2. C!Ask(m, {m, n})
      BY <2>2 DEF RequestWrites, C!Ask, PairOfCall, PairOf
    <3> QED
      BY <3>1, <3>2 DEF C!Next
  <2>3. CASE AcceptWrites(h)
    <3>1. m \in Members /\ n \in Members /\ m # n /\ <<n, {m, n}>> \in willing
      BY <2>1, <2>3 DEF CallOK, AcceptWrites, PairOf
    <3>2. C!Agree(m, {m, n})
      BY <2>3, <3>1 DEF AcceptWrites, C!Agree, PairOfCall, PairOf
    <3> QED
      BY <3>1, <3>2 DEF C!Next
  <2>4. CASE SendWrites(h)
    <3>1. m \in Members /\ n \in Members /\ m # n /\ {m, n} \in conversations
      BY <2>1, <2>4 DEF CallOK, SendWrites, PairOf
    <3>2. C!Speak(m, n)
      BY <2>4, <3>1 DEF SendWrites, C!Speak
    <3> QED
      BY <3>1, <3>2 DEF C!Next
  <2> QED
    BY <1>1, <2>2, <2>3, <2>4
       DEF Proceed, Database, RequestChecksBlocks, RequestReadsRow, AcceptChecksBlocks,
           RejectWrites, CancelWrites, BlockWrites, SendReadsRow, SendChecksBlocks, Notify,
           Abandon
<1>2. ASSUME NEW h \in Handlers, NEW m \in Members, NEW n \in Members, Arrive(h, m, n)
      PROVE  UNCHANGED <<willing, conversations, messages>>
  BY <1>2 DEF Arrive, Database, Request, Accept, Reject, Cancel, Block, Send
<1>3. ASSUME NEW m \in Members, NEW n \in Members, Unblock(m, n)
      PROVE  UNCHANGED <<willing, conversations, messages>>
  BY <1>3 DEF Unblock
<1> QED
  BY <1>1, <1>2, <1>3 DEF Next

\* Connections and chat, with every interleaving of their statements, implement
\* the promise of mutual consent.
THEOREM Refines == Spec => ImplementsConsent
<1>1. Init => C!Init
  BY DEF Init, C!Init
<1>2. IInv /\ [Next]_vars => [C!Next]_C!consentVars
  BY StepRefines DEF vars, C!consentVars
<1> QED
  BY <1>1, <1>2, Invariance, PTL DEF Spec, ImplementsConsent, C!Spec
=============================================================================
