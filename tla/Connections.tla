---------------------------- MODULE Connections ----------------------------
(***************************************************************************)
(* Connection requests, blocks and chat between members, as the API runs   *)
(* them (ConnectionsService, ReportsService.block/unblock and              *)
(* MessagingService.send).  Every HTTP call is a handler that awaits one   *)
(* database statement after the other on a READ COMMITTED Postgres, with   *)
(* no lock and no version check: what a handler read may be stale by the   *)
(* time it writes.  One action below is one statement, or one transaction, *)
(* of one handler.                                                         *)
(*                                                                         *)
(* A connection row is unique by pairKey, is never deleted, and so is      *)
(* named by its pair; its conversation (unique by connectionId) is named   *)
(* by the pair too.  Calls that only read (an early return, a refusal      *)
(* before the first write) leave no trace and are not actions; a refusal   *)
(* further on (validation, an inactive addressee, a failing statement, a   *)
(* crash) is Abandon.                                                      *)
(***************************************************************************)
CONSTANTS
  Members,   \* member ids
  Handlers,  \* slots for calls in flight: bounds how many run at once
  Nobody     \* fills the member fields of an absent row or an idle slot

ASSUME NobodyIsNoMember == Nobody \notin Members

VARIABLES
  connection,    \* pair -> its row of `connections`
  conversations, \* the pairs that have a row in `conversations`
  blocks,        \* rows of `blocks`: <<blocker, blocked>>
  messages,      \* <<m, n>>: m has a message in the conversation with n
  notified,      \* rows of `notifications`
  handler,       \* slot -> the call it runs and what that call has read
  willing,       \* history: <<m, pair>>, m requested or accepted within the pair
  barred         \* history: slots whose pair was blocked when the call came, and since

vars == <<connection, conversations, blocks, messages, notified, handler, willing, barred>>

----------------------------------------------------------------------------
Statuses == {"NONE", "PENDING", "ACCEPTED", "REJECTED", "CANCELLED"}

\* canonicalPairKey: the same key whichever member comes first.
PairOf(m, n) == {m, n}

Pairs == {p \in SUBSET Members : \E m, n \in p : m # n /\ p = PairOf(m, n)}

Row == [status : Statuses, requester : Members \cup {Nobody}, addressee : Members \cup {Nobody}]
NoRow == [status |-> "NONE", requester |-> Nobody, addressee |-> Nobody]

\* What a call will do next.  The last statement of a call is its notification.
Steps == {"idle", "request_blocks", "request_row", "request_write", "accept_blocks",
          "accept_write", "reject_write", "cancel_write", "block_write",
          "send_row", "send_blocks", "send_write",
          "notify_requested", "notify_accepted", "notify_message"}

\* `row` is the connection row the call has read and still holds.
Call == [pc : Steps, actor : Members \cup {Nobody}, peer : Members \cup {Nobody}, row : Row]
Idle == [pc |-> "idle", actor |-> Nobody, peer |-> Nobody, row |-> NoRow]

Notification == [to : Members, kind : {"requested", "accepted", "message"}, about : Members]

PairOfCall(h) == PairOf(handler[h].actor, handler[h].peer)

\* isBlockedEitherWay
BlockedIn(bs, m, n) == <<m, n>> \in bs \/ <<n, m>> \in bs
Blocked(m, n) == BlockedIn(blocks, m, n)

TypeOK ==
  /\ connection \in [Pairs -> Row]
  /\ conversations \subseteq Pairs
  /\ blocks \subseteq Members \X Members
  /\ messages \subseteq Members \X Members
  /\ notified \subseteq Notification
  /\ handler \in [Handlers -> Call]
  /\ willing \subseteq Members \X Pairs
  /\ barred \subseteq Handlers

Init ==
  /\ connection = [p \in Pairs |-> NoRow]
  /\ conversations = {}
  /\ blocks = {}
  /\ messages = {}
  /\ notified = {}
  /\ handler = [h \in Handlers |-> Idle]
  /\ willing = {}
  /\ barred = {}

----------------------------------------------------------------------------
\* A call arrives in an idle slot.
Begin(h, pc, actor, peer, row) ==
  /\ handler[h].pc = "idle"
  /\ handler' = [handler EXCEPT
                   ![h] = [pc |-> pc, actor |-> actor, peer |-> peer, row |-> row]]
  /\ barred' = IF Blocked(actor, peer) THEN barred \cup {h} ELSE barred

\* A call moves on to its next statement, or ends.
Goto(h, pc) == handler' = [handler EXCEPT ![h].pc = pc]
End(h) ==
  /\ handler' = [handler EXCEPT ![h] = Idle]
  /\ barred' = barred \ {h}

\* The call fails: a refusal, an error or a crash; what it has written stays.
Abandon(h) ==
  /\ handler[h].pc # "idle"
  /\ End(h)
  /\ UNCHANGED <<connection, conversations, blocks, messages, notified, willing>>

Database == <<connection, conversations, blocks, messages, notified, willing>>

----------------------------------------------------------------------------
(* request: check blocks, read the row, create it or take it over.         *)

Request(h, m, n) ==
  /\ m # n
  /\ Begin(h, "request_blocks", m, n, NoRow)
  /\ UNCHANGED Database

RequestChecksBlocks(h) ==
  /\ handler[h].pc = "request_blocks"
  /\ IF Blocked(handler[h].actor, handler[h].peer)
       THEN End(h)
       ELSE Goto(h, "request_row") /\ UNCHANGED barred
  /\ UNCHANGED Database

\* An accepted pair or a request still pending ends the call unchanged.
RequestReadsRow(h) ==
  LET row == connection[PairOfCall(h)] IN
  /\ handler[h].pc = "request_row"
  /\ IF row.status \in {"ACCEPTED", "PENDING"}
       THEN End(h)
       ELSE /\ handler' = [handler EXCEPT ![h].pc = "request_write", ![h].row = row]
            /\ UNCHANGED barred
  /\ UNCHANGED Database

\* No row was read: create one, which pairKey refuses if one exists by now.
\* A row was read: update it by id, whatever its status is by now.
RequestWrites(h) ==
  LET p == PairOfCall(h)
      creates == handler[h].row.status = "NONE"
  IN
  /\ handler[h].pc = "request_write"
  /\ creates => connection[p].status = "NONE"
  /\ connection' = [connection EXCEPT
                      ![p] = [status |-> "PENDING", requester |-> handler[h].actor,
                              addressee |-> handler[h].peer]]
  /\ willing' = willing \cup {<<handler[h].actor, p>>}
  /\ Goto(h, "notify_requested")
  /\ UNCHANGED <<conversations, blocks, messages, notified, barred>>

----------------------------------------------------------------------------
(* accept, reject, cancel: read the row by id, then write it by id.        *)

\* Mutant: accept checks that the row is pending, not who the addressee is.
AcceptByEither(h, m, n) ==
  LET row == connection[PairOf(m, n)] IN
  /\ m # n
  /\ row.status = "PENDING"
  /\ Begin(h, "accept_blocks", m, n, row)
  /\ UNCHANGED Database

\* Only the addressee of a pending row gets past the checks to a write.
Accept(h, m, n) ==
  LET row == connection[PairOf(m, n)] IN
  /\ m # n
  /\ row.status = "PENDING" /\ row.addressee = m
  /\ Begin(h, "accept_blocks", m, n, row)
  /\ UNCHANGED Database

\* Mutant: the requester is told before the transaction, which is then lost.
AcceptNotifiesFirst(h) ==
  /\ handler[h].pc = "accept_blocks"
  /\ IF Blocked(handler[h].row.requester, handler[h].row.addressee)
       THEN End(h)
       ELSE Goto(h, "notify_accepted") /\ UNCHANGED barred
  /\ UNCHANGED Database

AcceptChecksBlocks(h) ==
  /\ handler[h].pc = "accept_blocks"
  /\ IF Blocked(handler[h].row.requester, handler[h].row.addressee)
       THEN End(h)
       ELSE Goto(h, "accept_write") /\ UNCHANGED barred
  /\ UNCHANGED Database

\* Mutant: the conversation is not created with the acceptance.
AcceptWritesStatusOnly(h) ==
  /\ handler[h].pc = "accept_write"
  /\ connection' = [connection EXCEPT ![PairOfCall(h)].status = "ACCEPTED"]
  /\ willing' = willing \cup {<<handler[h].actor, PairOfCall(h)>>}
  /\ Goto(h, "notify_accepted")
  /\ UNCHANGED <<conversations, blocks, messages, notified, barred>>

\* One transaction: the status, and the conversation of the pair (upsert).
AcceptWrites(h) ==
  LET p == PairOfCall(h) IN
  /\ handler[h].pc = "accept_write"
  /\ connection' = [connection EXCEPT ![p].status = "ACCEPTED"]
  /\ conversations' = conversations \cup {p}
  /\ willing' = willing \cup {<<handler[h].actor, p>>}
  /\ Goto(h, "notify_accepted")
  /\ UNCHANGED <<blocks, messages, notified, barred>>

Reject(h, m, n) ==
  LET row == connection[PairOf(m, n)] IN
  /\ m # n
  /\ row.status = "PENDING" /\ row.addressee = m
  /\ Begin(h, "reject_write", m, n, row)
  /\ UNCHANGED Database

RejectWrites(h) ==
  /\ handler[h].pc = "reject_write"
  /\ connection' = [connection EXCEPT ![PairOfCall(h)].status = "REJECTED"]
  /\ End(h)
  /\ UNCHANGED <<conversations, blocks, messages, notified, willing>>

Cancel(h, m, n) ==
  LET row == connection[PairOf(m, n)] IN
  /\ m # n
  /\ row.status = "PENDING" /\ row.requester = m
  /\ Begin(h, "cancel_write", m, n, row)
  /\ UNCHANGED Database

\* Mutant: a status the schema's enum does not have.
CancelWritesOtherSpelling(h) ==
  /\ handler[h].pc = "cancel_write"
  /\ connection' = [connection EXCEPT ![PairOfCall(h)].status = "CANCELED"]
  /\ End(h)
  /\ UNCHANGED <<conversations, blocks, messages, notified, willing>>

CancelWrites(h) ==
  /\ handler[h].pc = "cancel_write"
  /\ connection' = [connection EXCEPT ![PairOfCall(h)].status = "CANCELLED"]
  /\ End(h)
  /\ UNCHANGED <<conversations, blocks, messages, notified, willing>>

----------------------------------------------------------------------------
(* block and unblock.                                                      *)

Block(h, m, n) ==
  /\ m # n
  /\ <<m, n>> \notin blocks
  /\ Begin(h, "block_write", m, n, NoRow)
  /\ UNCHANGED Database

\* One transaction: the block row (unique, so a second one fails) and the
\* cancellation of what is pending between the two.
BlockWrites(h) ==
  LET b == <<handler[h].actor, handler[h].peer>>
      p == PairOfCall(h)
  IN
  /\ handler[h].pc = "block_write"
  /\ b \notin blocks
  /\ blocks' = blocks \cup {b}
  /\ connection' = IF connection[p].status = "PENDING"
                     THEN [connection EXCEPT ![p].status = "CANCELLED"]
                     ELSE connection
  /\ End(h)
  /\ UNCHANGED <<conversations, messages, notified, willing>>

\* A single deleteMany.
Unblock(m, n) ==
  /\ <<m, n>> \in blocks
  /\ blocks' = blocks \ {<<m, n>>}
  /\ barred' = {h \in barred : BlockedIn(blocks', handler[h].actor, handler[h].peer)}
  /\ UNCHANGED <<connection, conversations, messages, notified, handler, willing>>

----------------------------------------------------------------------------
(* send: find the conversation, then the accepted row, then the blocks.    *)

Send(h, m, n) ==
  /\ m # n
  /\ PairOf(m, n) \in conversations
  /\ Begin(h, "send_row", m, n, NoRow)
  /\ UNCHANGED Database

\* requireAcceptedPair
SendReadsRow(h) ==
  /\ handler[h].pc = "send_row"
  /\ IF connection[PairOfCall(h)].status = "ACCEPTED"
       THEN Goto(h, "send_blocks") /\ UNCHANGED barred
       ELSE End(h)
  /\ UNCHANGED Database

\* Mutant: only the sender's own blocks count.
SendChecksOwnBlocks(h) ==
  /\ handler[h].pc = "send_blocks"
  /\ IF <<handler[h].actor, handler[h].peer>> \in blocks
       THEN End(h)
       ELSE Goto(h, "send_write") /\ UNCHANGED barred
  /\ UNCHANGED Database

SendChecksBlocks(h) ==
  /\ handler[h].pc = "send_blocks"
  /\ IF Blocked(handler[h].actor, handler[h].peer)
       THEN End(h)
       ELSE Goto(h, "send_write") /\ UNCHANGED barred
  /\ UNCHANGED Database

SendWrites(h) ==
  /\ handler[h].pc = "send_write"
  /\ messages' = messages \cup {<<handler[h].actor, handler[h].peer>>}
  /\ Goto(h, "notify_message")
  /\ UNCHANGED <<connection, conversations, blocks, notified, willing, barred>>

----------------------------------------------------------------------------
\* NotificationWriter.notify, after the write has committed.  A member who
\* muted the template, or an inactive template, is Abandon.
KindOf == [pc \in {"notify_requested", "notify_accepted", "notify_message"} |->
             CASE pc = "notify_requested" -> "requested"
               [] pc = "notify_accepted"  -> "accepted"
               [] pc = "notify_message"   -> "message"]

Notify(h) ==
  /\ handler[h].pc \in DOMAIN KindOf
  /\ notified' = notified \cup {[to |-> handler[h].peer, kind |-> KindOf[handler[h].pc],
                                 about |-> handler[h].actor]}
  /\ End(h)
  /\ UNCHANGED <<connection, conversations, blocks, messages, willing>>

----------------------------------------------------------------------------
Arrive(h, m, n) ==
  \/ Request(h, m, n) \/ Accept(h, m, n) \/ Reject(h, m, n) \/ Cancel(h, m, n)
  \/ Block(h, m, n) \/ Send(h, m, n)

Proceed(h) ==
  \/ RequestChecksBlocks(h) \/ RequestReadsRow(h) \/ RequestWrites(h)
  \/ AcceptChecksBlocks(h) \/ AcceptWrites(h) \/ RejectWrites(h) \/ CancelWrites(h)
  \/ BlockWrites(h)
  \/ SendReadsRow(h) \/ SendChecksBlocks(h) \/ SendWrites(h)
  \/ Notify(h) \/ Abandon(h)

Next ==
  \/ \E h \in Handlers : Proceed(h) \/ \E m, n \in Members : Arrive(h, m, n)
  \/ \E m, n \in Members : Unblock(m, n)

Spec == Init /\ [][Next]_vars

----------------------------------------------------------------------------
(* Properties.                                                             *)

\* "Both sides consented to it": an accepted pair can chat, and each of the
\* two has asked or agreed by an act of their own.  Must survive an accept
\* that writes over a row another call cancelled, rejected or turned round
\* since it was read.
BothConsented ==
  \A p \in Pairs :
    connection[p].status = "ACCEPTED" =>
      p \in conversations /\ \A m \in p : <<m, p>> \in willing

\* A block that was stored when a request, an accept or a message arrived, by
\* either of the two, and that stays, keeps that call from writing anything.
BarredNeverWrites ==
  \A h \in barred :
    handler[h].pc \notin {"request_write", "accept_write", "send_write",
                         "notify_requested", "notify_accepted", "notify_message"}

\* A notification tells of something that was written: it is sent after the
\* commit, so a call that fails earlier can lose it but never make one up.
NotifiedTruthfully ==
  \A x \in notified :
    LET p == PairOf(x.to, x.about) IN
    /\ x.kind = "requested" => <<x.about, p>> \in willing
    /\ x.kind = "accepted" => p \in conversations
    /\ x.kind = "message" => <<x.about, x.to>> \in messages

\* Connections and chat implement the mutual, consented relation of Consent.
C == INSTANCE Consent WITH open <- conversations, said <- messages
ImplementsConsent == C!Spec

\* docs/product/sprint-breakdown.md: "Block cancels pending requests and
\* forbids connect/chat".  Once no call is in flight, a blocked pair has no
\* pending request.  A request that read the blocks before the block was
\* stored writes its row after, and breaks this.
BlockForbidsConnect ==
  (\A h \in Handlers : handler[h] = Idle) =>
    \A m, n \in Members : Blocked(m, n) => connection[PairOf(m, n)].status # "PENDING"

\* accept's own guard: a row that is not PENDING "cannot be accepted".  The
\* guard is on the row as read, the write is by id, and a cancel, a reject or
\* a block may come between.
OnlyPendingIsAccepted ==
  [][\A p \in Pairs :
       connection'[p].status = "ACCEPTED" => connection[p].status \in {"PENDING", "ACCEPTED"}]_vars
=============================================================================
