--------------------------- MODULE SessionsProofs ---------------------------
(***************************************************************************)
(* Proofs about Sessions, for any number of sessions, calls and devices.   *)
(* The device cap rests on an order: of two counts of the member's active  *)
(* sessions the later one saw every session the earlier one saw that is    *)
(* still live (CountsOrdered), so the latest count whose login has         *)
(* returned bounds what the member holds (CapOK names that bound K).       *)
(***************************************************************************)
EXTENDS Sessions, FiniteSetTheorems, TLAPS

LoginSteps == {"login_find", "login_revoke", "login_return"}
RefreshSteps == {"refresh_read", "refresh_write", "refresh_return", "reuse_revoke"}

\* A session that no count can have missed: it has been active throughout.
Live(s) == Active(s) /\ s \notin revived

Created(s) == row[s].state # "free"

\* What a call may rely on at each of its steps.
CallOK(h) ==
  LET c == handler[h] IN
  /\ c.pc \in LoginSteps \cup RefreshSteps \cup {"logout_write"} =>
       c.session \in SessionIds /\ Created(c.session)
  /\ c.pc \in LoginSteps =>
       held[c.session] = 0 /\ c.secret = row[c.session].secret
  /\ c.pc \in RefreshSteps => held[c.session] # 0 /\ c.secret # 0

CallsOK == \A h \in Handlers : CallOK(h)

HeldOK == \A s \in SessionIds : held[s] # 0 => Created(s)

LoginsApart ==
  \A g, h \in Handlers :
    g # h /\ handler[g].pc \in LoginSteps /\ handler[h].pc \in LoginSteps =>
      handler[g].session # handler[h].session

----------------------------------------------------------------------------
\* A login that has counted the active sessions and not yet returned.
Counted(h) == handler[h].pc \in {"login_revoke", "login_return"}

CountOK(h) ==
  LET c == handler[h] IN
  /\ Live(c.session) => c.session \in c.found
  /\ \A t \in c.found : Created(t)
  /\ Cardinality(c.kept) <= MaxDevices
  /\ c.pc = "login_return" => \A t \in c.found \ c.kept : ~Live(t)

CountsOK == \A h \in Handlers : Counted(h) => CountOK(h)

\* Whatever the count S saw and is still live, the count T saw too.
SeenBy(S, T) == \A t \in S : Live(t) => t \in T

CountsOrdered ==
  \A g, h \in Handlers :
    Counted(g) /\ Counted(h) =>
      SeenBy(handler[g].found, handler[h].found) \/ SeenBy(handler[h].found, handler[g].found)

\* K bounds the live sessions the member holds: a login still under way either
\* is in it, or counted after it was settled.
Bounds(K) ==
  /\ Cardinality(K) <= MaxDevices
  /\ \A t \in K : Created(t)
  /\ \A s \in Delivered : Live(s) => s \in K
  /\ \A h \in Handlers :
       Counted(h) =>
         \/ Live(handler[h].session) => handler[h].session \in K
         \/ SeenBy(K, handler[h].found)

CapOK == CountsOK /\ CountsOrdered /\ \E K \in SUBSET SessionIds : Bounds(K)

----------------------------------------------------------------------------
\* A session whose refreshes never overlapped and whose answers all arrived:
\* the client and every call that refreshes it have the secret of the row.
Orderly(s) ==
  /\ \A g, h \in Handlers :
       /\ handler[g].session = s /\ handler[g].pc \in RefreshSteps
       /\ handler[h].session = s /\ handler[h].pc \in RefreshSteps
       => g = h
  /\ \A h \in Handlers :
       handler[h].session = s =>
         /\ handler[h].pc # "reuse_revoke"
         /\ handler[h].pc \in RefreshSteps => handler[h].secret = row[s].secret
  /\ \/ held[s] = 0
     \/ held[s] = row[s].secret
     \/ \E h \in Handlers : handler[h].session = s /\ handler[h].pc = "refresh_return"

HonestOK ==
  /\ \A s \in SessionIds : s \notin raced => Orderly(s)
  /\ reused \subseteq raced

IInv == TypeOK /\ CallsOK /\ HeldOK /\ LoginsApart /\ CapOK /\ HonestOK

----------------------------------------------------------------------------
\* The initial state satisfies the invariant.
LEMMA InitIInv == Init => IInv
<1> SUFFICES ASSUME Init
             PROVE  IInv
  OBVIOUS
<1>1. TypeOK /\ CallsOK /\ HeldOK /\ LoginsApart /\ HonestOK
  BY DEF Init, TypeOK, CallsOK, CallOK, HeldOK, LoginsApart, HonestOK, Orderly, FreeRow, Idle,
         SessionRow, Call, Steps, LoginSteps, RefreshSteps, Created
<1>2. CountsOK /\ CountsOrdered
  BY DEF Init, CountsOK, CountsOrdered, Counted, Idle
<1>3. Bounds({})
  BY FS_EmptySet, BoundsAreNaturals DEF Init, Bounds, Counted, Idle, Delivered
<1> QED
  BY <1>1, <1>2, <1>3 DEF IInv, CapOK

----------------------------------------------------------------------------
\* An insert, an update, or a revocation of rows: what it makes of the table.
LEMMA RowsTyped ==
  ASSUME IInv, [Next]_vars
  PROVE  /\ row' \in [SessionIds -> SessionRow]
         /\ \A s \in SessionIds : (row'[s].state = "free" <=> row'[s].secret = 0)
         /\ \A s \in SessionIds : row[s].state # "free" => row'[s].state # "free"
         /\ minted' \in [SessionIds -> Nat]
         /\ revived' \subseteq SessionIds
         /\ revived \subseteq revived'
<1> DEFINE Good ==
      /\ row' \in [SessionIds -> SessionRow]
      /\ \A s \in SessionIds : (row'[s].state = "free" <=> row'[s].secret = 0)
      /\ \A s \in SessionIds : row[s].state # "free" => row'[s].state # "free"
      /\ minted' \in [SessionIds -> Nat]
      /\ revived' \subseteq SessionIds
      /\ revived \subseteq revived'
<1> USE DEF IInv, TypeOK
<1>1. ASSUME UNCHANGED <<row, minted, revived>>
      PROVE  Good
  BY <1>1
<1>2. ASSUME NEW S \in SUBSET SessionIds, row' = Revoked(S), UNCHANGED <<minted, revived>>,
             \A s \in S : row[s].state # "free"
      PROVE  Good
  BY <1>2 DEF Revoked, SessionRow
<1>3. ASSUME NEW s \in SessionIds, Expire(s)
      PROVE  Good
  BY <1>3 DEF Expire, Active, SessionRow
<1>4. ASSUME NEW h \in Handlers, LoginCreates(h)
      PROVE  Good
  <2>1. PICK s \in SessionIds, now \in handler[h].now .. clock :
          /\ row' = [row EXCEPT ![s] = [state |-> "active", expired |-> FALSE, secret |-> 1,
                                        seen |-> now]]
          /\ minted' = [minted EXCEPT ![s] = 1]
          /\ UNCHANGED revived
    BY <1>4 DEF LoginCreates
  <2>2. now \in Nat
    BY DEF Call
  <2> QED
    BY <2>1, <2>2 DEF SessionRow
<1>5. ASSUME NEW h \in Handlers, RefreshWrites(h)
      PROVE  Good
  <2> DEFINE s == handler[h].session
             next == minted[s] + 1
  <2>1. PICK now \in handler[h].now .. clock :
          /\ handler[h].pc = "refresh_write"
          /\ row' = [row EXCEPT ![s].secret = next, ![s].expired = FALSE, ![s].seen = now]
          /\ minted' = [minted EXCEPT ![s] = next]
          /\ revived' = IF row[s].expired THEN revived \cup {s} ELSE revived
    BY <1>5 DEF RefreshWrites
  <2>2. now \in Nat
    BY DEF Call
  <2>3. s \in SessionIds /\ row[s].state # "free"
    BY <2>1 DEF CallsOK, CallOK, RefreshSteps, Created
  <2>4. next \in Nat /\ next # 0
    BY <2>3
  <2>5. row' = [row EXCEPT ![s] = [row[s] EXCEPT !.secret = next, !.expired = FALSE,
                                                 !.seen = now]]
    BY <2>1
  <2>6. row' \in [SessionIds -> SessionRow]
    <3>1. row \in [SessionIds -> SessionRow]
      OBVIOUS
    <3>2. [row[s] EXCEPT !.secret = next, !.expired = FALSE, !.seen = now] \in SessionRow
      <4>1. row[s] \in SessionRow
        BY <2>3, <3>1
      <4> HIDE DEF IInv, TypeOK, next
      <4> QED
        BY <2>2, <2>4, <4>1 DEF SessionRow
    <3> HIDE DEF IInv, TypeOK
    <3> QED
      BY <2>3, <2>5, <3>1, <3>2
  <2>7. \A t \in SessionIds : /\ row'[t].state = row[t].state
                              /\ row'[t].secret = IF t = s THEN next ELSE row[t].secret
    BY <2>1, <2>3 DEF SessionRow
  <2>8. minted' \in [SessionIds -> Nat] /\ revived \subseteq revived' /\ revived' \subseteq SessionIds
    BY <2>1, <2>3, <2>4
  <2>9. \A t \in SessionIds : row'[t].state = "free" <=> row'[t].secret = 0
    <3>1. \A t \in SessionIds : row[t].state = "free" <=> row[t].secret = 0
      OBVIOUS
    <3> HIDE DEF IInv, TypeOK, next
    <3> QED
      BY <2>3, <2>4, <2>7, <3>1
  <2> HIDE DEF IInv, TypeOK
  <2> QED
    BY <2>6, <2>7, <2>8, <2>9
<1>6. ASSUME NEW h \in Handlers, LoginRevokes(h)
      PROVE  Good
  <2> DEFINE S == handler[h].found \ handler[h].kept
  <2>1. S \in SUBSET SessionIds /\ \A t \in S : row[t].state # "free"
    BY <1>6 DEF LoginRevokes, CapOK, CountsOK, CountOK, Counted, Call, Created
  <2>2. row' = Revoked(S) /\ UNCHANGED <<minted, revived>>
    BY <1>6 DEF LoginRevokes
  <2> HIDE DEF S
  <2> QED
    BY <1>2, <2>1, <2>2
<1>7. ASSUME NEW h \in Handlers, LogoutWrites(h)
      PROVE  Good
  <2> DEFINE S == {handler[h].session}
  <2>1. S \in SUBSET SessionIds /\ \A t \in S : row[t].state # "free"
    BY <1>7 DEF LogoutWrites, CallsOK, CallOK, Created
  <2>2. row' = Revoked(S) /\ UNCHANGED <<minted, revived>>
    BY <1>7 DEF LogoutWrites
  <2> HIDE DEF S
  <2> QED
    BY <1>2, <2>1, <2>2
<1>8. ASSUME NEW h \in Handlers, ReuseRevokes(h) \/ RevokesAll(h)
      PROVE  Good
  BY <1>2, <1>8 DEF ReuseRevokes, RevokesAll, ActiveRows
<1>9. CASE RevokeAll
  BY <1>2, <1>9 DEF RevokeAll, ActiveRows
<1>10. ASSUME NEW h \in Handlers,
              \/ Arrive(h) \/ Abandon(h) \/ LoginFinds(h) \/ LoginReturns(h)
              \/ RefreshReads(h) \/ RefreshReturns(h)
       PROVE  UNCHANGED <<row, minted, revived>>
  BY <1>10 DEF Arrive, Login, NewPassword, Suspend, Refresh, Logout, Abandon, LoginFinds,
     LoginReturns, RefreshReads, RefreshReturns
<1>11. CASE UNCHANGED vars \/ Restore \/ Tick
  BY <1>1, <1>11 DEF vars, Restore, Tick
<1> QED
  BY <1>1, <1>3, <1>4, <1>5, <1>6, <1>7, <1>8, <1>9, <1>10, <1>11 DEF Next, Proceed

\* A live session was live as long as it has been there.
LEMMA LiveShrinks ==
  ASSUME IInv, [Next]_vars, NEW s \in SessionIds, Created(s)
  PROVE  Created(s)' /\ (Live(s)' => Live(s))
<1> USE DEF IInv, TypeOK
<1>1. Created(s)'
  BY RowsTyped DEF Created
<1>2. ASSUME row'[s].state = "active", ~row'[s].expired, s \notin revived'
      PROVE  row[s].state = "active" /\ ~row[s].expired /\ s \notin revived
  <2>1. s \notin revived
    BY <1>2, RowsTyped
  <2>2. ASSUME NEW S, row' = Revoked(S)
        PROVE  row[s].state = "active" /\ ~row[s].expired
    BY <1>2, <2>2 DEF Revoked, SessionRow
  <2>3. ASSUME NEW t \in SessionIds, Expire(t)
        PROVE  row[s].state = "active" /\ ~row[s].expired
    BY <1>2, <2>3 DEF Expire, Active, SessionRow
  <2>4. ASSUME NEW h \in Handlers, LoginCreates(h)
        PROVE  row[s].state = "active" /\ ~row[s].expired
    BY <1>2, <2>4 DEF LoginCreates, Created
  <2>5. ASSUME NEW h \in Handlers, RefreshWrites(h)
        PROVE  row[s].state = "active" /\ ~row[s].expired
    <3>1. handler[h].session \in SessionIds
      BY <2>5 DEF RefreshWrites, CallsOK, CallOK, RefreshSteps
    <3> QED
      BY <1>2, <2>5, <3>1 DEF RefreshWrites, SessionRow
  <2>6. ASSUME NEW h \in Handlers,
               \/ Arrive(h) \/ Abandon(h) \/ LoginFinds(h) \/ LoginReturns(h)
               \/ RefreshReads(h) \/ RefreshReturns(h)
        PROVE  UNCHANGED row
    BY <2>6 DEF Arrive, Login, NewPassword, Suspend, Refresh, Logout, Abandon, LoginFinds,
       LoginReturns, RefreshReads, RefreshReturns
  <2>7. CASE UNCHANGED vars \/ Restore \/ Tick
    BY <1>2, <2>1, <2>7 DEF vars, Restore, Tick
  <2>8. ASSUME NEW h \in Handlers,
               LoginRevokes(h) \/ LogoutWrites(h) \/ ReuseRevokes(h) \/ RevokesAll(h)
        PROVE  \E S : row' = Revoked(S)
    BY <2>8 DEF LoginRevokes, LogoutWrites, ReuseRevokes, RevokesAll
  <2>9. CASE RevokeAll
    BY <2>1, <2>2, <2>9 DEF RevokeAll
  <2> QED
    BY <1>2, <2>1, <2>2, <2>3, <2>4, <2>5, <2>6, <2>7, <2>8, <2>9 DEF Next, Proceed
<1> QED
  BY <1>1, <1>2 DEF Live, Active

\* Only a refresh changes the secret of a row that is there.
LEMMA SecretsKeep ==
  ASSUME IInv, [Next]_vars, NEW s \in SessionIds, Created(s),
         \A h \in Handlers : RefreshWrites(h) => handler[h].session # s
  PROVE  row'[s].secret = row[s].secret
<1> USE DEF IInv, TypeOK
<1>1. ASSUME NEW S, row' = Revoked(S)
      PROVE  row'[s].secret = row[s].secret
  BY <1>1 DEF Revoked, SessionRow
<1>2. ASSUME NEW t \in SessionIds, Expire(t)
      PROVE  row'[s].secret = row[s].secret
  BY <1>2 DEF Expire, SessionRow
<1>3. ASSUME NEW h \in Handlers, LoginCreates(h)
      PROVE  row'[s].secret = row[s].secret
  BY <1>3 DEF LoginCreates, Created
<1>4. ASSUME NEW h \in Handlers, RefreshWrites(h)
      PROVE  row'[s].secret = row[s].secret
  BY <1>4 DEF RefreshWrites
<1>5. ASSUME NEW h \in Handlers,
             \/ Arrive(h) \/ Abandon(h) \/ LoginFinds(h) \/ LoginReturns(h)
             \/ RefreshReads(h) \/ RefreshReturns(h)
      PROVE  UNCHANGED row
  BY <1>5 DEF Arrive, Login, NewPassword, Suspend, Refresh, Logout, Abandon, LoginFinds,
     LoginReturns, RefreshReads, RefreshReturns
<1>6. CASE UNCHANGED vars \/ Restore \/ Tick
  BY <1>6 DEF vars, Restore, Tick
<1>7. ASSUME NEW h \in Handlers,
             LoginRevokes(h) \/ LogoutWrites(h) \/ ReuseRevokes(h) \/ RevokesAll(h)
      PROVE  \E S : row' = Revoked(S)
  BY <1>7 DEF LoginRevokes, LogoutWrites, ReuseRevokes, RevokesAll
<1>8. CASE RevokeAll
  BY <1>1, <1>8 DEF RevokeAll
<1> QED
  BY <1>1, <1>2, <1>3, <1>4, <1>5, <1>6, <1>7, <1>8 DEF Next, Proceed

\* The rest of the types, for a step that moves one call to a new record.
LEMMA TypeStep ==
  ASSUME IInv, [Next]_vars,
         handler' \in [Handlers -> Call], held' \in [SessionIds -> Nat]
  PROVE  TypeOK'
<1> USE DEF IInv, TypeOK
<1>1. clock' \in Nat /\ status' \in {"ACTIVE", "SUSPENDED"}
  <2>1. ASSUME NEW h \in Handlers, Proceed(h)
        PROVE  UNCHANGED <<clock, status>>
    BY <2>1 DEF Proceed, LoginCreates, LoginFinds, LoginRevokes, LoginReturns, RefreshReads,
       RefreshWrites, RefreshReturns, ReuseRevokes, LogoutWrites, RevokesAll, Abandon
  <2>2. ASSUME NEW h \in Handlers, Arrive(h)
        PROVE  UNCHANGED clock /\ status' \in {status, "SUSPENDED"}
    BY <2>2 DEF Arrive, Login, NewPassword, Suspend, Refresh, Logout
  <2>3. CASE UNCHANGED vars \/ RevokeAll \/ Restore \/ Tick
    BY <2>3 DEF vars, RevokeAll, Restore, Tick
  <2>4. ASSUME NEW s \in SessionIds, Expire(s)
        PROVE  UNCHANGED <<clock, status>>
    BY <2>4 DEF Expire
  <2> QED
    BY <2>1, <2>2, <2>3, <2>4 DEF Next
<1>2. raced' \subseteq SessionIds /\ reused' \subseteq SessionIds
  <2>1. ASSUME NEW h \in Handlers, Abandon(h)
        PROVE  raced' \subseteq SessionIds
    BY <2>1 DEF Abandon, CallsOK, CallOK, RefreshSteps
  <2>2. ASSUME NEW h \in Handlers, ReuseRevokes(h)
        PROVE  reused' \subseteq SessionIds
    BY <2>2 DEF ReuseRevokes, ActiveRows
  <2>3. ASSUME NEW h \in Handlers, Proceed(h)
        PROVE  raced' \subseteq SessionIds /\ reused' \subseteq SessionIds
    <3>1. CASE ReuseRevokes(h)
      BY <2>2, <3>1 DEF ReuseRevokes
    <3>2. CASE Abandon(h)
      BY <2>1, <3>2 DEF Abandon
    <3>3. CASE ~ReuseRevokes(h) /\ ~Abandon(h)
      <4>1. UNCHANGED <<raced, reused>>
        BY <2>3, <3>3 DEF Proceed, LoginCreates, LoginFinds, LoginRevokes, LoginReturns,
           RefreshReads, RefreshWrites, RefreshReturns, LogoutWrites, RevokesAll
      <4> QED
        BY <4>1
    <3> QED
      BY <3>1, <3>2, <3>3
  <2>4. ASSUME NEW h \in Handlers, Arrive(h)
        PROVE  raced' \subseteq SessionIds /\ reused' \subseteq SessionIds
    BY <2>4 DEF Arrive, Login, NewPassword, Suspend, Refresh, Logout
  <2>5. CASE UNCHANGED vars \/ RevokeAll \/ Restore \/ Tick \/ \E s \in SessionIds : Expire(s)
    BY <2>5 DEF vars, RevokeAll, Restore, Tick, Expire
  <2> QED
    BY <2>3, <2>4, <2>5 DEF Next
<1> QED
  BY <1>1, <1>2, RowsTyped

----------------------------------------------------------------------------
\* A step that hands over no token, counts nothing and issues nothing, in which
\* a call may only begin, or end, something that does not touch a secret.
Quiet ==
  /\ UNCHANGED held
  /\ handler' \in [Handlers -> Call]
  /\ raced \subseteq raced'
  /\ reused' \subseteq reused \cup raced'
  /\ \A s \in SessionIds : Created(s) => row'[s].secret = row[s].secret
  /\ \A g \in Handlers :
       \/ handler'[g] = handler[g]
       \/ /\ handler'[g].pc \notin LoginSteps \cup RefreshSteps
          /\ handler'[g].pc = "logout_write" => Created(handler'[g].session)
          /\ handler'[g].pc = "logout_write" => handler'[g].session \in SessionIds
          /\ handler[g].pc = "refresh_return" => handler[g].session \in raced'

\* A step that leaves the counts of all logins alone keeps the cap.
LEMMA CapKept ==
  ASSUME IInv, [Next]_vars, UNCHANGED held,
         \A g \in Handlers :
           Counted(g)' =>
             /\ Counted(g)
             /\ handler'[g].session = handler[g].session
             /\ handler'[g].found = handler[g].found
             /\ handler'[g].kept = handler[g].kept
             /\ handler'[g].pc = "login_return" =>
                  \/ handler[g].pc = "login_return"
                  \/ \A t \in handler[g].found \ handler[g].kept : ~Live(t)'
  PROVE  CapOK'
<1> USE DEF IInv, TypeOK
<1>1. \A g \in Handlers : Counted(g) =>
        /\ handler[g].session \in SessionIds /\ Created(handler[g].session)
        /\ handler[g].found \subseteq SessionIds
        /\ CountOK(g)
  BY DEF CallsOK, CallOK, Counted, LoginSteps, CapOK, CountsOK, Call
<1>2. \A s \in SessionIds : Created(s) => Created(s)' /\ (Live(s)' => Live(s))
  BY LiveShrinks
<1>3. CountsOK'
  BY <1>1, <1>2 DEF CountsOK, CountOK
<1>4. CountsOrdered'
  BY <1>1, <1>2 DEF CapOK, CountsOrdered, SeenBy, CountOK
<1>5. \E K \in SUBSET SessionIds : Bounds(K)'
  <2>1. PICK K \in SUBSET SessionIds : Bounds(K)
    BY DEF CapOK
  <2>2. \A s \in Delivered : Created(s)
    BY DEF Delivered, HeldOK
  <2>3. Delivered' = Delivered
    BY DEF Delivered
  <2>4. Bounds(K)'
    BY <1>1, <1>2, <2>1, <2>2, <2>3 DEF Bounds, SeenBy, Delivered
  <2> QED
    BY <2>4
<1> QED
  BY <1>3, <1>4, <1>5 DEF CapOK

LEMMA QuietStep ==
  ASSUME IInv, [Next]_vars, Quiet
  PROVE  CallsOK' /\ HeldOK' /\ LoginsApart' /\ CapOK' /\ HonestOK'
<1> USE DEF IInv, TypeOK
<1>1. \A s \in SessionIds : Created(s) => Created(s)'
  BY LiveShrinks
<1>2. CallsOK'
  <2> SUFFICES ASSUME NEW g \in Handlers
               PROVE  CallOK(g)'
    BY DEF CallsOK
  <2>1. CallOK(g)
    BY DEF CallsOK
  <2>2. CASE handler'[g] = handler[g]
    BY <1>1, <2>1, <2>2 DEF Quiet, CallOK, LoginSteps
  <2>3. CASE handler'[g] # handler[g]
    BY <1>1, <2>3 DEF Quiet, CallOK
  <2> QED
    BY <2>2, <2>3
<1>3. HeldOK'
  BY <1>1 DEF Quiet, HeldOK
<1>4. LoginsApart'
  BY DEF Quiet, LoginsApart
<1>5. CapOK'
  BY CapKept DEF Quiet, Counted, LoginSteps
<1>6. HonestOK'
  <2>1. reused' \subseteq raced'
    BY DEF Quiet, HonestOK
  <2> SUFFICES ASSUME NEW s \in SessionIds, s \notin raced'
               PROVE  Orderly(s)'
    BY <2>1 DEF HonestOK
  <2>2. Orderly(s)
    BY DEF Quiet, HonestOK
  <2>3. CASE ~Created(s)
    <3>1. held'[s] = 0
      BY <2>3 DEF HeldOK, Quiet
    <3>2. \A g \in Handlers : handler[g].pc \in RefreshSteps => handler[g].session # s
      BY <2>3 DEF CallsOK, CallOK
    <3>3. \A g \in Handlers : handler'[g].pc \in RefreshSteps => handler'[g].session # s
      BY <3>2 DEF Quiet
    <3> QED
      BY <3>1, <3>3 DEF Orderly, RefreshSteps
  <2>4. CASE Created(s)
    <3>1. row'[s].secret = row[s].secret /\ held'[s] = held[s]
      BY <2>4 DEF Quiet
    <3>2. \A g \in Handlers :
            handler'[g].pc \in RefreshSteps => handler'[g] = handler[g]
      BY DEF Quiet
    <3>3. \A g \in Handlers :
            handler[g].session = s /\ handler[g].pc = "refresh_return" => handler'[g] = handler[g]
      BY DEF Quiet
    <3> QED
      BY <2>2, <3>1, <3>2, <3>3 DEF Orderly, RefreshSteps
  <2> QED
    BY <2>3, <2>4
<1> QED
  BY <1>2, <1>3, <1>4, <1>5, <1>6

\* Which steps are quiet.
LEMMA QuietActions ==
  ASSUME IInv, [Next]_vars
  PROVE  /\ UNCHANGED vars \/ Tick \/ Restore \/ RevokeAll => Quiet
         /\ \A s \in SessionIds : Expire(s) => Quiet
         /\ \A h \in Handlers :
              \/ Login(h) \/ NewPassword(h) \/ Suspend(h)
              \/ LogoutWrites(h) \/ RevokesAll(h) \/ Abandon(h) \/ ReuseRevokes(h)
              \/ RefreshReads(h) /\ End(h)
              \/ \E s \in SessionIds : Logout(h, s)
              => Quiet
<1> USE DEF IInv, TypeOK
<1>1. ASSUME \A h \in Handlers : ~RefreshWrites(h)
      PROVE  \A s \in SessionIds : Created(s) => row'[s].secret = row[s].secret
  BY <1>1, SecretsKeep
<1>2. ASSUME NEW h \in Handlers, RefreshWrites(h)
      PROVE  handler'[h].pc = "refresh_return" /\ handler[h].pc = "refresh_write"
  BY <1>2 DEF RefreshWrites, Call
<1>3. Idle \in Call
  BY DEF Idle, Call, Steps
<1>4. CASE UNCHANGED vars \/ Tick \/ Restore \/ RevokeAll
  <2>1. UNCHANGED <<handler, held, raced, reused>>
    BY <1>4 DEF vars, Tick, Restore, RevokeAll
  <2> QED
    BY <1>1, <1>2, <2>1 DEF Quiet
<1>5. ASSUME NEW s \in SessionIds, Expire(s)
      PROVE  Quiet
  <2>1. UNCHANGED <<handler, held, raced, reused>>
    BY <1>5 DEF Expire
  <2> QED
    BY <1>1, <1>2, <2>1 DEF Quiet
<1>6. ASSUME NEW h \in Handlers,
             \/ Login(h) \/ NewPassword(h) \/ Suspend(h)
             \/ LogoutWrites(h) \/ RevokesAll(h) \/ Abandon(h) \/ ReuseRevokes(h)
             \/ RefreshReads(h) /\ End(h)
             \/ \E s \in SessionIds : Logout(h, s)
      PROVE  Quiet
  <2>1. \A g \in Handlers : g # h => handler'[g] = handler[g]
    BY <1>6 DEF Login, NewPassword, Suspend, LogoutWrites, RevokesAll, Abandon, ReuseRevokes,
       RefreshReads, Logout, Begin, End
  <2>2. UNCHANGED held /\ raced \subseteq raced'
    BY <1>6 DEF Login, NewPassword, Suspend, LogoutWrites, RevokesAll, Abandon, ReuseRevokes,
       RefreshReads, Logout
  <2>3. /\ handler'[h] \in Call
        /\ handler'[h].pc \in {"idle", "login_create", "revoke_all", "logout_write"}
        /\ handler'[h].pc = "logout_write" =>
             handler'[h].session \in SessionIds /\ Created(handler'[h].session)
    <3>1. CASE End(h)
      BY <1>3, <3>1 DEF End, Idle
    <3>2. CASE Login(h)
      BY <3>2 DEF Login, Begin, Idle, Call, Steps
    <3>3. CASE NewPassword(h) \/ Suspend(h)
      BY <3>3 DEF NewPassword, Suspend, Begin, Idle, Call, Steps
    <3>4. ASSUME NEW s \in SessionIds, Logout(h, s)
          PROVE  /\ handler'[h] \in Call
                 /\ handler'[h].pc = "logout_write"
                 /\ handler'[h].session \in SessionIds /\ Created(handler'[h].session)
      BY <3>4 DEF Logout, Begin, Idle, Call, Steps, Created
    <3> QED
      BY <1>6, <3>1, <3>2, <3>3, <3>4 DEF LogoutWrites, RevokesAll, Abandon, ReuseRevokes
  <2>7. handler' \in [Handlers -> Call]
    <3>1. \E c : handler' = [handler EXCEPT ![h] = c]
      BY <1>6 DEF Login, NewPassword, Suspend, LogoutWrites, RevokesAll, Abandon, ReuseRevokes,
         RefreshReads, Logout, Begin, End
    <3> QED
      BY <2>3, <3>1
  <2>4. handler[h].pc = "refresh_return" => handler[h].session \in raced'
    BY <1>6 DEF Login, NewPassword, Suspend, LogoutWrites, RevokesAll, Abandon, ReuseRevokes,
       RefreshReads, Logout, Begin
  <2>5. reused' \subseteq reused \cup raced'
    <3>1. CASE ReuseRevokes(h)
      BY <3>1 DEF ReuseRevokes, ActiveRows, HonestOK, Orderly
    <3> QED
      BY <1>6, <3>1 DEF Login, NewPassword, Suspend, LogoutWrites, RevokesAll, Abandon,
         RefreshReads, Logout
  <2>6. \A g \in Handlers : ~RefreshWrites(g)
    BY <1>2, <2>1, <2>3
  <2> QED
    BY <1>1, <2>1, <2>2, <2>3, <2>4, <2>5, <2>6, <2>7 DEF Quiet, LoginSteps, RefreshSteps
<1> HIDE DEF IInv, TypeOK
<1>7. \A s \in SessionIds : Expire(s) => Quiet
  BY <1>5
<1>8. ASSUME NEW h \in Handlers
      PROVE  \/ Login(h) \/ NewPassword(h) \/ Suspend(h)
             \/ LogoutWrites(h) \/ RevokesAll(h) \/ Abandon(h) \/ ReuseRevokes(h)
             \/ RefreshReads(h) /\ End(h)
             \/ \E s \in SessionIds : Logout(h, s)
             => Quiet
  BY <1>6
<1> QED
  BY <1>4, <1>7, <1>8

----------------------------------------------------------------------------
\* A call moves from one record to the next; the others stay.
LEMMA CallsKept ==
  ASSUME IInv, [Next]_vars, NEW h \in Handlers,
         \A g \in Handlers : g # h => handler'[g] = handler[g],
         CallOK(h)',
         \A s \in SessionIds :
           held'[s] # held[s] =>
             /\ held'[s] # 0
             /\ \A g \in Handlers :
                  g # h /\ handler[g].pc \in LoginSteps => handler[g].session # s
  PROVE  CallsOK'
<1> USE DEF IInv, TypeOK
<1> SUFFICES ASSUME NEW g \in Handlers, g # h
             PROVE  CallOK(g)'
  BY DEF CallsOK
<1>1. CallOK(g) /\ handler'[g] = handler[g]
  BY DEF CallsOK
<1>2. \A s \in SessionIds : Created(s) => Created(s)'
  BY LiveShrinks
<1>3. ASSUME handler[g].pc \in LoginSteps
      PROVE  row'[handler[g].session].secret = row[handler[g].session].secret
  <2>1. ASSUME NEW k \in Handlers, RefreshWrites(k)
        PROVE  held[handler[k].session] # 0
    BY <2>1 DEF RefreshWrites, CallsOK, CallOK, RefreshSteps
  <2> QED
    BY <1>1, <1>3, <2>1, SecretsKeep DEF CallOK
<1> QED
  BY <1>1, <1>2, <1>3 DEF CallOK, LoginSteps, RefreshSteps

\* The secrets of a session are not touched: it stays orderly.
LEMMA OrderlyKept ==
  ASSUME IInv, NEW s \in SessionIds, Orderly(s),
         UNCHANGED held, row'[s].secret = row[s].secret,
         \A g \in Handlers :
           \/ handler'[g] = handler[g]
           \/ handler'[g].pc \notin RefreshSteps /\ handler[g].pc # "refresh_return"
  PROVE  Orderly(s)'
BY DEF Orderly, RefreshSteps

\* A login's insert.
LEMMA LoginCreatesStep ==
  ASSUME IInv, [Next]_vars, NEW h \in Handlers, LoginCreates(h)
  PROVE  TypeOK' /\ CallsOK' /\ HeldOK' /\ LoginsApart' /\ CapOK' /\ HonestOK'
<1> USE DEF IInv, TypeOK
<1>1. PICK s \in SessionIds, now \in handler[h].now .. clock :
        /\ handler[h].pc = "login_create"
        /\ row[s].state = "free"
        /\ row' = [row EXCEPT ![s] = [state |-> "active", expired |-> FALSE, secret |-> 1,
                                      seen |-> now]]
        /\ handler' = [handler EXCEPT ![h].pc = "login_find", ![h].session = s, ![h].secret = 1]
        /\ UNCHANGED <<status, clock, held, revived, raced, reused>>
  BY DEF LoginCreates
<1>2. /\ handler'[h].pc = "login_find" /\ handler'[h].session = s /\ handler'[h].secret = 1
      /\ \A g \in Handlers : g # h => handler'[g] = handler[g]
      /\ handler' \in [Handlers -> Call]
  <2>1. handler[h] \in Call
    OBVIOUS
  <2>2. handler' = [handler EXCEPT ![h] = [handler[h] EXCEPT !.pc = "login_find",
                                                            !.session = s, !.secret = 1]]
    BY <1>1
  <2>3. [handler[h] EXCEPT !.pc = "login_find", !.session = s, !.secret = 1] \in Call
    BY <2>1 DEF Call, Steps
  <2> QED
    BY <2>1, <2>2, <2>3 DEF Call
<1>3. TypeOK'
  BY <1>1, <1>2, TypeStep
<1>4. held[s] = 0
  BY <1>1 DEF HeldOK, Created
<1>5. CallOK(h)'
  BY <1>1, <1>2, <1>4 DEF CallOK, LoginSteps, RefreshSteps, Created
<1>6. CallsOK'
  BY <1>1, <1>2, <1>5, CallsKept
<1>7. HeldOK'
  BY <1>1, LiveShrinks DEF HeldOK
<1>8. \A g \in Handlers : handler[g].pc \in LoginSteps \cup RefreshSteps => handler[g].session # s
  BY <1>1 DEF CallsOK, CallOK, Created
<1>9. LoginsApart'
  BY <1>2, <1>8 DEF LoginsApart
<1>10. CapOK'
  BY <1>1, <1>2, CapKept DEF Counted
<1>11. HonestOK'
  <2> SUFFICES ASSUME NEW t \in SessionIds, t \notin raced
               PROVE  Orderly(t)'
    BY <1>1 DEF HonestOK
  <2>1. CASE t = s
    <3>1. \A g \in Handlers : handler'[g].session = s => handler'[g].pc \notin RefreshSteps
      BY <1>2, <1>8 DEF RefreshSteps
    <3> QED
      BY <1>1, <1>4, <2>1, <3>1 DEF Orderly, RefreshSteps
  <2>2. CASE t # s
    BY <1>1, <1>2, <2>2, OrderlyKept DEF HonestOK, RefreshSteps
  <2> QED
    BY <2>1, <2>2
<1> QED
  BY <1>3, <1>6, <1>7, <1>9, <1>10, <1>11

\* The revocation of what the login found to be too much.
LEMMA LoginRevokesStep ==
  ASSUME IInv, [Next]_vars, NEW h \in Handlers, LoginRevokes(h)
  PROVE  TypeOK' /\ CallsOK' /\ HeldOK' /\ LoginsApart' /\ CapOK' /\ HonestOK'
<1> USE DEF IInv, TypeOK
<1> DEFINE S == handler[h].found \ handler[h].kept
<1>1. /\ handler[h].pc = "login_revoke"
      /\ row' = Revoked(S)
      /\ handler' = [handler EXCEPT ![h].pc = "login_return"]
      /\ UNCHANGED <<status, clock, minted, held, revived, raced, reused>>
  BY DEF LoginRevokes, Goto
<1>2. /\ handler'[h].pc = "login_return"
      /\ handler'[h].session = handler[h].session
      /\ handler'[h].secret = handler[h].secret
      /\ handler'[h].found = handler[h].found
      /\ handler'[h].kept = handler[h].kept
      /\ \A g \in Handlers : g # h => handler'[g] = handler[g]
      /\ handler' \in [Handlers -> Call]
  BY <1>1 DEF Call, Steps
<1>3. TypeOK'
  BY <1>1, <1>2, TypeStep
<1>4. S \subseteq SessionIds
  BY DEF Call
<1>5. \A s \in SessionIds : row'[s].secret = row[s].secret
  BY <1>1, <1>4 DEF Revoked, SessionRow
<1>6. \A s \in SessionIds : Created(s) => Created(s)'
  BY LiveShrinks
<1>7. CallOK(h)'
  <2>1. /\ handler[h].session \in SessionIds /\ Created(handler[h].session)
        /\ held[handler[h].session] = 0
        /\ handler[h].secret = row[handler[h].session].secret
    BY <1>1 DEF CallsOK, CallOK, LoginSteps
  <2> QED
    BY <1>1, <1>2, <1>5, <1>6, <2>1 DEF CallOK, RefreshSteps
<1>8. CallsOK'
  BY <1>1, <1>2, <1>7, CallsKept
<1>9. HeldOK' /\ LoginsApart'
  BY <1>1, <1>2, <1>6 DEF HeldOK, LoginsApart, LoginSteps
<1>10. \A t \in S : ~Live(t)'
  BY <1>1, <1>4 DEF Revoked, SessionRow, Live, Active
<1>11. CapOK'
  BY <1>1, <1>2, <1>10, CapKept DEF Counted
<1>12. HonestOK'
  BY <1>1, <1>2, <1>5, OrderlyKept DEF HonestOK, RefreshSteps
<1> QED
  BY <1>3, <1>8, <1>9, <1>11, <1>12

\* The count of the active sessions: the latest one, so it saw all of them.
LEMMA LoginFindsStep ==
  ASSUME IInv, [Next]_vars, NEW h \in Handlers, LoginFinds(h)
  PROVE  TypeOK' /\ CallsOK' /\ HeldOK' /\ LoginsApart' /\ CapOK' /\ HonestOK'
<1> USE DEF IInv, TypeOK
<1> DEFINE found == {s \in SessionIds : Active(s)}
           s0 == handler[h].session
<1>1. PICK kept \in SUBSET found :
        /\ handler[h].pc = "login_find"
        /\ Cardinality(found) <= MaxDevices => kept = found
        /\ Cardinality(found) > MaxDevices => Cardinality(kept) = MaxDevices
        /\ handler' = [handler EXCEPT
                         ![h].pc = IF kept = found THEN "login_return" ELSE "login_revoke",
                         ![h].found = found, ![h].kept = kept]
        /\ UNCHANGED <<row, status, clock, minted, held, revived, raced, reused>>
  BY DEF LoginFinds
<1>2. Cardinality(kept) <= MaxDevices
  <2>1. IsFiniteSet(found) /\ Cardinality(found) \in Nat
    BY FS_Subset, FS_CardinalityType, SessionsAreFinite
  <2> HIDE DEF found
  <2>2. CASE Cardinality(found) <= MaxDevices
    BY <1>1, <2>2
  <2>3. CASE Cardinality(found) > MaxDevices
    BY <1>1, <2>3, BoundsAreNaturals
  <2> QED
    BY <2>1, <2>2, <2>3, BoundsAreNaturals
<1> HIDE DEF found
<1>3. found \subseteq SessionIds /\ \A s \in SessionIds : s \in found <=> Active(s)
  BY DEF found
<1>4. /\ Counted(h)'
      /\ handler'[h].session = s0
      /\ handler'[h].secret = handler[h].secret
      /\ handler'[h].found = found
      /\ handler'[h].kept = kept
      /\ handler'[h].pc = "login_return" => kept = found
      /\ \A g \in Handlers : g # h => handler'[g] = handler[g]
      /\ handler' \in [Handlers -> Call]
  <2> DEFINE pc == IF kept = found THEN "login_return" ELSE "login_revoke"
  <2>1. handler[h] \in Call /\ kept \subseteq SessionIds
    BY <1>3
  <2>2. handler' = [handler EXCEPT ![h] = [handler[h] EXCEPT !.pc = pc, !.found = found,
                                                            !.kept = kept]]
    BY <1>1
  <2>3. [handler[h] EXCEPT !.pc = pc, !.found = found, !.kept = kept] \in Call
    BY <1>3, <2>1 DEF Call, Steps
  <2> QED
    BY <2>1, <2>2, <2>3 DEF Call, Counted
<1>5. TypeOK'
  BY <1>1, <1>4, TypeStep
<1>6. s0 \in SessionIds /\ Created(s0) /\ held[s0] = 0 /\ handler[h].secret = row[s0].secret
  BY <1>1 DEF CallsOK, CallOK, LoginSteps
<1>7. CallOK(h)'
  BY <1>1, <1>4, <1>6 DEF CallOK, RefreshSteps, Counted, Created
<1>8. CallsOK'
  BY <1>1, <1>4, <1>7, CallsKept
<1>9. HeldOK'
  BY <1>1 DEF HeldOK, Created
<1>10. LoginsApart'
  BY <1>1, <1>4 DEF LoginsApart, LoginSteps, Counted
<1>11. \A s \in SessionIds : (Live(s)' <=> Live(s)) /\ (Created(s)' <=> Created(s))
  BY <1>1 DEF Live, Active, Created
<1>12. \A s \in SessionIds : Live(s) => s \in found
  BY <1>3 DEF Live
<1>13. \A g \in Handlers : g # h /\ Counted(g)' => Counted(g) /\ CountOK(g)
  BY <1>4 DEF Counted, CapOK, CountsOK
<1>14. \A g \in Handlers : handler[g].found \subseteq SessionIds
  BY DEF Call
<1>15. CountsOK'
  <2> SUFFICES ASSUME NEW g \in Handlers, Counted(g)'
               PROVE  CountOK(g)'
    BY DEF CountsOK
  <2>1. CASE g = h
    <3>1. \A t \in found : Created(t)
      BY <1>3 DEF Active, Created
    <3> QED
      BY <1>2, <1>3, <1>4, <1>6, <1>11, <1>12, <2>1, <3>1 DEF CountOK
  <2>2. CASE g # h
    <3>1. handler'[g] = handler[g] /\ Counted(g) /\ CountOK(g)
      BY <1>4, <1>13, <2>2
    <3>2. handler[g].session \in SessionIds
      BY <3>1 DEF Counted, CallsOK, CallOK, LoginSteps
    <3> QED
      BY <1>11, <1>14, <3>1, <3>2 DEF CountOK
  <2> QED
    BY <2>1, <2>2
<1>16. CountsOrdered'
  <2> SUFFICES ASSUME NEW g \in Handlers, NEW k \in Handlers, Counted(g)', Counted(k)'
               PROVE  \/ SeenBy(handler[g].found, handler[k].found)'
                      \/ SeenBy(handler[k].found, handler[g].found)'
    BY DEF CountsOrdered
  <2>1. CASE g = h \/ k = h
    BY <1>4, <1>11, <1>12, <1>14, <2>1 DEF SeenBy
  <2>2. CASE g # h /\ k # h
    BY <1>4, <1>11, <1>13, <1>14, <2>2 DEF SeenBy, CapOK, CountsOrdered
  <2> QED
    BY <2>1, <2>2
<1>17. \E K \in SUBSET SessionIds : Bounds(K)'
  <2>1. PICK K \in SUBSET SessionIds : Bounds(K)
    BY DEF CapOK
  <2>2. Delivered' = Delivered
    BY <1>1 DEF Delivered
  <2>3. \A g \in Handlers : Counted(g)' =>
          (Live(handler[g].session) => handler[g].session \in K)'
            \/ SeenBy(K, handler[g].found)'
    <3> SUFFICES ASSUME NEW g \in Handlers, Counted(g)'
                 PROVE  \/ (Live(handler[g].session) => handler[g].session \in K)'
                        \/ SeenBy(K, handler[g].found)'
      OBVIOUS
    <3>1. CASE g = h
      BY <1>4, <1>11, <1>12, <3>1 DEF SeenBy
    <3>2. CASE g # h
      <4>1. handler'[g] = handler[g] /\ Counted(g)
        BY <1>4, <1>13, <3>2
      <4>2. handler[g].session \in SessionIds
        BY <4>1 DEF Counted, CallsOK, CallOK, LoginSteps
      <4> QED
        BY <1>11, <2>1, <4>1, <4>2 DEF Bounds, SeenBy
    <3> QED
      BY <3>1, <3>2
  <2>4. Bounds(K)'
    BY <1>11, <2>1, <2>2, <2>3 DEF Bounds, Delivered
  <2> QED
    BY <2>4
<1>18. HonestOK'
  BY <1>1, <1>4, OrderlyKept DEF HonestOK, RefreshSteps, Counted
<1> QED
  BY <1>5, <1>8, <1>9, <1>10, <1>15, <1>16, <1>17, <1>18 DEF CapOK

\* The answer of a login.  Either the bound K knows its session already, or its
\* own count is the latest, and what that count kept is the new bound.
LEMMA LoginReturnsStep ==
  ASSUME IInv, [Next]_vars, NEW h \in Handlers, LoginReturns(h)
  PROVE  TypeOK' /\ CallsOK' /\ HeldOK' /\ LoginsApart' /\ CapOK' /\ HonestOK'
<1> USE DEF IInv, TypeOK
<1> DEFINE s0 == handler[h].session
<1>1. /\ handler[h].pc = "login_return"
      /\ held' = [held EXCEPT ![s0] = handler[h].secret]
      /\ handler' = [handler EXCEPT ![h] = Idle]
      /\ UNCHANGED <<row, status, clock, minted, revived, raced, reused>>
  BY DEF LoginReturns, End
<1>2. /\ handler'[h].pc = "idle"
      /\ \A g \in Handlers : g # h => handler'[g] = handler[g]
      /\ handler' \in [Handlers -> Call]
  BY <1>1 DEF Idle, Call, Steps
<1>3. /\ s0 \in SessionIds /\ Created(s0) /\ held[s0] = 0
      /\ handler[h].secret = row[s0].secret /\ handler[h].secret # 0
      /\ handler[h].secret \in Nat
  BY <1>1 DEF CallsOK, CallOK, LoginSteps, Created, Call
<1>4. TypeOK'
  <2>1. held' \in [SessionIds -> Nat]
    BY <1>1, <1>3
  <2> QED
    BY <1>2, <2>1, TypeStep
<1>5. CallOK(h)'
  BY <1>2 DEF CallOK, LoginSteps, RefreshSteps
<1>6. CallsOK'
  <2>1. \A g \in Handlers : g # h /\ handler[g].pc \in LoginSteps => handler[g].session # s0
    BY <1>1 DEF LoginsApart, LoginSteps
  <2> QED
    BY <1>1, <1>2, <1>3, <1>5, <2>1, CallsKept
<1>7. HeldOK'
  BY <1>1, <1>3 DEF HeldOK, Created
<1>8. LoginsApart'
  BY <1>1, <1>2 DEF LoginsApart, LoginSteps
<1>9. \A s \in SessionIds : (Live(s)' <=> Live(s)) /\ (Created(s)' <=> Created(s))
  BY <1>1 DEF Live, Active, Created
<1>10. \A g \in Handlers :
         Counted(g)' => g # h /\ handler'[g] = handler[g] /\ Counted(g) /\ CountOK(g)
  BY <1>2 DEF Counted, CapOK, CountsOK
<1>11. Counted(h) /\ CountOK(h)
  BY <1>1 DEF Counted, CapOK, CountsOK
<1>12. \A g \in Handlers :
         /\ handler[g].found \subseteq SessionIds
         /\ Counted(g) => handler[g].session \in SessionIds
  BY DEF Call, Counted, CallsOK, CallOK, LoginSteps
<1>13. CountsOK'
  BY <1>9, <1>10, <1>12 DEF CountsOK, CountOK
<1>14. CountsOrdered'
  BY <1>9, <1>10, <1>12 DEF CountsOrdered, SeenBy, CapOK
<1>15. \A s \in Delivered' : s \in Delivered \/ s = s0
  BY <1>1 DEF Delivered
<1>16. \E K \in SUBSET SessionIds : Bounds(K)'
  <2>1. PICK K \in SUBSET SessionIds : Bounds(K)
    BY DEF CapOK
  <2>2. CASE Live(s0) => s0 \in K
    <3>1. Bounds(K)'
      BY <1>9, <1>10, <1>12, <1>15, <2>1, <2>2 DEF Bounds, SeenBy, Delivered
    <3> QED
      BY <3>1
  <2>3. CASE SeenBy(K, handler[h].found)
    <3>1. PICK kept \in SUBSET SessionIds : kept = handler[h].kept \cap handler[h].found
      BY <1>12
    <3>2. Cardinality(kept) <= MaxDevices
      <4>1. handler[h].kept \in SUBSET SessionIds
        BY DEF Call
      <4>2. IsFiniteSet(handler[h].kept)
        BY <4>1, FS_Subset, SessionsAreFinite
      <4>3. Cardinality(kept) <= Cardinality(handler[h].kept)
        BY <3>1, <4>2, FS_Subset
      <4>4. Cardinality(kept) \in Nat /\ Cardinality(handler[h].kept) \in Nat
        BY <3>1, <4>2, FS_Subset, FS_CardinalityType
      <4> QED
        BY <1>11, <4>3, <4>4, BoundsAreNaturals DEF CountOK
    <3>3. \A t \in kept : Created(t)
      BY <1>11, <3>1 DEF CountOK
    <3>4. \A t \in handler[h].found : Live(t) => t \in kept
      BY <1>1, <1>11, <3>1 DEF CountOK
    <3>5. \A s \in Delivered' : Live(s) => s \in kept
      <4>1. \A s \in Delivered : Live(s) => s \in kept
        BY <2>1, <2>3, <3>4 DEF Bounds, SeenBy
      <4>2. Live(s0) => s0 \in kept
        BY <1>11, <3>4 DEF CountOK
      <4> QED
        BY <1>15, <4>1, <4>2
    <3>6. ASSUME NEW g \in Handlers, Counted(g)'
          PROVE  \/ Live(handler[g].session) => handler[g].session \in kept
                 \/ SeenBy(kept, handler[g].found)
      <4>1. CASE SeenBy(handler[g].found, handler[h].found)
        BY <1>10, <3>4, <3>6, <4>1 DEF SeenBy, CountOK
      <4>2. CASE SeenBy(handler[h].found, handler[g].found)
        BY <3>1, <4>2 DEF SeenBy
      <4> QED
        BY <1>10, <1>11, <3>6, <4>1, <4>2 DEF CapOK, CountsOrdered
    <3>7. Bounds(kept)'
      BY <1>9, <1>10, <1>12, <3>1, <3>2, <3>3, <3>5, <3>6 DEF Bounds, SeenBy, Delivered
    <3> QED
      BY <3>1, <3>7
  <2> QED
    BY <1>11, <2>1, <2>2, <2>3 DEF Bounds
<1>17. HonestOK'
  <2> SUFFICES ASSUME NEW s \in SessionIds, s \notin raced
               PROVE  Orderly(s)'
    BY <1>1 DEF HonestOK
  <2>1. Orderly(s)
    BY DEF HonestOK
  <2>2. CASE s = s0
    BY <1>1, <1>2, <1>3, <2>1, <2>2 DEF Orderly, RefreshSteps
  <2>3. CASE s # s0
    <3>1. held'[s] = held[s] /\ row'[s].secret = row[s].secret
      BY <1>1, <2>3
    <3> QED
      BY <1>1, <1>2, <2>1, <3>1 DEF Orderly, RefreshSteps
  <2> QED
    BY <2>2, <2>3
<1> QED
  BY <1>4, <1>6, <1>7, <1>8, <1>13, <1>14, <1>16, <1>17 DEF CapOK

----------------------------------------------------------------------------
\* A tab sends the stored token.  If no other refresh of the session is under
\* way, what is stored is the secret of the row.
LEMMA RefreshStep ==
  ASSUME IInv, [Next]_vars, NEW h \in Handlers, NEW s0 \in SessionIds, Refresh(h, s0)
  PROVE  TypeOK' /\ CallsOK' /\ HeldOK' /\ LoginsApart' /\ CapOK' /\ HonestOK'
<1> USE DEF IInv, TypeOK
<1>1. /\ held[s0] # 0 /\ held[s0] \in Nat
      /\ handler[h].pc = "idle"
      /\ handler' = [handler EXCEPT ![h] = [Idle EXCEPT !.pc = "refresh_read", !.session = s0,
                                                        !.secret = held[s0]]]
      /\ raced' = IF Refreshing(s0) THEN raced \cup {s0} ELSE raced
      /\ UNCHANGED <<row, status, clock, minted, held, revived, reused>>
  BY DEF Refresh, Begin, Delivered
<1>2. /\ handler'[h].pc = "refresh_read" /\ handler'[h].session = s0
      /\ handler'[h].secret = held[s0]
      /\ \A g \in Handlers : g # h => handler'[g] = handler[g]
      /\ handler' \in [Handlers -> Call]
  BY <1>1 DEF Idle, Call, Steps
<1>3. TypeOK'
  BY <1>1, <1>2, TypeStep
<1>4. CallOK(h)'
  BY <1>1, <1>2 DEF CallOK, LoginSteps, HeldOK, Created
<1>5. CallsOK'
  BY <1>1, <1>2, <1>4, CallsKept
<1>6. HeldOK' /\ LoginsApart'
  BY <1>1, <1>2 DEF HeldOK, Created, LoginsApart, LoginSteps
<1>7. CapOK'
  BY <1>1, <1>2, CapKept DEF Counted
<1>8. HonestOK'
  <2>1. raced \subseteq raced'
    BY <1>1
  <2> SUFFICES ASSUME NEW s \in SessionIds, s \notin raced'
               PROVE  Orderly(s)'
    BY <1>1, <2>1 DEF HonestOK
  <2>2. Orderly(s)
    BY <2>1 DEF HonestOK
  <2>3. CASE s # s0
    BY <1>1, <1>2, <2>2, <2>3 DEF Orderly, RefreshSteps
  <2>4. CASE s = s0
    <3>1. \A g \in Handlers : handler[g].session = s => handler[g].pc \notin RefreshSteps
      BY <1>1, <2>4 DEF Refreshing, RefreshSteps
    <3>2. held[s] = row[s].secret
      BY <1>1, <2>2, <2>4, <3>1 DEF Orderly, RefreshSteps
    <3>3. \A g \in Handlers :
            handler'[g].session = s /\ handler'[g].pc \in RefreshSteps => g = h
      BY <1>2, <3>1
    <3> QED
      BY <1>1, <1>2, <2>4, <3>2, <3>3 DEF Orderly, RefreshSteps
  <2> QED
    BY <2>3, <2>4
<1> QED
  BY <1>3, <1>5, <1>6, <1>7, <1>8

\* The read of the row: the two ways on.
LEMMA RefreshReadsStep ==
  ASSUME IInv, [Next]_vars, NEW h \in Handlers, RefreshReads(h), ~End(h)
  PROVE  TypeOK' /\ CallsOK' /\ HeldOK' /\ LoginsApart' /\ CapOK' /\ HonestOK'
<1> USE DEF IInv, TypeOK
<1> DEFINE s0 == handler[h].session
<1>1. /\ handler[h].pc = "refresh_read"
      /\ UNCHANGED <<row, status, clock, minted, held, revived, raced, reused>>
  BY DEF RefreshReads
<1>2. /\ s0 \in SessionIds /\ Created(s0) /\ held[s0] # 0 /\ handler[h].secret # 0
      /\ handler[h] \in Call
  BY <1>1 DEF CallsOK, CallOK, RefreshSteps
<1>3. /\ \/ handler'[h].pc = "refresh_write"
         \/ handler'[h].pc = "reuse_revoke" /\ row[s0].secret # handler[h].secret
      /\ handler'[h].session = s0 /\ handler'[h].secret = handler[h].secret
      /\ \A g \in Handlers : g # h => handler'[g] = handler[g]
      /\ handler' \in [Handlers -> Call]
  <2>1. CASE Goto(h, "reuse_revoke") /\ row[s0].secret # handler[h].secret
    BY <1>2, <2>1 DEF Goto, Call, Steps
  <2>2. CASE handler' = [handler EXCEPT ![h].pc = "refresh_write", ![h].now = clock]
    <3>1. handler' = [handler EXCEPT ![h] = [handler[h] EXCEPT !.pc = "refresh_write",
                                                              !.now = clock]]
      BY <2>2
    <3>2. [handler[h] EXCEPT !.pc = "refresh_write", !.now = clock] \in Call
      BY <1>2 DEF Call, Steps
    <3> QED
      BY <1>2, <3>1, <3>2 DEF Call
  <2> QED
    BY <2>1, <2>2 DEF RefreshReads
<1>4. TypeOK'
  BY <1>1, <1>3, TypeStep
<1>5. CallOK(h)'
  BY <1>1, <1>2, <1>3 DEF CallOK, LoginSteps, Created
<1>6. CallsOK'
  BY <1>1, <1>3, <1>5, CallsKept
<1>7. HeldOK' /\ LoginsApart'
  BY <1>1, <1>3 DEF HeldOK, Created, LoginsApart, LoginSteps
<1>8. CapOK'
  BY <1>1, <1>3, CapKept DEF Counted
<1>9. HonestOK'
  <2> SUFFICES ASSUME NEW s \in SessionIds, s \notin raced
               PROVE  Orderly(s)'
    BY <1>1 DEF HonestOK
  <2>1. Orderly(s)
    BY DEF HonestOK
  <2>2. s = s0 => handler[h].secret = row[s0].secret
    BY <1>1, <2>1 DEF Orderly, RefreshSteps
  <2> QED
    BY <1>1, <1>3, <2>1, <2>2 DEF Orderly, RefreshSteps
<1> QED
  BY <1>4, <1>6, <1>7, <1>8, <1>9

\* The rotation: row and call have the new secret, the client not yet.
LEMMA RefreshWritesStep ==
  ASSUME IInv, [Next]_vars, NEW h \in Handlers, RefreshWrites(h)
  PROVE  TypeOK' /\ CallsOK' /\ HeldOK' /\ LoginsApart' /\ CapOK' /\ HonestOK'
<1> USE DEF IInv, TypeOK
<1> DEFINE s0 == handler[h].session
           next == minted[s0] + 1
<1>1. PICK now \in handler[h].now .. clock :
        /\ handler[h].pc = "refresh_write"
        /\ row' = [row EXCEPT ![s0].secret = next, ![s0].expired = FALSE, ![s0].seen = now]
        /\ handler' = [handler EXCEPT ![h].pc = "refresh_return", ![h].secret = next]
        /\ UNCHANGED <<status, clock, held, raced, reused>>
  BY DEF RefreshWrites
<1>2. /\ s0 \in SessionIds /\ Created(s0) /\ held[s0] # 0
      /\ handler[h] \in Call /\ next \in Nat /\ next # 0
  BY <1>1 DEF CallsOK, CallOK, RefreshSteps
<1>3. /\ handler'[h].pc = "refresh_return" /\ handler'[h].session = s0
      /\ handler'[h].secret = next
      /\ \A g \in Handlers : g # h => handler'[g] = handler[g]
      /\ handler' \in [Handlers -> Call]
  <2>1. handler' = [handler EXCEPT ![h] = [handler[h] EXCEPT !.pc = "refresh_return",
                                                            !.secret = next]]
    BY <1>1
  <2>2. [handler[h] EXCEPT !.pc = "refresh_return", !.secret = next] \in Call
    BY <1>2 DEF Call, Steps
  <2> QED
    BY <1>2, <2>1, <2>2 DEF Call
<1>4. row'[s0].secret = next /\ \A s \in SessionIds : s # s0 => row'[s] = row[s]
  BY <1>1, <1>2 DEF SessionRow
<1>5. TypeOK'
  BY <1>1, <1>3, TypeStep
<1>6. row'[s0].state # "free"
  BY <1>2, LiveShrinks DEF Created
<1>7. CallOK(h)'
  BY <1>1, <1>2, <1>3, <1>6 DEF CallOK, LoginSteps, Created
<1>8. CallsOK'
  BY <1>1, <1>3, <1>7, CallsKept
<1>9. HeldOK' /\ LoginsApart'
  BY <1>1, <1>3, LiveShrinks DEF HeldOK, LoginsApart, LoginSteps
<1>10. CapOK'
  BY <1>1, <1>3, CapKept DEF Counted
<1>11. HonestOK'
  <2> SUFFICES ASSUME NEW s \in SessionIds, s \notin raced
               PROVE  Orderly(s)'
    BY <1>1 DEF HonestOK
  <2>1. Orderly(s)
    BY DEF HonestOK
  <2>2. CASE s # s0
    <3>1. row'[s] = row[s] /\ held'[s] = held[s]
      BY <1>1, <1>4, <2>2
    <3>2. \A g \in Handlers :
            /\ handler'[g].session = handler[g].session
            /\ handler[g].session = s => handler'[g] = handler[g]
      BY <1>3, <2>2
    <3> HIDE DEF IInv, TypeOK
    <3> QED
      BY <2>1, <3>1, <3>2 DEF Orderly, RefreshSteps
  <2>3. CASE s = s0
    <3>1. \A g \in Handlers : handler[g].session = s /\ handler[g].pc \in RefreshSteps => g = h
      BY <1>1, <2>1, <2>3 DEF Orderly, RefreshSteps
    <3>2. /\ handler'[h].session = s /\ handler'[h].pc = "refresh_return"
          /\ handler'[h].secret = row'[s].secret
          /\ \A g \in Handlers : g # h => handler'[g] = handler[g]
      BY <1>3, <1>4, <2>3
    <3>3. \A g \in Handlers : handler[g].session = s => handler[g].pc # "reuse_revoke"
      BY <2>1 DEF Orderly
    <3> HIDE DEF IInv, TypeOK
    <3> QED
      BY <3>1, <3>2, <3>3 DEF Orderly, RefreshSteps
  <2> QED
    BY <2>2, <2>3
<1> QED
  BY <1>5, <1>8, <1>9, <1>10, <1>11

\* The answer of a refresh.
LEMMA RefreshReturnsStep ==
  ASSUME IInv, [Next]_vars, NEW h \in Handlers, RefreshReturns(h)
  PROVE  TypeOK' /\ CallsOK' /\ HeldOK' /\ LoginsApart' /\ CapOK' /\ HonestOK'
<1> USE DEF IInv, TypeOK
<1> DEFINE s0 == handler[h].session
<1>1. /\ handler[h].pc = "refresh_return"
      /\ held' = [held EXCEPT ![s0] = handler[h].secret]
      /\ handler' = [handler EXCEPT ![h] = Idle]
      /\ UNCHANGED <<row, status, clock, minted, revived, raced, reused>>
  BY DEF RefreshReturns, End
<1>2. /\ handler'[h].pc = "idle"
      /\ \A g \in Handlers : g # h => handler'[g] = handler[g]
      /\ handler' \in [Handlers -> Call]
  BY <1>1 DEF Idle, Call, Steps
<1>3. /\ s0 \in SessionIds /\ held[s0] # 0 /\ handler[h].secret # 0
      /\ handler[h].secret \in Nat
  BY <1>1 DEF CallsOK, CallOK, RefreshSteps, Call
<1>4. TypeOK'
  <2>1. held' \in [SessionIds -> Nat]
    BY <1>1, <1>3
  <2> QED
    BY <1>2, <2>1, TypeStep
<1>5. CallOK(h)'
  BY <1>2 DEF CallOK, LoginSteps, RefreshSteps
<1>6. CallsOK'
  <2>1. \A g \in Handlers : handler[g].pc \in LoginSteps => handler[g].session # s0
    BY <1>3 DEF CallsOK, CallOK
  <2> QED
    BY <1>1, <1>2, <1>3, <1>5, <2>1, CallsKept
<1>7. HeldOK'
  BY <1>1, <1>3 DEF HeldOK, Created
<1>8. LoginsApart'
  BY <1>1, <1>2 DEF LoginsApart, LoginSteps
<1>9. CapOK'
  <2>1. Delivered' = Delivered
    BY <1>1, <1>3 DEF Delivered
  <2>2. \A s \in SessionIds : (Live(s)' <=> Live(s)) /\ (Created(s)' <=> Created(s))
    BY <1>1 DEF Live, Active, Created
  <2>3. \A g \in Handlers :
          Counted(g)' => handler'[g] = handler[g] /\ Counted(g) /\ CountOK(g)
    BY <1>2 DEF Counted, CapOK, CountsOK
  <2>4. \A g \in Handlers :
          /\ handler[g].found \subseteq SessionIds
          /\ Counted(g) => handler[g].session \in SessionIds
    BY DEF Call, Counted, CallsOK, CallOK, LoginSteps
  <2>5. CountsOK' /\ CountsOrdered'
    BY <2>2, <2>3, <2>4 DEF CountsOK, CountOK, CountsOrdered, SeenBy, CapOK
  <2>6. PICK K \in SUBSET SessionIds : Bounds(K)
    BY DEF CapOK
  <2>7. Bounds(K)'
    BY <2>1, <2>2, <2>3, <2>4, <2>6 DEF Bounds, SeenBy, Delivered
  <2> QED
    BY <2>5, <2>7 DEF CapOK
<1>10. HonestOK'
  <2> SUFFICES ASSUME NEW s \in SessionIds, s \notin raced
               PROVE  Orderly(s)'
    BY <1>1 DEF HonestOK
  <2>1. Orderly(s)
    BY DEF HonestOK
  <2>2. CASE s = s0
    BY <1>1, <1>2, <1>3, <2>1, <2>2 DEF Orderly, RefreshSteps
  <2>3. CASE s # s0
    <3>1. held'[s] = held[s] /\ row'[s].secret = row[s].secret
      BY <1>1, <2>3
    <3> QED
      BY <1>1, <1>2, <2>1, <2>3, <3>1 DEF Orderly, RefreshSteps
  <2> QED
    BY <2>2, <2>3
<1> QED
  BY <1>4, <1>6, <1>7, <1>8, <1>9, <1>10

----------------------------------------------------------------------------
\* A quiet step keeps the types too.
LEMMA QuietTypes ==
  ASSUME IInv, [Next]_vars, Quiet
  PROVE  TypeOK'
BY TypeStep DEF Quiet, IInv, TypeOK

\* The invariant is inductive.
LEMMA NextIInv == IInv /\ [Next]_vars => IInv'
<1> SUFFICES ASSUME IInv, [Next]_vars
             PROVE  IInv'
  OBVIOUS
<1>1. CASE Quiet
  BY <1>1, QuietStep, QuietTypes DEF IInv
<1>2. ASSUME NEW h \in Handlers, Proceed(h)
      PROVE  IInv'
  <2>1. CASE LogoutWrites(h) \/ RevokesAll(h) \/ Abandon(h) \/ ReuseRevokes(h)
    BY <1>1, <2>1, QuietActions
  <2>2. CASE LoginCreates(h)
    BY <2>2, LoginCreatesStep DEF IInv
  <2>3. CASE LoginFinds(h)
    BY <2>3, LoginFindsStep DEF IInv
  <2>4. CASE LoginRevokes(h)
    BY <2>4, LoginRevokesStep DEF IInv
  <2>5. CASE LoginReturns(h)
    BY <2>5, LoginReturnsStep DEF IInv
  <2>6. CASE RefreshReads(h)
    BY <1>1, <2>6, QuietActions, RefreshReadsStep DEF IInv
  <2>7. CASE RefreshWrites(h)
    BY <2>7, RefreshWritesStep DEF IInv
  <2>8. CASE RefreshReturns(h)
    BY <2>8, RefreshReturnsStep DEF IInv
  <2> QED
    BY <1>2, <2>1, <2>2, <2>3, <2>4, <2>5, <2>6, <2>7, <2>8 DEF Proceed
<1>3. ASSUME NEW h \in Handlers, Arrive(h)
      PROVE  IInv'
  <2>1. CASE \/ Login(h) \/ NewPassword(h) \/ Suspend(h)
             \/ \E s \in SessionIds : Logout(h, s)
    BY <1>1, <2>1, QuietActions
  <2>2. CASE \E s \in SessionIds : Refresh(h, s)
    BY <2>2, RefreshStep DEF IInv
  <2> QED
    BY <1>3, <2>1, <2>2 DEF Arrive
<1>4. CASE \E s \in SessionIds : Expire(s)
  BY <1>1, <1>4, QuietActions
<1>5. CASE UNCHANGED vars \/ Tick \/ Restore \/ RevokeAll
  BY <1>1, <1>5, QuietActions
<1> QED
  BY <1>2, <1>3, <1>4, <1>5 DEF Next

\* In every run of every instance the invariant holds.
THEOREM Invariance == Spec => []IInv
BY InitIInv, NextIInv, PTL DEF Spec

\* The sessions, the calls in flight and the client's storage keep their types:
\* in particular every session row has the hash of a secret.
THEOREM TypeCorrect == Spec => []TypeOK
<1>1. IInv => TypeOK
  BY DEF IInv
<1> QED
  BY <1>1, Invariance, PTL

\* maxDevices bounds the devices a member is signed in on, however many logins
\* count, revoke, crash and return at once.
THEOREM CapHolds == Spec => []DeviceCap
<1>1. IInv => DeviceCap
  <2> SUFFICES ASSUME IInv
               PROVE  DeviceCap
    OBVIOUS
  <2> DEFINE D == {s \in Delivered : Active(s)} \ revived
  <2>1. PICK K \in SUBSET SessionIds : Bounds(K)
    BY DEF IInv, CapOK
  <2>2. D \subseteq K
    BY <2>1 DEF Bounds, Live
  <2>3. IsFiniteSet(K) /\ Cardinality(K) \in Nat
    BY FS_Subset, FS_CardinalityType, SessionsAreFinite
  <2>4. IsFiniteSet(D) /\ Cardinality(D) <= Cardinality(K)
    BY <2>2, <2>3, FS_Subset
  <2>5. Cardinality(D) \in Nat /\ Cardinality(K) <= MaxDevices
    BY <2>1, <2>4, FS_CardinalityType DEF Bounds
  <2> HIDE DEF D
  <2>6. Cardinality(D) <= MaxDevices
    BY <2>3, <2>4, <2>5, BoundsAreNaturals
  <2> QED
    BY <2>6 DEF DeviceCap, D
<1> QED
  BY <1>1, Invariance, PTL

\* A client that refreshes one at a time and loses no answer never has its
\* session revoked for reuse.
THEOREM HonestKept == Spec => []HonestClientStays
<1>1. IInv => HonestClientStays
  BY DEF IInv, HonestOK, HonestClientStays
<1> QED
  BY <1>1, Invariance, PTL

\* No statement of any call takes a revocation back.
LEMMA RevokedStays ==
  ASSUME IInv, [Next]_vars, NEW s \in SessionIds, row[s].state = "revoked"
  PROVE  row'[s].state = "revoked"
<1> USE DEF IInv, TypeOK
<1>1. ASSUME NEW S, row' = Revoked(S)
      PROVE  row'[s].state = "revoked"
  BY <1>1 DEF Revoked, SessionRow
<1>2. ASSUME NEW t \in SessionIds, Expire(t)
      PROVE  row'[s].state = "revoked"
  BY <1>2 DEF Expire, Active
<1>3. ASSUME NEW h \in Handlers, LoginCreates(h)
      PROVE  row'[s].state = "revoked"
  BY <1>3 DEF LoginCreates
<1>4. ASSUME NEW h \in Handlers, RefreshWrites(h)
      PROVE  row'[s].state = "revoked"
  <2>1. handler[h].session \in SessionIds
    BY <1>4 DEF RefreshWrites, CallsOK, CallOK, RefreshSteps
  <2> QED
    BY <1>4, <2>1 DEF RefreshWrites, SessionRow
<1>5. ASSUME NEW h \in Handlers,
             \/ Arrive(h) \/ Abandon(h) \/ LoginFinds(h) \/ LoginReturns(h)
             \/ RefreshReads(h) \/ RefreshReturns(h)
      PROVE  UNCHANGED row
  BY <1>5 DEF Arrive, Login, NewPassword, Suspend, Refresh, Logout, Abandon, LoginFinds,
     LoginReturns, RefreshReads, RefreshReturns
<1>6. CASE UNCHANGED vars \/ Restore \/ Tick
  BY <1>6 DEF vars, Restore, Tick
<1>7. ASSUME NEW h \in Handlers,
             LoginRevokes(h) \/ LogoutWrites(h) \/ ReuseRevokes(h) \/ RevokesAll(h)
      PROVE  \E S : row' = Revoked(S)
  BY <1>7 DEF LoginRevokes, LogoutWrites, ReuseRevokes, RevokesAll
<1>8. CASE RevokeAll
  BY <1>1, <1>8 DEF RevokeAll
<1> QED
  BY <1>1, <1>2, <1>3, <1>4, <1>5, <1>6, <1>7, <1>8 DEF Next, Proceed

\* A revoked session stays revoked, whatever was read before the revocation.
THEOREM RevocationHolds == Spec => RevocationIsFinal
<1>1. IInv /\ [Next]_vars =>
        [\A s \in SessionIds : row[s].state = "revoked" => row'[s].state = "revoked"]_vars
  BY RevokedStays
<1> QED
  BY <1>1, Invariance, PTL DEF Spec, RevocationIsFinal
=============================================================================
