--------------------------- MODULE MembersProofs ---------------------------
(***************************************************************************)
(* Proofs about what members and visitors act on: rate limits, reviews,    *)
(* live sessions, locations, discovery rooms and the catalogue, for any    *)
(* number of rows and of calls in flight.  OperatorsProofs is extended for *)
(* its lemmas about numbered rows.                                         *)
(***************************************************************************)
EXTENDS OperatorsProofs, RateLimit, Reviews, Live, Location, Rooms, Catalogue,
        FiniteSetTheorems

-----------------------------------------------------------------------------
(* Rate limits. *)

\* Only the call that found the counter at zero may arm it, so at most one is arming,
\* and the window cannot end before it has.

\* The calls the window has let through, the one still arming it included.
Granted == admitted + (IF arming = {} THEN 0 ELSE 1)

\* What was granted was counted first.
GrantedCounted == Granted <= Limit /\ Granted <= counter.n

\* Whoever is arming the window is alone, and nobody has armed it.
ArmingAlone ==
  arming # {} => ~counter.ttl /\ \A r, s \in arming : r = s

\* A window nobody has called in has no end yet.
WindowOpens == counter.n = 0 => ~counter.ttl

\* A window that nobody arms was left by a stop.
WindowArmed == counter.n > 0 /\ ~counter.ttl => arming # {} \/ orphaned

RateIInv == RateTypeOK /\ GrantedCounted /\ ArmingAlone /\ WindowOpens /\ WindowArmed

LEMMA RateInitial == RateInit => RateIInv
<1> SUFFICES ASSUME RateInit PROVE RateIInv
  OBVIOUS
<1>1. counter.n = 0 /\ counter.ttl = FALSE /\ arming = {} /\ admitted = 0
  BY DEF RateInit
<1>2. RateTypeOK
  BY DEF RateInit, RateTypeOK
<1>3. GrantedCounted
  BY <1>1, RateLimitAssumption DEF GrantedCounted, Granted
<1>4. ArmingAlone /\ WindowOpens /\ WindowArmed
  BY <1>1 DEF ArmingAlone, WindowOpens, WindowArmed
<1> QED BY <1>2, <1>3, <1>4 DEF RateIInv

\* The first call of a window becomes the one that arms it; a later one adds itself to
\* those admitted only while fewer than Limit were counted before it.
LEMMA CountInductive == ASSUME RateIInv, NEW s \in Slots, Count(s) PROVE RateIInv'
<1> USE RateLimitAssumption
        DEF RateIInv, RateTypeOK, GrantedCounted, Granted, ArmingAlone, WindowOpens, WindowArmed
<1>1. /\ counter' = [counter EXCEPT !.n = @ + 1]
      /\ counter'.n = counter.n + 1 /\ counter'.ttl = counter.ttl
      /\ counter' \in [n: Nat, ttl: BOOLEAN]
      /\ orphaned' = orphaned
  BY DEF Count
<1>2. CASE counter.n = 0
  <2>1. admitted = 0 /\ arming = {} /\ ~counter.ttl
    BY <1>2
  <2>2. arming' = {s} /\ admitted' = 0
    BY <1>2, <2>1 DEF Count
  <2> QED BY <1>1, <1>2, <2>1, <2>2
<1>3. CASE counter.n # 0
  <2>1. arming' = arming /\ admitted' = IF counter.n < Limit THEN admitted + 1 ELSE admitted
    BY <1>3 DEF Count
  <2> QED BY <1>1, <1>3, <2>1
<1> QED BY <1>2, <1>3

LEMMA RateInductive == ASSUME RateIInv, [RateNext]_rateVars PROVE RateIInv'
<1> USE RateLimitAssumption
        DEF RateIInv, RateTypeOK, GrantedCounted, Granted, ArmingAlone, WindowOpens, WindowArmed
<1>1. ASSUME NEW s \in Slots, Count(s) PROVE RateIInv'
  BY <1>1, CountInductive
<1>2. ASSUME NEW s \in Slots, Arm(s) PROVE RateIInv'
  <2>1. arming = {s} /\ arming' = {}
    BY <1>2 DEF Arm
  <2>2. /\ counter'.n = counter.n /\ counter'.ttl = TRUE
        /\ counter' \in [n: Nat, ttl: BOOLEAN]
        /\ admitted' = admitted + 1 /\ orphaned' = orphaned
    BY <1>2 DEF Arm
  <2>3. counter.n # 0
    BY <2>1
  <2> QED BY <2>1, <2>2, <2>3
<1>3. ASSUME NEW s \in Slots, StopBeforeArming(s) PROVE RateIInv'
  <2>1. arming = {s} /\ arming' = {} /\ orphaned' = TRUE
    BY <1>3 DEF StopBeforeArming
  <2> QED BY <1>3, <2>1 DEF StopBeforeArming
<1>4. CASE WindowEnds
  <2>1. arming = {} /\ arming' = {}
    BY <1>4 DEF WindowEnds
  <2> QED BY <1>4, <2>1 DEF WindowEnds
<1>5. CASE UNCHANGED rateVars
  BY <1>5 DEF rateVars
<1> QED BY <1>1, <1>2, <1>3, <1>4, <1>5 DEF RateNext

(* Every reachable state of the counter is well typed. *)
THEOREM RateTypeCorrect == RateSpec => []RateTypeOK
<1>1. RateIInv => RateTypeOK
  BY DEF RateIInv
<1> QED BY RateInitial, RateInductive, <1>1, PTL DEF RateSpec

(* Whatever the limit and however many calls overlap, a window lets through no *)
(* more than the limit, and it ends unless a process stopped between INCR and  *)
(* EXPIRE (redis.service.ts:26-31).                                            *)
THEOREM WindowsHold == RateSpec => []WindowHolds
<1>1. RateIInv => WindowHolds
  BY RateLimitAssumption
     DEF RateIInv, RateTypeOK, GrantedCounted, Granted, WindowArmed, WindowHolds
<1> QED BY RateInitial, RateInductive, <1>1, PTL DEF RateSpec

-----------------------------------------------------------------------------
(* Reviews. *)

\* A recomputation that counted too early is harmless as long as another call is still
\* to count.

\* A call that is still to count the reviews, or to store what it counted.
Recounting(s) == ReviewAt(s, "aggregate") \/ ReviewAt(s, "upsert")

\* What was counted exists: reviews are never removed.
CountedExist ==
  /\ aggregate \subseteq reviews
  /\ \A s \in Slots : reviewCalls[s].found \subseteq reviews

\* What a call is about to store is current, or another call recounts after it.
StoresCurrent ==
  \A s \in Slots :
    ReviewAt(s, "upsert") =>
      \/ reviewCalls[s].found = reviews
      \/ reviewLost
      \/ \E r \in Slots \ {s} : Recounting(r)

ReviewIInv == ReviewTypeOK /\ CountedExist /\ StoresCurrent /\ AggregateCatchesUp

LEMMA ReviewInitial == ReviewInit => ReviewIInv
<1> SUFFICES ASSUME ReviewInit PROVE ReviewIInv
  OBVIOUS
<1>1. ReviewIdle \in ReviewCall
  BY DEF ReviewIdle, ReviewCall
<1>2. ReviewTypeOK
  BY <1>1 DEF ReviewInit, ReviewTypeOK
<1>3. CountedExist /\ StoresCurrent /\ AggregateCatchesUp
  BY DEF ReviewInit, ReviewIdle, CountedExist, StoresCurrent, AggregateCatchesUp, ReviewAt
<1> QED BY <1>2, <1>3 DEF ReviewIInv

LEMMA ReviewTypeInductive ==
  ASSUME ReviewTypeOK, [ReviewNext]_reviewVars PROVE ReviewTypeOK'
<1> USE DEF ReviewTypeOK, ReviewCall, ReviewIdle, ReviewAt, ReviewEnter
<1>1. ASSUME NEW s \in Slots, NEW author \in Authors, CreateReview(s, author)
      PROVE ReviewTypeOK'
  BY <1>1 DEF CreateReview
<1>2. ASSUME NEW s \in Slots, InsertReview(s) PROVE ReviewTypeOK'
  BY <1>2 DEF InsertReview
<1>3. ASSUME NEW s \in Slots, CountReviews(s) PROVE ReviewTypeOK'
  BY <1>3 DEF CountReviews
<1>4. ASSUME NEW s \in Slots, UpsertAggregate(s) PROVE ReviewTypeOK'
  BY <1>4 DEF UpsertAggregate
<1>5. ASSUME NEW s \in Slots, AbandonReview(s) PROVE ReviewTypeOK'
  BY <1>5 DEF AbandonReview
<1>6. CASE UNCHANGED reviewVars
  BY <1>6 DEF reviewVars
<1> QED BY <1>1, <1>2, <1>3, <1>4, <1>5, <1>6 DEF ReviewNext

\* Only the call that takes the step changes its slot.
LEMMA OthersStay ==
  ASSUME NEW s \in Slots, NEW call, ReviewEnter(s, call), ReviewTypeOK
  PROVE  /\ reviewCalls'[s] = call
         /\ \A r \in Slots \ {s} : reviewCalls'[r] = reviewCalls[r]
BY DEF ReviewEnter, ReviewTypeOK

LEMMA ReviewInductive == ASSUME ReviewIInv, [ReviewNext]_reviewVars PROVE ReviewIInv'
<1>0. ReviewTypeOK /\ ReviewTypeOK'
  BY ReviewTypeInductive DEF ReviewIInv
<1> USE DEF CountedExist, StoresCurrent, AggregateCatchesUp, Recounting, ReviewAt
<1>1. ASSUME NEW s \in Slots, NEW author \in Authors, CreateReview(s, author)
      PROVE ReviewIInv'
  <2>1. /\ reviewCalls'[s] = [step |-> "create", by |-> {author}, found |-> {}]
        /\ \A r \in Slots \ {s} : reviewCalls'[r] = reviewCalls[r]
    BY <1>0, <1>1, OthersStay DEF CreateReview
  <2>2. reviewCalls[s].step = "idle" /\ UNCHANGED <<reviews, aggregate, reviewLost>>
    BY <1>1 DEF CreateReview
  <2> QED BY <1>0, <2>1, <2>2 DEF ReviewIInv
<1>2. ASSUME NEW s \in Slots, InsertReview(s) PROVE ReviewIInv'
  <2>1. reviewCalls[s].step = "create" /\ UNCHANGED <<aggregate, reviewLost>>
    BY <1>2 DEF InsertReview
  <2>2. CASE reviewCalls[s].by \subseteq reviews
    <3>1. UNCHANGED reviews /\ ReviewEnter(s, ReviewIdle)
      BY <1>2, <2>2 DEF InsertReview
    <3>2. /\ reviewCalls'[s] = ReviewIdle
          /\ \A r \in Slots \ {s} : reviewCalls'[r] = reviewCalls[r]
      BY <1>0, <3>1, OthersStay
    <3> QED BY <1>0, <2>1, <3>1, <3>2 DEF ReviewIInv, ReviewIdle
  <2>3. CASE ~(reviewCalls[s].by \subseteq reviews)
    <3>1. /\ reviews \subseteq reviews'
          /\ ReviewEnter(s, [reviewCalls[s] EXCEPT !.step = "aggregate"])
      BY <1>2, <2>3 DEF InsertReview
    <3>2. /\ reviewCalls'[s] = [reviewCalls[s] EXCEPT !.step = "aggregate"]
          /\ \A r \in Slots \ {s} : reviewCalls'[r] = reviewCalls[r]
      BY <1>0, <3>1, OthersStay
    <3>3. reviewCalls'[s].step = "aggregate" /\ reviewCalls'[s].found = reviewCalls[s].found
      BY <1>0, <3>2 DEF ReviewTypeOK, ReviewCall
    <3> QED BY <1>0, <2>1, <3>1, <3>2, <3>3 DEF ReviewIInv
  <2> QED BY <2>2, <2>3
<1>3. ASSUME NEW s \in Slots, CountReviews(s) PROVE ReviewIInv'
  <2>1. /\ reviewCalls[s].step = "aggregate" /\ UNCHANGED <<reviews, aggregate, reviewLost>>
        /\ ReviewEnter(s, [reviewCalls[s] EXCEPT !.step = "upsert", !.found = reviews])
    BY <1>3 DEF CountReviews
  <2>2. /\ reviewCalls'[s] = [reviewCalls[s] EXCEPT !.step = "upsert", !.found = reviews]
        /\ \A r \in Slots \ {s} : reviewCalls'[r] = reviewCalls[r]
    BY <1>0, <2>1, OthersStay
  <2>3. reviewCalls'[s].step = "upsert" /\ reviewCalls'[s].found = reviews
    BY <1>0, <2>2 DEF ReviewTypeOK, ReviewCall
  <2> QED BY <1>0, <2>1, <2>2, <2>3 DEF ReviewIInv
<1>4. ASSUME NEW s \in Slots, UpsertAggregate(s) PROVE ReviewIInv'
  <2>1. /\ reviewCalls[s].step = "upsert" /\ UNCHANGED reviews
        /\ aggregate' = reviewCalls[s].found
        /\ reviewLost \/ (\E r \in Slots \ {s} : reviewCalls[r].step = "upsert") => reviewLost'
    BY <1>4 DEF UpsertAggregate
  <2>2. /\ reviewCalls'[s] = ReviewIdle
        /\ \A r \in Slots \ {s} : reviewCalls'[r] = reviewCalls[r]
    BY <1>0, <1>4, OthersStay DEF UpsertAggregate
  <2>3. CountedExist'
    BY <2>1, <2>2 DEF ReviewIInv, ReviewIdle
  <2>4. StoresCurrent'
    <3>1. \A r \in Slots : reviewCalls'[r].step = "upsert" => r # s /\ reviewLost'
      BY <2>1, <2>2 DEF ReviewIdle
    <3> QED BY <3>1
  <2>5. AggregateCatchesUp'
    BY <2>1, <2>2, <2>3 DEF ReviewIInv
  <2> QED BY <1>0, <2>3, <2>4, <2>5 DEF ReviewIInv
<1>5. ASSUME NEW s \in Slots, AbandonReview(s) PROVE ReviewIInv'
  <2>1. /\ reviewCalls[s].step # "idle" /\ UNCHANGED <<reviews, aggregate>>
        /\ reviewLost \/ reviewCalls[s].step # "create" => reviewLost'
    BY <1>5 DEF AbandonReview
  <2>2. /\ reviewCalls'[s] = ReviewIdle
        /\ \A r \in Slots \ {s} : reviewCalls'[r] = reviewCalls[r]
    BY <1>0, <1>5, OthersStay DEF AbandonReview
  <2> QED BY <1>0, <2>1, <2>2 DEF ReviewIInv, ReviewIdle
<1>6. CASE UNCHANGED reviewVars
  BY <1>6 DEF ReviewIInv, ReviewTypeOK, reviewVars
<1> QED BY <1>1, <1>2, <1>3, <1>4, <1>5, <1>6 DEF ReviewNext

(* Every reachable state of the reviews is well typed. *)
THEOREM ReviewTypeCorrect == ReviewSpec => []ReviewTypeOK
<1>1. ReviewIInv => ReviewTypeOK
  BY DEF ReviewIInv
<1> QED BY ReviewInitial, ReviewInductive, <1>1, PTL DEF ReviewSpec

(* For any authors and any number of calls, the aggregate counts every review  *)
(* that no call is still to count, unless two recomputations crossed or one    *)
(* never ran (reviews.service.ts:113-135).                                     *)
THEOREM AggregateHolds == ReviewSpec => []AggregateCatchesUp
<1>1. ReviewIInv => AggregateCatchesUp
  BY DEF ReviewIInv
<1> QED BY ReviewInitial, ReviewInductive, <1>1, PTL DEF ReviewSpec

-----------------------------------------------------------------------------
(* Live. *)

\* What a call in flight relies on: the session it found exists, what it was told of
\* the connection is true unless that changed, and what it has shown was shown rightly.
LiveSound(call) ==
  /\ call.step \in {"check", "end"} => call.row \in DOMAIN lives
  /\ call.step \in {"list", "pins", "pinStories"} /\ ~call.changed => call.patron = patron
  /\ call.step = "pinStories" /\ ~call.changed => call.entitled
LiveCallsSound == \A s \in Slots : LiveSound(liveCalls[s])

\* Whoever may see a row now has been entitled to it.
MetWhenVisible ==
  /\ \A i \in DOMAIN lives : VisibleTo(lives[i].audience, patron) => lives[i].met
  /\ \A i \in DOMAIN posts : VisibleTo(posts[i].audience, patron) => posts[i].met

\* A start has ended what was live, and nobody has gone live since.
StartsFindNone == \A s \in Slots : LiveAt(s, "start") => OnAir = {}

LiveIInv ==
  /\ LiveTypeOK /\ LiveCallsSound /\ MetWhenVisible
  /\ startsCrossed \/ StartsFindNone
  /\ LivesAreShown

LEMMA LiveIdleFits ==
  /\ LiveIdle \in LiveCall /\ LiveSound(LiveIdle) /\ LiveIdle.step = "idle"
BY DEF LiveIdle, LiveCall, LiveSteps, ViewerSteps, Audiences, LiveSound

LEMMA LiveInitial == LiveInit => LiveIInv
<1> SUFFICES ASSUME LiveInit PROVE LiveIInv
  OBVIOUS
<1>1. LiveTypeOK
  <2>1. lives \in Seq(LiveRow) /\ posts \in Seq(Post)
    BY DEF LiveInit
  <2> QED BY <2>1, LiveIdleFits DEF LiveInit, LiveTypeOK
<1>2. LiveCallsSound /\ MetWhenVisible /\ StartsFindNone
  BY LiveIdleFits DEF LiveInit, LiveCallsSound, MetWhenVisible, StartsFindNone, LiveAt
<1>3. LivesAreShown
  BY DEF LiveInit, LivesAreShown, OneOnAir, ShownToPatrons, OnAir
<1> QED BY <1>1, <1>2, <1>3 DEF LiveIInv

\* Only the call that takes the step changes its slot.
LEMMA LiveEntered ==
  ASSUME NEW s \in Slots, NEW call \in LiveCall, LiveEnter(s, call), LiveTypeOK
  PROVE  /\ liveCalls' \in [Slots -> LiveCall] /\ liveCalls'[s] = call
         /\ \A r \in Slots \ {s} : liveCalls'[r] = liveCalls[r]
BY DEF LiveEnter, LiveTypeOK

\* A step that only moves a call, to where what it relies on is true.
LEMMA LiveQuiet ==
  ASSUME LiveIInv, NEW s \in Slots, NEW call \in LiveCall, LiveEnter(s, call),
         LiveSound(call), call.step # "start",
         UNCHANGED <<lives, posts, patron, leaks, startsCrossed>>
  PROVE  LiveIInv'
<1>1. /\ liveCalls' \in [Slots -> LiveCall] /\ liveCalls'[s] = call
      /\ \A r \in Slots \ {s} : liveCalls'[r] = liveCalls[r]
  BY LiveEntered DEF LiveIInv
<1>2. LiveTypeOK'
  BY <1>1 DEF LiveIInv, LiveTypeOK
<1>3. LiveCallsSound'
  BY <1>1 DEF LiveIInv, LiveCallsSound, LiveSound
<1>4. MetWhenVisible' /\ LivesAreShown'
  BY DEF LiveIInv, MetWhenVisible, LivesAreShown, OneOnAir, ShownToPatrons, OnAir
<1>5. startsCrossed' \/ StartsFindNone'
  BY <1>1 DEF LiveIInv, StartsFindNone, LiveAt, OnAir
<1> QED BY <1>2, <1>3, <1>4, <1>5 DEF LiveIInv

\* The session that started last is there.
LEMMA LatestOnAir ==
  ASSUME LiveTypeOK, OnAir # {} PROVE Latest \in OnAir /\ OnAir \subseteq DOMAIN lives
<1>1. OnAir \in SUBSET (1 .. Len(lives)) /\ Len(lives) \in Nat
  BY LenProperties DEF LiveTypeOK, OnAir
<1>2. \E i \in OnAir : \A j \in OnAir : j <= i
  BY <1>1, LastRow
<1> QED BY <1>2 DEF Latest, OnAir

\* What Cut makes of the sessions: those of rows are off the air, nothing else changes.
LEMMA CutRows ==
  ASSUME LiveTypeOK, NEW rows
  PROVE  /\ Cut(rows) \in Seq(LiveRow) /\ DOMAIN Cut(rows) = DOMAIN lives
         /\ \A i \in DOMAIN lives :
              /\ Cut(rows)[i].audience = lives[i].audience /\ Cut(rows)[i].met = lives[i].met
              /\ Cut(rows)[i].live <=> lives[i].live /\ i \notin rows
<1> DEFINE cut(i) == [lives[i] EXCEPT !.live = lives[i].live /\ i \notin rows]
<1>1. \A i \in DOMAIN lives : lives[i] \in LiveRow
  BY DEF LiveTypeOK
<1>2. \A i \in DOMAIN lives :
        /\ cut(i) \in LiveRow
        /\ cut(i).audience = lives[i].audience /\ cut(i).met = lives[i].met
        /\ cut(i).live <=> lives[i].live /\ i \notin rows
  BY <1>1 DEF LiveRow
<1>3. Cut(rows) = [i \in DOMAIN lives |-> cut(i)]
  BY DEF Cut
<1> HIDE DEF cut
<1>4. [i \in DOMAIN lives |-> cut(i)] \in [DOMAIN lives -> LiveRow]
  BY <1>2
<1>5. Cut(rows) \in Seq(LiveRow) /\ DOMAIN Cut(rows) = DOMAIN lives
  BY <1>3, <1>4, RowsMapped DEF LiveTypeOK
<1> QED BY <1>2, <1>3, <1>5

\* Sessions that go off the air, or age, entitle to what they did.
LEMMA LivesFade ==
  ASSUME LiveIInv, UNCHANGED <<posts, patron, leaks>>, lives' \in Seq(LiveRow),
         DOMAIN lives' = DOMAIN lives,
         \A i \in DOMAIN lives : /\ lives'[i].audience = lives[i].audience
                                 /\ lives'[i].met = lives[i].met
                                 /\ lives'[i].live => lives[i].live
  PROVE  /\ OnAir' \subseteq OnAir /\ MetWhenVisible' /\ ShownToPatrons'
         /\ startsCrossed \/ \A i, j \in OnAir' : i = j
         /\ lives' \in Seq(LiveRow) /\ posts' \in Seq(Post) /\ patron' \in BOOLEAN /\ leaks' \subseteq Leak
<1>1. OnAir' \subseteq OnAir
  BY DEF OnAir
<1>2. MetWhenVisible' /\ ShownToPatrons'
  BY DEF LiveIInv, MetWhenVisible, LivesAreShown, ShownToPatrons, VisibleTo
<1>3. startsCrossed \/ \A i, j \in OnAir' : i = j
  BY <1>1 DEF LiveIInv, LivesAreShown, OneOnAir
<1> QED BY <1>1, <1>2, <1>3 DEF LiveIInv, LiveTypeOK

LEMMA LiveOwnerInductive ==
  ASSUME LiveIInv, NEW s \in Slots,
         \/ \E audience \in Audiences : StartLive(s, audience)
         \/ RetireLives(s) \/ CreateLive(s) \/ FindLive(s) \/ EndLive(s)
  PROVE  LiveIInv'
<1>0. /\ LiveTypeOK /\ liveCalls[s] \in LiveCall /\ liveCalls \in [Slots -> LiveCall]
      /\ LiveCallsSound /\ MetWhenVisible /\ startsCrossed \in BOOLEAN
  BY DEF LiveIInv, LiveTypeOK
<1>1. ASSUME NEW audience \in Audiences, StartLive(s, audience) PROVE LiveIInv'
  <2> DEFINE call == [LiveIdle EXCEPT !.step = "retire", !.audience = audience]
  <2>1. call \in LiveCall /\ LiveSound(call) /\ call.step # "start"
    BY DEF LiveIdle, LiveCall, LiveSteps, ViewerSteps, Audiences, LiveSound
  <2>2. LiveEnter(s, call) /\ UNCHANGED <<lives, posts, patron, leaks, startsCrossed>>
    BY <1>1 DEF StartLive
  <2> HIDE DEF call
  <2> QED BY <2>1, <2>2, LiveQuiet
<1>2. ASSUME RetireLives(s) PROVE LiveIInv'
  <2> DEFINE call == [liveCalls[s] EXCEPT !.step = "start"]
  <2>1. call \in LiveCall /\ call.step = "start"
    BY <1>0 DEF LiveCall, LiveSteps
  <2>2. /\ LiveEnter(s, call) /\ UNCHANGED <<posts, patron, leaks, startsCrossed>>
        /\ lives' = Cut(OnAir)
    BY <1>2 DEF RetireLives
  <2> HIDE DEF call
  <2>3. /\ liveCalls' \in [Slots -> LiveCall] /\ liveCalls'[s] = call
        /\ \A r \in Slots \ {s} : liveCalls'[r] = liveCalls[r]
    BY <1>0, <2>1, <2>2, LiveEntered
  <2>4. /\ lives' \in Seq(LiveRow) /\ DOMAIN lives' = DOMAIN lives
        /\ \A i \in DOMAIN lives : /\ lives'[i].audience = lives[i].audience
                                   /\ lives'[i].met = lives[i].met
                                   /\ ~lives'[i].live
    BY <1>0, <2>2, CutRows DEF OnAir
  <2>5. OnAir' = {}
    BY <2>4 DEF OnAir
  <2>6. LiveTypeOK' /\ MetWhenVisible' /\ ShownToPatrons'
    BY <1>0, <2>2, <2>3, <2>4, LivesFade DEF LiveTypeOK
  <2>7. LiveCallsSound'
    BY <1>0, <2>1, <2>2, <2>3, <2>4 DEF LiveCallsSound, LiveSound
  <2>8. StartsFindNone' /\ OneOnAir'
    BY <2>5 DEF StartsFindNone, OneOnAir
  <2> QED BY <2>6, <2>7, <2>8 DEF LiveIInv, LivesAreShown
<1>3. ASSUME CreateLive(s) PROVE LiveIInv'
  <2> DEFINE row == [audience |-> liveCalls[s].audience, live |-> TRUE, recent |-> TRUE,
                     met |-> VisibleTo(liveCalls[s].audience, patron)]
  <2>1. /\ row \in LiveRow
        /\ VisibleTo(row.audience, patron) => row.met
    <3>1. liveCalls[s].audience \in Audiences /\ patron \in BOOLEAN
      BY <1>0 DEF LiveCall, LiveTypeOK
    <3> QED BY <3>1 DEF LiveRow, VisibleTo
  <2>2. /\ liveCalls[s].step = "start" /\ lives' = Append(lives, row) /\ LiveEnter(s, LiveIdle)
        /\ startsCrossed \/ (\E r \in Slots \ {s} : liveCalls[r].step = "start") => startsCrossed'
        /\ startsCrossed' \in BOOLEAN /\ UNCHANGED <<posts, patron, leaks>>
    BY <1>0, <1>3 DEF CreateLive, LiveAt
  <2> HIDE DEF row
  <2>3. /\ liveCalls' \in [Slots -> LiveCall] /\ liveCalls'[s] = LiveIdle
        /\ \A r \in Slots \ {s} : liveCalls'[r] = liveCalls[r]
    BY <1>0, <2>2, LiveEntered, LiveIdleFits
  <2>4. lives \in Seq(LiveRow)
    BY <1>0 DEF LiveTypeOK
  <2>5. /\ lives' \in Seq(LiveRow) /\ Len(lives) \in Nat
        /\ DOMAIN lives = 1 .. Len(lives) /\ DOMAIN lives' = 1 .. (Len(lives) + 1)
        /\ lives'[Len(lives) + 1] = row /\ \A i \in DOMAIN lives : lives'[i] = lives[i]
    <3>1. row \in LiveRow
      BY <2>1
    <3>2. /\ Append(lives, row) \in Seq(LiveRow) /\ Len(lives) \in Nat
          /\ DOMAIN lives = 1 .. Len(lives) /\ DOMAIN Append(lives, row) = 1 .. (Len(lives) + 1)
          /\ Append(lives, row)[Len(lives) + 1] = row
          /\ \A i \in DOMAIN lives : Append(lives, row)[i] = lives[i]
      BY <2>4, <3>1, RowAdded
    <3> QED BY <2>2, <3>2
  <2>6. LiveTypeOK'
    BY <1>0, <2>2, <2>3, <2>5 DEF LiveTypeOK
  <2>7. LiveCallsSound'
    BY <1>0, <2>2, <2>3, <2>5, LiveIdleFits DEF LiveCallsSound, LiveSound
  <2>8. MetWhenVisible'
    BY <1>0, <2>1, <2>2, <2>5 DEF MetWhenVisible
  <2>9. startsCrossed' \/ (StartsFindNone' /\ \A i, j \in OnAir' : i = j)
    <3> SUFFICES ASSUME ~startsCrossed' PROVE StartsFindNone' /\ \A i, j \in OnAir' : i = j
      OBVIOUS
    <3>1. OnAir = {} /\ \A r \in Slots \ {s} : liveCalls[r].step # "start"
      BY <2>2 DEF LiveIInv, StartsFindNone, LiveAt
    <3>2. \A i \in OnAir' : i = Len(lives) + 1
      BY <2>5, <3>1 DEF OnAir
    <3>3. \A r \in Slots : liveCalls'[r].step # "start"
      BY <2>3, <3>1, LiveIdleFits
    <3> QED BY <3>2, <3>3 DEF StartsFindNone, LiveAt
  <2>10. ShownToPatrons'
    BY <2>2 DEF LiveIInv, LivesAreShown, ShownToPatrons
  <2> QED BY <2>6, <2>7, <2>8, <2>9, <2>10 DEF LiveIInv, LivesAreShown, OneOnAir
<1>4. ASSUME FindLive(s) PROVE LiveIInv'
  <2> DEFINE call == [LiveIdle EXCEPT !.step = "end", !.row = Latest]
  <2>1. Latest \in DOMAIN lives /\ DOMAIN lives \subseteq Nat
    BY <1>0, <1>4, LatestOnAir DEF FindLive, LiveTypeOK
  <2>2. call \in LiveCall /\ LiveSound(call) /\ call.step # "start"
    BY <2>1 DEF LiveIdle, LiveCall, LiveSteps, ViewerSteps, Audiences, LiveSound
  <2>3. LiveEnter(s, call) /\ UNCHANGED <<lives, posts, patron, leaks, startsCrossed>>
    BY <1>4 DEF FindLive
  <2> HIDE DEF call
  <2> QED BY <2>2, <2>3, LiveQuiet
<1>5. ASSUME EndLive(s) PROVE LiveIInv'
  <2>1. /\ LiveEnter(s, LiveIdle) /\ UNCHANGED <<posts, patron, leaks, startsCrossed>>
        /\ lives' = Cut({liveCalls[s].row})
    BY <1>5 DEF EndLive
  <2>2. /\ liveCalls' \in [Slots -> LiveCall] /\ liveCalls'[s] = LiveIdle
        /\ \A r \in Slots \ {s} : liveCalls'[r] = liveCalls[r]
    BY <1>0, <2>1, LiveEntered, LiveIdleFits
  <2>3. /\ lives' \in Seq(LiveRow) /\ DOMAIN lives' = DOMAIN lives
        /\ \A i \in DOMAIN lives : /\ lives'[i].audience = lives[i].audience
                                   /\ lives'[i].met = lives[i].met
                                   /\ lives'[i].live => lives[i].live
    BY <1>0, <2>1, CutRows
  <2>4. /\ OnAir' \subseteq OnAir /\ MetWhenVisible' /\ ShownToPatrons' /\ LiveTypeOK'
        /\ startsCrossed \/ \A i, j \in OnAir' : i = j
    BY <1>0, <2>1, <2>2, <2>3, LivesFade DEF LiveTypeOK
  <2>5. LiveCallsSound'
    BY <1>0, <2>1, <2>2, <2>3, LiveIdleFits DEF LiveCallsSound, LiveSound
  <2>6. startsCrossed' \/ StartsFindNone'
    BY <2>1, <2>2, <2>4, LiveIdleFits DEF LiveIInv, StartsFindNone, LiveAt
  <2> QED BY <2>1, <2>4, <2>5, <2>6 DEF LiveIInv, LivesAreShown, OneOnAir
<1> QED BY <1>1, <1>2, <1>3, <1>4, <1>5

LEMMA LiveViewerInductive ==
  ASSUME LiveIInv, NEW s \in Slots,
         \/ ForViewer(s) \/ CheckViewer(s)
         \/ \E step \in {"list", "pins"} : AskPatron(s, step)
         \/ ListForViewer(s) \/ PinLives(s) \/ PinStories(s) \/ AbandonLive(s)
  PROVE  LiveIInv'
<1>0. /\ LiveTypeOK /\ liveCalls[s] \in LiveCall /\ LiveSound(liveCalls[s])
      /\ MetWhenVisible /\ patron \in BOOLEAN
      /\ \A i \in DOMAIN lives : lives[i] \in LiveRow
      /\ \A i \in DOMAIN posts : posts[i] \in Post
  BY DEF LiveIInv, LiveTypeOK, LiveCallsSound
\* An answer that shows what nobody was entitled to came after a change.
<1>t. ASSUME NEW by \in {"live", "stories", "pins"}, NEW entitled, Tell(s, by, entitled),
             UNCHANGED <<lives, posts, patron, startsCrossed>>,
             ~entitled => by # "live" /\ liveCalls[s].changed
      PROVE  LiveIInv'
  <2>1. liveCalls[s].changed \in BOOLEAN
    BY <1>0 DEF LiveCall
  <2>2. leaks \subseteq Leak /\ ShownToPatrons
    BY <1>0 DEF LiveTypeOK, LiveIInv, LivesAreShown
  <2>3. leaks' \subseteq Leak /\ \A leak \in leaks' : leak.by # "live" /\ leak.changed
    BY <1>t, <2>1, <2>2 DEF Tell, Leak, ShownToPatrons
  <2>4. /\ liveCalls' \in [Slots -> LiveCall] /\ liveCalls'[s] = LiveIdle
        /\ \A r \in Slots \ {s} : liveCalls'[r] = liveCalls[r]
    BY <1>0, <1>t, LiveEntered, LiveIdleFits DEF Tell
  <2>5. LiveTypeOK'
    BY <1>0, <1>t, <2>3, <2>4 DEF LiveTypeOK
  <2>6. LiveCallsSound' /\ MetWhenVisible'
    BY <1>0, <1>t, <2>4, LiveIdleFits DEF LiveIInv, LiveCallsSound, LiveSound, MetWhenVisible
  <2>7. /\ startsCrossed' \/ StartsFindNone'
        /\ OneOnAir'
    BY <1>t, <2>4, LiveIdleFits DEF LiveIInv, StartsFindNone, LiveAt, OnAir, LivesAreShown, OneOnAir
  <2> QED BY <2>3, <2>5, <2>6, <2>7 DEF LiveIInv, LivesAreShown, ShownToPatrons
\* A list that is filtered by a true answer shows what the viewer was entitled to.
<1>e. ~liveCalls[s].changed /\ liveCalls[s].step \in {"list", "pins", "pinStories"}
        => /\ Entitled(ShownPosts(s))
           /\ Entitled({lives[i] : i \in {j \in OnAir :
                          VisibleTo(lives[j].audience, liveCalls[s].patron)}})
  BY <1>0 DEF LiveSound, MetWhenVisible, Entitled, ShownPosts, OnAir
<1>1. ASSUME ForViewer(s) PROVE LiveIInv'
  <2> DEFINE call == [LiveIdle EXCEPT !.step = "check", !.row = Latest]
  <2>1. Latest \in DOMAIN lives /\ DOMAIN lives \subseteq Nat
    BY <1>0, <1>1, LatestOnAir DEF ForViewer, LiveTypeOK
  <2>2. call \in LiveCall /\ LiveSound(call) /\ call.step # "start"
    BY <2>1 DEF LiveIdle, LiveCall, LiveSteps, ViewerSteps, Audiences, LiveSound
  <2>3. LiveEnter(s, call) /\ UNCHANGED <<lives, posts, patron, leaks, startsCrossed>>
    BY <1>1 DEF ForViewer
  <2> HIDE DEF call
  <2> QED BY <2>2, <2>3, LiveQuiet
<1>2. ASSUME CheckViewer(s) PROVE LiveIInv'
  <2> DEFINE row == lives[liveCalls[s].row]
  <2>1. UNCHANGED <<lives, posts, patron, startsCrossed>> /\ liveCalls[s].row \in DOMAIN lives
    BY <1>0, <1>2 DEF CheckViewer, LiveAt, LiveSound
  <2>2. CASE VisibleTo(row.audience, patron)
    <3>1. Tell(s, "live", Entitled({row}))
      BY <1>2, <2>2 DEF CheckViewer
    <3>2. Entitled({row})
      BY <1>0, <2>1, <2>2 DEF MetWhenVisible, Entitled
    <3> QED BY <1>t, <2>1, <3>1, <3>2
  <2>3. CASE ~VisibleTo(row.audience, patron)
    <3>1. LiveEnter(s, LiveIdle) /\ UNCHANGED leaks
      BY <1>2, <2>3 DEF CheckViewer
    <3> QED BY <2>1, <3>1, LiveIdleFits, LiveQuiet
  <2> QED BY <2>2, <2>3
<1>3. ASSUME NEW step \in {"list", "pins"}, AskPatron(s, step) PROVE LiveIInv'
  <2> DEFINE call == [LiveIdle EXCEPT !.step = step, !.patron = patron]
  <2>1. call \in LiveCall /\ LiveSound(call) /\ call.step # "start"
    BY <1>0 DEF LiveIdle, LiveCall, LiveSteps, ViewerSteps, Audiences, LiveSound
  <2>2. LiveEnter(s, call) /\ UNCHANGED <<lives, posts, patron, leaks, startsCrossed>>
    BY <1>3 DEF AskPatron
  <2> HIDE DEF call
  <2> QED BY <2>1, <2>2, LiveQuiet
<1>4. ASSUME ListForViewer(s) PROVE LiveIInv'
  <2>1. /\ liveCalls[s].step = "list" /\ UNCHANGED <<lives, posts, patron, startsCrossed>>
        /\ Tell(s, "stories", Entitled(ShownPosts(s)))
    BY <1>4 DEF ListForViewer, LiveAt
  <2> QED BY <1>e, <1>t, <2>1
<1>5. ASSUME PinLives(s) PROVE LiveIInv'
  <2> DEFINE shown == {lives[i] : i \in {j \in OnAir :
                         VisibleTo(lives[j].audience, liveCalls[s].patron)}}
             call == [liveCalls[s] EXCEPT !.step = "pinStories", !.entitled = Entitled(shown)]
  <2>1. /\ liveCalls[s].step = "pins" /\ LiveEnter(s, call)
        /\ UNCHANGED <<lives, posts, patron, leaks, startsCrossed>>
    BY <1>5 DEF PinLives, LiveAt
  <2>2. ~liveCalls[s].changed => Entitled(shown)
    BY <1>e, <2>1
  <2>3. Entitled(shown) \in BOOLEAN
    BY DEF Entitled
  <2> HIDE DEF shown
  <2>4. call \in LiveCall /\ LiveSound(call) /\ call.step # "start"
    BY <1>0, <2>1, <2>2, <2>3 DEF LiveCall, LiveSteps, ViewerSteps, LiveSound
  <2> HIDE DEF call
  <2> QED BY <2>1, <2>4, LiveQuiet
<1>6. ASSUME PinStories(s) PROVE LiveIInv'
  <2>1. /\ liveCalls[s].step = "pinStories" /\ UNCHANGED <<lives, posts, patron, startsCrossed>>
        /\ Tell(s, "pins", liveCalls[s].entitled /\ Entitled(ShownPosts(s)))
    BY <1>6 DEF PinStories, LiveAt
  <2>2. ~liveCalls[s].changed => liveCalls[s].entitled /\ Entitled(ShownPosts(s))
    BY <1>0, <1>e, <2>1 DEF LiveSound
  <2> QED BY <1>t, <2>1, <2>2
<1>7. ASSUME AbandonLive(s) PROVE LiveIInv'
  BY <1>7, LiveIdleFits, LiveQuiet DEF AbandonLive
<1> QED BY <1>1, <1>2, <1>3, <1>4, <1>5, <1>6, <1>7

LEMMA LiveWorldInductive ==
  ASSUME LiveIInv,
         \/ \E i \in DOMAIN lives : EndLiveById(i) \/ HourPasses(i)
         \/ \E audience \in Audiences : PostStory(audience)
         \/ \E i \in DOMAIN posts : TakeDown(i)
         \/ ConnectionChanges
  PROVE  LiveIInv'
<1>0. /\ LiveTypeOK /\ LiveCallsSound /\ MetWhenVisible /\ patron \in BOOLEAN
      /\ lives \in Seq(LiveRow) /\ posts \in Seq(Post) /\ liveCalls \in [Slots -> LiveCall]
      /\ \A i \in DOMAIN lives : lives[i] \in LiveRow
      /\ \A i \in DOMAIN posts : posts[i] \in Post
  BY DEF LiveIInv, LiveTypeOK
\* Sessions that end or age under the calls in flight.
<1>f. ASSUME lives' \in Seq(LiveRow), DOMAIN lives' = DOMAIN lives,
             \A i \in DOMAIN lives : /\ lives'[i].audience = lives[i].audience
                                     /\ lives'[i].met = lives[i].met
                                     /\ lives'[i].live => lives[i].live,
             UNCHANGED <<posts, patron, leaks, liveCalls, startsCrossed>>
      PROVE  LiveIInv'
  <2>1. /\ OnAir' \subseteq OnAir /\ MetWhenVisible' /\ ShownToPatrons' /\ LiveTypeOK'
        /\ startsCrossed \/ \A i, j \in OnAir' : i = j
    BY <1>0, <1>f, LivesFade DEF LiveTypeOK
  <2>2. LiveCallsSound'
    BY <1>0, <1>f DEF LiveCallsSound, LiveSound
  <2>3. startsCrossed' \/ StartsFindNone'
    BY <1>f, <2>1 DEF LiveIInv, StartsFindNone, LiveAt
  <2> QED BY <1>f, <2>1, <2>2, <2>3 DEF LiveIInv, LivesAreShown, OneOnAir
\* Stories that come and go: no call in flight relies on them.
<1>g. ASSUME posts' \in Seq(Post), MetWhenVisible',
             UNCHANGED <<lives, patron, leaks, liveCalls, startsCrossed>>
      PROVE  LiveIInv'
  <2>1. LiveTypeOK'
    BY <1>0, <1>g DEF LiveTypeOK
  <2>2. LiveCallsSound'
    BY <1>0, <1>g DEF LiveCallsSound, LiveSound
  <2>3. LivesAreShown' /\ (startsCrossed' \/ StartsFindNone')
    BY <1>g DEF LiveIInv, LivesAreShown, OneOnAir, ShownToPatrons, OnAir, StartsFindNone, LiveAt
  <2> QED BY <1>g, <2>1, <2>2, <2>3 DEF LiveIInv
<1>1. ASSUME NEW i \in DOMAIN lives, EndLiveById(i) PROVE LiveIInv'
  <2>1. lives' = Cut({i}) /\ UNCHANGED <<posts, patron, leaks, liveCalls, startsCrossed>>
    BY <1>1 DEF EndLiveById
  <2> QED BY <1>0, <1>f, <2>1, CutRows
<1>2. ASSUME NEW i \in DOMAIN lives, HourPasses(i) PROVE LiveIInv'
  <2> DEFINE row == [lives[i] EXCEPT !.recent = FALSE]
  <2>1. /\ row \in LiveRow /\ row.audience = lives[i].audience /\ row.met = lives[i].met
        /\ row.live = lives[i].live
    BY <1>0 DEF LiveRow
  <2>2. /\ lives' = [lives EXCEPT ![i] = row]
        /\ UNCHANGED <<posts, patron, leaks, liveCalls, startsCrossed>>
    BY <1>2 DEF HourPasses
  <2> HIDE DEF row
  <2>3. /\ lives' \in Seq(LiveRow) /\ DOMAIN lives' = DOMAIN lives /\ lives'[i] = row
        /\ \A j \in DOMAIN lives \ {i} : lives'[j] = lives[j]
    BY <1>0, <2>1, <2>2, RowWritten
  <2> QED BY <1>f, <2>1, <2>2, <2>3
<1>3. ASSUME NEW audience \in Audiences, PostStory(audience) PROVE LiveIInv'
  <2> DEFINE row == [audience |-> audience, up |-> TRUE, met |-> VisibleTo(audience, patron)]
  <2>1. row \in Post /\ (VisibleTo(row.audience, patron) => row.met)
    BY <1>0 DEF Post, VisibleTo
  <2>2. posts' = Append(posts, row) /\ UNCHANGED <<lives, patron, leaks, liveCalls, startsCrossed>>
    BY <1>3 DEF PostStory
  <2> HIDE DEF row
  <2>3. /\ posts' \in Seq(Post) /\ Len(posts) \in Nat
        /\ DOMAIN posts = 1 .. Len(posts) /\ DOMAIN posts' = 1 .. (Len(posts) + 1)
        /\ posts'[Len(posts) + 1] = row /\ \A j \in DOMAIN posts : posts'[j] = posts[j]
    BY <1>0, <2>1, <2>2, RowAdded
  <2>4. MetWhenVisible'
    BY <1>0, <2>1, <2>2, <2>3 DEF MetWhenVisible
  <2> QED BY <1>g, <2>2, <2>3, <2>4
<1>4. ASSUME NEW i \in DOMAIN posts, TakeDown(i) PROVE LiveIInv'
  <2> DEFINE row == [posts[i] EXCEPT !.up = FALSE]
  <2>1. row \in Post /\ row.audience = posts[i].audience /\ row.met = posts[i].met
    BY <1>0 DEF Post
  <2>2. /\ posts' = [posts EXCEPT ![i] = row]
        /\ UNCHANGED <<lives, patron, leaks, liveCalls, startsCrossed>>
    BY <1>4 DEF TakeDown
  <2> HIDE DEF row
  <2>3. /\ posts' \in Seq(Post) /\ DOMAIN posts' = DOMAIN posts /\ posts'[i] = row
        /\ \A j \in DOMAIN posts \ {i} : posts'[j] = posts[j]
    BY <1>0, <2>1, <2>2, RowWritten
  <2>4. MetWhenVisible'
    BY <1>0, <2>1, <2>2, <2>3 DEF MetWhenVisible
  <2> QED BY <1>g, <2>2, <2>3, <2>4
<1>5. ASSUME ConnectionChanges PROVE LiveIInv'
  <2> DEFINE live(i) == [lives[i] EXCEPT !.met = lives[i].met \/ patron']
             post(i) == [posts[i] EXCEPT !.met = posts[i].met \/ patron']
             call(s) == [liveCalls[s] EXCEPT !.changed =
                           liveCalls[s].changed \/ liveCalls[s].step \in ViewerSteps]
  <2>1. /\ patron' = ~patron /\ UNCHANGED <<leaks, startsCrossed>>
        /\ lives' = [i \in DOMAIN lives |-> live(i)] /\ posts' = [i \in DOMAIN posts |-> post(i)]
        /\ liveCalls' = [s \in Slots |-> call(s)]
    BY <1>5 DEF ConnectionChanges
  <2>2. patron' \in BOOLEAN
    BY <1>0, <2>1
  <2>3. \A i \in DOMAIN lives :
          /\ live(i) \in LiveRow /\ live(i).audience = lives[i].audience
          /\ live(i).live = lives[i].live /\ (live(i).met <=> lives[i].met \/ patron')
    BY <1>0, <2>2 DEF LiveRow
  <2>4. \A i \in DOMAIN posts :
          /\ post(i) \in Post /\ post(i).audience = posts[i].audience
          /\ post(i).met <=> posts[i].met \/ patron'
    BY <1>0, <2>2 DEF Post
  <2>5. \A s \in Slots :
          /\ call(s) \in LiveCall /\ call(s).step = liveCalls[s].step /\ call(s).row = liveCalls[s].row
          /\ call(s).step \in ViewerSteps => call(s).changed
    BY <1>0 DEF LiveCall
  <2> HIDE DEF live, post, call
  <2>6. lives' \in [DOMAIN lives -> LiveRow] /\ posts' \in [DOMAIN posts -> Post]
    BY <2>1, <2>3, <2>4
  <2>7. /\ lives' \in Seq(LiveRow) /\ DOMAIN lives' = DOMAIN lives
        /\ posts' \in Seq(Post) /\ DOMAIN posts' = DOMAIN posts
    BY <1>0, <2>6, RowsMapped
  <2>8. LiveTypeOK'
    BY <1>0, <2>1, <2>2, <2>5, <2>7 DEF LiveTypeOK
  <2>9. LiveCallsSound'
    BY <1>0, <2>1, <2>5, <2>7 DEF LiveCallsSound, LiveSound, ViewerSteps
  <2>10. MetWhenVisible'
    <3>1. \A i \in DOMAIN lives : lives[i].audience = "EVERYONE" => lives[i].met
      BY <1>0 DEF MetWhenVisible, VisibleTo
    <3>2. \A i \in DOMAIN posts : posts[i].audience = "EVERYONE" => posts[i].met
      BY <1>0 DEF MetWhenVisible, VisibleTo
    <3> QED BY <2>1, <2>3, <2>4, <2>7, <3>1, <3>2 DEF MetWhenVisible, VisibleTo
  <2>11. OnAir' = OnAir
    BY <2>1, <2>3, <2>7 DEF OnAir
  <2>12. LivesAreShown'
    BY <2>1, <2>11 DEF LiveIInv, LivesAreShown, OneOnAir, ShownToPatrons
  <2>13. startsCrossed' \/ StartsFindNone'
    <3>1. \A s \in Slots : liveCalls'[s].step = liveCalls[s].step
      BY <2>1, <2>5
    <3> QED BY <2>1, <2>11, <3>1 DEF LiveIInv, StartsFindNone, LiveAt
  <2> QED BY <2>8, <2>9, <2>10, <2>12, <2>13 DEF LiveIInv
<1> QED BY <1>1, <1>2, <1>3, <1>4, <1>5

LEMMA LiveInductive == ASSUME LiveIInv, [LiveNext]_liveVars PROVE LiveIInv'
<1>1. CASE UNCHANGED liveVars
  <2>1. LiveTypeOK' /\ LiveCallsSound' /\ MetWhenVisible'
    BY <1>1 DEF liveVars, LiveIInv, LiveTypeOK, LiveCallsSound, LiveSound, MetWhenVisible
  <2>2. LivesAreShown' /\ (startsCrossed' \/ StartsFindNone')
    BY <1>1 DEF liveVars, LiveIInv, LivesAreShown, OneOnAir, ShownToPatrons, OnAir,
                StartsFindNone, LiveAt
  <2> QED BY <2>1, <2>2 DEF LiveIInv
<1>2. CASE LiveNext
  BY <1>2, LiveOwnerInductive, LiveViewerInductive, LiveWorldInductive DEF LiveNext
<1> QED BY <1>1, <1>2

(* Every reachable state of the live sessions is well typed. *)
THEOREM LiveTypeCorrect == LiveSpec => []LiveTypeOK
<1>1. LiveIInv => LiveTypeOK
  BY DEF LiveIInv
<1> QED BY LiveInitial, LiveInductive, <1>1, PTL DEF LiveSpec

(* For any number of sessions, stories and calls in flight, a member is live   *)
(* once unless two starts crossed, and nobody is shown a row of another        *)
(* audience, except by a list under which the connection changed               *)
(* (live.service.ts:47-57, 96, stories.service.ts:360-375, 409-471).           *)
THEOREM LivesShownRightly == LiveSpec => []LivesAreShown
<1>1. LiveIInv => LivesAreShown
  BY DEF LiveIInv
<1> QED BY LiveInitial, LiveInductive, <1>1, PTL DEF LiveSpec

-----------------------------------------------------------------------------
(* Location. *)

MidUpdate(s) == locCalls[s].step \in {"exact", "public", "pin"}

\* The permission is what the member said, and an update that passed it has it still.
GrantIsKnown ==
  /\ granted <=> location.permission = "GRANTED"
  /\ \A s \in Slots : locCalls[s].step \in {"point", "touch"} => location.permission = "GRANTED"

\* One update writes at a time, and what it has written so far is its fix.
WritesInOrder ==
  /\ \A s, r \in Slots : MidUpdate(s) /\ MidUpdate(r) => s = r
  /\ \A s \in Slots : locCalls[s].step \in {"public", "pin"} => point = locCalls[s].to
  /\ \A s \in Slots : locCalls[s].step = "pin" => cell = CellOf(point)
  /\ (\A s \in Slots : locCalls[s].step \notin {"public", "pin"})
       => cell = CellOf(point) /\ pin = CellOf(point)

LocIInv == LocTypeOK /\ (locDisturbed \/ (GrantIsKnown /\ WritesInOrder))

LEMMA LocIdleFits == LocIdle \in LocCall /\ LocIdle.step = "idle"
BY LocationAssumption DEF LocIdle, LocCall, LocSteps, Positions

LEMMA LocInitial == LocInit => LocIInv
<1> SUFFICES ASSUME LocInit PROVE LocIInv
  OBVIOUS
<1>1. LocTypeOK
  <2>1. Nowhere \in Points /\ Nowhere \in {CellOf(p) : p \in Points}
    BY DEF Points, CellOf
  <2> QED BY <2>1, LocIdleFits DEF LocInit, LocTypeOK
<1>2. GrantIsKnown /\ WritesInOrder
  BY LocIdleFits DEF LocInit, GrantIsKnown, WritesInOrder, MidUpdate, CellOf
<1> QED BY <1>1, <1>2 DEF LocIInv

\* Only the call that takes the step changes its slot.
LEMMA LocEntered ==
  ASSUME NEW s \in Slots, NEW call \in LocCall, LocEnter(s, call), LocTypeOK
  PROVE  /\ locCalls' \in [Slots -> LocCall] /\ locCalls'[s] = call
         /\ \A r \in Slots \ {s} : locCalls'[r] = locCalls[r]
BY DEF LocEnter, LocTypeOK

\* A call that goes on keeps its fix.
LEMMA LocWent ==
  ASSUME NEW s \in Slots, NEW step \in LocSteps, LocGoTo(s, step), LocTypeOK
  PROVE  /\ locCalls' \in [Slots -> LocCall]
         /\ locCalls'[s].step = step /\ locCalls'[s].to = locCalls[s].to
         /\ \A r \in Slots \ {s} : locCalls'[r] = locCalls[r]
BY DEF LocGoTo, LocEnter, LocTypeOK, LocCall

\* A step that only moves a call, to where the permission it needs is there.
LEMMA LocQuiet ==
  ASSUME LocIInv, NEW s \in Slots, NEW call \in LocCall, LocEnter(s, call),
         call.step \in {"idle", "grant", "put", "point", "touch"}, ~MidUpdate(s),
         call.step \in {"point", "touch"} =>
           \/ location.permission = "GRANTED" \/ locCalls[s].step \in {"point", "touch"},
         page' \in [accepted: Points, sent: BOOLEAN],
         UNCHANGED <<location, point, cell, pin, granted, fixFresh, byPermission, locDisturbed>>
  PROVE  LocIInv'
<1>1. /\ locCalls' \in [Slots -> LocCall] /\ locCalls'[s] = call
      /\ \A r \in Slots \ {s} : locCalls'[r] = locCalls[r]
  BY LocEntered DEF LocIInv
<1>2. LocTypeOK'
  BY <1>1 DEF LocIInv, LocTypeOK
<1>3. CASE locDisturbed
  BY <1>2, <1>3 DEF LocIInv
<1>4. CASE ~locDisturbed
  <2>1. GrantIsKnown /\ WritesInOrder
    BY <1>4 DEF LocIInv
  <2>2. GrantIsKnown'
    BY <1>1, <2>1 DEF GrantIsKnown
  <2>3. WritesInOrder'
    BY <1>1, <2>1 DEF WritesInOrder, MidUpdate
  <2> QED BY <1>2, <2>2, <2>3 DEF LocIInv
<1> QED BY <1>3, <1>4

LEMMA LocReads ==
  ASSUME LocIInv, NEW s \in Slots,
         \/ \E p \in Positions : Fix(s, p)
         \/ ReadLocation(s) \/ GateMove(s)
  PROVE  LocIInv'
<1>0. /\ LocTypeOK /\ locCalls[s] \in LocCall /\ page \in [accepted: Points, sent: BOOLEAN]
      /\ location.fresh \in BOOLEAN /\ fixFresh \in BOOLEAN
  BY DEF LocIInv, LocTypeOK
<1>1. ASSUME NEW p \in Positions, Fix(s, p) PROVE LocIInv'
  <2> DEFINE call == [LocIdle EXCEPT !.step = IF page.sent THEN "put" ELSE "grant", !.to = p]
  <2>1. call \in LocCall /\ call.step \in {"put", "grant"}
    BY DEF LocIdle, LocCall, LocSteps
  <2>2. /\ LocEnter(s, call) /\ LocAt(s, "idle") /\ page' = [page EXCEPT !.accepted = p]
        /\ UNCHANGED <<location, point, cell, pin, granted, fixFresh, byPermission, locDisturbed>>
    BY <1>1 DEF Fix
  <2>3. page' \in [accepted: Points, sent: BOOLEAN]
    BY <1>0, <2>2 DEF Points
  <2> HIDE DEF call
  <2> QED BY <2>1, <2>2, <2>3, LocQuiet DEF MidUpdate, LocAt
<1>2. ASSUME ReadLocation(s) PROVE LocIInv'
  <2> DEFINE call == IF location.permission = "GRANTED"
                     THEN [locCalls[s] EXCEPT !.step = "point", !.fresh = location.fresh,
                                              !.due = ~fixFresh]
                     ELSE LocIdle
  <2>1. /\ call \in LocCall /\ call.step \in {"idle", "point"}
        /\ call.step = "point" => location.permission = "GRANTED"
    BY <1>0, LocIdleFits DEF LocCall, LocSteps
  <2>2. /\ LocEnter(s, call) /\ LocAt(s, "put") /\ page' = page
        /\ UNCHANGED <<location, point, cell, pin, granted, fixFresh, byPermission, locDisturbed>>
    BY <1>2 DEF ReadLocation
  <2> HIDE DEF call
  <2> QED BY <1>0, <2>1, <2>2, LocQuiet DEF MidUpdate, LocAt
<1>3. ASSUME GateMove(s) PROVE LocIInv'
  <2> DEFINE call == IF point # Nowhere /\ (TooSoon(s) \/ ~IsMove(point, locCalls[s].to))
                     THEN LocIdle
                     ELSE [LocIdle EXCEPT !.step = "touch", !.to = locCalls[s].to]
  <2>1. /\ call \in LocCall /\ call.step \in {"idle", "touch"}
    BY <1>0, LocIdleFits DEF LocCall, LocSteps, LocIdle
  <2>2. /\ LocEnter(s, call) /\ LocAt(s, "point") /\ page' = page
        /\ UNCHANGED <<location, point, cell, pin, granted, fixFresh, byPermission, locDisturbed>>
    BY <1>3 DEF GateMove
  <2> HIDE DEF call
  <2> QED BY <1>0, <2>1, <2>2, LocQuiet DEF MidUpdate, LocAt
<1> QED BY <1>1, <1>2, <1>3

LEMMA LocWrites ==
  ASSUME LocIInv, NEW s \in Slots,
         \/ GrantFirst(s) \/ TouchLocation(s) \/ WriteExactPoint(s) \/ WriteCell(s)
         \/ WriteApproximatePoint(s) \/ AbandonUpdate(s)
  PROVE  LocIInv'
<1>0. /\ LocTypeOK /\ locCalls[s] \in LocCall /\ locCalls[s].to \in Positions
      /\ locDisturbed \in BOOLEAN /\ granted \in BOOLEAN
      /\ ~locDisturbed => GrantIsKnown /\ WritesInOrder
  BY DEF LocIInv, LocTypeOK, LocCall
<1>c. CellOf(locCalls[s].to) \in {CellOf(p) : p \in Points}
  BY <1>0 DEF Points
<1>1. ASSUME GrantFirst(s) PROVE LocIInv'
  <2>1. /\ locCalls[s].step = "grant" /\ location' = [permission |-> "GRANTED", fresh |-> TRUE]
        /\ granted' /\ byPermission' = TRUE /\ granted' \in BOOLEAN
        /\ page' = [page EXCEPT !.sent = TRUE]
        /\ LocGoTo(s, "put") /\ UNCHANGED <<point, cell, pin, fixFresh, locDisturbed>>
    BY <1>1 DEF GrantFirst, SetPermission, LocAt
  <2>2. /\ locCalls' \in [Slots -> LocCall] /\ locCalls'[s].step = "put"
        /\ \A r \in Slots \ {s} : locCalls'[r] = locCalls[r]
    BY <1>0, <2>1, LocWent DEF LocSteps
  <2>3. LocTypeOK'
    BY <1>0, <2>1, <2>2 DEF LocTypeOK
  <2>4. ~locDisturbed' => GrantIsKnown'
    BY <1>0, <2>1 DEF GrantIsKnown
  <2>5. ~locDisturbed' => WritesInOrder'
    BY <1>0, <2>1, <2>2 DEF WritesInOrder, MidUpdate
  <2> QED BY <2>3, <2>4, <2>5 DEF LocIInv
<1>2. ASSUME TouchLocation(s) PROVE LocIInv'
  <2>1. /\ locCalls[s].step = "touch" /\ location' = [permission |-> "GRANTED", fresh |-> TRUE]
        /\ fixFresh' = TRUE /\ byPermission' = FALSE /\ LocGoTo(s, "exact")
        /\ locDisturbed' = (locDisturbed \/ ~LocAlone(s))
        /\ UNCHANGED <<point, cell, pin, page, granted>>
    BY <1>2 DEF TouchLocation, LocAt
  <2>2. /\ locCalls' \in [Slots -> LocCall] /\ locCalls'[s].step = "exact"
        /\ \A r \in Slots \ {s} : locCalls'[r] = locCalls[r]
    BY <1>0, <2>1, LocWent DEF LocSteps
  <2>3. LocTypeOK'
    BY <1>0, <2>1, <2>2 DEF LocTypeOK
  <2>4. ~locDisturbed' => ~locDisturbed /\ \A r \in Slots \ {s} : locCalls[r].step = "idle"
    BY <2>1 DEF LocAlone, LocAt
  <2>5. ~locDisturbed' => GrantIsKnown'
    BY <1>0, <2>1, <2>4 DEF GrantIsKnown
  <2>6. ~locDisturbed' => WritesInOrder'
    BY <1>0, <2>1, <2>2, <2>4 DEF WritesInOrder, MidUpdate
  <2> QED BY <2>3, <2>5, <2>6 DEF LocIInv
<1>3. ASSUME WriteExactPoint(s) PROVE LocIInv'
  <2>1. /\ locCalls[s].step = "exact" /\ point' = locCalls[s].to /\ LocGoTo(s, "public")
        /\ UNCHANGED <<location, cell, pin, page, granted, fixFresh, byPermission, locDisturbed>>
    BY <1>3 DEF WriteExactPoint, LocAt
  <2>2. /\ locCalls' \in [Slots -> LocCall] /\ locCalls'[s].step = "public"
        /\ locCalls'[s].to = locCalls[s].to
        /\ \A r \in Slots \ {s} : locCalls'[r] = locCalls[r]
    BY <1>0, <2>1, LocWent DEF LocSteps
  <2>3. LocTypeOK'
    BY <1>0, <2>1, <2>2 DEF LocTypeOK, Points
  <2>4. ~locDisturbed' => GrantIsKnown'
    BY <1>0, <2>1, <2>2 DEF GrantIsKnown
  <2>5. ~locDisturbed' => WritesInOrder'
    BY <1>0, <2>1, <2>2 DEF WritesInOrder, MidUpdate
  <2> QED BY <2>3, <2>4, <2>5 DEF LocIInv
<1>4. ASSUME WriteCell(s) PROVE LocIInv'
  <2>1. /\ locCalls[s].step = "public" /\ cell' = CellOf(locCalls[s].to) /\ LocGoTo(s, "pin")
        /\ UNCHANGED <<location, point, pin, page, granted, fixFresh, byPermission, locDisturbed>>
    BY <1>4 DEF WriteCell, LocAt
  <2>2. /\ locCalls' \in [Slots -> LocCall] /\ locCalls'[s].step = "pin"
        /\ locCalls'[s].to = locCalls[s].to
        /\ \A r \in Slots \ {s} : locCalls'[r] = locCalls[r]
    BY <1>0, <2>1, LocWent DEF LocSteps
  <2>3. LocTypeOK'
    BY <1>0, <1>c, <2>1, <2>2 DEF LocTypeOK
  <2>4. ~locDisturbed' => GrantIsKnown'
    BY <1>0, <2>1, <2>2 DEF GrantIsKnown
  <2>5. ~locDisturbed' => WritesInOrder'
    BY <1>0, <2>1, <2>2 DEF WritesInOrder, MidUpdate
  <2> QED BY <2>3, <2>4, <2>5 DEF LocIInv
<1>5. ASSUME WriteApproximatePoint(s) PROVE LocIInv'
  <2>1. /\ locCalls[s].step = "pin" /\ pin' = CellOf(locCalls[s].to) /\ LocEnter(s, LocIdle)
        /\ UNCHANGED <<location, point, cell, page, granted, fixFresh, byPermission, locDisturbed>>
    BY <1>5 DEF WriteApproximatePoint, LocAt
  <2>2. /\ locCalls' \in [Slots -> LocCall] /\ locCalls'[s].step = "idle"
        /\ \A r \in Slots \ {s} : locCalls'[r] = locCalls[r]
    BY <1>0, <2>1, LocEntered, LocIdleFits
  <2>3. LocTypeOK'
    BY <1>0, <1>c, <2>1, <2>2 DEF LocTypeOK
  <2>4. ~locDisturbed' => GrantIsKnown'
    BY <1>0, <2>1, <2>2 DEF GrantIsKnown
  <2>5. ~locDisturbed' => WritesInOrder'
    BY <1>0, <2>1, <2>2 DEF WritesInOrder, MidUpdate
  <2> QED BY <2>3, <2>4, <2>5 DEF LocIInv
<1>6. ASSUME AbandonUpdate(s) PROVE LocIInv'
  <2>1. /\ LocEnter(s, LocIdle) /\ locDisturbed' = (locDisturbed \/ MidUpdate(s))
        /\ UNCHANGED <<location, point, cell, pin, page, granted, fixFresh, byPermission>>
    BY <1>6 DEF AbandonUpdate, MidUpdate
  <2>2. /\ locCalls' \in [Slots -> LocCall] /\ locCalls'[s].step = "idle"
        /\ \A r \in Slots \ {s} : locCalls'[r] = locCalls[r]
    BY <1>0, <2>1, LocEntered, LocIdleFits
  <2>3. LocTypeOK'
    BY <1>0, <2>1, <2>2 DEF LocTypeOK, MidUpdate
  <2>4. ~locDisturbed' => GrantIsKnown'
    BY <1>0, <2>1, <2>2 DEF GrantIsKnown
  <2>5. ~locDisturbed' => WritesInOrder'
    BY <1>0, <2>1, <2>2 DEF WritesInOrder, MidUpdate
  <2> QED BY <2>3, <2>4, <2>5 DEF LocIInv
<1> QED BY <1>1, <1>2, <1>3, <1>4, <1>5, <1>6

LEMMA LocWorld ==
  ASSUME LocIInv,
         (\E keepsSent \in BOOLEAN : Reload(keepsSent)) \/ Withdraw \/ AgeFix \/ AgeRow
  PROVE  LocIInv'
<1>0. /\ LocTypeOK /\ locDisturbed \in BOOLEAN /\ page.sent \in BOOLEAN
      /\ byPermission \in BOOLEAN /\ \A s \in Slots : locCalls[s] \in LocCall
      /\ location \in [permission: {"NONE", "GRANTED", "DENIED"}, fresh: BOOLEAN]
      /\ ~locDisturbed => GrantIsKnown /\ WritesInOrder
  BY DEF LocIInv, LocTypeOK
<1>1. ASSUME NEW keepsSent \in BOOLEAN, Reload(keepsSent) PROVE LocIInv'
  <2>1. /\ page' = [accepted |-> Nowhere, sent |-> keepsSent /\ page.sent]
        /\ UNCHANGED <<location, point, cell, pin, locCalls, granted, fixFresh, byPermission,
                       locDisturbed>>
    BY <1>1 DEF Reload
  <2>2. page' \in [accepted: Points, sent: BOOLEAN]
    BY <1>0, <2>1 DEF Points
  <2>3. LocTypeOK'
    BY <1>0, <2>1, <2>2 DEF LocTypeOK
  <2> QED BY <1>0, <2>1, <2>3 DEF LocIInv, GrantIsKnown, WritesInOrder, MidUpdate
<1>2. ASSUME Withdraw PROVE LocIInv'
  <2>1. /\ location' = [permission |-> "DENIED", fresh |-> TRUE]
        /\ granted' = FALSE /\ byPermission' = TRUE
        /\ locDisturbed' = (locDisturbed \/ \E s \in Slots : ~LocAt(s, "idle"))
        /\ UNCHANGED <<point, cell, pin, page, locCalls, fixFresh>>
    BY <1>2 DEF Withdraw, SetPermission
  <2>2. LocTypeOK'
    BY <1>0, <2>1 DEF LocTypeOK
  <2>3. ~locDisturbed' => ~locDisturbed /\ \A s \in Slots : locCalls[s].step = "idle"
    BY <2>1 DEF LocAt
  <2>4. ~locDisturbed' => GrantIsKnown' /\ WritesInOrder'
    BY <1>0, <2>1, <2>3 DEF GrantIsKnown, WritesInOrder, MidUpdate
  <2> QED BY <2>2, <2>4 DEF LocIInv
\* Time that passes leaves the steps and the fixes of the calls.
<1>a. ASSUME NEW except \in BOOLEAN, NEW fresh \in BOOLEAN, LocAges(except),
             location' = [location EXCEPT !.fresh = fresh], fixFresh' \in BOOLEAN,
             UNCHANGED <<point, cell, pin, page, granted, byPermission, locDisturbed>>
      PROVE  LocIInv'
  <2> DEFINE call(s) == [locCalls[s] EXCEPT !.fresh = locCalls[s].fresh /\ except]
  <2>1. \A s \in Slots : /\ call(s) \in LocCall /\ call(s).step = locCalls[s].step
                         /\ call(s).to = locCalls[s].to
    BY <1>0 DEF LocCall
  <2>2. locCalls' = [s \in Slots |-> call(s)]
    BY <1>a DEF LocAges
  <2> HIDE DEF call
  <2>3. /\ locCalls' \in [Slots -> LocCall]
        /\ \A s \in Slots : /\ locCalls'[s].step = locCalls[s].step
                            /\ locCalls'[s].to = locCalls[s].to
    BY <2>1, <2>2
  <2>4. /\ location' \in [permission: {"NONE", "GRANTED", "DENIED"}, fresh: BOOLEAN]
        /\ location'.permission = location.permission
    BY <1>0, <1>a
  <2>5. LocTypeOK'
    BY <1>0, <1>a, <2>3, <2>4 DEF LocTypeOK
  <2>6. ~locDisturbed' => GrantIsKnown'
    BY <1>0, <1>a, <2>3, <2>4 DEF GrantIsKnown
  <2>7. ~locDisturbed' => WritesInOrder'
    BY <1>0, <1>a, <2>3 DEF WritesInOrder, MidUpdate
  <2> QED BY <2>5, <2>6, <2>7 DEF LocIInv
<1>3. ASSUME AgeFix PROVE LocIInv'
  <2>1. /\ location' = [location EXCEPT !.fresh = byPermission] /\ LocAges(byPermission)
        /\ fixFresh' = FALSE /\ UNCHANGED <<point, cell, pin, page, granted, byPermission, locDisturbed>>
    BY <1>3 DEF AgeFix
  <2> QED BY <1>0, <1>a, <2>1
<1>4. ASSUME AgeRow PROVE LocIInv'
  <2>1. /\ location' = [location EXCEPT !.fresh = FALSE] /\ LocAges(FALSE)
        /\ UNCHANGED <<point, cell, pin, page, granted, fixFresh, byPermission, locDisturbed>>
    BY <1>4 DEF AgeRow
  <2>2. fixFresh' \in BOOLEAN
    BY <2>1 DEF LocIInv, LocTypeOK
  <2> QED BY <1>a, <2>1, <2>2
<1> QED BY <1>1, <1>2, <1>3, <1>4

LEMMA LocInductive == ASSUME LocIInv, [LocNext]_locVars PROVE LocIInv'
<1>1. CASE UNCHANGED locVars
  BY <1>1 DEF locVars, LocIInv, LocTypeOK, GrantIsKnown, WritesInOrder, MidUpdate
<1>2. CASE LocNext
  BY <1>2, LocReads, LocWrites, LocWorld DEF LocNext
<1> QED BY <1>1, <1>2

(* Every reachable state of a member's location is well typed. *)
THEOREM LocTypeCorrect == LocSpec => []LocTypeOK
<1>1. LocIInv => LocTypeOK
  BY DEF LocIInv
<1> QED BY LocInitial, LocInductive, <1>1, PTL DEF LocSpec

(* For any number of positions and calls in flight, the public cell and the    *)
(* pin follow the exact point and the permission is the member's last word,    *)
(* unless an update overlapped a call or stopped halfway (locations.service.ts *)
(* :126-170).                                                                  *)
THEOREM PublicFollows == LocSpec => []PublicFollowsExact
<1>1. LocIInv => PublicFollowsExact
  BY DEF LocIInv, PublicFollowsExact, GrantIsKnown, WritesInOrder, LocAt
<1> QED BY LocInitial, LocInductive, <1>1, PTL DEF LocSpec

-----------------------------------------------------------------------------
(* Rooms. *)

\* Nothing runs for a socket that is gone.
GoneIsQuiet == online = "off" => RoomsQuiet

\* A sync runs by itself; it has left every room before it joins those around the point it
\* read, which is still the member's unless the member has moved since.
SyncsInOrder ==
  /\ \A s, r \in Slots : roomCalls[s].step # "idle" /\ roomCalls[r].step # "idle" => s = r
  /\ (\A s \in Slots : roomCalls[s].step \in {"idle", "leave"}) => joined = recorded
  /\ \A s \in Slots : roomCalls[s].step \in {"point", "join"} => joined = {}
  /\ \A s \in Slots : roomCalls[s].step = "join" /\ synced => roomCalls[s].rooms = Neighbourhood(home)
  /\ online = "on" /\ RoomsQuiet /\ synced => joined = Neighbourhood(home)

RoomIInv == RoomTypeOK /\ GoneIsQuiet /\ (roomsDisturbed \/ SyncsInOrder)

LEMMA RoomIdleFits == RoomIdle \in RoomCall /\ RoomIdle.step = "idle"
BY DEF RoomIdle, RoomCall, RoomSteps

LEMMA RoomInitial == RoomInit => RoomIInv
<1> SUFFICES ASSUME RoomInit PROVE RoomIInv
  OBVIOUS
<1>1. RoomTypeOK
  BY RoomIdleFits DEF RoomInit, RoomTypeOK
<1>2. GoneIsQuiet /\ SyncsInOrder
  BY RoomIdleFits DEF RoomInit, GoneIsQuiet, SyncsInOrder, RoomsQuiet, RoomAt
<1> QED BY <1>1, <1>2 DEF RoomIInv

\* Only the call that takes the step changes its slot.
LEMMA RoomEntered ==
  ASSUME NEW s \in Slots, NEW call \in RoomCall, RoomEnter(s, call), RoomTypeOK
  PROVE  /\ roomCalls' \in [Slots -> RoomCall] /\ roomCalls'[s] = call
         /\ \A r \in Slots \ {s} : roomCalls'[r] = roomCalls[r]
BY DEF RoomEnter, RoomTypeOK

LEMMA RoomInductive == ASSUME RoomIInv, [RoomNext]_roomVars PROVE RoomIInv'
<1>0. /\ RoomTypeOK /\ GoneIsQuiet /\ roomsDisturbed \in BOOLEAN
      /\ ~roomsDisturbed => SyncsInOrder
      /\ joined \subseteq Cells /\ recorded \subseteq Cells
      /\ \A s \in Slots : roomCalls[s] \in RoomCall
  BY DEF RoomIInv, RoomTypeOK
<1>1. ASSUME NEW s \in Slots, ConnectSocket(s) PROVE RoomIInv'
  <2> DEFINE call == [RoomIdle EXCEPT !.step = "leave", !.first = TRUE]
  <2>1. call \in RoomCall /\ call.step = "leave"
    BY DEF RoomIdle, RoomCall, RoomSteps
  <2>2. /\ online = "off" /\ online' = "checked" /\ joined' = {} /\ recorded' = {}
        /\ roomsDisturbed' = FALSE /\ synced' = FALSE /\ RoomEnter(s, call) /\ home' = home
    BY <1>1 DEF ConnectSocket
  <2> HIDE DEF call
  <2>3. /\ roomCalls' \in [Slots -> RoomCall] /\ roomCalls'[s] = call
        /\ \A r \in Slots \ {s} : roomCalls'[r] = roomCalls[r]
    BY <1>0, <2>1, <2>2, RoomEntered
  <2>4. RoomTypeOK'
    BY <1>0, <2>2, <2>3 DEF RoomTypeOK
  <2>5. \A r \in Slots \ {s} : roomCalls'[r].step = "idle"
    BY <1>0, <2>2, <2>3 DEF GoneIsQuiet, RoomsQuiet, RoomAt
  <2>6. SyncsInOrder'
    BY <2>1, <2>2, <2>3, <2>5 DEF SyncsInOrder
  <2>7. GoneIsQuiet'
    BY <2>2 DEF GoneIsQuiet
  <2> QED BY <2>4, <2>6, <2>7 DEF RoomIInv
<1>2. ASSUME NEW s \in Slots, SyncPresence(s) PROVE RoomIInv'
  <2> DEFINE call == [RoomIdle EXCEPT !.step = "leave"]
  <2>1. call \in RoomCall /\ call.step = "leave"
    BY DEF RoomIdle, RoomCall, RoomSteps
  <2>2. /\ online = "on" /\ RoomEnter(s, call) /\ roomsDisturbed' = (roomsDisturbed \/ ~RoomsQuiet)
        /\ UNCHANGED <<online, joined, recorded, home, synced>>
    BY <1>2 DEF SyncPresence
  <2> HIDE DEF call
  <2>3. /\ roomCalls' \in [Slots -> RoomCall] /\ roomCalls'[s] = call
        /\ \A r \in Slots \ {s} : roomCalls'[r] = roomCalls[r]
    BY <1>0, <2>1, <2>2, RoomEntered
  <2>4. RoomTypeOK'
    BY <1>0, <2>2, <2>3 DEF RoomTypeOK, RoomsQuiet
  <2>5. ~roomsDisturbed' => SyncsInOrder'
    <3> SUFFICES ASSUME ~roomsDisturbed' PROVE SyncsInOrder'
      OBVIOUS
    <3>1. SyncsInOrder /\ \A r \in Slots : roomCalls[r].step = "idle"
      BY <1>0, <2>2 DEF RoomsQuiet, RoomAt
    <3>2. ~RoomsQuiet'
      BY <2>1, <2>3 DEF RoomsQuiet, RoomAt
    <3> QED BY <2>1, <2>2, <2>3, <3>1, <3>2 DEF SyncsInOrder
  <2>6. GoneIsQuiet'
    BY <2>2 DEF GoneIsQuiet
  <2> QED BY <2>4, <2>5, <2>6 DEF RoomIInv
<1>3. ASSUME NEW s \in Slots, LeaveRooms(s) PROVE RoomIInv'
  <2> DEFINE call == [roomCalls[s] EXCEPT !.step = "point"]
  <2>1. call \in RoomCall /\ call.step = "point"
    BY <1>0 DEF RoomCall, RoomSteps
  <2>2. /\ roomCalls[s].step = "leave" /\ online' = "on" /\ joined' = joined \ recorded
        /\ RoomEnter(s, call) /\ UNCHANGED <<recorded, home, synced, roomsDisturbed>>
    BY <1>3 DEF LeaveRooms, RoomAt
  <2> HIDE DEF call
  <2>3. /\ roomCalls' \in [Slots -> RoomCall] /\ roomCalls'[s] = call
        /\ \A r \in Slots \ {s} : roomCalls'[r] = roomCalls[r]
    BY <1>0, <2>1, <2>2, RoomEntered
  <2>4. RoomTypeOK'
    BY <1>0, <2>2, <2>3 DEF RoomTypeOK
  <2>5. ~roomsDisturbed' => SyncsInOrder'
    <3> SUFFICES ASSUME ~roomsDisturbed' PROVE SyncsInOrder'
      OBVIOUS
    <3>1. SyncsInOrder /\ \A r \in Slots \ {s} : roomCalls[r].step = "idle"
      BY <1>0, <2>2 DEF SyncsInOrder
    <3>2. joined' = {}
      BY <2>2, <3>1 DEF SyncsInOrder
    <3>3. ~RoomsQuiet'
      BY <2>1, <2>3 DEF RoomsQuiet, RoomAt
    <3> QED BY <2>1, <2>2, <2>3, <3>1, <3>2, <3>3 DEF SyncsInOrder
  <2>6. GoneIsQuiet'
    BY <2>2 DEF GoneIsQuiet
  <2> QED BY <2>4, <2>5, <2>6 DEF RoomIInv
<1>4. ASSUME NEW s \in Slots, ReadHome(s) PROVE RoomIInv'
  <2> DEFINE call == [roomCalls[s] EXCEPT !.step = "join", !.rooms = Neighbourhood(home)]
  <2>1. call \in RoomCall /\ call.step = "join" /\ call.rooms = Neighbourhood(home)
    <3>1. Neighbourhood(home) \subseteq Cells
      BY DEF Neighbourhood
    <3> QED BY <1>0, <3>1 DEF RoomCall, RoomSteps
  <2>2. /\ roomCalls[s].step = "point" /\ synced' = TRUE /\ RoomEnter(s, call)
        /\ UNCHANGED <<online, joined, recorded, home, roomsDisturbed>>
    BY <1>4 DEF ReadHome, RoomAt
  <2> HIDE DEF call
  <2>3. /\ roomCalls' \in [Slots -> RoomCall] /\ roomCalls'[s] = call
        /\ \A r \in Slots \ {s} : roomCalls'[r] = roomCalls[r]
    BY <1>0, <2>1, <2>2, RoomEntered
  <2>4. RoomTypeOK'
    BY <1>0, <2>2, <2>3 DEF RoomTypeOK
  <2>5. ~roomsDisturbed' => SyncsInOrder'
    <3> SUFFICES ASSUME ~roomsDisturbed' PROVE SyncsInOrder'
      OBVIOUS
    <3>1. SyncsInOrder /\ joined' = {} /\ \A r \in Slots \ {s} : roomCalls[r].step = "idle"
      BY <1>0, <2>2 DEF SyncsInOrder
    <3>2. ~RoomsQuiet'
      BY <2>1, <2>3 DEF RoomsQuiet, RoomAt
    <3> QED BY <2>1, <2>2, <2>3, <3>1, <3>2 DEF SyncsInOrder
  <2>6. GoneIsQuiet'
    BY <1>0, <2>2 DEF GoneIsQuiet, RoomsQuiet, RoomAt
  <2> QED BY <2>4, <2>5, <2>6 DEF RoomIInv
<1>5. ASSUME NEW s \in Slots, JoinRooms(s) PROVE RoomIInv'
  <2>1. /\ roomCalls[s].step = "join" /\ joined' = joined \cup roomCalls[s].rooms
        /\ recorded' = roomCalls[s].rooms /\ RoomEnter(s, RoomIdle)
        /\ UNCHANGED <<online, home, synced, roomsDisturbed>>
    BY <1>5 DEF JoinRooms, RoomAt
  <2>2. /\ roomCalls' \in [Slots -> RoomCall] /\ roomCalls'[s] = RoomIdle
        /\ \A r \in Slots \ {s} : roomCalls'[r] = roomCalls[r]
    BY <1>0, <2>1, RoomEntered, RoomIdleFits
  <2>3. roomCalls[s].rooms \subseteq Cells
    BY <1>0 DEF RoomCall
  <2>4. RoomTypeOK'
    BY <1>0, <2>1, <2>2, <2>3 DEF RoomTypeOK
  <2>5. ~roomsDisturbed' => SyncsInOrder'
    <3> SUFFICES ASSUME ~roomsDisturbed' PROVE SyncsInOrder'
      OBVIOUS
    <3>1. /\ SyncsInOrder /\ joined' = recorded'
          /\ \A r \in Slots \ {s} : roomCalls[r].step = "idle"
      BY <1>0, <2>1 DEF SyncsInOrder
    <3>2. synced' => joined' = Neighbourhood(home)
      BY <2>1, <3>1 DEF SyncsInOrder
    <3> QED BY <2>1, <2>2, <3>1, <3>2, RoomIdleFits DEF SyncsInOrder
  <2>6. GoneIsQuiet'
    BY <1>0, <2>1 DEF GoneIsQuiet, RoomsQuiet, RoomAt
  <2> QED BY <2>4, <2>5, <2>6 DEF RoomIInv
<1>6. ASSUME CloseSocket PROVE RoomIInv'
  <2>1. /\ online' = "off" /\ joined' = {} /\ recorded' = {}
        /\ roomCalls' = [s \in Slots |-> RoomIdle] /\ UNCHANGED <<home, synced, roomsDisturbed>>
    BY <1>6 DEF CloseSocket
  <2>2. RoomTypeOK'
    BY <1>0, <2>1, RoomIdleFits DEF RoomTypeOK
  <2>3. \A s \in Slots : roomCalls'[s].step = "idle"
    BY <2>1, RoomIdleFits
  <2>4. SyncsInOrder' /\ GoneIsQuiet'
    BY <2>1, <2>3 DEF SyncsInOrder, GoneIsQuiet, RoomsQuiet, RoomAt
  <2> QED BY <2>2, <2>4 DEF RoomIInv
<1>7. ASSUME NEW s \in Slots, FailSync(s) PROVE RoomIInv'
  <2>1. CASE roomCalls[s].first
    BY <1>6, <1>7, <2>1 DEF FailSync
  <2>2. CASE ~roomCalls[s].first
    <3>1. /\ roomCalls[s].step = "point" /\ RoomEnter(s, RoomIdle) /\ roomsDisturbed' = TRUE
          /\ UNCHANGED <<online, joined, recorded, home, synced>>
      BY <1>7, <2>2 DEF FailSync, RoomAt
    <3>2. /\ roomCalls' \in [Slots -> RoomCall] /\ roomCalls'[s] = RoomIdle
          /\ \A r \in Slots \ {s} : roomCalls'[r] = roomCalls[r]
      BY <1>0, <3>1, RoomEntered, RoomIdleFits
    <3>3. RoomTypeOK'
      BY <1>0, <3>1, <3>2 DEF RoomTypeOK
    <3>4. GoneIsQuiet'
      BY <1>0, <3>1, <3>2 DEF GoneIsQuiet, RoomsQuiet, RoomAt
    <3> QED BY <3>1, <3>3, <3>4 DEF RoomIInv
  <2> QED BY <2>1, <2>2
<1>8. ASSUME NEW c \in Cells, MoveHome(c) PROVE RoomIInv'
  <2>1. /\ home' = c /\ synced' = FALSE
        /\ UNCHANGED <<online, joined, recorded, roomCalls, roomsDisturbed>>
    BY <1>8 DEF MoveHome
  <2>2. RoomTypeOK'
    BY <1>0, <2>1 DEF RoomTypeOK
  <2>3. GoneIsQuiet' /\ (~roomsDisturbed' => SyncsInOrder')
    BY <1>0, <2>1 DEF GoneIsQuiet, RoomsQuiet, RoomAt, SyncsInOrder
  <2> QED BY <2>2, <2>3 DEF RoomIInv
<1>9. CASE UNCHANGED roomVars
  BY <1>9 DEF roomVars, RoomIInv, RoomTypeOK, GoneIsQuiet, SyncsInOrder, RoomsQuiet, RoomAt
<1> QED BY <1>1, <1>2, <1>3, <1>4, <1>5, <1>6, <1>7, <1>8, <1>9 DEF RoomNext

(* Every reachable state of a discovery socket is well typed. *)
THEOREM RoomTypeCorrect == RoomSpec => []RoomTypeOK
<1>1. RoomIInv => RoomTypeOK
  BY DEF RoomIInv
<1> QED BY RoomInitial, RoomInductive, <1>1, PTL DEF RoomSpec

(* For any number of cells and syncs in flight, a socket at rest is in the     *)
(* rooms around the point that was read last, unless on it a sync failed or    *)
(* two overlapped (discovery.gateway.ts:85-107).                               *)
THEOREM RoomsFollow == RoomSpec => []HearsItsNeighbours
<1>1. RoomIInv => HearsItsNeighbours
  BY DEF RoomIInv, HearsItsNeighbours, SyncsInOrder, RoomsQuiet, RoomAt
<1> QED BY RoomInitial, RoomInductive, <1>1, PTL DEF RoomSpec

-----------------------------------------------------------------------------
(* Catalogue. *)

\* What a call in flight relies on, whatever ran since it read.
CatSound(call) ==
  /\ call.step = "insert" => call.id \in CategoryIds
  /\ call.step = "assign" => call.chosen # {}
  /\ call.step = "activate" => Complete
  /\ call.step = "SERVICE" => HasProfile
CatCallsSound == \A s \in Slots : CatSound(catCalls[s])

\* C would be a loop, once the category of the call had the parent it is to have.
WouldLoop(call, C) ==
  /\ C \subseteq Existing /\ call.id \in C /\ call.to \in C
  /\ \A c \in C \ {call.id} : parent[c] \in C

\* Any loop that a move would close goes through the place its walk has come to; a walk
\* that reached a root has found that there is none.
WalkHolds(call) ==
  /\ call.step = "walk" =>
       call.id \in call.seen /\ \A C : WouldLoop(call, C) => call.at \in C
  /\ call.step = "update" => \A C : ~WouldLoop(call, C)

\* While no parent was written under another call.
TreeHolds == Loops = {} /\ \A s \in Slots : WalkHolds(catCalls[s])

CatIInv ==
  /\ CatTypeOK /\ CatCallsSound /\ used \subseteq Existing
  /\ ListedIsComplete /\ ListingsKeepTheirs
  /\ overlapped \/ TreeHolds

LEMMA CatIdleFits == CatIdle \in CatCall /\ CatIdle.step = "idle"
BY DEF CatIdle, CatCall, CatSteps, Parents

LEMMA CatInitial == CatInit => CatIInv
<1> SUFFICES ASSUME CatInit PROVE CatIInv
  OBVIOUS
<1>1. Existing = {} /\ listings = <<>> /\ DOMAIN listings = {}
  BY DEF CatInit, Existing
<1>2. CatTypeOK
  <2>1. listings \in Seq(Listing)
    BY DEF CatInit
  <2> QED BY <1>1, <2>1, CatIdleFits DEF CatInit, CatTypeOK
<1>3. CatCallsSound /\ used \subseteq Existing
  BY CatIdleFits DEF CatInit, CatCallsSound, CatSound
<1>4. ListedIsComplete /\ ListingsKeepTheirs
  BY <1>1 DEF CatInit, ListedIsComplete, ListingsKeepTheirs, Listed
<1>5. TreeHolds
  BY <1>1, CatIdleFits DEF CatInit, TreeHolds, WalkHolds, Loops
<1> QED BY <1>2, <1>3, <1>4, <1>5 DEF CatIInv

\* Only the call that takes the step changes its slot.
LEMMA CatEntered ==
  ASSUME NEW s \in Slots, NEW call \in CatCall, CatEnter(s, call), CatTypeOK
  PROVE  /\ catCalls' \in [Slots -> CatCall] /\ catCalls'[s] = call
         /\ \A r \in Slots \ {s} : catCalls'[r] = catCalls[r]
BY DEF CatEnter, CatTypeOK

\* The tree stays as it is, with the walks in it.
LEMMA TreeStays ==
  ASSUME CatIInv, UNCHANGED <<parent, overlapped>>,
         \A s \in Slots : catCalls'[s] = catCalls[s] \/ overlapped \/ WalkHolds(catCalls'[s])
  PROVE  overlapped' \/ TreeHolds'
<1> SUFFICES ASSUME ~overlapped PROVE TreeHolds'
  OBVIOUS
<1>1. TreeHolds
  BY DEF CatIInv
<1>2. \A s \in Slots : WalkHolds(catCalls'[s])
  BY <1>1 DEF TreeHolds
<1>3. Existing' = Existing
  BY DEF Existing
<1>4. \A s \in Slots : WalkHolds(catCalls[s])'
  BY <1>2, <1>3 DEF WalkHolds, WouldLoop
<1>5. Loops' = {}
  BY <1>1, <1>3 DEF TreeHolds, Loops
<1> QED BY <1>4, <1>5 DEF TreeHolds

\* A step that only moves a call, to where what it relies on is true.
LEMMA CatQuiet ==
  ASSUME CatIInv, NEW s \in Slots, NEW call \in CatCall, CatEnter(s, call),
         CatSound(call), overlapped \/ WalkHolds(call),
         UNCHANGED <<parent, enabled, professional, used, listings, overlapped>>
  PROVE  CatIInv'
<1>1. /\ catCalls' \in [Slots -> CatCall] /\ catCalls'[s] = call
      /\ \A r \in Slots \ {s} : catCalls'[r] = catCalls[r]
  BY CatEntered DEF CatIInv
<1>2. CatTypeOK'
  BY <1>1 DEF CatIInv, CatTypeOK, Existing
<1>3. CatCallsSound'
  BY <1>1 DEF CatIInv, CatCallsSound, CatSound, Complete, HasProfile
<1>4. used' \subseteq Existing' /\ ListedIsComplete' /\ ListingsKeepTheirs'
  BY DEF CatIInv, Existing, ListedIsComplete, ListingsKeepTheirs, Listed, Complete, HasProfile
<1>5. overlapped' \/ TreeHolds'
  BY <1>1, TreeStays
<1> QED BY <1>2, <1>3, <1>4, <1>5 DEF CatIInv

LEMMA TreeReads ==
  ASSUME CatIInv, NEW s \in Slots,
         \/ \E id \in CategoryIds \ Existing, to \in Parents : CreateCategory(s, id, to)
         \/ \E id \in CategoryIds, to \in Parents, on \in BOOLEAN : UpdateCategory(s, id, to, on)
         \/ WalkUp(s)
         \/ \E id \in CategoryIds : RemoveCategory(s, id)
  PROVE  CatIInv'
<1>0. /\ CatTypeOK /\ catCalls[s] \in CatCall /\ Existing \subseteq CategoryIds
      /\ NoCategory \notin CategoryIds
      /\ \A c \in Existing : parent[c] \in Existing \cup {NoCategory}
      /\ ~overlapped => TreeHolds
  BY CatalogueAssumption DEF CatIInv, CatTypeOK
<1>1. ASSUME NEW id \in CategoryIds \ Existing, NEW to \in Parents, CreateCategory(s, id, to)
      PROVE  CatIInv'
  <2> DEFINE call == [CatIdle EXCEPT !.step = "insert", !.id = id, !.to = to]
  <2>1. call \in CatCall /\ CatSound(call) /\ WalkHolds(call)
    BY DEF CatIdle, CatCall, CatSteps, Parents, CatSound, WalkHolds
  <2>2. CatEnter(s, call) /\ UNCHANGED <<parent, enabled, professional, used, listings, overlapped>>
    BY <1>1 DEF CreateCategory
  <2> HIDE DEF call
  <2> QED BY <2>1, <2>2, CatQuiet
<1>2. ASSUME NEW id \in CategoryIds, NEW to \in Parents, NEW on \in BOOLEAN,
             UpdateCategory(s, id, to, on)
      PROVE  CatIInv'
  <2> DEFINE step == IF to \in {parent[id], NoCategory} THEN "update" ELSE "walk"
             call == [CatIdle EXCEPT !.step = step, !.id = id, !.to = to, !.at = to,
                                     !.seen = {id}, !.on = on]
  <2>1. /\ id \in Existing /\ CatEnter(s, call)
        /\ UNCHANGED <<parent, enabled, professional, used, listings, overlapped>>
    BY <1>2 DEF UpdateCategory
  <2>2. /\ call \in CatCall /\ CatSound(call) /\ call.step = step
        /\ call.id = id /\ call.to = to /\ call.at = to /\ call.seen = {id}
    BY DEF CatIdle, CatCall, CatSteps, Parents, CatSound
  <2> HIDE DEF call
  <2>3. ASSUME ~overlapped PROVE WalkHolds(call)
    <3>1. CASE step = "walk"
      BY <2>2, <3>1 DEF WalkHolds, WouldLoop
    <3>2. CASE to = NoCategory
      BY <1>0, <2>2, <3>2 DEF WalkHolds, WouldLoop
    <3>3. CASE to = parent[id]
      <4>1. ASSUME NEW C, WouldLoop(call, C) PROVE FALSE
        <5>1. C \in (SUBSET Existing) \ {{}} /\ \A c \in C : parent[c] \in C
          BY <2>2, <3>3, <4>1 DEF WouldLoop
        <5>2. C \in Loops
          BY <5>1 DEF Loops
        <5> QED BY <1>0, <2>3, <5>2 DEF TreeHolds
      <4> QED BY <2>2, <3>3, <4>1 DEF WalkHolds
    <3> QED BY <3>1, <3>2, <3>3
  <2> QED BY <2>1, <2>2, <2>3, CatQuiet
<1>3. ASSUME WalkUp(s) PROVE CatIInv'
  <2> DEFINE call == catCalls[s]
             next == IF call.at \in Existing THEN parent[call.at] ELSE NoCategory
  <2>0. /\ call.step = "walk"
        /\ UNCHANGED <<parent, enabled, professional, used, listings, overlapped>>
        /\ CASE call.at \in call.seen -> CatLeave(s)
             [] call.at \notin call.seen /\ next = NoCategory ->
                  CatEnter(s, [call EXCEPT !.step = "update"])
             [] OTHER -> CatEnter(s, [call EXCEPT !.seen = call.seen \cup {call.at}, !.at = next])
    BY <1>3 DEF WalkUp, CatAt
  <2>w. ~overlapped => WalkHolds(call)
    BY <1>0 DEF TreeHolds
  <2>1. CASE call.at \in call.seen
    <3>1. CatEnter(s, CatIdle)
      BY <2>0, <2>1 DEF CatLeave
    <3>2. CatSound(CatIdle) /\ WalkHolds(CatIdle)
      BY CatIdleFits DEF CatSound, WalkHolds
    <3> QED BY <2>0, <3>1, <3>2, CatIdleFits, CatQuiet
  <2>2. CASE call.at \notin call.seen /\ next = NoCategory
    <3> DEFINE done == [call EXCEPT !.step = "update"]
    <3>1. CatEnter(s, done)
      BY <2>0, <2>2
    <3>2. done \in CatCall /\ CatSound(done) /\ done.step = "update"
          /\ done.id = call.id /\ done.to = call.to
      BY <1>0 DEF CatCall, CatSteps, CatSound
    <3> HIDE DEF done
    <3>3. ASSUME ~overlapped PROVE WalkHolds(done)
      <4>1. ASSUME NEW C, WouldLoop(done, C) PROVE FALSE
        <5>1. WouldLoop(call, C)
          BY <3>2, <4>1 DEF WouldLoop
        <5>2. call.at \in C /\ call.id \in call.seen
          BY <2>0, <2>w, <3>3, <5>1 DEF WalkHolds
        <5>3. call.at \in Existing /\ parent[call.at] \in C
          BY <2>2, <5>1, <5>2 DEF WouldLoop
        <5>4. NoCategory \in C
          BY <2>2, <5>3
        <5> QED BY <1>0, <5>1, <5>4 DEF WouldLoop
      <4> QED BY <3>2, <4>1 DEF WalkHolds
    <3> QED BY <2>0, <3>1, <3>2, <3>3, CatQuiet
  <2>3. CASE call.at \notin call.seen /\ next # NoCategory
    <3> DEFINE further == [call EXCEPT !.seen = call.seen \cup {call.at}, !.at = next]
    <3>1. CatEnter(s, further)
      BY <2>0, <2>3
    <3>2. call.at \in Existing /\ next = parent[call.at] /\ next \in Parents
      BY <1>0, <2>3 DEF Parents
    <3>3. /\ further \in CatCall /\ further.step = "walk" /\ further.id = call.id
          /\ further.to = call.to /\ further.at = next /\ call.seen \subseteq further.seen
      BY <1>0, <2>0, <3>2 DEF CatCall, CatSteps
    <3> HIDE DEF further
    <3>4. CatSound(further)
      BY <3>3 DEF CatSound
    <3>5. ASSUME ~overlapped PROVE WalkHolds(further)
      <4>1. call.id \in call.seen
        BY <2>0, <2>w, <3>5 DEF WalkHolds
      <4>2. ASSUME NEW C, WouldLoop(further, C) PROVE next \in C
        <5>1. WouldLoop(call, C)
          BY <3>3, <4>2 DEF WouldLoop
        <5>2. call.at \in C
          BY <2>0, <2>w, <3>5, <5>1 DEF WalkHolds
        <5> QED BY <2>3, <3>2, <4>1, <5>1, <5>2 DEF WouldLoop
      <4> QED BY <3>3, <4>1, <4>2 DEF WalkHolds
    <3> QED BY <2>0, <3>1, <3>3, <3>4, <3>5, CatQuiet
  <2> QED BY <2>1, <2>2, <2>3
<1>4. ASSUME NEW id \in CategoryIds, RemoveCategory(s, id) PROVE CatIInv'
  <2> DEFINE step == IF id \in used \/ \E c \in Existing : parent[c] = id
                     THEN "retire" ELSE "delete"
             call == [CatIdle EXCEPT !.id = id, !.step = step]
  <2>1. step \in {"retire", "delete"}
    OBVIOUS
  <2>2. CatEnter(s, call) /\ UNCHANGED <<parent, enabled, professional, used, listings, overlapped>>
    BY <1>4 DEF RemoveCategory
  <2> HIDE DEF step
  <2>3. call \in CatCall /\ CatSound(call) /\ WalkHolds(call)
    BY <2>1 DEF CatIdle, CatCall, CatSteps, Parents, CatSound, WalkHolds
  <2> HIDE DEF call
  <2> QED BY <2>2, <2>3, CatQuiet
<1> QED BY <1>1, <1>2, <1>3, <1>4

LEMMA ListingReads ==
  ASSUME CatIInv, NEW s \in Slots,
         \/ \E picked \in SUBSET CategoryIds : SaveCategories(s, picked)
         \/ SubmitOnboarding(s)
         \/ \E on \in BOOLEAN : PatchStatus(s, on)
         \/ \E id \in CategoryIds : CreateService(s, id) \/ CreateBusiness(s, id)
  PROVE  CatIInv'
<1>0. professional.status \in {"NONE", "DRAFT", "ACTIVE", "PAUSED"} /\ ListedIsComplete
  BY DEF CatIInv, CatTypeOK
<1>1. ASSUME NEW picked \in SUBSET CategoryIds, SaveCategories(s, picked) PROVE CatIInv'
  <2> DEFINE call == [CatIdle EXCEPT !.step = "assign", !.chosen = picked]
  <2>1. picked # {}
    <3>1. Cardinality(picked) \in 1 .. MaxChosen
      BY <1>1 DEF SaveCategories
    <3>2. Cardinality(picked) # 0
      BY <3>1, CatalogueAssumption
    <3> QED BY <3>2, FS_EmptySet
  <2>2. call \in CatCall /\ CatSound(call) /\ WalkHolds(call)
    BY <2>1 DEF CatIdle, CatCall, CatSteps, Parents, CatSound, WalkHolds
  <2>3. CatEnter(s, call) /\ UNCHANGED <<parent, enabled, professional, used, listings, overlapped>>
    BY <1>1 DEF SaveCategories
  <2> HIDE DEF call
  <2> QED BY <2>2, <2>3, CatQuiet
<1>a. ASSUME NEW on \in BOOLEAN, Complete,
             CatEnter(s, [CatIdle EXCEPT !.step = "activate", !.on = on]),
             UNCHANGED <<parent, enabled, professional, used, listings, overlapped>>
      PROVE  CatIInv'
  <2> DEFINE call == [CatIdle EXCEPT !.step = "activate", !.on = on]
  <2>1. call \in CatCall /\ CatSound(call) /\ WalkHolds(call)
    BY <1>a DEF CatIdle, CatCall, CatSteps, Parents, CatSound, WalkHolds
  <2>2. CatEnter(s, call)
    BY <1>a
  <2> HIDE DEF call
  <2> QED BY <1>a, <2>1, <2>2, CatQuiet
<1>2. ASSUME SubmitOnboarding(s) PROVE CatIInv'
  BY <1>2, <1>a DEF SubmitOnboarding
<1>3. ASSUME NEW on \in BOOLEAN, PatchStatus(s, on) PROVE CatIInv'
  BY <1>0, <1>3, <1>a DEF PatchStatus, ListedIsComplete
<1>b. ASSUME NEW id \in CategoryIds, NEW kind \in {"SERVICE", "BUSINESS"}, Enlist(s, kind, id),
             kind = "SERVICE" => HasProfile
      PROVE  CatIInv'
  <2> DEFINE call == [CatIdle EXCEPT !.step = kind, !.id = id]
  <2>1. call \in CatCall /\ CatSound(call) /\ WalkHolds(call)
    BY <1>b DEF CatIdle, CatCall, CatSteps, Parents, CatSound, WalkHolds
  <2>2. CatEnter(s, call) /\ UNCHANGED <<parent, enabled, professional, used, listings, overlapped>>
    BY <1>b DEF Enlist
  <2> HIDE DEF call
  <2> QED BY <2>1, <2>2, CatQuiet
<1>4. ASSUME NEW id \in CategoryIds, CreateService(s, id) \/ CreateBusiness(s, id) PROVE CatIInv'
  BY <1>4, <1>b DEF CreateService, CreateBusiness
<1> QED BY <1>1, <1>2, <1>3, <1>4

\* A parent written under another call is remembered.
LEMMA TreeWriter ==
  ASSUME NEW s \in Slots, NoteOverlap(s), overlapped \in BOOLEAN
  PROVE  /\ overlapped' \in BOOLEAN /\ (overlapped => overlapped')
         /\ overlapped' \/ \A r \in Slots \ {s} : catCalls[r].step = "idle"
BY DEF NoteOverlap, CatAt

\* The tree written anew, with every parent in it and no loop that was not there.
LEMMA TreeWritten ==
  ASSUME CatIInv, NEW s \in Slots, CatLeave(s), NoteOverlap(s),
         Existing' \subseteq CategoryIds,
         \A c \in Existing' : parent'[c] \in Existing' \cup {NoCategory},
         enabled' \subseteq Existing', used \cup Listed \subseteq Existing',
         TreeHolds => Loops' = {},
         UNCHANGED <<professional, used, listings>>
  PROVE  CatIInv'
<1>1. /\ catCalls' \in [Slots -> CatCall] /\ catCalls'[s] = CatIdle
      /\ \A r \in Slots \ {s} : catCalls'[r] = catCalls[r]
  BY CatEntered, CatIdleFits DEF CatIInv, CatLeave
<1>2. /\ overlapped' \in BOOLEAN /\ (overlapped => overlapped')
      /\ overlapped' \/ \A r \in Slots \ {s} : catCalls[r].step = "idle"
  BY TreeWriter DEF CatIInv, CatTypeOK
<1>3. CatTypeOK'
  BY <1>1, <1>2 DEF CatIInv, CatTypeOK
<1>4. CatCallsSound'
  BY <1>1, CatIdleFits DEF CatIInv, CatCallsSound, CatSound, Complete, HasProfile
<1>5. used' \subseteq Existing' /\ ListedIsComplete' /\ ListingsKeepTheirs'
  BY DEF CatIInv, ListedIsComplete, ListingsKeepTheirs, Listed, Complete, HasProfile
<1>6. overlapped' \/ TreeHolds'
  <2>1. overlapped' \/ \A r \in Slots : catCalls'[r].step = "idle"
    BY <1>1, <1>2, CatIdleFits
  <2>2. overlapped' \/ Loops' = {}
    BY <1>2 DEF CatIInv
  <2> QED BY <2>1, <2>2 DEF TreeHolds, WalkHolds
<1> QED BY <1>3, <1>4, <1>5, <1>6 DEF CatIInv

\* A call that ends without having changed the tree, save what is enabled.
LEMMA TreeLeft ==
  ASSUME CatIInv, NEW s \in Slots, CatLeave(s), enabled' \subseteq enabled,
         UNCHANGED <<parent, professional, used, listings, overlapped>>
  PROVE  CatIInv'
<1>1. /\ catCalls' \in [Slots -> CatCall] /\ catCalls'[s] = CatIdle
      /\ \A r \in Slots \ {s} : catCalls'[r] = catCalls[r]
  BY CatEntered, CatIdleFits DEF CatIInv, CatLeave
<1>2. CatTypeOK'
  BY <1>1 DEF CatIInv, CatTypeOK, Existing
<1>3. CatCallsSound'
  BY <1>1, CatIdleFits DEF CatIInv, CatCallsSound, CatSound, Complete, HasProfile
<1>4. used' \subseteq Existing' /\ ListedIsComplete' /\ ListingsKeepTheirs'
  BY DEF CatIInv, Existing, ListedIsComplete, ListingsKeepTheirs, Listed, Complete, HasProfile
<1>5. overlapped' \/ TreeHolds'
  <2>1. WalkHolds(CatIdle)
    BY CatIdleFits DEF WalkHolds
  <2> QED BY <1>1, <2>1, TreeStays
<1> QED BY <1>2, <1>3, <1>4, <1>5 DEF CatIInv

LEMMA TreeWrites ==
  ASSUME CatIInv, NEW s \in Slots,
         InsertCategory(s) \/ WriteCategory(s) \/ RetireCategory(s) \/ DeleteCategory(s)
  PROVE  CatIInv'
<1>0. /\ catCalls[s] \in CatCall /\ Existing \subseteq CategoryIds /\ NoCategory \notin CategoryIds
      /\ \A c \in Existing : parent[c] \in Existing \cup {NoCategory}
      /\ enabled \subseteq Existing /\ used \subseteq Existing /\ Listed \subseteq Existing
      /\ CatSound(catCalls[s]) /\ (~overlapped => TreeHolds)
  BY CatalogueAssumption DEF CatIInv, CatTypeOK, CatCallsSound, ListingsKeepTheirs
<1>1. ASSUME InsertCategory(s) PROVE CatIInv'
  <2> DEFINE call == catCalls[s]
             writes == call.id \notin Existing /\ call.to \in Existing \cup {NoCategory}
  <2>1. CASE writes
    <3>1. /\ parent' = [c \in Existing \cup {call.id} |->
                          IF c = call.id THEN call.to ELSE parent[c]]
          /\ enabled' = enabled \cup {call.id} /\ NoteOverlap(s) /\ CatLeave(s)
          /\ UNCHANGED <<professional, used, listings>> /\ call.step = "insert"
      BY <1>1, <2>1 DEF InsertCategory, CatAt
    <3>2. call.id \in CategoryIds
      BY <1>0, <3>1 DEF CatSound
    <3>3. /\ Existing' = Existing \cup {call.id} /\ parent'[call.id] = call.to
          /\ \A c \in Existing : parent'[c] = parent[c]
      BY <2>1, <3>1 DEF Existing
    <3>4. ASSUME TreeHolds PROVE Loops' = {}
      <4>1. ASSUME NEW C \in (SUBSET Existing') \ {{}}, \A c \in C : parent'[c] \in C PROVE FALSE
        <5> DEFINE D == C \ {call.id}
        <5>1. D \subseteq Existing /\ \A c \in D : parent[c] \in C
          BY <3>3, <4>1
        <5>2. \A c \in D : parent[c] \in D
          BY <1>0, <2>1, <3>2, <5>1
        <5>3. D = {}
          BY <3>4, <5>1, <5>2 DEF TreeHolds, Loops
        <5>4. C = {call.id}
          BY <4>1, <5>3
        <5> QED BY <1>0, <2>1, <3>2, <3>3, <4>1, <5>4
      <4> QED BY <4>1 DEF Loops
    <3> HIDE DEF call
    <3> QED BY <1>0, <2>1, <3>1, <3>2, <3>3, <3>4, TreeWritten
  <2>2. CASE ~writes
    BY <1>1, <2>2, TreeLeft DEF InsertCategory
  <2> QED BY <2>1, <2>2
<1>2. ASSUME WriteCategory(s) PROVE CatIInv'
  <2> DEFINE call == catCalls[s]
             writes == call.id \in Existing /\ call.to \in Existing \cup {NoCategory}
  <2>1. CASE writes
    <3>1. /\ parent' = [parent EXCEPT ![call.id] = call.to]
          /\ enabled' = IF call.on THEN enabled \cup {call.id} ELSE enabled \ {call.id}
          /\ NoteOverlap(s) /\ CatLeave(s)
          /\ UNCHANGED <<professional, used, listings>> /\ call.step = "update"
      BY <1>2, <2>1 DEF WriteCategory, CatAt
    <3>2. /\ Existing' = Existing /\ parent'[call.id] = call.to
          /\ \A c \in Existing \ {call.id} : parent'[c] = parent[c]
      BY <2>1, <3>1 DEF Existing
    <3>3. ASSUME TreeHolds PROVE Loops' = {}
      <4>1. ASSUME NEW C \in (SUBSET Existing') \ {{}}, \A c \in C : parent'[c] \in C PROVE FALSE
        <5>1. CASE call.id \in C
          <6>1. WouldLoop(call, C)
            BY <3>2, <4>1, <5>1 DEF WouldLoop
          <6> QED BY <3>1, <3>3, <6>1 DEF TreeHolds, WalkHolds
        <5>2. CASE call.id \notin C
          <6>1. C \in (SUBSET Existing) \ {{}} /\ \A c \in C : parent[c] \in C
            BY <3>2, <4>1, <5>2
          <6> QED BY <3>3, <6>1 DEF TreeHolds, Loops
        <5> QED BY <5>1, <5>2
      <4> QED BY <4>1 DEF Loops
    <3>4. enabled' \subseteq Existing
      BY <1>0, <2>1, <3>1
    <3>5. \A c \in Existing' : parent'[c] \in Existing' \cup {NoCategory}
      BY <1>0, <2>1, <3>2
    <3> HIDE DEF call
    <3> QED BY <1>0, <3>1, <3>2, <3>3, <3>4, <3>5, TreeWritten
  <2>2. CASE ~writes
    BY <1>2, <2>2, TreeLeft DEF WriteCategory
  <2> QED BY <2>1, <2>2
<1>3. ASSUME RetireCategory(s) PROVE CatIInv'
  <2>1. CatLeave(s) /\ enabled' \subseteq enabled
        /\ UNCHANGED <<parent, professional, used, listings, overlapped>>
    BY <1>3 DEF RetireCategory
  <2> QED BY <2>1, TreeLeft
<1>4. ASSUME DeleteCategory(s) PROVE CatIInv'
  <2> DEFINE id == catCalls[s].id
  <2>1. CASE id \notin used \cup Listed
    <3>1. /\ parent' = [c \in Existing \ {id} |->
                          IF parent[c] = id THEN NoCategory ELSE parent[c]]
          /\ enabled' = enabled \ {id} /\ NoteOverlap(s) /\ CatLeave(s)
          /\ UNCHANGED <<professional, used, listings>>
      BY <1>4, <2>1 DEF DeleteCategory
    <3>2. /\ Existing' = Existing \ {id}
          /\ \A c \in Existing' : parent'[c] = IF parent[c] = id THEN NoCategory ELSE parent[c]
      BY <3>1 DEF Existing
    <3>3. ASSUME TreeHolds PROVE Loops' = {}
      <4>1. ASSUME NEW C \in (SUBSET Existing') \ {{}}, \A c \in C : parent'[c] \in C PROVE FALSE
        <5>1. \A c \in C : parent[c] \in C
          BY <1>0, <3>2, <4>1
        <5> QED BY <3>2, <3>3, <4>1, <5>1 DEF TreeHolds, Loops
      <4> QED BY <4>1 DEF Loops
    <3>4. \A c \in Existing' : parent'[c] \in Existing' \cup {NoCategory}
      BY <1>0, <3>2
    <3> HIDE DEF id
    <3> QED BY <1>0, <2>1, <3>1, <3>2, <3>3, <3>4, TreeWritten
  <2>2. CASE id \in used \cup Listed
    BY <1>4, <2>2, TreeLeft DEF DeleteCategory
  <2> QED BY <2>1, <2>2
<1> QED BY <1>1, <1>2, <1>3, <1>4

\* What a professional or a listing does leaves the tree alone.
LEMMA TreeUntouched ==
  ASSUME CatIInv, UNCHANGED <<parent, overlapped>>,
         \/ UNCHANGED catCalls
         \/ \E s \in Slots, call \in CatCall :
              CatEnter(s, call) /\ call.step \notin {"walk", "update"}
  PROVE  overlapped' \/ TreeHolds'
<1>1. CASE UNCHANGED catCalls
  BY <1>1, TreeStays
<1>2. ASSUME NEW s \in Slots, NEW call \in CatCall, CatEnter(s, call),
             call.step \notin {"walk", "update"}
      PROVE  overlapped' \/ TreeHolds'
  <2>1. WalkHolds(call)
    BY <1>2 DEF WalkHolds
  <2>2. catCalls'[s] = call /\ \A r \in Slots \ {s} : catCalls'[r] = catCalls[r]
    BY <1>2, CatEntered DEF CatIInv
  <2> QED BY <2>1, <2>2, TreeStays
<1> QED BY <1>1, <1>2

LEMMA ListingWrites ==
  ASSUME CatIInv,
         \/ \E s \in Slots : \/ StartOnboarding(s) \/ AssignCategories(s) \/ WriteStatus(s)
                             \/ InsertListing(s)
         \/ SaveProfile \/ SaveServiceArea
  PROVE  CatIInv'
<1>0. /\ CatTypeOK /\ CatCallsSound /\ used \subseteq Existing
      /\ ListedIsComplete /\ ListingsKeepTheirs /\ listings \in Seq(Listing)
      /\ Existing \subseteq CategoryIds
      /\ \A i \in DOMAIN listings : listings[i] \in Listing
      /\ professional \in [status: {"NONE", "DRAFT", "ACTIVE", "PAUSED"}, profile: BOOLEAN,
                           area: BOOLEAN]
      /\ \A s \in Slots : catCalls[s] \in CatCall
  <2>1. listings \in Seq(Listing)
    BY DEF CatIInv, CatTypeOK
  <2> QED BY <2>1 DEF CatIInv, CatTypeOK
\* A profile that only gains: what was complete stays complete.
<1>p. ASSUME professional' \in [status: {"NONE", "DRAFT", "ACTIVE", "PAUSED"}, profile: BOOLEAN,
                                area: BOOLEAN],
             HasProfile', professional.profile => professional'.profile,
             professional.area => professional'.area,
             professional'.status = professional.status \/ professional'.status = "DRAFT",
             UNCHANGED <<parent, enabled, used, listings, catCalls, overlapped>>
      PROVE  CatIInv'
  <2>1. CatTypeOK'
    BY <1>0, <1>p DEF CatTypeOK, Existing
  <2>2. CatCallsSound'
    BY <1>0, <1>p DEF CatCallsSound, CatSound, Complete, HasProfile
  <2>3. used' \subseteq Existing' /\ ListedIsComplete' /\ ListingsKeepTheirs'
    BY <1>0, <1>p DEF Existing, ListedIsComplete, ListingsKeepTheirs, Listed, Complete
  <2> QED BY <1>p, <2>1, <2>2, <2>3, TreeUntouched DEF CatIInv
<1>1. ASSUME NEW s \in Slots, StartOnboarding(s) PROVE CatIInv'
  BY <1>0, <1>1, <1>p DEF StartOnboarding, HasProfile
<1>2. ASSUME SaveProfile PROVE CatIInv'
  BY <1>0, <1>2, <1>p DEF SaveProfile, HasProfile
<1>3. ASSUME SaveServiceArea PROVE CatIInv'
  BY <1>0, <1>3, <1>p DEF SaveServiceArea, HasProfile
<1>4. ASSUME NEW s \in Slots, AssignCategories(s) PROVE CatIInv'
  <2>1. /\ catCalls[s].step = "assign" /\ CatEnter(s, CatIdle)
        /\ used' = IF catCalls[s].chosen \subseteq Existing THEN catCalls[s].chosen ELSE used
        /\ UNCHANGED <<parent, enabled, professional, listings, overlapped>>
    BY <1>4 DEF AssignCategories, CatAt, CatLeave
  <2>2. catCalls[s].chosen # {}
    BY <1>0, <2>1 DEF CatCallsSound, CatSound
  <2>3. used' \subseteq Existing /\ (used # {} => used' # {})
    BY <1>0, <2>1, <2>2
  <2>4. /\ catCalls' \in [Slots -> CatCall] /\ catCalls'[s] = CatIdle
        /\ \A r \in Slots \ {s} : catCalls'[r] = catCalls[r]
    BY <1>0, <2>1, CatEntered, CatIdleFits
  <2>5. CatTypeOK'
    BY <1>0, <2>1, <2>3, <2>4 DEF CatTypeOK, Existing
  <2>6. CatCallsSound'
    BY <1>0, <2>1, <2>3, <2>4, CatIdleFits DEF CatCallsSound, CatSound, Complete, HasProfile
  <2>7. used' \subseteq Existing' /\ ListedIsComplete' /\ ListingsKeepTheirs'
    BY <1>0, <2>1, <2>3 DEF Existing, ListedIsComplete, ListingsKeepTheirs, Listed, Complete,
                            HasProfile
  <2>8. overlapped' \/ TreeHolds'
    BY <2>1, CatIdleFits, TreeUntouched
  <2> QED BY <2>5, <2>6, <2>7, <2>8 DEF CatIInv
<1>5. ASSUME NEW s \in Slots, WriteStatus(s) PROVE CatIInv'
  <2>1. /\ catCalls[s].step = "activate" /\ CatEnter(s, CatIdle)
        /\ professional' = [professional EXCEPT !.status =
                              IF catCalls[s].on THEN "ACTIVE" ELSE "PAUSED"]
        /\ UNCHANGED <<parent, enabled, used, listings, overlapped>>
    BY <1>5 DEF WriteStatus, CatAt, CatLeave
  <2>2. /\ professional' \in [status: {"NONE", "DRAFT", "ACTIVE", "PAUSED"}, profile: BOOLEAN,
                              area: BOOLEAN]
        /\ professional'.status # "NONE"
        /\ professional'.profile = professional.profile /\ professional'.area = professional.area
    BY <1>0, <2>1
  <2>3. Complete
    BY <1>0, <2>1 DEF CatCallsSound, CatSound
  <2>4. /\ catCalls' \in [Slots -> CatCall] /\ catCalls'[s] = CatIdle
        /\ \A r \in Slots \ {s} : catCalls'[r] = catCalls[r]
    BY <1>0, <2>1, CatEntered, CatIdleFits
  <2>5. CatTypeOK'
    BY <1>0, <2>1, <2>2, <2>4 DEF CatTypeOK, Existing
  <2>6. CatCallsSound'
    BY <1>0, <2>1, <2>2, <2>4, CatIdleFits DEF CatCallsSound, CatSound, Complete, HasProfile
  <2>7. used' \subseteq Existing' /\ ListedIsComplete' /\ ListingsKeepTheirs'
    BY <1>0, <2>1, <2>2, <2>3 DEF Existing, ListedIsComplete, ListingsKeepTheirs, Listed,
                                  Complete, HasProfile
  <2>8. overlapped' \/ TreeHolds'
    BY <2>1, CatIdleFits, TreeUntouched
  <2> QED BY <2>5, <2>6, <2>7, <2>8 DEF CatIInv
<1>k. \A i \in DOMAIN listings : /\ listings[i].of \in Existing
                                 /\ listings[i].kind = "SERVICE" => HasProfile
  BY <1>0 DEF ListingsKeepTheirs, Listed
<1>6. ASSUME NEW s \in Slots, InsertListing(s) PROVE CatIInv'
  <2> DEFINE was == catCalls[s]
             row == [kind |-> was.step, of |-> was.id]
  <2>1. /\ was.step \in {"SERVICE", "BUSINESS"} /\ was.id \in Parents
        /\ was.step = "SERVICE" => HasProfile
        /\ CatEnter(s, CatIdle) /\ UNCHANGED <<parent, enabled, professional, used, overlapped>>
        /\ listings' = IF was.id \in Existing THEN Append(listings, row) ELSE listings
    BY <1>0, <1>6 DEF InsertListing, CatCall, CatCallsSound, CatSound, CatLeave
  <2>2. was.id \in Existing => row \in Listing
    BY <1>0, <2>1 DEF Listing
  <2>3. row.of = was.id /\ row.kind = was.step
    OBVIOUS
  <2> HIDE DEF row
  <2>4. /\ listings' \in Seq(Listing)
        /\ \A i \in DOMAIN listings' : /\ listings'[i].of \in Existing
                                       /\ listings'[i].kind = "SERVICE" => HasProfile
    <3>1. CASE was.id \notin Existing
      BY <1>0, <1>k, <2>1, <3>1
    <3>2. CASE was.id \in Existing
      <4>1. /\ Append(listings, row) \in Seq(Listing) /\ Len(listings) \in Nat
            /\ DOMAIN listings = 1 .. Len(listings)
            /\ DOMAIN Append(listings, row) = 1 .. (Len(listings) + 1)
            /\ Append(listings, row)[Len(listings) + 1] = row
            /\ \A j \in DOMAIN listings : Append(listings, row)[j] = listings[j]
        BY <1>0, <2>2, <3>2, RowAdded
      <4> QED BY <1>k, <2>1, <2>3, <3>2, <4>1
    <3> QED BY <3>1, <3>2
  <2>5. /\ catCalls' \in [Slots -> CatCall]
        /\ \A r \in Slots : catCalls'[r] = catCalls[r] \/ catCalls'[r] = CatIdle
    BY <1>0, <2>1, CatEntered, CatIdleFits DEF CatTypeOK
  <2>6. CatTypeOK'
    BY <1>0, <2>1, <2>4, <2>5 DEF CatTypeOK, Existing
  <2>7. CatCallsSound'
    BY <1>0, <2>1, <2>5, CatIdleFits DEF CatCallsSound, CatSound, Complete, HasProfile
  <2>8. used' \subseteq Existing' /\ ListedIsComplete'
    BY <1>0, <2>1 DEF Existing, ListedIsComplete, Complete
  <2>9. ListingsKeepTheirs'
    BY <2>1, <2>4 DEF ListingsKeepTheirs, Listed, Existing, HasProfile
  <2>10. overlapped' \/ TreeHolds'
    BY <2>1, CatIdleFits, TreeUntouched
  <2> QED BY <2>6, <2>7, <2>8, <2>9, <2>10 DEF CatIInv
<1> QED BY <1>1, <1>2, <1>3, <1>4, <1>5, <1>6

LEMMA CatInductive == ASSUME CatIInv, [CatNext]_catVars PROVE CatIInv'
<1>1. CASE UNCHANGED catVars
  <2>1. CatTypeOK' /\ CatCallsSound'
    BY <1>1 DEF catVars, CatIInv, CatTypeOK, Existing, CatCallsSound, CatSound, Complete, HasProfile
  <2>2. used' \subseteq Existing' /\ ListedIsComplete' /\ ListingsKeepTheirs'
    BY <1>1 DEF catVars, CatIInv, Existing, ListedIsComplete, Complete, ListingsKeepTheirs,
                Listed, HasProfile
  <2>3. overlapped' \/ TreeHolds'
    BY <1>1, TreeUntouched DEF catVars
  <2> QED BY <2>1, <2>2, <2>3 DEF CatIInv
<1>2. CASE CatNext
  BY <1>2, TreeReads, ListingReads, TreeWrites, ListingWrites DEF CatNext
<1> QED BY <1>1, <1>2

(* Every reachable state of the catalogue is well typed, and every parent in   *)
(* it exists.                                                                  *)
THEOREM CatTypeCorrect == CatSpec => []CatTypeOK
<1>1. CatIInv => CatTypeOK
  BY DEF CatIInv
<1> QED BY CatInitial, CatInductive, <1>1, PTL DEF CatSpec

(* For any categories, listings and calls in flight: the tree has no loop      *)
(* unless a parent was written under another call, and whoever is listed in it *)
(* keeps a category that exists (categories.service.ts:73-152).                *)
THEOREM CatalogueStaysWhole == CatSpec => []CatalogueIsWhole
<1>1. CatIInv => CatalogueIsWhole
  BY DEF CatIInv, CatalogueIsWhole, LoopsNeedOverlap, TreeHolds
<1> QED BY CatInitial, CatInductive, <1>1, PTL DEF CatSpec
=============================================================================
