------------------------------- MODULE Reviews -------------------------------
(***************************************************************************)
(* The reviews of one professional or business and the aggregate that its  *)
(* page and the ranking read.  An author reviews a subject once.           *)
(***************************************************************************)
EXTENDS Handlers

CONSTANT Authors          \* the members with an accepted connection to the owner
ASSUME ReviewsAssumption == IsFiniteSet(Authors)

VARIABLES
  reviews,                \* the authors who have a review
  aggregate,              \* review_aggregates: the reviews its average was taken of
  reviewCalls,            \* Slots -> the call in flight
  reviewLost              \* history: recomputations overlapped, or one never ran
reviewVars == <<reviews, aggregate, reviewCalls, reviewLost>>

ReviewCall == [step: {"idle", "create", "aggregate", "upsert"}, by: SUBSET Authors,
               found: SUBSET Authors]
ReviewIdle == [step |-> "idle", by |-> {}, found |-> {}]
ReviewAt(s, step) == reviewCalls[s].step = step
ReviewEnter(s, call) == reviewCalls' = [reviewCalls EXCEPT ![s] = call]

ReviewInit ==
  /\ reviews = {} /\ aggregate = {}
  /\ reviewCalls = [s \in Slots |-> ReviewIdle]
  /\ reviewLost = FALSE

\* create, for an author who is not the owner and is connected to the owner.
CreateReview(s, author) ==
  /\ ReviewAt(s, "idle")
  /\ ReviewEnter(s, [step |-> "create", by |-> {author}, found |-> {}])
  /\ UNCHANGED <<reviews, aggregate, reviewLost>>
\* A second review of one author breaks the unique key.
InsertReview(s) ==
  /\ ReviewAt(s, "create")
  /\ IF reviewCalls[s].by \subseteq reviews
     THEN ReviewEnter(s, ReviewIdle) /\ UNCHANGED reviews
     ELSE /\ reviews' = reviews \cup reviewCalls[s].by
          /\ ReviewEnter(s, [reviewCalls[s] EXCEPT !.step = "aggregate"])
  /\ UNCHANGED <<aggregate, reviewLost>>
\* Mutant: the aggregate is taken before the review is in.
CountOthers(s) ==
  /\ ReviewAt(s, "aggregate")
  /\ ReviewEnter(s, [reviewCalls[s] EXCEPT !.step = "upsert", !.found = reviews \ reviewCalls[s].by])
  /\ UNCHANGED <<reviews, aggregate, reviewLost>>

\* recompute counts, then upserts what it counted.
CountReviews(s) ==
  /\ ReviewAt(s, "aggregate")
  /\ ReviewEnter(s, [reviewCalls[s] EXCEPT !.step = "upsert", !.found = reviews])
  /\ UNCHANGED <<reviews, aggregate, reviewLost>>
UpsertAggregate(s) ==
  /\ ReviewAt(s, "upsert")
  /\ aggregate' = reviewCalls[s].found
  /\ ReviewEnter(s, ReviewIdle)
  /\ reviewLost' = (reviewLost \/ \E r \in Slots \ {s} : ReviewAt(r, "upsert"))
  /\ UNCHANGED reviews

AbandonReview(s) ==
  /\ ~ReviewAt(s, "idle")
  /\ ReviewEnter(s, ReviewIdle)
  /\ reviewLost' = (reviewLost \/ ~ReviewAt(s, "create"))
  /\ UNCHANGED <<reviews, aggregate>>

ReviewNext ==
  \E s \in Slots :
    \/ \E author \in Authors : CreateReview(s, author)
    \/ InsertReview(s) \/ CountReviews(s) \/ UpsertAggregate(s) \/ AbandonReview(s)
ReviewSpec == ReviewInit /\ [][ReviewNext]_reviewVars

-----------------------------------------------------------------------------
(* Every variable keeps its type. *)
ReviewTypeOK ==
  /\ reviews \subseteq Authors /\ aggregate \subseteq Authors
  /\ reviewCalls \in [Slots -> ReviewCall]
  /\ reviewLost \in BOOLEAN

(* The aggregate counts every review that no call is still to count, unless    *)
(* two recomputations crossed or one never ran (reviews.service.ts:113-135).   *)
(* It never counts a review that does not exist.                               *)
AggregateCatchesUp ==
  /\ aggregate \subseteq reviews
  /\ aggregate = reviews \/ reviewLost
       \/ \E s \in Slots : ReviewAt(s, "aggregate") \/ ReviewAt(s, "upsert")
=============================================================================
