------------------------------- MODULE Search -------------------------------
(***************************************************************************)
(* One search of the API (/discovery/nearby, /search and /preview), while  *)
(* members, operators and professionals change what there is to find.  The *)
(* search reads its settings, its origin and the rows of each kind in      *)
(* statements of their own, then ranks and filters what it read.           *)
(*                                                                         *)
(* Places are points of a line.  A score is counted in units that make it  *)
(* an integer.  Cards, pins and clusters are made of the answer and left   *)
(* out; the settings and the categories change in other modules.           *)
(***************************************************************************)
EXTENDS Integers, Sequences, FiniteSets, FiniteSetsExt, Functions

CONSTANTS MaxEdits,       \* changes while the search is looked at
          MaxPlace
ASSUME SearchAssumption == {MaxEdits, MaxPlace} \subseteq Nat /\ MaxPlace > 1

\* ann is found as a member and as the professional p1, bob as p2 only.
Listings == {"m1", "p1", "p2", "b1"}
ListingKind == [m1 |-> "MEMBER", p1 |-> "PROFESSIONAL", p2 |-> "PROFESSIONAL", b1 |-> "BUSINESS"]
OwnerOf == [m1 |-> "ann", p1 |-> "ann", p2 |-> "bob"]
Named == {"p2", "b1"}                     \* match the text
Reach == [p1 |-> 2, p2 |-> MaxPlace]      \* the radius of the service area
Tags == [m1 |-> {}, p1 |-> {"asked"}, p2 |-> {"under it"}, b1 |-> {"other"}]

\* shown: is_discoverable, or status = ACTIVE; open: GRANTED, or is_public.
Row == [shown: BOOLEAN, open: BOOLEAN, place: 0..MaxPlace, free: BOOLEAN, checked: BOOLEAN,
        rating: 0..1, recent: BOOLEAN]

VARIABLES
  rows,                   \* Listings -> its row
  activeMembers,          \* the members whose status is ACTIVE
  discovery,              \* the discovery policy in force
  query,                  \* what is asked for
  phase,                  \* the statement the search has come to
  read,                   \* what the search has read: listing and row
  answer,                 \* the ranked answer
  everFit, alwaysFit,     \* history: what fitted at some moment, at every moment, of the search
  edits
searchVars == <<rows, activeMembers, discovery, query, phase, read, answer, everFit, alwaysFit, edits>>

QueriesFor(kinds, listing, filters) ==
  [kinds: kinds, only: {listing}, radius: {1, MaxPlace}, category: BOOLEAN, filter: filters,
   viewer: {"nobody", "ann"}, from: {"query", "stored", "nowhere"}]
Queries ==
  QueriesFor({{"MEMBER", "PROFESSIONAL", "BUSINESS"}, {"PROFESSIONAL"}}, "any",
             {"none", "verified", "available", "text"})
\* A preview is the search for one kind, and for one listing of it.
PreviewQueries == UNION {QueriesFor({{ListingKind[l]}}, l, {"none"}) : l \in {"m1", "p2"}}
NoQuery == [kinds |-> {}, only |-> "any", radius |-> 1, category |-> FALSE, filter |-> "none",
            viewer |-> "nobody", from |-> "nowhere"]
Origin == IF query.from = "stored" THEN 1 ELSE 0

MinRadius == 1
MaxRadius == MaxPlace - 1
clampRadius(r) == IF r < MinRadius THEN MinRadius ELSE IF r > MaxRadius THEN MaxRadius ELSE r
Radius == clampRadius(query.radius)
resolveKinds == IF discovery.includeMembers THEN query.kinds ELSE query.kinds \ {"MEMBER"}
categoryFamily == {"asked", "under it"}

Away(row) == IF row.place > Origin THEN row.place - Origin ELSE Origin - row.place
NotViewer(l) == query.viewer # OwnerOf[l]
MatchesText(l) == query.filter = "text" => l \in Named

findNearbyMembers ==
  {l \in Listings : /\ ListingKind[l] = "MEMBER" /\ OwnerOf[l] \in activeMembers
                    /\ rows[l].shown /\ rows[l].open /\ Away(rows[l]) <= Radius
                    /\ NotViewer(l) /\ MatchesText(l)}
Matched(l) ==
  \/ discovery.match # "presence" /\ Away(rows[l]) <= Reach[l]
  \/ discovery.match # "service_area" /\ Away(rows[l]) <= Radius
\* Mutant: the member's own status is not asked for.
ProfessionalsOfAnyone ==
  {l \in Listings : /\ ListingKind[l] = "PROFESSIONAL"
                    /\ rows[l].shown /\ Matched(l) /\ NotViewer(l) /\ MatchesText(l)}

findNearbyProfessionals ==
  {l \in Listings : /\ ListingKind[l] = "PROFESSIONAL" /\ OwnerOf[l] \in activeMembers
                    /\ rows[l].shown /\ Matched(l) /\ NotViewer(l) /\ MatchesText(l)}
findNearbyBusinesses ==
  {l \in Listings : /\ ListingKind[l] = "BUSINESS" /\ rows[l].shown /\ rows[l].open
                    /\ Away(rows[l]) <= Radius /\ MatchesText(l)}

-----------------------------------------------------------------------------
\* The score, in parts of 2000 per unit of the radius: the default weights are
\* hundredths, a category counts in twentieths.
isAvailable(r) == ListingKind[r.listing] = "BUSINESS" \/ r.row.free
categoryRelevance(r) ==
  LET tags == Tags[r.listing] IN
  IF ~query.category THEN IF tags = {} THEN 7 ELSE 20
  ELSE IF "asked" \in tags THEN 20 ELSE IF tags \cap categoryFamily # {} THEN 14 ELSE 0
DistanceScore(r) == IF Away(r.row) < Radius THEN Radius - Away(r.row) ELSE 0
Full(b) == IF b THEN 20 ELSE 0
ActivityScore(r) == IF r.row.recent THEN 20 ELSE 10
Score(r) ==
  28 * 20 * DistanceScore(r)
    + Radius * (20 * categoryRelevance(r) + 16 * Full(isAvailable(r)) + 14 * Full(r.row.checked)
                + 14 * 20 * r.row.rating + 8 * ActivityScore(r))

\* The order rows are sorted by. Those of a kind come in no promised order, and
\* rows that tie keep the order of the statements that read them.
KindsInOrder == [MEMBER |-> 1, PROFESSIONAL |-> 2, BUSINESS |-> 3]
ReadBefore(a, b) == KindsInOrder[ListingKind[a.listing]] < KindsInOrder[ListingKind[b.listing]]
\* Mutant: rows of one score stay in the order they were read.
ByScoreOnly(a, b) == Score(a) > Score(b) \/ (Score(a) = Score(b) /\ ReadBefore(a, b))

RanksBefore(a, b) ==
  \/ Score(a) > Score(b)
  \/ Score(a) = Score(b) /\ Away(a.row) < Away(b.row)
  \/ Score(a) = Score(b) /\ Away(a.row) = Away(b.row) /\ ReadBefore(a, b)
rankNearbyRows(rs) ==
  {ranked \in Bijection(1..Cardinality(rs), rs) :
     \A i, j \in DOMAIN ranked : i < j => ~RanksBefore(ranked[j], ranked[i])}

Passes(r) ==
  /\ query.category => Tags[r.listing] \cap categoryFamily # {}
  /\ query.filter = "verified" => r.row.checked
  /\ query.filter = "available" => isAvailable(r)
  /\ query.only \in {"any", r.listing}

-----------------------------------------------------------------------------
SearchInit ==
  /\ activeMembers \in {{"ann", "bob"}, {"ann"}}
  /\ \E alike \in SUBSET {"p2"} :        \* the professionals differ in distance alone
       rows = [l \in Listings |->
         [shown |-> TRUE, open |-> TRUE, place |-> IF l = "p2" THEN MaxPlace ELSE 2,
          free |-> l \in {"p1"} \cup alike, checked |-> l \notin {"m1", "p1"} \cup alike,
          rating |-> IF l = "b1" THEN 1 ELSE 0, recent |-> FALSE]]
  /\ discovery \in {[includeMembers |-> i, match |-> m] : i \in BOOLEAN,
                                                          m \in {"service_area", "presence", "either"}}
  /\ discovery.includeMembers <=> discovery.match # "presence"
  /\ query = NoQuery /\ phase = "idle" /\ read = {} /\ answer = <<>>
  /\ everFit = {} /\ alwaysFit = {} /\ edits = 0

\* What fits the query now, by the promises of the directory: the listing is
\* on show by its owner's and the operators' word, near, and what was asked for.
Fits(l) ==
  LET row == rows[l] IN
  /\ ListingKind[l] \in query.kinds
  /\ row.shown /\ (l # "b1" => OwnerOf[l] \in activeMembers \ {query.viewer})
  /\ ListingKind[l] # "PROFESSIONAL" => row.open
  /\ ListingKind[l] = "MEMBER" => discovery.includeMembers
  /\ \/ Away(row) <= Radius /\ (ListingKind[l] = "PROFESSIONAL" => discovery.match # "service_area")
     \/ ListingKind[l] = "PROFESSIONAL" /\ discovery.match # "presence" /\ Away(row) <= Reach[l]
  /\ CASE query.filter = "text" -> l \in Named
       [] query.filter = "verified" -> row.checked
       [] query.filter = "available" -> l = "b1" \/ row.free
       [] OTHER -> TRUE
  /\ query.category => l \in {"p1", "p2"}
  /\ query.only \in {"any", l}
Fitting == {l \in Listings : Fits(l)}

StartSearch(q) ==
  /\ phase = "idle" /\ query' = q
  /\ IF q.from = "nowhere" \/ (q.from = "stored" /\ q.viewer = "nobody")
     THEN phase' = "LOCATION_UNAVAILABLE" ELSE phase' = "MEMBER"
  /\ UNCHANGED <<rows, activeMembers, discovery, read, answer, edits>>
  /\ everFit' = Fitting' /\ alwaysFit' = Fitting'

\* One statement for each kind.
ReadKind(kind, found, then) ==
  /\ phase = kind /\ phase' = then
  /\ read' = read \cup {[listing |-> l, row |-> rows[l]] :
                          l \in IF kind \in resolveKinds THEN found ELSE {}}
  /\ UNCHANGED <<rows, activeMembers, discovery, query, answer, everFit, alwaysFit, edits>>
ReadMembers == ReadKind("MEMBER", findNearbyMembers, "PROFESSIONAL")
ReadProfessionals == ReadKind("PROFESSIONAL", findNearbyProfessionals, "BUSINESS")
ReadBusinesses == ReadKind("BUSINESS", findNearbyBusinesses, "read")

\* Filtering the ranked rows leaves their order: it is the order of those that pass.
Rank ==
  /\ phase = "read"
  /\ answer' \in rankNearbyRows({r \in read : Passes(r)})
  /\ phase' = IF answer' = <<>> /\ query.only # "any" THEN "NOT_FOUND" ELSE "answered"
  /\ UNCHANGED <<rows, activeMembers, discovery, query, read, everFit, alwaysFit, edits>>

\* A row or a member changes; the history of the running search takes note.
NoteFit ==
  /\ phase \in {"MEMBER", "PROFESSIONAL", "BUSINESS", "read"}
  /\ edits < MaxEdits /\ edits' = edits + 1
  /\ UNCHANGED <<discovery, query, phase, read, answer>>
  /\ everFit' = everFit \cup Fitting' /\ alwaysFit' = alwaysFit \cap Fitting'
EditListing(l) ==
  /\ \/ \E f \in {"shown", "free", "checked"} :
          (l = "m1" => f # "checked") /\ rows' = [rows EXCEPT ![l][f] = ~@, ![l].recent = TRUE]
     \/ rows' = [rows EXCEPT ![l].open = ~@]
     \/ \E p \in 0..MaxPlace : p # rows[l].place /\ rows' = [rows EXCEPT ![l].place = p]
  /\ UNCHANGED activeMembers /\ NoteFit
SuspendOrRestore(m) ==
  /\ activeMembers' = SymDiff(activeMembers, {m})
  /\ UNCHANGED rows /\ NoteFit

SearchNext ==
  \/ \E q \in Queries \cup PreviewQueries : StartSearch(q)
  \/ ReadMembers \/ ReadProfessionals \/ ReadBusinesses \/ Rank
  \/ \E l \in Listings : EditListing(l)
  \/ \E m \in {"ann", "bob"} : SuspendOrRestore(m)
SearchSpec == SearchInit /\ [][SearchNext]_searchVars

-----------------------------------------------------------------------------
(* Every variable keeps its type. *)
SearchTypeOK ==
  /\ rows \in [Listings -> Row] /\ activeMembers \subseteq {"ann", "bob"}
  /\ query \in Queries \cup PreviewQueries \cup {NoQuery}
  /\ phase \in {"idle", "MEMBER", "PROFESSIONAL", "BUSINESS", "read", "answered", "NOT_FOUND",
                "LOCATION_UNAVAILABLE"}
  /\ read \subseteq [listing: Listings, row: Row] /\ answer \in Seq([listing: Listings, row: Row])
  /\ everFit \cup alwaysFit \subseteq Listings /\ edits \in 0..MaxEdits

(* The answer names each listing that fitted the query all the time the search *)
(* ran, and none that never did, whatever changed between its statements       *)
(* (discovery.service.ts:143-221): nobody is found who was hidden, suspended   *)
(* or out of reach throughout.                                                 *)
FoundWhileSearching ==
  phase \in {"answered", "NOT_FOUND"} =>
    LET found == {answer[i].listing : i \in DOMAIN answer} IN
    alwaysFit \subseteq found /\ found \subseteq everFit

(* Of two rows one of which is nearer and in nothing else behind, the nearer   *)
(* comes first, also beyond the radius, where the distance no longer scores    *)
(* (discovery.ranking.ts:28, 57).                                              *)
NearerRanksHigher ==
  LET Behind(a, b) ==     \* a is in nothing but distance behind b
        /\ categoryRelevance(a) >= categoryRelevance(b)
        /\ isAvailable(b) => isAvailable(a)
        /\ b.row.checked => a.row.checked
        /\ a.row.rating >= b.row.rating
        /\ b.row.recent => a.row.recent
  IN \A i, j \in DOMAIN answer :
       Behind(answer[i], answer[j]) /\ Away(answer[i].row) < Away(answer[j].row) => i < j

(* A search finds what it should and puts the nearer of two equals first       *)
(* (discovery.service.ts:143-221, discovery.ranking.ts:57).                    *)
FindsInOrder == FoundWhileSearching /\ NearerRanksHigher
=============================================================================
