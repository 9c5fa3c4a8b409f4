--------------------------- MODULE PlatformProofs ---------------------------
(***************************************************************************)
(* The search finds what it should, in order, and the components checked   *)
(* together keep the promises each keeps alone.                            *)
(*                                                                         *)
(* The search: what fits at the moment a kind is read is what that read    *)
(* finds and the filters let through, so the rows that were read stay      *)
(* between what fitted throughout and what fitted at some moment.          *)
(*                                                                         *)
(* The whole: a step of the platform is a step of one component or leaves  *)
(* it alone, so the platform implements every component's specification    *)
(* and inherits its theorems.                                              *)
(***************************************************************************)
EXTENDS Platform, CredentialsProofs, MembersProofs

-----------------------------------------------------------------------------
(* Discovery search. *)

Found == [listing: Listings, row: Row]

\* The kinds whose statement has run, by the statement the search has come to.
KindsRead == [MEMBER |-> {}, PROFESSIONAL |-> {"MEMBER"}, BUSINESS |-> {"MEMBER", "PROFESSIONAL"},
              read |-> {"MEMBER", "PROFESSIONAL", "BUSINESS"}]

\* What fits now is part of the history of the search.
FitsAreNoted == phase \in DOMAIN KindsRead => alwaysFit \subseteq Fitting /\ Fitting \subseteq everFit

\* A row that was read and passes the filters fitted when it was read, and a listing that
\* has fitted all along is among the rows of its kind.
ReadAsItFits ==
  phase \in DOMAIN KindsRead =>
    /\ \A r \in read : Passes(r) => r.listing \in everFit
    /\ \A l \in alwaysFit : ListingKind[l] \in KindsRead[phase] => \E r \in read : r.listing = l /\ Passes(r)

SearchIInv ==
  /\ SearchTypeOK /\ IsFiniteSet(read)
  /\ FitsAreNoted /\ ReadAsItFits
  /\ phase # "idle" => query \in Queries \cup PreviewQueries
  /\ phase \in {"idle", "MEMBER"} => read = {}
  /\ phase \notin {"answered", "NOT_FOUND"} => answer = <<>>
  /\ FindsInOrder

LEMMA ListingsFinite == IsFiniteSet(Listings)
<1>1. IsFiniteSet({}) /\ Listings = ((({} \cup {"m1"}) \cup {"p1"}) \cup {"p2"}) \cup {"b1"}
  BY FS_EmptySet DEF Listings
<1> QED BY <1>1, FS_AddElement

LEMMA ListingsKnown ==
  /\ ListingKind["m1"] = "MEMBER" /\ ListingKind["p1"] = "PROFESSIONAL"
  /\ ListingKind["p2"] = "PROFESSIONAL" /\ ListingKind["b1"] = "BUSINESS"
  /\ OwnerOf["m1"] = "ann" /\ OwnerOf["p1"] = "ann" /\ OwnerOf["p2"] = "bob"
  /\ Tags["m1"] = {} /\ Tags["p1"] = {"asked"} /\ Tags["p2"] = {"under it"} /\ Tags["b1"] = {"other"}
BY DEF ListingKind, OwnerOf, Tags

LEMMA StatementsKnown ==
  /\ DOMAIN KindsRead = {"MEMBER", "PROFESSIONAL", "BUSINESS", "read"}
  /\ KindsRead["MEMBER"] = {} /\ KindsRead["PROFESSIONAL"] = {"MEMBER"}
  /\ KindsRead["BUSINESS"] = {"MEMBER", "PROFESSIONAL"}
  /\ KindsRead["read"] = {"MEMBER", "PROFESSIONAL", "BUSINESS"}
BY DEF KindsRead

LEMMA QueryKnown ==
  ASSUME NEW q \in Queries \cup PreviewQueries
  PROVE  /\ q.filter \in {"none", "verified", "available", "text"}
         /\ q.radius \in {1, MaxPlace} /\ q.category \in BOOLEAN
         /\ q.from \in {"query", "stored", "nowhere"}
<1>1. CASE q \in Queries
  BY <1>1 DEF Queries, QueriesFor
<1>2. CASE q \in PreviewQueries
  BY <1>2 DEF PreviewQueries, QueriesFor
<1> QED BY <1>1, <1>2

\* What a kind's statement finds and the filters let through is what fits.
FoundOf(kind) ==
  IF kind \notin resolveKinds THEN {}
  ELSE IF kind = "MEMBER" THEN findNearbyMembers
  ELSE IF kind = "PROFESSIONAL" THEN findNearbyProfessionals ELSE findNearbyBusinesses
RowOf(l) == [listing |-> l, row |-> rows[l]]

LEMMA FoundFits ==
  ASSUME SearchTypeOK, query \in Queries \cup PreviewQueries, NEW l \in Listings
  PROVE  l \in FoundOf(ListingKind[l]) /\ Passes(RowOf(l)) <=> Fits(l)
<1>1. query.filter \in {"none", "verified", "available", "text"}
  BY QueryKnown
<1>2. RowOf(l).listing = l /\ RowOf(l).row = rows[l]
  BY DEF RowOf
<1>3. CASE l = "m1"
  BY <1>1, <1>2, <1>3, ListingsKnown DEF FoundOf, Fits, Passes, resolveKinds, findNearbyMembers,
     categoryFamily, isAvailable, NotViewer, MatchesText, Named, Listings
<1>4. CASE l = "p1"
  BY <1>1, <1>2, <1>4, ListingsKnown DEF FoundOf, Fits, Passes, resolveKinds, findNearbyProfessionals, Matched,
     categoryFamily, isAvailable, NotViewer, MatchesText, Named, Listings
<1>5. CASE l = "p2"
  BY <1>1, <1>2, <1>5, ListingsKnown DEF FoundOf, Fits, Passes, resolveKinds, findNearbyProfessionals, Matched,
     categoryFamily, isAvailable, NotViewer, MatchesText, Named, Listings
<1>6. CASE l = "b1"
  BY <1>1, <1>2, <1>6, ListingsKnown DEF FoundOf, Fits, Passes, resolveKinds, findNearbyBusinesses,
     categoryFamily, isAvailable, NotViewer, MatchesText, Named, Listings
<1> QED BY <1>3, <1>4, <1>5, <1>6 DEF Listings

-----------------------------------------------------------------------------
LEMMA SearchInitial == SearchInit => SearchIInv
<1> SUFFICES ASSUME SearchInit PROVE SearchIInv
  OBVIOUS
<1>1. SearchTypeOK
  <2>1. rows \in [Listings -> Row] /\ activeMembers \subseteq {"ann", "bob"}
    BY SearchAssumption DEF SearchInit, Row
  <2> QED BY <2>1, SearchAssumption DEF SearchInit, SearchTypeOK
<1>2. IsFiniteSet(read) /\ FitsAreNoted /\ ReadAsItFits /\ answer = <<>> /\ read = {}
  BY FS_EmptySet, StatementsKnown DEF SearchInit, FitsAreNoted, ReadAsItFits
<1>3. FindsInOrder
  BY <1>2 DEF SearchInit, FindsInOrder, FoundWhileSearching, NearerRanksHigher
<1> QED BY <1>1, <1>2, <1>3 DEF SearchIInv, SearchInit

\* Nothing is answered yet: what the answer promises is not due.
LEMMA NotAnswered ==
  ASSUME answer = <<>>, phase \notin {"answered", "NOT_FOUND"}
  PROVE  FindsInOrder
BY DEF FindsInOrder, FoundWhileSearching, NearerRanksHigher

LEMMA StartSearchHolds ==
  ASSUME SearchIInv, NEW q \in Queries \cup PreviewQueries, StartSearch(q)
  PROVE  SearchIInv'
<1>1. phase' \in {"MEMBER", "LOCATION_UNAVAILABLE"} /\ answer' = <<>> /\ everFit' = Fitting' /\ alwaysFit' = Fitting'
  BY DEF SearchIInv, StartSearch
<1>2. SearchTypeOK'
  BY <1>1 DEF SearchIInv, SearchTypeOK, StartSearch, Fitting
<1>3. FitsAreNoted' /\ IsFiniteSet(read')
  BY <1>1 DEF FitsAreNoted, SearchIInv, StartSearch
<1>4. ReadAsItFits' /\ read' = {}
  BY <1>1, StatementsKnown DEF ReadAsItFits, SearchIInv, StartSearch
<1>5. FindsInOrder'
  BY <1>1 DEF FindsInOrder, FoundWhileSearching, NearerRanksHigher
<1> QED BY <1>1, <1>2, <1>3, <1>4, <1>5 DEF SearchIInv, StartSearch

LEMMA ReadKindHolds ==
  ASSUME SearchIInv, NEW kind \in {"MEMBER", "PROFESSIONAL", "BUSINESS"}, NEW found, NEW then \in DOMAIN KindsRead,
         KindsRead[then] = KindsRead[kind] \cup {kind}, then # "MEMBER",
         ReadKind(kind, found, then), FoundOf(kind) = IF kind \in resolveKinds THEN found ELSE {}
  PROVE  SearchIInv'
<1> DEFINE new == {RowOf(l) : l \in FoundOf(kind)}
<1>1. /\ phase = kind /\ phase' = then /\ read' = read \cup new
      /\ UNCHANGED <<rows, activeMembers, discovery, query, answer, everFit, alwaysFit, edits>>
  BY DEF ReadKind, RowOf
<1>2. query \in Queries \cup PreviewQueries /\ answer = <<>> /\ phase \in DOMAIN KindsRead
  BY <1>1, StatementsKnown DEF SearchIInv
<1>3. FoundOf(kind) \subseteq Listings /\ \A l \in FoundOf(kind) : ListingKind[l] = kind
  BY DEF FoundOf, findNearbyMembers, findNearbyProfessionals, findNearbyBusinesses
<1>4. \A r : Passes(r)' <=> Passes(r)
  BY <1>1 DEF Passes, isAvailable
<1>5. SearchTypeOK'
  <2>1. new \subseteq Found
    BY <1>3 DEF RowOf, Found, SearchIInv, SearchTypeOK
  <2>2. phase' \in {"MEMBER", "PROFESSIONAL", "BUSINESS", "read"}
    BY <1>1, StatementsKnown
  <2> QED BY <1>1, <2>1, <2>2 DEF SearchIInv, SearchTypeOK, Found
<1>6. IsFiniteSet(read')
  <2>1. IsFiniteSet(FoundOf(kind))
    BY <1>3, ListingsFinite, FS_Subset
  <2>2. [l \in FoundOf(kind) |-> RowOf(l)] \in Surjection(FoundOf(kind), new)
    BY DEF Surjection
  <2>3. IsFiniteSet(new)
    BY <2>1, <2>2, FS_Surjection
  <2> QED BY <1>1, <2>3, FS_Union DEF SearchIInv
<1>7. FitsAreNoted'
  BY <1>1, <1>2 DEF SearchIInv, FitsAreNoted, Fitting, Fits, Away, Origin, Radius
<1>8. ReadAsItFits'
  <2>1. alwaysFit \subseteq Fitting /\ Fitting \subseteq everFit
    BY <1>2 DEF SearchIInv, FitsAreNoted
  <2>2. ASSUME NEW r \in read', Passes(r) PROVE r.listing \in everFit
    <3>1. CASE r \in read
      BY <1>2, <2>2, <3>1 DEF SearchIInv, ReadAsItFits
    <3>2. CASE r \in new
      <4>1. PICK l \in FoundOf(kind) : r = RowOf(l)
        BY <3>2
      <4>2. Fits(l) /\ l \in Listings
        BY <1>2, <1>3, <2>2, <4>1, FoundFits DEF SearchIInv
      <4> QED BY <2>1, <4>1, <4>2 DEF Fitting, RowOf
    <3> QED BY <1>1, <3>1, <3>2
  <2>3. ASSUME NEW l \in alwaysFit, ListingKind[l] \in KindsRead[then]
        PROVE  \E r \in read' : r.listing = l /\ Passes(r)
    <3>1. CASE ListingKind[l] \in KindsRead[kind]
      BY <1>1, <1>2, <3>1 DEF SearchIInv, ReadAsItFits
    <3>2. CASE ListingKind[l] = kind
      <4>1. l \in Listings /\ Fits(l)
        BY <2>1 DEF Fitting
      <4>2. l \in FoundOf(kind) /\ Passes(RowOf(l))
        BY <1>2, <3>2, <4>1, FoundFits DEF SearchIInv
      <4>3. RowOf(l) \in read' /\ RowOf(l).listing = l
        BY <1>1, <4>2 DEF RowOf
      <4> QED BY <4>2, <4>3
    <3> QED BY <2>3, <3>1, <3>2
  <2> HIDE DEF new
  <2> QED BY <1>1, <1>4, <2>2, <2>3 DEF ReadAsItFits
<1>9. FindsInOrder'
  BY <1>1, <1>2, StatementsKnown DEF FindsInOrder, FoundWhileSearching, NearerRanksHigher
<1>10. phase' # "idle" /\ phase' \notin {"idle", "MEMBER"} /\ query' \in Queries \cup PreviewQueries /\ answer' = <<>>
  BY <1>1, <1>2, StatementsKnown
<1> QED BY <1>5, <1>6, <1>7, <1>8, <1>9, <1>10 DEF SearchIInv

LEMMA ReadsHold ==
  ASSUME SearchIInv, ReadMembers \/ ReadProfessionals \/ ReadBusinesses
  PROVE  SearchIInv'
<1>1. CASE ReadMembers
  <2>1. FoundOf("MEMBER") = IF "MEMBER" \in resolveKinds THEN findNearbyMembers ELSE {}
    BY DEF FoundOf
  <2> QED BY <1>1, <2>1, ReadKindHolds, StatementsKnown DEF ReadMembers
<1>2. CASE ReadProfessionals
  <2>1. FoundOf("PROFESSIONAL") = IF "PROFESSIONAL" \in resolveKinds THEN findNearbyProfessionals ELSE {}
    BY DEF FoundOf
  <2> QED BY <1>2, <2>1, ReadKindHolds, StatementsKnown DEF ReadProfessionals
<1>3. CASE ReadBusinesses
  <2>1. FoundOf("BUSINESS") = IF "BUSINESS" \in resolveKinds THEN findNearbyBusinesses ELSE {}
    BY DEF FoundOf
  <2> QED BY <1>3, <2>1, ReadKindHolds, StatementsKnown DEF ReadBusinesses
<1> QED BY <1>1, <1>2, <1>3

\* A change is noted in the history; what was read and answered stays.
LEMMA NoteFitHolds ==
  ASSUME SearchIInv, NoteFit, rows' \in [Listings -> Row], activeMembers' \subseteq {"ann", "bob"}
  PROVE  SearchIInv'
<1>1. /\ phase \in {"MEMBER", "PROFESSIONAL", "BUSINESS", "read"} /\ edits' \in 0..MaxEdits
      /\ UNCHANGED <<discovery, query, phase, read, answer>>
      /\ everFit' = everFit \cup Fitting' /\ alwaysFit' = alwaysFit \cap Fitting'
  BY SearchAssumption DEF NoteFit, SearchIInv, SearchTypeOK
<1>2. \A r : Passes(r)' <=> Passes(r)
  BY <1>1 DEF Passes, isAvailable
<1>3. SearchTypeOK'
  <2>1. Fitting' \subseteq Listings
    BY DEF Fitting
  <2> QED BY <1>1, <2>1 DEF SearchIInv, SearchTypeOK
<1>4. FitsAreNoted'
  BY <1>1 DEF FitsAreNoted
<1>5. ReadAsItFits'
  BY <1>1, <1>2 DEF SearchIInv, ReadAsItFits
<1>6. FindsInOrder'
  BY <1>1 DEF SearchIInv, FindsInOrder, FoundWhileSearching, NearerRanksHigher
<1> QED BY <1>1, <1>3, <1>4, <1>5, <1>6 DEF SearchIInv

LEMMA EditsHold ==
  ASSUME SearchIInv, (\E l \in Listings : EditListing(l)) \/ (\E m \in {"ann", "bob"} : SuspendOrRestore(m))
  PROVE  SearchIInv'
<1>1. ASSUME NEW l \in Listings, EditListing(l) PROVE SearchIInv'
  <2>1. rows \in [Listings -> Row] /\ activeMembers' \subseteq {"ann", "bob"}
    BY <1>1 DEF EditListing, SearchIInv, SearchTypeOK
  <2>2. rows' \in [Listings -> Row]
    <3>1. ASSUME NEW f \in {"shown", "free", "checked"},
                 rows' = [rows EXCEPT ![l][f] = ~@, ![l].recent = TRUE]
          PROVE  rows' \in [Listings -> Row]
      <4>1. [rows[l] EXCEPT ![f] = ~@] \in Row
        BY <2>1, <3>1 DEF Row
      <4>2. rows' = [rows EXCEPT ![l] = [[rows[l] EXCEPT ![f] = ~@] EXCEPT !.recent = TRUE]]
        BY <2>1, <3>1
      <4>3. ASSUME NEW r \in Row PROVE [r EXCEPT !.recent = TRUE] \in Row
        BY DEF Row
      <4> QED BY <2>1, <4>1, <4>2, <4>3
    <3>2. ASSUME rows' = [rows EXCEPT ![l].open = ~@] PROVE rows' \in [Listings -> Row]
      BY <2>1, <3>2 DEF Row
    <3>3. ASSUME NEW p \in 0..MaxPlace, rows' = [rows EXCEPT ![l].place = p] PROVE rows' \in [Listings -> Row]
      BY <2>1, <3>3 DEF Row
    <3> QED BY <1>1, <3>1, <3>2, <3>3 DEF EditListing
  <2> QED BY <1>1, <2>1, <2>2, NoteFitHolds DEF EditListing
<1>2. ASSUME NEW m \in {"ann", "bob"}, SuspendOrRestore(m) PROVE SearchIInv'
  <2>1. rows' \in [Listings -> Row] /\ activeMembers' \subseteq {"ann", "bob"}
    BY <1>2 DEF SuspendOrRestore, SearchIInv, SearchTypeOK, SymDiff
  <2> QED BY <1>2, <2>1, NoteFitHolds DEF SuspendOrRestore
<1> QED BY <1>1, <1>2

-----------------------------------------------------------------------------
\* Of two rows one of which is nearer and in nothing else behind, the nearer scores no less.
LEMMA NearerScores ==
  ASSUME SearchTypeOK, query.radius \in {1, MaxPlace}, NEW a \in Found, NEW b \in Found,
         categoryRelevance(a) >= categoryRelevance(b), isAvailable(b) => isAvailable(a),
         b.row.checked => a.row.checked, a.row.rating >= b.row.rating, b.row.recent => a.row.recent,
         Away(a.row) < Away(b.row)
  PROVE  /\ Score(a) \in Nat /\ Score(b) \in Nat /\ Away(a.row) \in Nat /\ Away(b.row) \in Nat
         /\ Score(a) >= Score(b)
<1>1. Radius \in Nat /\ Origin \in {0, 1}
  BY SearchAssumption DEF Radius, clampRadius, MinRadius, MaxRadius, Origin
<1>2. \A r \in Found :
        /\ Away(r.row) \in Nat /\ DistanceScore(r) \in Nat /\ categoryRelevance(r) \in Nat
        /\ r.row.rating \in {0, 1}
        /\ Full(isAvailable(r)) \in {0, 20} /\ Full(r.row.checked) \in {0, 20} /\ ActivityScore(r) \in {10, 20}
  BY <1>1, SearchAssumption DEF Found, Row, Away, DistanceScore, categoryRelevance, Full, ActivityScore
<1>3. DistanceScore(a) >= DistanceScore(b)
  BY <1>1, <1>2 DEF DistanceScore
<1>4. Full(isAvailable(a)) >= Full(isAvailable(b)) /\ Full(a.row.checked) >= Full(b.row.checked)
  BY DEF Full
<1>5. ActivityScore(a) >= ActivityScore(b)
  BY DEF ActivityScore
<1> DEFINE sum(r) == 20 * categoryRelevance(r) + 16 * Full(isAvailable(r)) + 14 * Full(r.row.checked)
                       + 14 * 20 * r.row.rating + 8 * ActivityScore(r)
<1>6. sum(a) \in Nat /\ sum(b) \in Nat /\ sum(a) >= sum(b)
  BY <1>2, <1>4, <1>5
<1>7. Score(a) = 560 * DistanceScore(a) + Radius * sum(a) /\ Score(b) = 560 * DistanceScore(b) + Radius * sum(b)
  BY DEF Score
<1>8. ASSUME NEW x \in Nat, NEW y \in Nat, NEW n \in Nat, x >= y PROVE n * x >= n * y
  BY <1>8, Z3
<1> HIDE DEF sum
<1>9. Radius * sum(a) >= Radius * sum(b) /\ Radius * sum(a) \in Nat /\ Radius * sum(b) \in Nat
  BY <1>1, <1>6, <1>8
<1> QED BY <1>2, <1>3, <1>7, <1>9

LEMMA RankHolds ==
  ASSUME SearchIInv, Rank
  PROVE  SearchIInv'
<1> DEFINE passed == {r \in read : Passes(r)}
<1>1. /\ phase = "read" /\ phase' \in {"answered", "NOT_FOUND"} /\ answer' \in rankNearbyRows(passed)
      /\ UNCHANGED <<rows, activeMembers, discovery, query, read, everFit, alwaysFit, edits>>
  BY DEF Rank
<1>2. passed \subseteq Found /\ IsFiniteSet(passed)
  BY FS_Subset DEF SearchIInv, SearchTypeOK, Found
<1>3. /\ answer' \in [1..Cardinality(passed) -> passed] /\ Cardinality(passed) \in Nat
      /\ \A r \in passed : \E i \in 1..Cardinality(passed) : answer'[i] = r
      /\ \A i, j \in DOMAIN answer' : i < j => ~RanksBefore(answer'[j], answer'[i])
  BY <1>1, <1>2, FS_CardinalityType DEF rankNearbyRows, Bijection, Surjection, Injection
<1>4. answer' \in Seq(Found) /\ DOMAIN answer' = 1..Cardinality(passed)
  BY <1>2, <1>3
<1> HIDE DEF passed
<1>5. FoundWhileSearching'
  <2>1. \A i \in DOMAIN answer' : answer'[i].listing \in everFit
    BY <1>1, <1>3, <1>4, StatementsKnown DEF SearchIInv, ReadAsItFits, passed
  <2>2. \A l \in alwaysFit : \E i \in DOMAIN answer' : answer'[i].listing = l
    <3>1. \A l \in alwaysFit : \E r \in passed : r.listing = l
      <4>1. \A l \in alwaysFit : ListingKind[l] \in {"MEMBER", "PROFESSIONAL", "BUSINESS"}
        BY ListingsKnown DEF SearchIInv, SearchTypeOK, Listings
      <4>2. \A l \in alwaysFit :
              ListingKind[l] \in KindsRead["read"] => \E r \in read : r.listing = l /\ Passes(r)
        BY <1>1, StatementsKnown DEF SearchIInv, ReadAsItFits
      <4> QED BY <4>1, <4>2, StatementsKnown DEF passed
    <3> QED BY <1>3, <1>4, <3>1
  <2> QED BY <1>1, <2>1, <2>2 DEF FoundWhileSearching
<1>6. NearerRanksHigher'
  <2> SUFFICES ASSUME NEW i \in DOMAIN answer', NEW j \in DOMAIN answer',
                      categoryRelevance(answer'[i]) >= categoryRelevance(answer'[j]),
                      isAvailable(answer'[j]) => isAvailable(answer'[i]),
                      answer'[j].row.checked => answer'[i].row.checked,
                      answer'[i].row.rating >= answer'[j].row.rating,
                      answer'[j].row.recent => answer'[i].row.recent,
                      Away(answer'[i].row) < Away(answer'[j].row)
               PROVE  i < j
    BY <1>1 DEF NearerRanksHigher, categoryRelevance, isAvailable, Away, Origin
  <2>1. answer'[i] \in Found /\ answer'[j] \in Found
    BY <1>2, <1>3, <1>4
  <2>2. query.radius \in {1, MaxPlace}
    BY <1>1, QueryKnown DEF SearchIInv
  <2>3. /\ Score(answer'[i]) \in Nat /\ Score(answer'[j]) \in Nat /\ Away(answer'[i].row) \in Nat
        /\ Score(answer'[i]) >= Score(answer'[j])
    BY <2>1, <2>2, NearerScores DEF SearchIInv
  <2>4. RanksBefore(answer'[i], answer'[j])
    BY <2>3 DEF RanksBefore
  <2>5. i # j /\ ~(j < i)
    BY <1>3, <2>3, <2>4
  <2> QED BY <1>4, <2>5
<1>7. SearchTypeOK' /\ IsFiniteSet(read') /\ FitsAreNoted' /\ ReadAsItFits'
  BY <1>1, <1>4, StatementsKnown DEF SearchIInv, SearchTypeOK, FitsAreNoted, ReadAsItFits, Found
<1>8. phase' \notin {"idle", "MEMBER"} /\ query' \in Queries \cup PreviewQueries
  BY <1>1 DEF SearchIInv
<1> QED BY <1>1, <1>5, <1>6, <1>7, <1>8 DEF SearchIInv, FindsInOrder

LEMMA SearchInductive == SearchIInv /\ [SearchNext]_searchVars => SearchIInv'
<1>1. ASSUME SearchIInv, UNCHANGED searchVars PROVE SearchIInv'
  <2>1. SearchTypeOK' /\ IsFiniteSet(read') /\ FitsAreNoted' /\ ReadAsItFits'
    BY <1>1 DEF searchVars, SearchIInv, SearchTypeOK, FitsAreNoted, ReadAsItFits, Fitting, Fits, Away, Origin, Radius,
       Passes, isAvailable
  <2>2. FoundWhileSearching'
    BY <1>1 DEF searchVars, SearchIInv, FindsInOrder, FoundWhileSearching
  <2>3. NearerRanksHigher'
    <3>1. \A r : /\ categoryRelevance(r)' = categoryRelevance(r) /\ isAvailable(r)' = isAvailable(r)
                /\ Away(r.row)' = Away(r.row)
      BY <1>1 DEF searchVars, categoryRelevance, isAvailable, Away, Origin
    <3> QED BY <1>1, <3>1 DEF searchVars, SearchIInv, FindsInOrder, NearerRanksHigher
  <2> QED BY <1>1, <2>1, <2>2, <2>3 DEF searchVars, SearchIInv, FindsInOrder
<1> QED BY <1>1, StartSearchHolds, ReadsHold, EditsHold, RankHolds DEF SearchNext

(* Every variable of the search keeps its type, for any number of changes and  *)
(* any distance.                                                               *)
THEOREM SearchTypeCorrect == SearchSpec => []SearchTypeOK
<1>1. SearchIInv => SearchTypeOK
  BY DEF SearchIInv
<1> QED BY SearchInitial, SearchInductive, <1>1, PTL DEF SearchSpec

(* For any number of changes and any distance, a search finds what fitted all  *)
(* the time and nothing that never did, and puts the nearer of two equals      *)
(* first (discovery.service.ts:143-221, discovery.ranking.ts:57).              *)
THEOREM SearchFindsInOrder == SearchSpec => []FindsInOrder
<1>1. SearchIInv => FindsInOrder
  BY DEF SearchIInv
<1> QED BY SearchInitial, SearchInductive, <1>1, PTL DEF SearchSpec

-----------------------------------------------------------------------------
(* The whole. *)

PartKnown == part \in Parts

LEMMA PlatformBegins ==
  PlatformInit =>
    /\ PartKnown
    /\ CredInit /\ RateInit /\ CatInit /\ CfgInit /\ DeskInit /\ VerInit
    /\ ModInit /\ ReviewInit /\ LiveInit /\ LocInit /\ RoomInit /\ SearchInit
BY DEF PlatformInit, PartKnown

\* A step of the platform is, for each component, a step of it or none.
LEMMA PlatformSteps ==
  [PlatformNext]_platformVars =>
    /\ [CredNext]_credVars /\ [RateNext]_rateVars /\ [CatNext]_catVars /\ [CfgNext]_cfgVars
    /\ [DeskNext]_deskVars /\ [VerNext]_verVars /\ [ModNext]_modVars /\ [ReviewNext]_reviewVars
    /\ [LiveNext]_liveVars /\ [LocNext]_locVars /\ [RoomNext]_roomVars /\ [SearchNext]_searchVars
    /\ (part' = part)
BY DEF PlatformNext, Alone, platformVars

(* The platform implements the specification of each of its components: what   *)
(* was proved of a component alone is true of it among the others, as the      *)
(* modules of the API share no row (src/apps/api/src/app.module.ts composes    *)
(* them side by side).                                                         *)
THEOREM PlatformImplements ==
  PlatformSpec =>
    /\ CredSpec /\ RateSpec /\ CatSpec /\ CfgSpec /\ DeskSpec /\ VerSpec
    /\ ModSpec /\ ReviewSpec /\ LiveSpec /\ LocSpec /\ RoomSpec /\ SearchSpec
<1>1. PlatformSpec => CredSpec /\ RateSpec /\ CatSpec /\ CfgSpec
  BY PlatformBegins, PlatformSteps, PTL DEF PlatformSpec, CredSpec, RateSpec, CatSpec, CfgSpec
<1>2. PlatformSpec => DeskSpec /\ VerSpec /\ ModSpec /\ ReviewSpec
  BY PlatformBegins, PlatformSteps, PTL DEF PlatformSpec, DeskSpec, VerSpec, ModSpec, ReviewSpec
<1>3. PlatformSpec => LiveSpec /\ LocSpec /\ RoomSpec /\ SearchSpec
  BY PlatformBegins, PlatformSteps, PTL DEF PlatformSpec, LiveSpec, LocSpec, RoomSpec, SearchSpec
<1> QED BY <1>1, <1>2, <1>3

(* Every variable of every component of the platform keeps its type, for every *)
(* value of the constants.                                                     *)
THEOREM PlatformTypeCorrect == PlatformSpec => []PlatformTypeOK
<1>1. PlatformSpec => []PartKnown
  <2>1. PartKnown /\ [PlatformNext]_platformVars => PartKnown'
    BY PlatformSteps DEF PartKnown
  <2> QED BY PlatformBegins, <2>1, PTL DEF PlatformSpec
<1>2. PlatformSpec => [](CredTypeOK /\ RateTypeOK /\ CatTypeOK /\ CfgTypeOK)
  BY PlatformImplements, CredTypeCorrect, RateTypeCorrect, CatTypeCorrect, CfgTypeCorrect, PTL
<1>3. PlatformSpec => [](DeskTypeOK /\ VerTypeOK /\ ModTypeOK /\ ReviewTypeOK)
  BY PlatformImplements, DeskTypeCorrect, VerTypeCorrect, ModTypeCorrect, ReviewTypeCorrect, PTL
<1>4. PlatformSpec => [](LiveTypeOK /\ LocTypeOK /\ RoomTypeOK /\ SearchTypeOK)
  BY PlatformImplements, LiveTypeCorrect, LocTypeCorrect, RoomTypeCorrect, SearchTypeCorrect, PTL
<1>5. /\ PartKnown
      /\ CredTypeOK /\ RateTypeOK /\ CatTypeOK /\ CfgTypeOK
      /\ DeskTypeOK /\ VerTypeOK /\ ModTypeOK /\ ReviewTypeOK
      /\ LiveTypeOK /\ LocTypeOK /\ RoomTypeOK /\ SearchTypeOK
      => PlatformTypeOK
  BY DEF PlatformTypeOK, PartKnown
<1> QED BY <1>1, <1>2, <1>3, <1>4, <1>5, PTL

(* What the components promise holds of the platform: who survives a           *)
(* revocation, proofs spent once, windows of requests, the catalogue whole,    *)
(* the configuration in force, the support books, verdicts, moderation, rating *)
(* aggregates, lives on show, public locations, rooms and searches, and no     *)
(* ticket reopens by itself.                                                   *)
THEOREM PlatformKeepsPromises ==
  PlatformSpec =>
    /\ []SurvivorsWereInFlight /\ []ProofsAreSpent /\ []WindowHolds /\ []CatalogueIsWhole
    /\ []ConfiguredIsInForce /\ []DeskBooksAgree /\ []VerdictsHold /\ []ModerationStands
    /\ []AggregateCatchesUp /\ []LivesAreShown /\ []PublicFollowsExact
    /\ []HearsItsNeighbours /\ []FindsInOrder
    /\ ReopenedOnPurpose
<1>1. PlatformSpec => []SurvivorsWereInFlight /\ []ProofsAreSpent /\ []WindowHolds /\ []CatalogueIsWhole
  BY PlatformImplements, RevocationsBite, ProofsSpent, WindowsHold, CatalogueStaysWhole
<1>2. PlatformSpec => []ConfiguredIsInForce /\ []DeskBooksAgree /\ []VerdictsHold /\ []ModerationStands
  BY PlatformImplements, ConfigurationHolds, DeskAgrees, VerdictsStand, ModerationHolds
<1>3. PlatformSpec => []AggregateCatchesUp /\ []LivesAreShown /\ []PublicFollowsExact
  BY PlatformImplements, AggregateHolds, LivesShownRightly, PublicFollows
<1>4. PlatformSpec => []HearsItsNeighbours /\ []FindsInOrder /\ ReopenedOnPurpose
  BY PlatformImplements, RoomsFollow, SearchFindsInOrder, ClosedStaysClosed
<1> QED BY <1>1, <1>2, <1>3, <1>4
=============================================================================
