----------------------------- MODULE Catalogue -----------------------------
(***************************************************************************)
(* The tree of categories, the professional profile that is assigned some  *)
(* of them on its way from a draft to an active listing, and the services  *)
(* and businesses that are listed under one.  Every category here applies  *)
(* to professionals and businesses alike.                                  *)
(***************************************************************************)
EXTENDS Handlers, Sequences

CONSTANTS
  CategoryIds,            \* the categories that may exist
  NoCategory,             \* the parent of a root
  MaxChosen,              \* bound: the categories a professional picks (12 in the code)
  MaxListings             \* bound: services and businesses ever listed
ASSUME CatalogueAssumption ==
  NoCategory \notin CategoryIds /\ MaxChosen \in Nat /\ MaxListings \in Nat

VARIABLES
  parent,                 \* the rows: category -> parent, for those that exist
  enabled,                \* the categories with isActive
  professional,           \* the profile: status and the three steps of onboarding
  used,                   \* its categories, protected by a foreign key
  listings,               \* services and businesses, each under one category
  catCalls,               \* Slots -> the call in flight
  overlapped              \* history: a parent was written under another call
catVars == <<parent, enabled, professional, used, listings, catCalls, overlapped>>

Existing == DOMAIN parent
Parents == CategoryIds \cup {NoCategory}

\* remove pauses a service and keeps its row, so that a listing never leaves.
Listing == [kind: {"SERVICE", "BUSINESS"}, of: CategoryIds]
Listed == {listings[i].of : i \in DOMAIN listings}

CatSteps == {"idle", "insert", "walk", "update", "retire", "delete", "assign",
             "activate", "SERVICE", "BUSINESS"}
\* id, to: the category and its parent to be; at, seen: where assertNoCycle is.
CatCall == [step: CatSteps, id: Parents, to: Parents, at: Parents,
            seen: SUBSET CategoryIds, chosen: SUBSET CategoryIds, on: BOOLEAN]
CatIdle == [step |-> "idle", id |-> NoCategory, to |-> NoCategory, at |-> NoCategory,
            seen |-> {}, chosen |-> {}, on |-> FALSE]
CatAt(s, step) == catCalls[s].step = step
CatEnter(s, call) == catCalls' = [catCalls EXCEPT ![s] = call]
CatLeave(s) == CatEnter(s, CatIdle)
NoteOverlap(s) == overlapped' = (overlapped \/ \E r \in Slots \ {s} : ~CatAt(r, "idle"))

CatInit ==
  /\ parent = [c \in {} |-> NoCategory] /\ enabled = {}
  /\ professional = [status |-> "NONE", profile |-> FALSE, area |-> FALSE]
  /\ used = {} /\ listings = <<>>
  /\ catCalls = [s \in Slots |-> CatIdle]
  /\ overlapped = FALSE

-----------------------------------------------------------------------------
(* CategoriesService. *)

\* create checks the parent, then inserts; a parent gone by then breaks the key.
CreateCategory(s, id, to) ==
  /\ CatAt(s, "idle") /\ to \in Existing \cup {NoCategory}
  /\ CatEnter(s, [CatIdle EXCEPT !.step = "insert", !.id = id, !.to = to])
  /\ UNCHANGED <<parent, enabled, professional, used, listings, overlapped>>
InsertCategory(s) ==
  LET call == catCalls[s] IN
  /\ CatAt(s, "insert")
  /\ IF call.id \notin Existing /\ call.to \in Existing \cup {NoCategory}
     THEN /\ parent' = [c \in Existing \cup {call.id} |->
                          IF c = call.id THEN call.to ELSE parent[c]]
          /\ enabled' = enabled \cup {call.id}
          /\ NoteOverlap(s)
     ELSE UNCHANGED <<parent, enabled, overlapped>>
  /\ CatLeave(s)
  /\ UNCHANGED <<professional, used, listings>>

\* update reads the row; only another parent than the row's is checked.
UpdateCategory(s, id, to, on) ==
  /\ CatAt(s, "idle") /\ id \in Existing /\ to \in Existing \cup {NoCategory}
  /\ LET unchecked == to \in {parent[id], NoCategory}
     IN /\ unchecked \/ to # id
        /\ CatEnter(s, [CatIdle EXCEPT !.step = IF unchecked THEN "update" ELSE "walk",
                        !.id = id, !.to = to, !.at = to, !.seen = {id}, !.on = on])
  /\ UNCHANGED <<parent, enabled, professional, used, listings, overlapped>>

\* Mutant: the walk ends at the new parent.
WalkOne(s) ==
  LET call == catCalls[s] IN
  /\ CatAt(s, "walk")
  /\ IF call.at \in call.seen THEN CatLeave(s) ELSE CatEnter(s, [call EXCEPT !.step = "update"])
  /\ UNCHANGED <<parent, enabled, professional, used, listings, overlapped>>

\* assertNoCycle reads one category at a time; a missing one ends the walk.
WalkUp(s) ==
  LET call == catCalls[s]
      next == IF call.at \in Existing THEN parent[call.at] ELSE NoCategory
  IN
  /\ CatAt(s, "walk")
  /\ CASE call.at \in call.seen -> CatLeave(s)
       [] call.at \notin call.seen /\ next = NoCategory ->
            CatEnter(s, [call EXCEPT !.step = "update"])
       [] OTHER -> CatEnter(s, [call EXCEPT !.seen = @ \cup {call.at}, !.at = next])
  /\ UNCHANGED <<parent, enabled, professional, used, listings, overlapped>>

\* The whole row is written, the parent it was read with included.
WriteCategory(s) ==
  LET call == catCalls[s] IN
  /\ CatAt(s, "update")
  /\ IF call.id \in Existing /\ call.to \in Existing \cup {NoCategory}
     THEN /\ parent' = [parent EXCEPT ![call.id] = call.to]
          /\ enabled' = IF call.on THEN enabled \cup {call.id} ELSE enabled \ {call.id}
          /\ NoteOverlap(s)
     ELSE UNCHANGED <<parent, enabled, overlapped>>
  /\ CatLeave(s)
  /\ UNCHANGED <<professional, used, listings>>

\* remove counts children and professionals, then deactivates or deletes.
RemoveCategory(s, id) ==
  /\ CatAt(s, "idle") /\ id \in Existing
  /\ CatEnter(s, [CatIdle EXCEPT !.id = id,
       !.step = IF id \in used \/ \E c \in Existing : parent[c] = id
                THEN "retire" ELSE "delete"])
  /\ UNCHANGED <<parent, enabled, professional, used, listings, overlapped>>
RetireCategory(s) ==
  /\ CatAt(s, "retire")
  /\ enabled' = enabled \ {catCalls[s].id}
  /\ CatLeave(s)
  /\ UNCHANGED <<parent, professional, used, listings, overlapped>>
\* Mutant: a deletion takes the assignments with it.
DeleteCascading(s) ==
  LET id == catCalls[s].id IN
  /\ CatAt(s, "delete")
  /\ parent' = [c \in Existing \ {id} |-> IF parent[c] = id THEN NoCategory ELSE parent[c]]
  /\ enabled' = enabled \ {id} /\ used' = used \ {id}
  /\ NoteOverlap(s) /\ CatLeave(s)
  /\ UNCHANGED <<professional, listings>>

\* The delete orphans a child that came since, and fails on a professional that
\* came since and on any listing, which remove does not count.
DeleteCategory(s) ==
  LET id == catCalls[s].id IN
  /\ CatAt(s, "delete")
  /\ IF id \in used \cup Listed THEN UNCHANGED <<parent, enabled, overlapped>>
     ELSE /\ parent' = [c \in Existing \ {id} |->
                          IF parent[c] = id THEN NoCategory ELSE parent[c]]
          /\ enabled' = enabled \ {id}
          /\ NoteOverlap(s)
  /\ CatLeave(s)
  /\ UNCHANGED <<professional, used, listings>>

-----------------------------------------------------------------------------
(* ProfessionalsService. *)

StartOnboarding(s) ==
  /\ CatAt(s, "idle") /\ professional.status = "NONE"
  /\ professional' = [professional EXCEPT !.status = "DRAFT"]
  /\ UNCHANGED <<parent, enabled, used, listings, catCalls, overlapped>>

\* saveCategories asks requireAssignable, then replaces the rows in a transaction.
SaveCategories(s, chosen) ==
  /\ CatAt(s, "idle") /\ professional.status # "NONE"
  /\ Cardinality(chosen) \in 1 .. MaxChosen /\ chosen \subseteq enabled
  /\ CatEnter(s, [CatIdle EXCEPT !.step = "assign", !.chosen = chosen])
  /\ UNCHANGED <<parent, enabled, professional, used, listings, overlapped>>
AssignCategories(s) ==
  /\ CatAt(s, "assign")
  /\ used' = IF catCalls[s].chosen \subseteq Existing THEN catCalls[s].chosen ELSE used
  /\ CatLeave(s)
  /\ UNCHANGED <<parent, enabled, professional, listings, overlapped>>

\* saveProfile and saveServiceArea only ever add; a second one changes nothing here.
SaveProfile ==
  /\ professional.status # "NONE" /\ ~professional.profile
  /\ professional' = [professional EXCEPT !.profile = TRUE]
  /\ UNCHANGED <<parent, enabled, used, listings, catCalls, overlapped>>
SaveServiceArea ==
  /\ professional.status # "NONE" /\ ~professional.area
  /\ professional' = [professional EXCEPT !.area = TRUE]
  /\ UNCHANGED <<parent, enabled, used, listings, catCalls, overlapped>>

\* submit and patchStatus: what they read allows it, then they write by id.
Complete == used # {} /\ professional.profile /\ professional.area
SubmitOnboarding(s) ==
  /\ CatAt(s, "idle") /\ professional.status # "NONE" /\ Complete
  /\ CatEnter(s, [CatIdle EXCEPT !.step = "activate", !.on = TRUE])
  /\ UNCHANGED <<parent, enabled, professional, used, listings, overlapped>>
PatchStatus(s, on) ==
  /\ CatAt(s, "idle") /\ professional.status \notin {"NONE", "DRAFT"}
  /\ CatEnter(s, [CatIdle EXCEPT !.step = "activate", !.on = on])
  /\ UNCHANGED <<parent, enabled, professional, used, listings, overlapped>>
WriteStatus(s) ==
  /\ CatAt(s, "activate")
  /\ professional' = [professional EXCEPT !.status =
                        IF catCalls[s].on THEN "ACTIVE" ELSE "PAUSED"]
  /\ CatLeave(s)
  /\ UNCHANGED <<parent, enabled, used, listings, overlapped>>

-----------------------------------------------------------------------------
(* ServicesService, BusinessesService. *)

Enlist(s, kind, id) ==
  /\ CatAt(s, "idle") /\ id \in enabled /\ Len(listings) < MaxListings
  /\ CatEnter(s, [CatIdle EXCEPT !.step = kind, !.id = id])
  /\ UNCHANGED <<parent, enabled, professional, used, listings, overlapped>>
\* requireProfessional.
HasProfile == professional.status # "NONE"
CreateService(s, id) == HasProfile /\ Enlist(s, "SERVICE", id)
\* requireBusinessCategories, then the geocoder.
CreateBusiness(s, id) == Enlist(s, "BUSINESS", id)
\* The insert breaks the key of a category that is gone.
InsertListing(s) ==
  LET call == catCalls[s] IN
  /\ call.step \in {"SERVICE", "BUSINESS"} /\ Len(listings) < MaxListings
  /\ listings' = IF call.id \in Existing
                 THEN Append(listings, [kind |-> call.step, of |-> call.id])
                 ELSE listings
  /\ CatLeave(s)
  /\ UNCHANGED <<parent, enabled, professional, used, overlapped>>

CatNext ==
  \/ \E s \in Slots :
       \/ \E id \in CategoryIds \ Existing, to \in Parents : CreateCategory(s, id, to)
       \/ \E id \in CategoryIds, to \in Parents, on \in BOOLEAN : UpdateCategory(s, id, to, on)
       \/ InsertCategory(s) \/ WalkUp(s) \/ WriteCategory(s)
       \/ \E id \in CategoryIds : RemoveCategory(s, id)
       \/ RetireCategory(s) \/ DeleteCategory(s)
       \/ StartOnboarding(s)
       \/ \E chosen \in SUBSET CategoryIds : SaveCategories(s, chosen)
       \/ AssignCategories(s) \/ SubmitOnboarding(s)
       \/ \E on \in BOOLEAN : PatchStatus(s, on)
       \/ WriteStatus(s)
       \/ \E id \in CategoryIds : CreateService(s, id) \/ CreateBusiness(s, id)
       \/ InsertListing(s)
  \/ SaveProfile \/ SaveServiceArea
CatSpec == CatInit /\ [][CatNext]_catVars

-----------------------------------------------------------------------------
(* Every variable keeps its type; a parent exists, by its foreign key, which   *)
(* sets it null when the parent is deleted.                                    *)
CatTypeOK ==
  /\ Existing \subseteq CategoryIds
  /\ \A c \in Existing : parent[c] \in Existing \cup {NoCategory}
  /\ enabled \subseteq Existing /\ used \subseteq CategoryIds
  /\ professional \in [status: {"NONE", "DRAFT", "ACTIVE", "PAUSED"}, profile: BOOLEAN,
                       area: BOOLEAN]
  /\ listings \in Seq(Listing)
  /\ catCalls \in [Slots -> CatCall]
  /\ overlapped \in BOOLEAN

\* A set of categories closed under parent: toTree shows none of it.
Loops == {C \in (SUBSET Existing) \ {{}} : \A c \in C : parent[c] \in C}

(* Every category hangs from a root, so that toTree shows it, unless calls     *)
(* overlapped: two moves each walk a tree without the other, and an update     *)
(* writes back the parent it read (categories.service.ts:73-118).              *)
LoopsNeedOverlap == Loops # {} => overlapped

(* What was submitted stays complete: no order of later saves, removals of     *)
(* categories and status changes leaves a listed profile without a category.   *)
ListedIsComplete == professional.status \in {"ACTIVE", "PAUSED"} => Complete /\ used \subseteq Existing

(* No removal takes the category of a service or a business away, though       *)
(* remove does not count them (categories.service.ts:120-152), and whoever     *)
(* lists a service still has a profile (services.service.ts:104-114).          *)
ListingsKeepTheirs ==
  /\ Listed \subseteq Existing
  /\ (\E i \in DOMAIN listings : listings[i].kind = "SERVICE") => HasProfile

(* The catalogue stays whole: its tree shows every category, and who is listed *)
(* in it has one (categories.service.ts:73-152).                               *)
CatalogueIsWhole == LoopsNeedOverlap /\ ListedIsComplete /\ ListingsKeepTheirs
=============================================================================
