------------------------------ MODULE Stories ------------------------------
(***************************************************************************)
(* Publishing a story (StoriesService.create and assertPublishBudget), its *)
(* moderation and ageing, and the worker that turns a pending video into a *)
(* playlist (StoryPlaybackWorker, StoryPlaybackService).                   *)
(*                                                                         *)
(* One action is one database or storage statement of one call.  The timer *)
(* starts a job every TICK_MS and never asks whether an earlier one is     *)
(* still running, so jobs overlap.  A restart empties the memory of the    *)
(* process: jobs, calls in flight and the set of skipped stories.          *)
(*                                                                         *)
(* Modelled with ffmpeg configured, a public storage origin and the        *)
(* feature switched on; without them a call changes nothing.  Captions,    *)
(* trims and colours are left out: what they refuse is never created.      *)
(***************************************************************************)
EXTENDS Naturals, FiniteSets, Sequences

CONSTANTS
  StoryIds,    \* rows of `stories` that may ever be created
  Members,     \* who publishes
  Videos,      \* uploaded video assets
  Tracks,      \* uploaded or library soundtracks
  None,        \* no asset, no story, no member
  Publishers,  \* slots for `create` calls in flight
  Jobs,        \* slots for overlapping runs of processNext
  MaxActive,   \* story policy: maxActiveStories
  MaxPerHour,  \* story policy: maxStoriesPerHour
  TtlHours,    \* story policy: storyTtlHours
  MaxRestarts  \* bound on the restarts of the process

MediaIds == Videos \cup Tracks

ASSUME NoneIsNothing == None \notin StoryIds \cup Members \cup MediaIds
ASSUME SlotsAreFinite == IsFiniteSet(StoryIds) /\ IsFiniteSet(Publishers)
\* readStoryPolicy keeps a cap only when it is above zero.
ASSUME CapsAreNaturals == {MaxActive, MaxPerHour} \subseteq Nat \ {0} /\ MaxRestarts \in Nat
ASSUME StoriesLiveAnHour == TtlHours \in Nat \ {0}

VARIABLES
  story,      \* the stories table
  order,      \* ids by created_at
  media,      \* status of each media asset
  stored,     \* what story-hls/{id}/ holds
  audits,     \* STORY_PLAYBACK_READY entries per story
  skipped,    \* StoryPlaybackService.skipped
  publisher,  \* slot -> the create call it runs
  job,        \* slot -> the run of processNext
  restarts

vars == <<story, order, media, stored, audits, skipped, publisher, job, restarts>>

----------------------------------------------------------------------------
\* age: full hours since created_at; TtlHours is past expires_at.
\* `sources` holds the assets the playlist is cut from.
StoryRow == [owner : Members \cup {None}, kind : {"IMAGE", "VIDEO"}, sources : SUBSET MediaIds,
             playback : {"PENDING", "READY"}, moderation : {"ACTIVE", "HIDDEN"}, age : 0..TtlHours]
NoStory == [owner |-> None, kind |-> "IMAGE", sources |-> {},
            playback |-> "READY", moderation |-> "ACTIVE", age |-> 0]

Created(s) == story[s].owner # None

\* aged: the age every story had at the `now` the budget is counted from.
Call == [pc : {"idle", "count_active", "count_recent", "create"},
         member : Members \cup {None}, aged : [StoryIds -> 0..TtlHours]]
IdleCall == [pc |-> "idle", member |-> None, aged |-> [s \in StoryIds |-> 0]]

JobSteps == {"idle", "read", "transcode", "write_objects", "head", "write_row", "audit"}
Run == [pc : JobSteps, story : StoryIds \cup {None}, toRead : SUBSET MediaIds]
IdleRun == [pc |-> "idle", story |-> None, toRead |-> {}]

TypeOK ==
  /\ story \in [StoryIds -> StoryRow]
  /\ \A s \in StoryIds : story[s].kind = "IMAGE" => story[s].playback = "READY"
  /\ order \in Seq({s \in StoryIds : Created(s)})
  /\ media \in [MediaIds -> {"PENDING", "READY", "REJECTED"}]
  /\ stored \in [StoryIds -> {"none", "partial", "whole"}]
  /\ audits \in [StoryIds -> Nat]
  /\ skipped \subseteq {s \in StoryIds : Created(s)}
  /\ publisher \in [Publishers -> Call]
  /\ \A p \in Publishers : publisher[p].pc # "idle" => publisher[p].member \in Members
  /\ job \in [Jobs -> Run]
  /\ \A j \in Jobs : job[j].pc # "idle" => job[j].story # None /\ Created(job[j].story)
  /\ restarts \in Nat

Init ==
  /\ story = [s \in StoryIds |-> NoStory]
  /\ order = <<>>
  /\ media = [m \in MediaIds |-> "PENDING"]
  /\ stored = [s \in StoryIds |-> "none"]
  /\ audits = [s \in StoryIds |-> 0]
  /\ skipped = {}
  /\ publisher = [p \in Publishers |-> IdleCall]
  /\ job = [j \in Jobs |-> IdleRun]
  /\ restarts = 0

----------------------------------------------------------------------------
(* Publishing: StoriesService.create.                                      *)

\* assertPublishBudget reads the clock once, then counts twice.  A free id
\* bounds the calls.
Publish(p, m) ==
  /\ publisher[p].pc = "idle"
  /\ \E s \in StoryIds : ~Created(s)
  /\ publisher' = [publisher EXCEPT ![p] =
       [pc |-> "count_active", member |-> m, aged |-> [s \in StoryIds |-> story[s].age]]]
  /\ UNCHANGED <<story, order, media, stored, audits, skipped, job, restarts>>

OwnStories(p) == {s \in StoryIds : story[s].owner = publisher[p].member}

\* The stories of the caller that count against maxActiveStories.
ActiveStories(p) ==
  {s \in OwnStories(p) : story[s].moderation = "ACTIVE" /\ publisher[p].aged[s] < TtlHours}

RecentStories(p) == {s \in OwnStories(p) : publisher[p].aged[s] < 1}

Proceed(p, at, next, stories, cap) ==
  /\ publisher[p].pc = at
  /\ publisher' = [publisher EXCEPT ![p] =
       IF Cardinality(stories) >= cap THEN IdleCall ELSE [@ EXCEPT !.pc = next]]
  /\ UNCHANGED <<story, order, media, stored, audits, skipped, job, restarts>>

\* Mutant: the comparison lets the count reach the cap and one more.
CountActiveLate(p) == Proceed(p, "count_active", "count_recent", ActiveStories(p), MaxActive + 1)

CountActive(p) == Proceed(p, "count_active", "count_recent", ActiveStories(p), MaxActive)

CountRecent(p) == Proceed(p, "count_recent", "create", RecentStories(p), MaxPerHour)

\* An image is cut from nothing; a video from its file and, unless it keeps its
\* own sound alone, a soundtrack.
Sources == {{}} \cup {{v} : v \in Videos} \cup {{v, t} : v \in Videos, t \in Tracks}

\* Mutant: every story waits for the worker, which takes videos only.
CreatePending(p) ==
  \E s \in StoryIds, sources \in Sources :
    /\ publisher[p].pc = "create"
    /\ ~Created(s)
    /\ story' = [story EXCEPT ![s] =
         [owner |-> publisher[p].member, kind |-> IF sources = {} THEN "IMAGE" ELSE "VIDEO",
          sources |-> sources, playback |-> "PENDING", moderation |-> "ACTIVE", age |-> 0]]
    /\ order' = Append(order, s)
    /\ publisher' = [publisher EXCEPT ![p] = IdleCall]
    /\ UNCHANGED <<media, stored, audits, skipped, job, restarts>>

\* An image has no playlist and is READY at once.  No asset has to be READY.
Create(p) ==
  \E s \in StoryIds, sources \in Sources :
    /\ publisher[p].pc = "create"
    /\ ~Created(s)
    /\ story' = [story EXCEPT ![s] =
         [owner |-> publisher[p].member, kind |-> IF sources = {} THEN "IMAGE" ELSE "VIDEO",
          sources |-> sources, playback |-> IF sources = {} THEN "READY" ELSE "PENDING",
          moderation |-> "ACTIVE", age |-> 0]]
    /\ order' = Append(order, s)
    /\ publisher' = [publisher EXCEPT ![p] = IdleCall]
    /\ UNCHANGED <<media, stored, audits, skipped, job, restarts>>

----------------------------------------------------------------------------
(* Moderation, time and uploads.                                           *)

\* StoriesService.hide: unconditional, and nothing makes a story ACTIVE again.
Hide(s) ==
  /\ Created(s)
  /\ story' = [story EXCEPT ![s].moderation = "HIDDEN"]
  /\ UNCHANGED <<order, media, stored, audits, skipped, publisher, job, restarts>>

\* Hours pass, for older stories first.
Age(i) ==
  /\ i \in DOMAIN order
  /\ story[order[i]].age < TtlHours
  /\ \A k \in 1..(i - 1) : story[order[k]].age > story[order[i]].age
  /\ story' = [story EXCEPT ![order[i]].age = @ + 1]
  /\ UNCHANGED <<order, media, stored, audits, skipped, publisher, job, restarts>>

\* MediaService.complete: it may be called again, and judged by a new policy.
CompleteUpload(m) ==
  /\ \E verdict \in {"READY", "REJECTED"} : media' = [media EXCEPT ![m] = verdict]
  /\ UNCHANGED <<story, order, stored, audits, skipped, publisher, job, restarts>>

----------------------------------------------------------------------------
(* The worker: StoryPlaybackService.processNext and publish.               *)

\* The rows findFirst selects from.
Eligible(s) ==
  /\ Created(s)
  /\ story[s].kind = "VIDEO"
  /\ story[s].playback = "PENDING"
  /\ story[s].moderation = "ACTIVE"
  /\ story[s].age < TtlHours
  /\ s \notin skipped

OldestEligible(i) ==
  /\ Eligible(order[i])
  /\ \A k \in 1..(i - 1) : ~Eligible(order[k])

Tick(j) ==
  \E i \in DOMAIN order :
    /\ job[j].pc = "idle"
    /\ OldestEligible(i)
    /\ job' = [job EXCEPT ![j] =
         [pc |-> "read", story |-> order[i], toRead |-> story[order[i]].sources]]
    /\ UNCHANGED <<story, order, media, stored, audits, skipped, publisher, restarts>>

Goto(j, pc) == job' = [job EXCEPT ![j].pc = pc]
Finish(j) == job' = [job EXCEPT ![j] = IdleRun]

\* readReady on one asset, the video first.  "waiting" ends the run and does not
\* skip the story.
Read(j) ==
  \E m \in job[j].toRead :
    /\ job[j].pc = "read"
    /\ m \in Videos \/ job[j].toRead \cap Videos = {}
    /\ \/ /\ media[m] # "READY"
          /\ Finish(j)
       \/ /\ media[m] = "READY"
          /\ job' = [job EXCEPT ![j].toRead = @ \ {m},
                                ![j].pc = IF job[j].toRead = {m} THEN "transcode" ELSE "read"]
    /\ UNCHANGED <<story, order, media, stored, audits, skipped, publisher, restarts>>

Transcode(j) ==
  /\ job[j].pc = "transcode"
  /\ Goto(j, "write_objects")
  /\ UNCHANGED <<story, order, media, stored, audits, skipped, publisher, restarts>>

\* Mutant: the writes are started and not awaited.
WriteObjectsUnawaited(j) ==
  /\ job[j].pc = "write_objects"
  /\ stored' = [stored EXCEPT ![job[j].story] = IF @ = "whole" THEN @ ELSE "partial"]
  /\ Goto(j, "head")
  /\ UNCHANGED <<story, order, media, audits, skipped, publisher, restarts>>

\* storePlaylist writes several objects.  Two runs over the same assets write
\* the same bytes, so a set that is whole stays whole.
WriteObjects(j) ==
  /\ job[j].pc = "write_objects"
  /\ \/ /\ stored' = [stored EXCEPT ![job[j].story] = IF @ = "whole" THEN @ ELSE "partial"]
        /\ UNCHANGED job
     \/ /\ stored' = [stored EXCEPT ![job[j].story] = "whole"]
        /\ Goto(j, "head")
  /\ UNCHANGED <<story, order, media, audits, skipped, publisher, restarts>>

\* headObject finds the playlist.  A set that is only partial may lack it.
HeadObject(j) ==
  /\ job[j].pc = "head"
  /\ stored[job[j].story] # "none"
  /\ Goto(j, "write_row")
  /\ UNCHANGED <<story, order, media, stored, audits, skipped, publisher, restarts>>

\* Mutants: the update matches on the id alone; on the playback status alone.
MatchesId(s) == Created(s)
MatchesPending(s) == story[s].playback = "PENDING"

\* What the guarded updateMany matches.
Publishable(s) == story[s].playback = "PENDING" /\ story[s].moderation = "ACTIVE"

WriteRow(j) ==
  /\ job[j].pc = "write_row"
  /\ \/ /\ Publishable(job[j].story)
        /\ story' = [story EXCEPT ![job[j].story].playback = "READY"]
        /\ Goto(j, "audit")
     \/ /\ ~Publishable(job[j].story)
        /\ Finish(j)
        /\ UNCHANGED story
  /\ UNCHANGED <<order, media, stored, audits, skipped, publisher, restarts>>

Audit(j) ==
  /\ job[j].pc = "audit"
  /\ audits' = [audits EXCEPT ![job[j].story] = @ + 1]
  /\ Finish(j)
  /\ UNCHANGED <<story, order, media, stored, skipped, publisher, restarts>>

\* Mutant: the failure is logged and the story is not remembered.
FailQuietly(j) ==
  /\ job[j].pc # "idle"
  /\ Finish(j)
  /\ UNCHANGED <<story, order, media, stored, audits, skipped, publisher, restarts>>

\* Any await of publish may throw: ffmpeg, storage, the database, the audit.
Fail(j) ==
  /\ job[j].pc # "idle"
  /\ skipped' = skipped \cup {job[j].story}
  /\ Finish(j)
  /\ UNCHANGED <<story, order, media, stored, audits, publisher, restarts>>

Restart ==
  /\ restarts < MaxRestarts
  /\ restarts' = restarts + 1
  /\ skipped' = {}
  /\ publisher' = [p \in Publishers |-> IdleCall]
  /\ job' = [j \in Jobs |-> IdleRun]
  /\ UNCHANGED <<story, order, media, stored, audits>>

----------------------------------------------------------------------------
JobStep(j) ==
  \/ Read(j)
  \/ Transcode(j)
  \/ WriteObjects(j)
  \/ HeadObject(j)
  \/ WriteRow(j)
  \/ Audit(j)

Next ==
  \/ \E p \in Publishers :
       \/ \E m \in Members : Publish(p, m)
       \/ CountActive(p)
       \/ CountRecent(p)
       \/ Create(p)
  \/ \E s \in StoryIds : Hide(s)
  \/ \E i \in DOMAIN order : Age(i)
  \/ \E m \in MediaIds : CompleteUpload(m)
  \/ \E j \in Jobs : Tick(j) \/ JobStep(j) \/ Fail(j)
  \/ Restart

\* The timer keeps firing, and a run that has started goes on: the database and
\* the storage answer, and ffmpeg ends.  Nothing makes a member upload a file.
Fairness ==
  /\ WF_vars(\E j \in Jobs : Tick(j))
  /\ \A j \in Jobs : WF_vars(JobStep(j))

Spec == Init /\ [][Next]_vars
FairSpec == Spec /\ Fairness

----------------------------------------------------------------------------
(* Properties.                                                             *)

\* A video is READY only once its whole playlist is stored, whatever runs over
\* the same story overlap, fail or are cut short (storePlaylist before the
\* update; StoryPlaybackService.publish).
ReadyHasPlaylist ==
  \A s \in StoryIds : story[s].kind = "VIDEO" /\ story[s].playback = "READY" => stored[s] = "whole"

\* However many runs work on one story, one of them publishes it: at most one
\* has written or will write the STORY_PLAYBACK_READY entry, and only for a
\* READY story (the guarded updateMany and its count).
PublishedOnce ==
  \A s \in StoryIds :
    LET auditing == {j \in Jobs : job[j].pc = "audit" /\ job[j].story = s} IN
    /\ \A j, k \in auditing : j = k
    /\ audits[s] \in {0, 1}
    /\ auditing # {} => audits[s] = 0
    /\ auditing # {} \/ audits[s] = 1 => story[s].playback = "READY"

\* A video that moderators hid before it was published stays unpublished, even
\* by a run that was transcoding it at the time (StoriesService.hide).
HiddenIsNotPublished ==
  [][\A s \in StoryIds :
       story[s].moderation = "HIDDEN" => story'[s].playback = story[s].playback]_vars

ActiveOf(m) ==
  {s \in StoryIds : story[s].owner = m /\ story[s].moderation = "ACTIVE" /\ story[s].age < TtlHours}

\* Calls that count and then create can pass the cap together, but only by one
\* story per further call in flight (assertPublishBudget, create).
CapIsNearlyKept ==
  \A m \in Members : Cardinality(ActiveOf(m)) <= MaxActive + Cardinality(Publishers) - 1

\* What sprint 13 promises: no member has more active stories than the cap.
NoStoryBeyondCap == \A m \in Members : Cardinality(ActiveOf(m)) <= MaxActive

Uploaded(s) == \A m \in story[s].sources : media[m] = "READY"

\* The runs over s end in "waiting", and start again.
Waiting(s) == Eligible(s) /\ ~Uploaded(s)

\* The worker could publish s, and no older story it would pick first waits for
\* an upload.
Due(s) ==
  /\ Eligible(s)
  /\ Uploaded(s)
  /\ \A i, k \in DOMAIN order : order[k] = s /\ i < k => ~Waiting(order[i])

\* No story stays due for ever: overlapping runs, failures and restarts never
\* leave a publishable video behind (processNext, skipped, the worker's timer).
\* An older video whose upload never completes does hold back the ones after it.
DueIsServed == \A s \in StoryIds : []<>~Due(s)
=============================================================================
