--------------------------- MODULE StoriesProofs ---------------------------
(***************************************************************************)
(* Proofs about Stories, for any number of stories, assets, create calls   *)
(* and overlapping runs of the worker.  The strengthening says what a run  *)
(* has achieved by the step it is at: past the writes its playlist is      *)
(* whole, and at the audit it is the one run that turned its story READY.  *)
(* The cap is kept by a budget: what is active and the calls that have     *)
(* passed the first count share MaxActive and one story per further slot.  *)
(***************************************************************************)
EXTENDS Stories, FiniteSetTheorems, TLAPS

\* What a run of processNext may rely on at each of its steps.
RunsOK ==
  \A j \in Jobs :
    job[j].pc \in {"head", "write_row", "audit"} => stored[job[j].story] = "whole"

\* No entry is written about a story that does not exist, and none is hidden.
EntriesOK ==
  \A s \in StoryIds : ~Created(s) => audits[s] = 0 /\ story[s].moderation = "ACTIVE"

IInv == TypeOK /\ RunsOK /\ EntriesOK /\ ReadyHasPlaylist /\ PublishedOnce

----------------------------------------------------------------------------
(* Facts about single rows and runs.                                       *)

\* The row of nobody, and idle slots, are of their types.
LEMMA BlankTypes ==
  /\ NoStory \in StoryRow
  /\ IdleCall \in Call
  /\ IdleRun \in Run
  BY StoriesLiveAnHour DEF NoStory, StoryRow, IdleCall, Call, IdleRun, Run, JobSteps, MediaIds

\* The sources of a new story are assets.
LEMMA SourcesAreAssets == \A sources \in Sources : sources \in SUBSET MediaIds
  BY DEF Sources, MediaIds

\* Publication moves no other run: an action that leaves the rows, the entries
\* and the set of auditing runs alone keeps PublishedOnce.
LEMMA FewerAuditsKeep ==
  ASSUME TypeOK, PublishedOnce,
         story' = story, audits' = audits,
         \A j \in Jobs : job'[j].pc = "audit" => job[j].pc = "audit" /\ job'[j].story = job[j].story
  PROVE  PublishedOnce'
<1>1. SUFFICES ASSUME NEW s \in StoryIds
      PROVE LET before == {j \in Jobs : job[j].pc = "audit" /\ job[j].story = s}
                after == {j \in Jobs : job'[j].pc = "audit" /\ job'[j].story = s} IN
            /\ \A j, k \in after : j = k
            /\ audits[s] \in {0, 1}
            /\ after # {} => audits[s] = 0
            /\ after # {} \/ audits[s] = 1 => story[s].playback = "READY"
  BY DEF PublishedOnce
<1> DEFINE before == {j \in Jobs : job[j].pc = "audit" /\ job[j].story = s}
           after == {j \in Jobs : job'[j].pc = "audit" /\ job'[j].story = s}
<1>2. after \subseteq before
  OBVIOUS
<1>3. /\ \A j, k \in before : j = k
      /\ audits[s] \in {0, 1}
      /\ before # {} => audits[s] = 0
      /\ before # {} \/ audits[s] = 1 => story[s].playback = "READY"
  BY DEF PublishedOnce
<1> QED BY <1>2, <1>3

----------------------------------------------------------------------------
LEMMA InitOK == Init => IInv
<1> SUFFICES ASSUME Init PROVE IInv
  OBVIOUS
<1>1. TypeOK
  BY BlankTypes, StoriesLiveAnHour DEF Init, TypeOK, NoStory, IdleCall, IdleRun, Created
<1>2. RunsOK
  BY DEF Init, RunsOK, IdleRun
<1>3. ReadyHasPlaylist
  BY DEF Init, ReadyHasPlaylist, NoStory
<1>4. PublishedOnce /\ EntriesOK
  BY DEF Init, PublishedOnce, EntriesOK, IdleRun, NoStory
<1> QED BY <1>1, <1>2, <1>3, <1>4 DEF IInv

----------------------------------------------------------------------------
(* The actions of a create call.                                           *)

LEMMA PublishKeeps ==
  ASSUME IInv, NEW p \in Publishers, NEW m \in Members, Publish(p, m)
  PROVE  IInv'
<1> USE DEF IInv
<1>1. [pc |-> "count_active", member |-> m, aged |-> [s \in StoryIds |-> story[s].age]] \in Call
  BY DEF TypeOK, Call, StoryRow
<1>2. TypeOK'
  BY <1>1 DEF TypeOK, Publish, Created
<1> QED BY <1>2, FewerAuditsKeep DEF Publish, RunsOK, EntriesOK, ReadyHasPlaylist, Created

LEMMA ProceedKeeps ==
  ASSUME IInv, NEW p \in Publishers, CountActive(p) \/ CountRecent(p)
  PROVE  IInv'
<1> USE DEF IInv
<1>1. PICK c \in Call :
        /\ c.pc # "idle" => c.member \in Members
        /\ publisher' = [publisher EXCEPT ![p] = c]
        /\ UNCHANGED <<story, order, media, stored, audits, skipped, job, restarts>>
  <2> DEFINE call == publisher[p]
  <2>1. call \in Call /\ (call.pc # "idle" => call.member \in Members)
    BY DEF TypeOK
  <2>2. ASSUME NEW next \in {"count_recent", "create"}, call.pc # "idle"
        PROVE  [call EXCEPT !.pc = next] \in Call /\ [call EXCEPT !.pc = next].member \in Members
    BY <2>1, <2>2 DEF Call
  <2>3. IdleCall \in Call /\ IdleCall.pc = "idle"
    BY BlankTypes DEF IdleCall
  <2>4. CASE CountActive(p)
    BY <2>2, <2>3, <2>4 DEF CountActive, Proceed
  <2>5. CASE CountRecent(p)
    BY <2>2, <2>3, <2>5 DEF CountRecent, Proceed
  <2> QED BY <2>4, <2>5
<1>2. TypeOK'
  BY <1>1 DEF TypeOK, Created
<1> QED BY <1>1, <1>2, FewerAuditsKeep DEF RunsOK, EntriesOK, ReadyHasPlaylist, Created

LEMMA CreateKeeps ==
  ASSUME IInv, NEW p \in Publishers, Create(p)
  PROVE  IInv'
<1> USE DEF IInv
<1>1. PICK s \in StoryIds, sources \in Sources :
        /\ publisher[p].pc = "create"
        /\ ~Created(s)
        /\ story' = [story EXCEPT ![s] =
             [owner |-> publisher[p].member, kind |-> IF sources = {} THEN "IMAGE" ELSE "VIDEO",
              sources |-> sources, playback |-> IF sources = {} THEN "READY" ELSE "PENDING",
              moderation |-> "ACTIVE", age |-> 0]]
        /\ order' = Append(order, s)
        /\ publisher' = [publisher EXCEPT ![p] = IdleCall]
        /\ UNCHANGED <<media, stored, audits, skipped, job, restarts>>
  BY DEF Create
<1> DEFINE new == story'[s]
<1>2. /\ new \in StoryRow
      /\ new.owner # None
      /\ new.kind = "IMAGE" <=> new.playback = "READY"
  <2>1. publisher[p].member \in Members /\ publisher[p].member # None
    BY <1>1, NoneIsNothing DEF TypeOK
  <2> QED BY <1>1, <2>1, SourcesAreAssets, StoriesLiveAnHour DEF TypeOK, StoryRow
<1>3. \A t \in StoryIds \ {s} : story'[t] = story[t]
  BY <1>1 DEF TypeOK
<1>4. \A t \in StoryIds : Created(t) => Created(t)' /\ story'[t] = story[t]
  BY <1>1, <1>3 DEF Created
<1>5. TypeOK'
  <2>1. story' \in [StoryIds -> StoryRow]
    BY <1>1, <1>2 DEF TypeOK
  <2>2. \A t \in StoryIds : story'[t].kind = "IMAGE" => story'[t].playback = "READY"
    BY <1>2, <1>3 DEF TypeOK
  <2>3. order' \in Seq({t \in StoryIds : Created(t)}')
    <3>1. Created(s)'
      BY <1>2 DEF Created
    <3>2. order \in Seq({t \in StoryIds : Created(t)}')
      BY <1>4 DEF TypeOK
    <3> QED BY <1>1, <3>1, <3>2
  <2>4. publisher' \in [Publishers -> Call]
    BY <1>1, BlankTypes DEF TypeOK
  <2>5. \A q \in Publishers : publisher'[q].pc # "idle" => publisher'[q].member \in Members
    BY <1>1 DEF TypeOK, IdleCall
  <2>6. (\A j \in Jobs : job[j].pc # "idle" => job[j].story # None /\ Created(job[j].story))'
    BY <1>1, <1>4 DEF TypeOK, Run
  <2>7. skipped' \subseteq {t \in StoryIds : Created(t)}'
    BY <1>1, <1>4 DEF TypeOK
  <2> QED BY <1>1, <2>1, <2>2, <2>3, <2>4, <2>5, <2>6, <2>7 DEF TypeOK
<1>6. ReadyHasPlaylist'
  BY <1>1, <1>2, <1>3 DEF ReadyHasPlaylist
<1>7. PublishedOnce'
  <2>1. audits[s] = 0 /\ \A j \in Jobs : ~(job[j].pc = "audit" /\ job[j].story = s)
    BY <1>1 DEF TypeOK, EntriesOK
  <2>2. \A t \in StoryIds \ {s} :
          LET auditing == {j \in Jobs : job[j].pc = "audit" /\ job[j].story = t} IN
          /\ \A j, k \in auditing : j = k
          /\ audits[t] \in {0, 1}
          /\ auditing # {} => audits[t] = 0
          /\ auditing # {} \/ audits[t] = 1 => story'[t].playback = "READY"
    BY <1>3 DEF PublishedOnce
  <2> QED BY <1>1, <2>1, <2>2 DEF PublishedOnce
<1>8. EntriesOK'
  BY <1>1, <1>2, <1>3 DEF EntriesOK, Created
<1> QED BY <1>1, <1>5, <1>6, <1>7, <1>8 DEF RunsOK

----------------------------------------------------------------------------
(* Moderation, time and uploads.                                           *)

\* Hiding and ageing change no column the other facts are about.
LEMMA RowKeeps ==
  ASSUME IInv, NEW s \in StoryIds, NEW new \in StoryRow, Created(s),
         new.owner = story[s].owner, new.kind = story[s].kind, new.playback = story[s].playback,
         story' = [story EXCEPT ![s] = new],
         UNCHANGED <<order, media, stored, audits, skipped, publisher, job, restarts>>
  PROVE  IInv'
<1> USE DEF IInv
<1>1. \A t \in StoryIds : /\ story'[t].owner = story[t].owner
                          /\ story'[t].kind = story[t].kind
                          /\ story'[t].playback = story[t].playback
  BY DEF TypeOK
<1>2. \A t \in StoryIds : Created(t)' <=> Created(t)
  BY <1>1 DEF Created
<1>3. TypeOK'
  <2>1. story' \in [StoryIds -> StoryRow]
    BY DEF TypeOK
  <2>2. {t \in StoryIds : Created(t)}' = {t \in StoryIds : Created(t)}
    BY <1>2
  <2>3. (\A j \in Jobs : job[j].pc # "idle" => job[j].story # None /\ Created(job[j].story))'
    BY <1>2 DEF TypeOK, Run
  <2> QED BY <1>1, <2>1, <2>2, <2>3 DEF TypeOK
<1>4. PublishedOnce'
  BY <1>1 DEF PublishedOnce
<1>5. EntriesOK'
  BY <1>2 DEF EntriesOK, TypeOK
<1> QED BY <1>1, <1>2, <1>3, <1>4, <1>5 DEF RunsOK, ReadyHasPlaylist

LEMMA HideKeeps ==
  ASSUME IInv, NEW s \in StoryIds, Hide(s)
  PROVE  IInv'
<1> DEFINE new == [story[s] EXCEPT !.moderation = "HIDDEN"]
<1>1. story[s] \in StoryRow
  BY DEF IInv, TypeOK
<1>2. new \in StoryRow /\ new.owner = story[s].owner /\ new.kind = story[s].kind
        /\ new.playback = story[s].playback
  BY <1>1 DEF StoryRow
<1>3. story' = [story EXCEPT ![s] = new]
  BY DEF Hide
<1> QED BY <1>2, <1>3, RowKeeps DEF Hide

LEMMA AgeKeeps ==
  ASSUME IInv, NEW i \in DOMAIN order, Age(i)
  PROVE  IInv'
<1> DEFINE s == order[i]
           new == [story[s] EXCEPT !.age = @ + 1]
<1>1. s \in StoryIds /\ Created(s)
  BY DEF IInv, TypeOK
<1>2. story[s] \in StoryRow /\ story[s].age < TtlHours
  BY <1>1 DEF IInv, TypeOK, Age
<1>3. new \in StoryRow /\ new.owner = story[s].owner /\ new.kind = story[s].kind
        /\ new.playback = story[s].playback
  BY <1>2, StoriesLiveAnHour DEF StoryRow
<1>4. story' = [story EXCEPT ![s] = new]
  BY DEF Age
<1> QED BY <1>1, <1>3, <1>4, RowKeeps DEF Age

LEMMA UploadKeeps ==
  ASSUME IInv, NEW m \in MediaIds, CompleteUpload(m)
  PROVE  IInv'
<1> USE DEF IInv
<1>1. TypeOK'
  BY DEF TypeOK, CompleteUpload, Created
<1> QED BY <1>1, FewerAuditsKeep DEF CompleteUpload, RunsOK, EntriesOK, ReadyHasPlaylist, Created

----------------------------------------------------------------------------
(* The worker.                                                             *)

\* A step of one run that publishes nothing: it may store objects, skip its
\* story, or end.
LEMMA RunKeeps ==
  ASSUME IInv, NEW j \in Jobs, NEW run \in Run,
         job' = [job EXCEPT ![j] = run],
         run.pc # "idle" => run.story # None /\ Created(run.story),
         run.pc # "audit",
         run.pc \in {"head", "write_row"} => stored'[run.story] = "whole",
         stored' \in [StoryIds -> {"none", "partial", "whole"}],
         \A s \in StoryIds : stored[s] = "whole" => stored'[s] = "whole",
         skipped' \subseteq {s \in StoryIds : Created(s)},
         UNCHANGED <<story, order, media, audits, publisher, restarts>>
  PROVE  IInv'
<1> USE DEF IInv
<1>1. \A k \in Jobs : job'[k] = IF k = j THEN run ELSE job[k]
  BY DEF TypeOK
<1>2. TypeOK'
  <2>1. job' \in [Jobs -> Run]
    BY DEF TypeOK
  <2>2. (\A k \in Jobs : job[k].pc # "idle" => job[k].story # None /\ Created(job[k].story))'
    BY <1>1 DEF TypeOK, Created
  <2> QED BY <2>1, <2>2 DEF TypeOK, Created
<1>3. RunsOK'
  <2> SUFFICES ASSUME NEW k \in Jobs, job'[k].pc \in {"head", "write_row", "audit"}
               PROVE  stored'[job'[k].story] = "whole"
    BY DEF RunsOK
  <2>1. CASE k = j
    BY <1>1, <2>1
  <2>2. CASE k # j
    <3>1. job[k].story \in StoryIds /\ stored[job[k].story] = "whole" /\ job'[k] = job[k]
      BY <1>1, <2>2 DEF TypeOK, RunsOK, Run
    <3> QED BY <3>1
  <2> QED BY <2>1, <2>2
<1>4. PublishedOnce'
  BY <1>1, FewerAuditsKeep
<1> QED BY <1>2, <1>3, <1>4 DEF EntriesOK, ReadyHasPlaylist, Created

\* The steps of a run that neither publish nor record.
LEMMA WorkKeeps ==
  ASSUME IInv, NEW j \in Jobs,
         Tick(j) \/ Read(j) \/ Transcode(j) \/ WriteObjects(j) \/ HeadObject(j) \/ Fail(j)
  PROVE  IInv'
<1> DEFINE old == job[j]
<1>1. old \in Run /\ (old.pc # "idle" => old.story \in StoryIds /\ old.story # None /\ Created(old.story))
  BY DEF IInv, TypeOK, Run
<1>2. /\ stored \in [StoryIds -> {"none", "partial", "whole"}]
      /\ skipped \subseteq {s \in StoryIds : Created(s)}
  BY DEF IInv, TypeOK
<1>3. IdleRun \in Run /\ IdleRun.pc = "idle"
  BY BlankTypes DEF IdleRun
<1>4. \A pc \in JobSteps :
        LET new == [old EXCEPT !.pc = pc] IN new \in Run /\ new.pc = pc /\ new.story = old.story
  BY <1>1 DEF Run
<1>5. CASE Tick(j)
  <2>1. PICK i \in DOMAIN order :
          /\ OldestEligible(i)
          /\ job' = [job EXCEPT ![j] =
               [pc |-> "read", story |-> order[i], toRead |-> story[order[i]].sources]]
          /\ UNCHANGED <<story, order, media, stored, audits, skipped, publisher, restarts>>
    BY <1>5 DEF Tick
  <2> DEFINE run == [pc |-> "read", story |-> order[i], toRead |-> story[order[i]].sources]
  <2>2. order[i] \in StoryIds /\ Created(order[i]) /\ order[i] # None
    BY NoneIsNothing DEF IInv, TypeOK
  <2>3. run \in Run
    BY <2>2 DEF IInv, TypeOK, Run, JobSteps, StoryRow
  <2> QED BY <1>2, <2>1, <2>2, <2>3, RunKeeps
<1>6. CASE Read(j)
  <2>1. PICK m \in old.toRead :
          /\ old.pc = "read"
          /\ \/ job' = [job EXCEPT ![j] = IdleRun]
             \/ job' = [job EXCEPT ![j].toRead = @ \ {m},
                                   ![j].pc = IF old.toRead = {m} THEN "transcode" ELSE "read"]
          /\ UNCHANGED <<story, order, media, stored, audits, skipped, publisher, restarts>>
    BY <1>6 DEF Read, Finish
  <2>2. CASE job' = [job EXCEPT ![j] = IdleRun]
    BY <1>2, <1>3, <2>1, <2>2, RunKeeps
  <2>3. CASE job' = [job EXCEPT ![j].toRead = @ \ {m},
                                ![j].pc = IF old.toRead = {m} THEN "transcode" ELSE "read"]
    <3> DEFINE run == job'[j]
    <3>1. run \in Run /\ run.story = old.story /\ run.pc \in {"transcode", "read"}
      BY <1>1, <2>3 DEF IInv, TypeOK, Run, JobSteps
    <3>2. job' = [job EXCEPT ![j] = run]
      BY <2>3 DEF IInv, TypeOK
    <3> HIDE DEF run
    <3> QED BY <1>1, <1>2, <2>1, <3>1, <3>2, RunKeeps
  <2> QED BY <2>1, <2>2, <2>3
<1>7. CASE Transcode(j)
  <2>1. job' = [job EXCEPT ![j] = [old EXCEPT !.pc = "write_objects"]] /\ old.pc = "transcode"
    BY <1>7 DEF Transcode, Goto
  <2> QED BY <1>1, <1>2, <1>4, <1>7, <2>1, RunKeeps DEF Transcode, JobSteps
<1>8. CASE WriteObjects(j)
  <2>1. CASE UNCHANGED job
    <3>1. /\ stored' = [stored EXCEPT ![old.story] = IF @ = "whole" THEN @ ELSE "partial"]
          /\ UNCHANGED <<story, order, media, audits, skipped, publisher, restarts>>
          /\ old.pc = "write_objects"
      BY <1>1, <1>8, <2>1 DEF WriteObjects, Goto, IInv, TypeOK, Run
    <3>2. /\ stored' \in [StoryIds -> {"none", "partial", "whole"}]
          /\ \A s \in StoryIds : stored[s] = "whole" => stored'[s] = "whole"
      BY <1>1, <1>2, <3>1
    <3>3. job' = [job EXCEPT ![j] = old]
      BY <2>1 DEF IInv, TypeOK
    <3> QED BY <1>1, <1>2, <3>1, <3>2, <3>3, RunKeeps
  <2>2. CASE /\ stored' = [stored EXCEPT ![old.story] = "whole"]
             /\ job' = [job EXCEPT ![j] = [old EXCEPT !.pc = "head"]]
    <3>1. old.pc = "write_objects" /\ UNCHANGED <<story, order, media, audits, skipped, publisher, restarts>>
      BY <1>8 DEF WriteObjects
    <3>2. /\ stored' \in [StoryIds -> {"none", "partial", "whole"}]
          /\ \A s \in StoryIds : stored[s] = "whole" => stored'[s] = "whole"
          /\ stored'[old.story] = "whole"
      BY <1>1, <1>2, <2>2, <3>1
    <3> QED BY <1>1, <1>2, <1>4, <2>2, <3>1, <3>2, RunKeeps DEF JobSteps
  <2> QED BY <1>8, <2>1, <2>2 DEF WriteObjects, Goto
<1>9. CASE HeadObject(j)
  <2>1. /\ job' = [job EXCEPT ![j] = [old EXCEPT !.pc = "write_row"]]
        /\ old.pc = "head"
        /\ stored[old.story] = "whole"
    BY <1>9 DEF HeadObject, Goto, IInv, RunsOK
  <2> QED BY <1>1, <1>2, <1>4, <1>9, <2>1, RunKeeps DEF HeadObject, JobSteps
<1>10. CASE Fail(j)
  <2>1. job' = [job EXCEPT ![j] = IdleRun] /\ skipped' \subseteq {s \in StoryIds : Created(s)}
    BY <1>1, <1>2, <1>10 DEF Fail, Finish
  <2> QED BY <1>2, <1>3, <1>10, <2>1, RunKeeps DEF Fail
<1> QED BY <1>5, <1>6, <1>7, <1>8, <1>9, <1>10

LEMMA WriteRowKeeps ==
  ASSUME IInv, NEW j \in Jobs, WriteRow(j)
  PROVE  IInv'
<1> USE DEF IInv
<1> DEFINE old == job[j]
           s == old.story
<1>1. /\ old \in Run /\ s \in StoryIds /\ s # None /\ Created(s)
      /\ old.pc = "write_row" /\ stored[s] = "whole"
  BY DEF WriteRow, TypeOK, RunsOK, Run
<1>2. CASE /\ Publishable(s)
           /\ story' = [story EXCEPT ![s].playback = "READY"]
           /\ job' = [job EXCEPT ![j].pc = "audit"]
  <2>1. UNCHANGED <<order, media, stored, audits, skipped, publisher, restarts>>
    BY DEF WriteRow
  <2>2. \A k \in Jobs : /\ job'[k].story = job[k].story
                        /\ job'[k].pc = IF k = j THEN "audit" ELSE job[k].pc
    BY <1>1, <1>2 DEF TypeOK, Run
  <2>3. \A t \in StoryIds : /\ story'[t].owner = story[t].owner
                            /\ story'[t].kind = story[t].kind
                            /\ story'[t].playback = IF t = s THEN "READY" ELSE story[t].playback
    BY <1>1, <1>2 DEF TypeOK, StoryRow
  <2>4. \A t \in StoryIds : Created(t)' <=> Created(t)
    BY <2>3 DEF Created
  <2>5. TypeOK'
    <3>1. story' \in [StoryIds -> StoryRow]
      <4>1. story \in [StoryIds -> StoryRow]
        BY DEF TypeOK
      <4>2. story[s] \in StoryRow
        BY <1>1, <4>1
      <4>3. [story[s] EXCEPT !.playback = "READY"] \in StoryRow
        BY <4>2 DEF StoryRow
      <4>4. story' = [story EXCEPT ![s] = [story[s] EXCEPT !.playback = "READY"]]
        BY <1>2
      <4> HIDE DEF IInv
      <4> QED BY <1>1, <4>1, <4>3, <4>4
    <3>2. job' \in [Jobs -> Run]
      BY <1>1, <1>2 DEF TypeOK, Run, JobSteps
    <3>3. {t \in StoryIds : Created(t)}' = {t \in StoryIds : Created(t)}
      BY <2>4
    <3>4. (\A k \in Jobs : job[k].pc # "idle" => job[k].story # None /\ Created(job[k].story))'
      BY <1>1, <2>2, <2>4 DEF TypeOK, Run
    <3> QED BY <2>1, <2>3, <3>1, <3>2, <3>3, <3>4 DEF TypeOK
  <2>6. RunsOK'
    BY <1>1, <2>1, <2>2 DEF RunsOK
  <2>7. ReadyHasPlaylist'
    BY <1>1, <2>1, <2>3 DEF ReadyHasPlaylist
  <2>8. PublishedOnce'
    <3>1. story[s].playback = "PENDING"
      BY <1>2 DEF Publishable
    <3>2. audits[s] = 0 /\ \A k \in Jobs : ~(job[k].pc = "audit" /\ job[k].story = s)
      BY <1>1, <3>1 DEF PublishedOnce
    <3> SUFFICES ASSUME NEW t \in StoryIds
                 PROVE LET auditing == {k \in Jobs : job'[k].pc = "audit" /\ job'[k].story = t} IN
                       /\ \A k, l \in auditing : k = l
                       /\ audits[t] \in {0, 1}
                       /\ auditing # {} => audits[t] = 0
                       /\ auditing # {} \/ audits[t] = 1 => story'[t].playback = "READY"
      BY <2>1 DEF PublishedOnce
    <3>3. CASE t = s
      BY <2>2, <2>3, <3>2, <3>3
    <3>4. CASE t # s
      <4>1. {k \in Jobs : job'[k].pc = "audit" /\ job'[k].story = t}
              = {k \in Jobs : job[k].pc = "audit" /\ job[k].story = t}
        BY <2>2, <3>4
      <4> QED BY <2>3, <3>4, <4>1 DEF PublishedOnce
    <3> QED BY <3>3, <3>4
  <2>9. EntriesOK'
    BY <1>1, <1>2, <2>1, <2>4 DEF EntriesOK, TypeOK
  <2> QED BY <2>5, <2>6, <2>7, <2>8, <2>9
<1>3. CASE UNCHANGED story /\ job' = [job EXCEPT ![j] = IdleRun]
  <2>1. IdleRun \in Run /\ IdleRun.pc = "idle"
    BY BlankTypes DEF IdleRun
  <2> QED BY <1>3, <2>1, RunKeeps DEF WriteRow, TypeOK
<1> QED BY <1>2, <1>3 DEF WriteRow, Goto, Finish

LEMMA AuditKeeps ==
  ASSUME IInv, NEW j \in Jobs, Audit(j)
  PROVE  IInv'
<1> USE DEF IInv
<1> DEFINE s == job[j].story
<1>1. s \in StoryIds /\ Created(s) /\ job[j].pc = "audit"
  BY DEF Audit, TypeOK, Run
<1>2. /\ audits' = [audits EXCEPT ![s] = @ + 1]
      /\ job' = [job EXCEPT ![j] = IdleRun]
      /\ UNCHANGED <<story, order, media, stored, skipped, publisher, restarts>>
  BY DEF Audit, Finish
<1>3. IdleRun \in Run /\ IdleRun.pc = "idle"
  BY BlankTypes DEF IdleRun
<1>4. \A k \in Jobs : job'[k] = IF k = j THEN IdleRun ELSE job[k]
  BY <1>2 DEF TypeOK
<1>5. TypeOK'
  <2>1. job' \in [Jobs -> Run]
    BY <1>2, <1>3 DEF TypeOK
  <2>2. audits' \in [StoryIds -> Nat]
    BY <1>1, <1>2 DEF TypeOK
  <2> QED BY <1>2, <1>3, <1>4, <2>1, <2>2 DEF TypeOK, Created
<1>6. RunsOK'
  BY <1>2, <1>3, <1>4 DEF RunsOK
<1>7. PublishedOnce'
  <2>1. /\ audits[s] = 0 /\ story[s].playback = "READY"
        /\ \A k \in Jobs : job[k].pc = "audit" /\ job[k].story = s => k = j
    BY <1>1 DEF PublishedOnce
  <2> SUFFICES ASSUME NEW t \in StoryIds
               PROVE LET auditing == {k \in Jobs : job'[k].pc = "audit" /\ job'[k].story = t} IN
                     /\ \A k, l \in auditing : k = l
                     /\ audits'[t] \in {0, 1}
                     /\ auditing # {} => audits'[t] = 0
                     /\ auditing # {} \/ audits'[t] = 1 => story[t].playback = "READY"
    BY <1>2 DEF PublishedOnce
  <2>2. CASE t = s
    <3>1. audits'[t] = 1
      BY <1>1, <1>2, <2>1, <2>2 DEF TypeOK
    <3>2. {k \in Jobs : job'[k].pc = "audit" /\ job'[k].story = t} = {}
      BY <1>3, <1>4, <2>1, <2>2
    <3> QED BY <2>1, <2>2, <3>1, <3>2
  <2>3. CASE t # s
    <3>1. audits'[t] = audits[t]
      BY <1>2, <2>3 DEF TypeOK
    <3>2. {k \in Jobs : job'[k].pc = "audit" /\ job'[k].story = t}
            = {k \in Jobs : job[k].pc = "audit" /\ job[k].story = t}
      BY <1>1, <1>3, <1>4, <2>3
    <3> QED BY <3>1, <3>2 DEF PublishedOnce
  <2> QED BY <2>2, <2>3
<1>8. EntriesOK'
  BY <1>1, <1>2 DEF EntriesOK, Created, TypeOK
<1> QED BY <1>2, <1>5, <1>6, <1>7, <1>8 DEF ReadyHasPlaylist

LEMMA RestartKeeps ==
  ASSUME IInv, Restart
  PROVE  IInv'
<1> USE DEF IInv
<1>1. TypeOK'
  BY BlankTypes DEF Restart, TypeOK, Created, IdleCall, IdleRun
<1>2. \A j \in Jobs : job'[j].pc = "idle"
  BY DEF Restart, IdleRun
<1> QED BY <1>1, <1>2, FewerAuditsKeep DEF Restart, RunsOK, EntriesOK, ReadyHasPlaylist, Created

LEMMA StutterKeeps ==
  ASSUME IInv, UNCHANGED vars
  PROVE  IInv'
<1> USE DEF IInv
<1>1. TypeOK'
  BY DEF TypeOK, vars, Created
<1> QED BY <1>1, FewerAuditsKeep DEF vars, RunsOK, EntriesOK, ReadyHasPlaylist, Created

LEMMA StepKeeps == IInv /\ [Next]_vars => IInv'
<1> SUFFICES ASSUME IInv, [Next]_vars PROVE IInv'
  OBVIOUS
<1>1. ASSUME NEW p \in Publishers, NEW m \in Members, Publish(p, m) PROVE IInv'
  BY <1>1, PublishKeeps
<1>2. ASSUME NEW p \in Publishers, CountActive(p) \/ CountRecent(p) PROVE IInv'
  BY <1>2, ProceedKeeps
<1>3. ASSUME NEW p \in Publishers, Create(p) PROVE IInv'
  BY <1>3, CreateKeeps
<1>4. ASSUME NEW s \in StoryIds, Hide(s) PROVE IInv'
  BY <1>4, HideKeeps
<1>5. ASSUME NEW i \in DOMAIN order, Age(i) PROVE IInv'
  BY <1>5, AgeKeeps
<1>6. ASSUME NEW m \in MediaIds, CompleteUpload(m) PROVE IInv'
  BY <1>6, UploadKeeps
<1>7. ASSUME NEW j \in Jobs, Tick(j) \/ JobStep(j) \/ Fail(j) PROVE IInv'
  BY <1>7, WorkKeeps, WriteRowKeeps, AuditKeeps DEF JobStep
<1>8. CASE Restart
  BY <1>8, RestartKeeps
<1>9. CASE UNCHANGED vars
  BY <1>9, StutterKeeps
<1> QED BY <1>1, <1>2, <1>3, <1>4, <1>5, <1>6, <1>7, <1>8, <1>9 DEF Next

----------------------------------------------------------------------------
\* The inductive invariant holds in every reachable state, whatever the number
\* of stories, create calls and overlapping runs of the worker.
THEOREM Invariance == Spec => []IInv
<1>1. Init => IInv
  BY InitOK
<1>2. IInv /\ [Next]_vars => IInv'
  BY StepKeeps
<1> QED BY <1>1, <1>2, PTL DEF Spec

\* Every row, call and run keeps its type; an image never waits for the worker.
THEOREM TypeCorrect == Spec => []TypeOK
<1>1. IInv => TypeOK
  BY DEF IInv
<1> QED BY <1>1, Invariance, PTL

\* No video is READY before its whole playlist is stored.
THEOREM PlaylistsStored == Spec => []ReadyHasPlaylist
<1>1. IInv => ReadyHasPlaylist
  BY DEF IInv
<1> QED BY <1>1, Invariance, PTL

\* Of all the runs over a story, at most one publishes and records it.
THEOREM OncePublished == Spec => []PublishedOnce
<1>1. IInv => PublishedOnce
  BY DEF IInv
<1> QED BY <1>1, Invariance, PTL

\* A story that was hidden while pending is never published.
THEOREM HiddenKept == Spec => HiddenIsNotPublished
<1> DEFINE Kept == \A s \in StoryIds :
                     story[s].moderation = "HIDDEN" => story'[s].playback = story[s].playback
<1>1. ASSUME IInv, [Next]_vars PROVE Kept
  <2> SUFFICES ASSUME NEW s \in StoryIds, story[s].moderation = "HIDDEN"
               PROVE  story'[s].playback = story[s].playback
    OBVIOUS
  <2>1. story \in [StoryIds -> StoryRow] /\ Created(s)
    BY <1>1 DEF IInv, TypeOK, EntriesOK
  <2>2. ASSUME NEW p \in Publishers, Create(p) PROVE story'[s] = story[s]
    <3>1. \E t \in StoryIds : ~Created(t) /\ story' = [story EXCEPT ![t] = story'[t]]
      BY <2>1, <2>2 DEF Create
    <3> QED BY <2>1, <3>1
  <2>3. ASSUME NEW t \in StoryIds, Hide(t) PROVE story'[s].playback = story[s].playback
    BY <2>1, <2>3 DEF Hide, StoryRow
  <2>4. ASSUME NEW i \in DOMAIN order, Age(i) PROVE story'[s].playback = story[s].playback
    BY <2>1, <2>4 DEF Age, StoryRow
  <2>5. ASSUME NEW j \in Jobs, WriteRow(j) PROVE story'[s].playback = story[s].playback
    BY <2>1, <2>5 DEF WriteRow, Publishable, StoryRow
  <2>6. CASE UNCHANGED story
    BY <2>6
  <2> QED BY <1>1, <2>2, <2>3, <2>4, <2>5, <2>6
       DEF Next, JobStep, Publish, CountActive, CountRecent, Proceed, CompleteUpload, Tick, Read,
           Transcode, WriteObjects, HeadObject, Audit, Fail, Restart, vars
<1> QED BY <1>1, Invariance, PTL DEF Spec, HiddenIsNotPublished

----------------------------------------------------------------------------
(* The cap on active stories.                                              *)

\* The calls of a member that have passed the count of active stories.
PastCount(m) == {p \in Publishers : publisher[p].pc \in {"count_recent", "create"} /\ publisher[p].member = m}

\* A call counts with ages of the past, and an id that is free has none.
AgesOnlyGrow ==
  \A s \in StoryIds :
    /\ ~Created(s) => story[s].age = 0
    /\ \A p \in Publishers : publisher[p].aged[s] <= story[s].age

CapBudget ==
  \A m \in Members :
    Cardinality(ActiveOf(m)) + Cardinality(PastCount(m)) <= MaxActive + Cardinality(Publishers) - 1

CapIInv == AgesOnlyGrow /\ CapBudget

LEMMA CountsAreNaturals ==
  ASSUME NEW m
  PROVE  /\ IsFiniteSet(ActiveOf(m)) /\ Cardinality(ActiveOf(m)) \in Nat
         /\ IsFiniteSet(PastCount(m)) /\ Cardinality(PastCount(m)) \in Nat
         /\ Cardinality(PastCount(m)) <= Cardinality(Publishers)
         /\ Cardinality(Publishers) \in Nat
<1>1. ActiveOf(m) \subseteq StoryIds /\ PastCount(m) \subseteq Publishers
  BY DEF ActiveOf, PastCount
<1> QED BY <1>1, SlotsAreFinite, FS_Subset, FS_CardinalityType

\* A step that adds to neither side keeps the budget.
LEMMA BudgetShrinks ==
  ASSUME CapBudget,
         \A m \in Members : ActiveOf(m)' \subseteq ActiveOf(m) /\ PastCount(m)' \subseteq PastCount(m)
  PROVE  CapBudget'
<1> SUFFICES ASSUME NEW m \in Members
             PROVE  Cardinality(ActiveOf(m)') + Cardinality(PastCount(m)') <= MaxActive + Cardinality(Publishers) - 1
  BY DEF CapBudget
<1>1. /\ Cardinality(ActiveOf(m)') <= Cardinality(ActiveOf(m)) /\ Cardinality(ActiveOf(m)') \in Nat
      /\ Cardinality(PastCount(m)') <= Cardinality(PastCount(m)) /\ Cardinality(PastCount(m)') \in Nat
  BY CountsAreNaturals, FS_Subset, FS_CardinalityType
<1> QED BY <1>1, CountsAreNaturals, CapsAreNaturals DEF CapBudget

LEMMA CapInitially == Init => CapIInv
<1> SUFFICES ASSUME Init PROVE CapIInv
  OBVIOUS
<1>1. AgesOnlyGrow
  BY DEF Init, AgesOnlyGrow, NoStory, IdleCall
<1>2. ASSUME NEW m \in Members PROVE ActiveOf(m) = {} /\ PastCount(m) = {}
  BY NoneIsNothing DEF Init, ActiveOf, PastCount, NoStory, IdleCall
<1>3. CapBudget
  BY <1>2, FS_EmptySet, CountsAreNaturals, SlotsAreFinite, FS_CardinalityType, CapsAreNaturals DEF CapBudget
<1> QED BY <1>1, <1>3 DEF CapIInv

LEMMA PublishKeepsCap ==
  ASSUME IInv, CapIInv, NEW p \in Publishers, NEW m \in Members, Publish(p, m)
  PROVE  CapIInv'
<1>1. AgesOnlyGrow'
  BY DEF IInv, TypeOK, StoryRow, CapIInv, AgesOnlyGrow, Publish, Created
<1>2. \A n \in Members : ActiveOf(n)' \subseteq ActiveOf(n) /\ PastCount(n)' \subseteq PastCount(n)
  BY DEF IInv, TypeOK, Publish, ActiveOf, PastCount
<1> QED BY <1>1, <1>2, BudgetShrinks DEF CapIInv

\* What is active now was active at the time the call counts from.
LEMMA CountActiveKeepsCap ==
  ASSUME IInv, CapIInv, NEW p \in Publishers, CountActive(p)
  PROVE  CapIInv'
<1>0. PICK m \in Members : m = publisher[p].member
  BY DEF IInv, TypeOK, CountActive, Proceed
<1> DEFINE passes == ~(Cardinality(ActiveStories(p)) >= MaxActive)
<1>1. /\ publisher[p].pc = "count_active" /\ publisher[p] \in Call
      /\ publisher' = [publisher EXCEPT ![p] = IF ~passes THEN IdleCall ELSE [@ EXCEPT !.pc = "count_recent"]]
      /\ story' = story
  BY DEF IInv, TypeOK, CountActive, Proceed
<1>2. publisher'[p].aged \in {publisher[p].aged, IdleCall.aged} /\ \A q \in Publishers \ {p} : publisher'[q] = publisher[q]
  BY <1>1 DEF IInv, TypeOK, Call
<1>3. AgesOnlyGrow'
  BY <1>1, <1>2 DEF IInv, TypeOK, StoryRow, CapIInv, AgesOnlyGrow, Created, IdleCall
<1>4. \A n \in Members : ActiveOf(n)' = ActiveOf(n)
  BY <1>1 DEF ActiveOf
<1>5. CASE ~passes
  <2>1. \A n \in Members : PastCount(n)' \subseteq PastCount(n)
    BY <1>1, <1>5 DEF IInv, TypeOK, PastCount, IdleCall
  <2> QED BY <1>3, <1>4, <2>1, BudgetShrinks DEF CapIInv
<1>6. CASE passes
  <2>1. ActiveOf(m) \subseteq ActiveStories(p) /\ ActiveStories(p) \subseteq StoryIds
    <3>1. ASSUME NEW s \in ActiveOf(m) PROVE publisher[p].aged[s] < TtlHours
      BY <1>1, StoriesLiveAnHour DEF IInv, TypeOK, StoryRow, Call, CapIInv, AgesOnlyGrow, ActiveOf
    <3> QED BY <1>0, <3>1 DEF ActiveOf, ActiveStories, OwnStories
  <2>2. Cardinality(ActiveOf(m)) < MaxActive
    <3>1. IsFiniteSet(ActiveStories(p)) /\ Cardinality(ActiveStories(p)) \in Nat
      BY <2>1, SlotsAreFinite, FS_Subset, FS_CardinalityType
    <3>2. Cardinality(ActiveOf(m)) <= Cardinality(ActiveStories(p))
      BY <2>1, <3>1, FS_Subset
    <3> QED BY <1>6, <3>1, <3>2, CountsAreNaturals, CapsAreNaturals
  <2>3. Cardinality(PastCount(m)') <= Cardinality(Publishers) /\ Cardinality(PastCount(m)') \in Nat
    <3>1. PastCount(m)' \subseteq Publishers
      BY DEF PastCount
    <3> QED BY <3>1, SlotsAreFinite, FS_Subset, FS_CardinalityType
  <2>4. \A n \in Members \ {m} : PastCount(n)' = PastCount(n)
    BY <1>0, <1>1, <1>6 DEF IInv, TypeOK, PastCount, Call
  <2> HIDE DEF passes
  <2>5. CapBudget'
    <3> SUFFICES ASSUME NEW n \in Members
                 PROVE  Cardinality(ActiveOf(n)') + Cardinality(PastCount(n)') <= MaxActive + Cardinality(Publishers) - 1
      BY DEF CapBudget
    <3>1. CASE n = m
      BY <1>4, <2>2, <2>3, <3>1, CountsAreNaturals, CapsAreNaturals
    <3>2. CASE n # m
      BY <1>4, <2>4, <3>2 DEF CapIInv, CapBudget
    <3> QED BY <3>1, <3>2
  <2> QED BY <1>3, <2>5 DEF CapIInv
<1> QED BY <1>5, <1>6

LEMMA CountRecentKeepsCap ==
  ASSUME IInv, CapIInv, NEW p \in Publishers, CountRecent(p)
  PROVE  CapIInv'
<1>1. PICK call \in {IdleCall, [publisher[p] EXCEPT !.pc = "create"]} :
        publisher' = [publisher EXCEPT ![p] = call] /\ publisher[p].pc = "count_recent" /\ story' = story
  BY DEF CountRecent, Proceed
<1>2. /\ call.aged \in {publisher[p].aged, IdleCall.aged}
      /\ call.pc # "idle" => call.member = publisher[p].member
      /\ \A q \in Publishers \ {p} : publisher'[q] = publisher[q]
      /\ publisher'[p] = call
  BY <1>1 DEF IInv, TypeOK, Call, IdleCall
<1>3. AgesOnlyGrow'
  BY <1>1, <1>2 DEF IInv, TypeOK, StoryRow, CapIInv, AgesOnlyGrow, Created, IdleCall
<1>4. \A n \in Members : ActiveOf(n)' = ActiveOf(n)
  BY <1>1 DEF ActiveOf
<1>5. \A n \in Members : PastCount(n)' \subseteq PastCount(n)
  BY <1>1, <1>2 DEF PastCount
<1> QED BY <1>3, <1>4, <1>5, BudgetShrinks DEF CapIInv

\* A call that creates trades its place for the story.
LEMMA CreateKeepsCap ==
  ASSUME IInv, CapIInv, NEW p \in Publishers, Create(p)
  PROVE  CapIInv'
<1>0. PICK m \in Members : m = publisher[p].member /\ m # None
  BY NoneIsNothing DEF IInv, TypeOK, Create
<1>1. PICK s \in StoryIds :
        /\ publisher[p].pc = "create" /\ ~Created(s)
        /\ story' = [story EXCEPT ![s] = story'[s]] /\ story'[s].owner = m /\ story'[s].age = 0
        /\ publisher' = [publisher EXCEPT ![p] = IdleCall]
  <2>1. PICK s \in StoryIds, sources \in Sources :
          /\ publisher[p].pc = "create" /\ ~Created(s)
          /\ story' = [story EXCEPT ![s] =
               [owner |-> publisher[p].member, kind |-> IF sources = {} THEN "IMAGE" ELSE "VIDEO",
                sources |-> sources, playback |-> IF sources = {} THEN "READY" ELSE "PENDING",
                moderation |-> "ACTIVE", age |-> 0]]
          /\ publisher' = [publisher EXCEPT ![p] = IdleCall]
    BY DEF Create
  <2> QED BY <1>0, <2>1 DEF IInv, TypeOK
<1>2. \A t \in StoryIds \ {s} : story'[t] = story[t]
  BY <1>1 DEF IInv, TypeOK
<1>3. /\ \A q \in Publishers \ {p} : publisher'[q] = publisher[q]
      /\ publisher'[p].pc = "idle" /\ \A t \in StoryIds : publisher'[p].aged[t] = 0
  BY <1>1 DEF IInv, TypeOK, IdleCall
<1>4. AgesOnlyGrow'
  <2>1. ASSUME NEW q \in Publishers, NEW t \in StoryIds PROVE publisher'[q].aged[t] <= story'[t].age
    <3>1. publisher[q].aged[t] <= story[t].age /\ (~Created(t) => story[t].age = 0)
      BY DEF CapIInv, AgesOnlyGrow
    <3>2. story[t].age \in Nat
      BY StoriesLiveAnHour DEF IInv, TypeOK, StoryRow
    <3> QED BY <1>1, <1>2, <1>3, <3>1, <3>2
  <2>2. ASSUME NEW t \in StoryIds, ~Created(t)' PROVE story'[t].age = 0
    BY <1>1, <1>2, <2>2 DEF CapIInv, AgesOnlyGrow, Created
  <2> QED BY <2>1, <2>2 DEF AgesOnlyGrow
<1>5. ActiveOf(m)' \subseteq ActiveOf(m) \cup {s} /\ PastCount(m)' = PastCount(m) \ {p} /\ p \in PastCount(m)
  BY <1>0, <1>1, <1>2, <1>3 DEF ActiveOf, PastCount
<1>6. \A n \in Members \ {m} : ActiveOf(n)' \subseteq ActiveOf(n) /\ PastCount(n)' \subseteq PastCount(n)
  BY <1>0, <1>1, <1>2, <1>3 DEF ActiveOf, PastCount
<1>7. /\ Cardinality(ActiveOf(m)') <= Cardinality(ActiveOf(m)) + 1 /\ Cardinality(ActiveOf(m)') \in Nat
      /\ Cardinality(PastCount(m)') = Cardinality(PastCount(m)) - 1
  <2>1. IsFiniteSet(ActiveOf(m) \cup {s}) /\ Cardinality(ActiveOf(m) \cup {s}) <= Cardinality(ActiveOf(m)) + 1
    <3>1. IsFiniteSet(ActiveOf(m)) /\ Cardinality(ActiveOf(m)) \in Nat
      BY CountsAreNaturals
    <3>2. /\ IsFiniteSet(ActiveOf(m) \cup {s})
          /\ Cardinality(ActiveOf(m) \cup {s}) = IF s \in ActiveOf(m) THEN Cardinality(ActiveOf(m))
                                                 ELSE Cardinality(ActiveOf(m)) + 1
      BY <3>1, FS_AddElement
    <3> QED BY <3>1, <3>2
  <2>2. Cardinality(ActiveOf(m) \cup {s}) \in Nat
    BY <2>1, FS_CardinalityType
  <2>3. Cardinality(ActiveOf(m)') <= Cardinality(ActiveOf(m) \cup {s}) /\ Cardinality(ActiveOf(m)') \in Nat
    BY <1>5, <2>1, FS_Subset, FS_CardinalityType
  <2>4. Cardinality(PastCount(m)') = Cardinality(PastCount(m)) - 1
    BY <1>5, CountsAreNaturals, FS_RemoveElement
  <2> QED BY <2>1, <2>2, <2>3, <2>4, CountsAreNaturals
<1>8. CapBudget'
  <2> SUFFICES ASSUME NEW n \in Members
               PROVE  Cardinality(ActiveOf(n)') + Cardinality(PastCount(n)') <= MaxActive + Cardinality(Publishers) - 1
    BY DEF CapBudget
  <2>1. CASE n = m
    BY <1>7, <2>1, CountsAreNaturals, CapsAreNaturals DEF CapIInv, CapBudget
  <2>2. CASE n # m
    <3>1. /\ Cardinality(ActiveOf(n)') <= Cardinality(ActiveOf(n)) /\ Cardinality(ActiveOf(n)') \in Nat
          /\ Cardinality(PastCount(n)') <= Cardinality(PastCount(n)) /\ Cardinality(PastCount(n)') \in Nat
      BY <1>6, <2>2, CountsAreNaturals, FS_Subset, FS_CardinalityType
    <3> QED BY <3>1, CountsAreNaturals, CapsAreNaturals DEF CapIInv, CapBudget
  <2> QED BY <2>1, <2>2
<1> QED BY <1>4, <1>8 DEF CapIInv

\* Hiding and ageing take stories out of the count; ages grow.
LEMMA RowsKeepCap ==
  ASSUME IInv, CapIInv, (\E s \in StoryIds : Hide(s)) \/ (\E i \in DOMAIN order : Age(i))
  PROVE  CapIInv'
<1>1. PICK s \in StoryIds, new \in StoryRow :
        /\ story' = [story EXCEPT ![s] = new] /\ Created(s) /\ new.owner = story[s].owner
        /\ new.moderation = "ACTIVE" => story[s].moderation = "ACTIVE"
        /\ new.age >= story[s].age /\ publisher' = publisher
  <2>1. ASSUME NEW s \in StoryIds, Hide(s)
        PROVE  LET new == [story[s] EXCEPT !.moderation = "HIDDEN"] IN
               /\ new \in StoryRow /\ story' = [story EXCEPT ![s] = new] /\ Created(s) /\ new.owner = story[s].owner
               /\ new.moderation = "ACTIVE" => story[s].moderation = "ACTIVE"
               /\ new.age >= story[s].age /\ publisher' = publisher
    <3>1. story[s] \in StoryRow /\ story[s].age \in Nat
      BY StoriesLiveAnHour DEF IInv, TypeOK, StoryRow
    <3> QED BY <2>1, <3>1 DEF StoryRow, Hide
  <2>2. ASSUME NEW i \in DOMAIN order, Age(i)
        PROVE  LET new == [story[order[i]] EXCEPT !.age = @ + 1] IN
               /\ order[i] \in StoryIds /\ new \in StoryRow
               /\ story' = [story EXCEPT ![order[i]] = new] /\ Created(order[i]) /\ new.owner = story[order[i]].owner
               /\ new.moderation = "ACTIVE" => story[order[i]].moderation = "ACTIVE"
               /\ new.age >= story[order[i]].age /\ publisher' = publisher
    <3>1. order[i] \in StoryIds /\ Created(order[i]) /\ story[order[i]] \in StoryRow
      BY DEF IInv, TypeOK
    <3>2. [story[order[i]] EXCEPT !.age = @ + 1] \in StoryRow /\ story[order[i]].age \in Nat
      BY <2>2, <3>1, StoriesLiveAnHour DEF StoryRow, Age
    <3> QED BY <2>2, <3>1, <3>2 DEF StoryRow, Age
  <2> QED BY <2>1, <2>2
<1>2. \A t \in StoryIds \ {s} : story'[t] = story[t]
  BY <1>1 DEF IInv, TypeOK
<1>3. story'[s] = new /\ story[s].age \in Nat /\ new.age \in Nat
  BY <1>1, StoriesLiveAnHour DEF IInv, TypeOK, StoryRow
<1>4. AgesOnlyGrow'
  <2>1. ASSUME NEW p \in Publishers PROVE publisher[p].aged[s] \in Nat
    BY StoriesLiveAnHour DEF IInv, TypeOK, Call
  <2> QED BY <1>1, <1>2, <1>3, <2>1 DEF CapIInv, AgesOnlyGrow, Created
<1>5. \A n \in Members : ActiveOf(n)' \subseteq ActiveOf(n) /\ PastCount(n)' \subseteq PastCount(n)
  BY <1>1, <1>2, <1>3, StoriesLiveAnHour DEF ActiveOf, PastCount
<1> QED BY <1>4, <1>5, BudgetShrinks DEF CapIInv

LEMMA CapStepKeeps == IInv /\ CapIInv /\ [Next]_vars => CapIInv'
<1> SUFFICES ASSUME IInv, CapIInv, [Next]_vars PROVE CapIInv'
  OBVIOUS
<1>1. ASSUME UNCHANGED <<story, publisher>> PROVE CapIInv'
  BY <1>1 DEF CapIInv, AgesOnlyGrow, CapBudget, ActiveOf, PastCount, Created
<1>2. CASE Restart
  <2>1. AgesOnlyGrow'
    BY <1>2, StoriesLiveAnHour DEF Restart, IInv, TypeOK, StoryRow, CapIInv, AgesOnlyGrow, Created, IdleCall
  <2>2. \A n \in Members : ActiveOf(n)' \subseteq ActiveOf(n) /\ PastCount(n)' \subseteq PastCount(n)
    BY <1>2 DEF Restart, ActiveOf, PastCount, IdleCall
  <2> QED BY <2>1, <2>2, BudgetShrinks DEF CapIInv
<1>3. ASSUME NEW j \in Jobs, WriteRow(j) PROVE CapIInv'
  <2>1. CASE UNCHANGED story
    BY <1>1, <1>3, <2>1 DEF WriteRow
  <2>2. CASE story' = [story EXCEPT ![job[j].story].playback = "READY"]
    <3>1. \A s \in StoryIds : /\ story'[s].owner = story[s].owner /\ story'[s].age = story[s].age
                              /\ story'[s].moderation = story[s].moderation
      BY <2>2 DEF IInv, TypeOK, StoryRow
    <3>2. publisher' = publisher
      BY <1>3 DEF WriteRow
    <3>3. AgesOnlyGrow'
      BY <3>1, <3>2 DEF CapIInv, AgesOnlyGrow, Created
    <3>4. \A n \in Members : ActiveOf(n)' = ActiveOf(n) /\ PastCount(n)' = PastCount(n)
      BY <3>1, <3>2 DEF ActiveOf, PastCount
    <3> QED BY <3>3, <3>4, BudgetShrinks DEF CapIInv
  <2> QED BY <1>3, <2>1, <2>2 DEF WriteRow
<1>4. ASSUME NEW j \in Jobs, Tick(j) \/ Read(j) \/ Transcode(j) \/ WriteObjects(j) \/ HeadObject(j) \/ Audit(j) \/ Fail(j)
      PROVE  CapIInv'
  BY <1>1, <1>4 DEF Tick, Read, Transcode, WriteObjects, HeadObject, Audit, Fail
<1>5. ASSUME NEW m \in MediaIds, CompleteUpload(m) PROVE CapIInv'
  BY <1>1, <1>5 DEF CompleteUpload
<1>6. CASE UNCHANGED vars
  BY <1>1, <1>6 DEF vars
<1> QED BY <1>2, <1>3, <1>4, <1>5, <1>6, PublishKeepsCap, CountActiveKeepsCap, CountRecentKeepsCap,
       CreateKeepsCap, RowsKeepCap DEF Next, JobStep

\* No member has more active stories than the cap and one per further call in
\* flight, however calls that count and create interleave with moderation,
\* ageing and restarts (assertPublishBudget, create).
THEOREM CapNearlyKept == Spec => []CapIsNearlyKept
<1>1. CapIInv => CapIsNearlyKept
  BY CountsAreNaturals, CapsAreNaturals DEF CapIInv, CapBudget, CapIsNearlyKept
<1> QED BY <1>1, Invariance, CapInitially, CapStepKeeps, PTL DEF Spec
=============================================================================
