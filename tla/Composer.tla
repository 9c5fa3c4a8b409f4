------------------------------ MODULE Composer ------------------------------
(***************************************************************************)
(* The page that publishes a story: picking a file, its presigned upload,  *)
(* and the story made of it.  While it publishes the web's page still      *)
(* switches the kind, which unlocks it, and takes a file that is dropped;  *)
(* the phone's can be left for the live tab and opened anew.  The object   *)
(* goes to S3; an uploaded soundtrack goes the same way and is left out.   *)
(***************************************************************************)
EXTENDS Handlers, Sequences

CONSTANTS
  MaxFiles,               \* bound: files picked
  MaxMade                 \* bound: stories a file has when it is published again
ASSUME ComposerAssumption == {MaxFiles, MaxMade} \subseteq Nat

VARIABLES
  device,                 \* "web" or "phone"
  kind,                   \* StoryKindChoice
  media,                  \* the number of the file on the page, 0 without one
  files,                  \* the kinds of the files picked so far
  publishing,             \* busy
  picks,                  \* Slots -> the file whose duration, or choice, is awaited
  posts,                  \* Slots -> the publication: its step, file and kind, and whether
                          \* its page is still there
  stored,                 \* storage: the files uploaded
  made,                   \* stories: file -> the kinds it was published as, in order
  mixed,                  \* history: a file came to a page of the other kind
  switched,               \* history: the kind was switched during a publication
  unheard                 \* history: the files whose story was made and its answer lost
composerVars == <<device, kind, media, files, publishing, picks, posts, stored, made,
                  mixed, switched, unheard>>

Kinds == {"IMAGE", "VIDEO"}
NoFile == 0
PostIdle == [step |-> "idle", file |-> NoFile, kind |-> "IMAGE", here |-> TRUE]
PostAt(s, step) == posts[s].step = step
PostGoTo(s, step) == posts' = [posts EXCEPT ![s].step = step]
Posting == {s \in Slots : posts[s].step # "idle"}

ComposerInit ==
  /\ device \in {"web", "phone"} /\ kind = "IMAGE" /\ media = NoFile /\ files = <<>>
  /\ publishing = FALSE
  /\ picks = [s \in Slots |-> NoFile] /\ posts = [s \in Slots |-> PostIdle]
  /\ stored = {} /\ made = [f \in 1..MaxFiles |-> <<>>]
  /\ mixed = FALSE /\ switched = FALSE /\ unheard = {}

SwitchKind ==
  /\ device = "web" \/ ~publishing
  /\ kind' \in Kinds \ {kind}
  /\ media' = NoFile
  /\ publishing' = FALSE
  /\ switched' = (switched \/ \E s \in Posting : posts[s].here)
  /\ UNCHANGED <<device, files, picks, posts, stored, made, mixed, unheard>>

NewFile(k) == Len(files) < MaxFiles /\ files' = Append(files, k)
SetMedia(file) ==
  /\ media' = file
  /\ mixed' = (mixed \/ files'[file] # kind)
\* accept: a photo is taken at once, a video when its duration is known.  What is
\* dropped may be of either kind.
Accept(s, k) ==
  /\ device = "web" /\ media = NoFile /\ picks[s] = NoFile
  /\ NewFile(k)
  /\ IF kind = "VIDEO" THEN picks' = [picks EXCEPT ![s] = Len(files')] /\ UNCHANGED <<media, mixed>>
     ELSE SetMedia(Len(files')) /\ UNCHANGED picks
  /\ UNCHANGED <<device, kind, publishing, posts, stored, made, switched, unheard>>
\* launchImageLibraryAsync, for files of the kind of the press.
PickMedia(s) ==
  /\ device = "phone" /\ ~publishing /\ picks[s] = NoFile
  /\ NewFile(kind)
  /\ picks' = [picks EXCEPT ![s] = Len(files')]
  /\ UNCHANGED <<device, kind, media, publishing, posts, stored, made, mixed, switched, unheard>>
Picked(s) ==
  /\ picks[s] # NoFile /\ picks' = [picks EXCEPT ![s] = NoFile]
  /\ UNCHANGED files /\ SetMedia(picks[s])
  /\ UNCHANGED <<device, kind, publishing, posts, stored, made, switched, unheard>>
CancelPick(s) ==
  /\ device = "phone" /\ picks[s] # NoFile /\ picks' = [picks EXCEPT ![s] = NoFile]
  /\ UNCHANGED <<device, kind, media, files, publishing, posts, stored, made, mixed, switched,
                 unheard>>
ChooseDifferent ==
  /\ device = "web" /\ media # NoFile /\ ~publishing
  /\ media' = NoFile
  /\ UNCHANGED <<device, kind, files, publishing, picks, posts, stored, made, mixed, switched,
                 unheard>>

Publish(s) ==
  /\ posts[s] = PostIdle /\ media # NoFile /\ ~publishing
  /\ Len(made[media]) <= MaxMade
  /\ publishing' = TRUE
  /\ posts' = [posts EXCEPT ![s] = [step |-> "presign", file |-> media, kind |-> kind, here |-> TRUE]]
  /\ UNCHANGED <<device, kind, media, files, picks, stored, made, mixed, switched, unheard>>

ServeSteps(s) == UNCHANGED <<device, kind, media, files, publishing, picks, mixed, switched, unheard>>
\* presign: a row that waits for its object.
Presign(s) ==
  /\ PostAt(s, "presign") /\ PostGoTo(s, "put")
  /\ UNCHANGED <<stored, made>> /\ ServeSteps(s)
\* PUT; the web does not look at the status that comes back.
PutObject(s) ==
  /\ PostAt(s, "put") /\ PostGoTo(s, "complete")
  /\ \/ stored' = stored \cup {posts[s].file}
     \/ device = "web" /\ UNCHANGED stored
  /\ UNCHANGED made /\ ServeSteps(s)
\* Mutant: the object is not looked for.
CompleteUnseen(s) ==
  /\ PostAt(s, "complete") /\ PostGoTo(s, "create")
  /\ UNCHANGED <<stored, made>> /\ ServeSteps(s)

\* complete: READY when storage.head finds the object.
CompleteMedia(s) ==
  /\ PostAt(s, "complete") /\ posts[s].file \in stored
  /\ PostGoTo(s, "create")
  /\ UNCHANGED <<stored, made>> /\ ServeSteps(s)
\* createStory, with the media in the place that the kind names.
CreateStory(s) ==
  /\ PostAt(s, "create") /\ PostGoTo(s, "answer")
  /\ made' = [made EXCEPT ![posts[s].file] = Append(@, posts[s].kind)]
  /\ UNCHANGED stored /\ ServeSteps(s)

EndPost(s, file) ==
  /\ posts' = [posts EXCEPT ![s] = PostIdle]
  /\ IF posts[s].here THEN media' = file /\ publishing' = FALSE ELSE UNCHANGED <<media, publishing>>
  /\ UNCHANGED <<device, kind, files, picks, stored, made, mixed, switched>>
Published(s) == PostAt(s, "answer") /\ EndPost(s, NoFile) /\ UNCHANGED unheard
\* Refused at any step, or its answer lost: the file stays on the page.
FailPublish(s) ==
  /\ ~PostAt(s, "idle") /\ EndPost(s, media)
  /\ unheard' = IF PostAt(s, "answer") THEN unheard \cup {posts[s].file} ELSE unheard

\* The phone's tabs, and any way out of the page: a later composer starts anew.
LeaveComposer ==
  /\ kind' = "IMAGE" /\ media' = NoFile /\ publishing' = FALSE
  /\ picks' = [s \in Slots |-> NoFile]
  /\ posts' = [s \in Slots |-> IF PostAt(s, "idle") THEN PostIdle ELSE [posts[s] EXCEPT !.here = FALSE]]
  /\ UNCHANGED <<device, files, stored, made, mixed, switched, unheard>>

ComposerNext ==
  \/ SwitchKind \/ ChooseDifferent \/ LeaveComposer
  \/ \E s \in Slots :
       \/ \E k \in Kinds : Accept(s, k)
       \/ PickMedia(s) \/ Picked(s) \/ CancelPick(s)
       \/ Publish(s) \/ Presign(s) \/ PutObject(s) \/ CompleteMedia(s) \/ CreateStory(s)
       \/ Published(s) \/ FailPublish(s)
ComposerSpec == ComposerInit /\ [][ComposerNext]_composerVars

-----------------------------------------------------------------------------
(* Every variable keeps its type. *)
ComposerTypeOK ==
  /\ device \in {"web", "phone"} /\ kind \in Kinds /\ media \in 0..Len(files)
  /\ files \in Seq(Kinds) /\ Len(files) <= MaxFiles
  /\ {publishing, mixed, switched} \subseteq BOOLEAN
  /\ picks \in [Slots -> 0..Len(files)]
  /\ posts \in [Slots -> [step: {"idle", "presign", "put", "complete", "create", "answer"},
                          file: 0..Len(files), kind: Kinds, here: BOOLEAN]]
  /\ stored \subseteq DOMAIN files /\ unheard \subseteq DOMAIN files
  /\ made \in [1..MaxFiles -> Seq(Kinds)]

(* A story is made of a file that was stored; once, unless the answer to the   *)
(* first was lost or the kind was switched during a publication; and as what   *)
(* the file is, unless it came to a page of the other kind                     *)
(* (media.service.ts:86-98, story-composer.tsx:115-165).                       *)
StoriesHaveTheirFile ==
  \A f \in 1..MaxFiles :
    /\ made[f] # <<>> => f \in stored
    /\ Len(made[f]) > 1 => switched \/ f \in unheard
    /\ \A i \in DOMAIN made[f] : made[f][i] = files[f] \/ mixed

(* A page that publishes is locked, and publishes one file at a time, unless   *)
(* its kind was switched meanwhile (story-composer.tsx:88-95, 121).            *)
LockedWhilePublishing ==
  ~switched => LET here == {s \in Posting : posts[s].here}
               IN Cardinality(here) <= 1 /\ (publishing <=> here # {})

(* What is published is the file of the page, in one publication at a time     *)
(* (story-composer.tsx:88-165).                                                *)
PublishesItsFile == StoriesHaveTheirFile /\ LockedWhilePublishing
=============================================================================
