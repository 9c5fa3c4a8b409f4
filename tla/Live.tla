-------------------------------- MODULE Live --------------------------------
(***************************************************************************)
(* One member's live sessions and stories, and what one viewer is shown of *)
(* them: in the live view, in the list of stories and as a pin on the map. *)
(* PATRONS means the members with an accepted connection to the owner,     *)
(* which may come and go between the statements of a call.                 *)
(***************************************************************************)
EXTENDS Handlers, Sequences

CONSTANTS
  MaxStarts,              \* policy.maxLiveStartsPerHour
  MaxLives, MaxPosts      \* bounds: sessions ever started, stories ever posted
ASSUME LiveAssumption == MaxStarts \in Nat \ {0} /\ MaxLives \in Nat /\ MaxPosts \in Nat

VARIABLES
  lives,                  \* live_sessions, in the order of startedAt
  posts,                  \* the owner's stories, in order of creation
  patron,                 \* the viewer is a patron of the owner
  leaks,                  \* history: answers with a row nobody was entitled to
  liveCalls,              \* Slots -> the call in flight
  startsCrossed           \* history: two starts overlapped
liveVars == <<lives, posts, patron, leaks, liveCalls, startsCrossed>>

Audiences == {"EVERYONE", "PATRONS"}
\* met: the viewer was entitled to it at some moment since it was created.
LiveRow == [audience: Audiences, live: BOOLEAN, recent: BOOLEAN, met: BOOLEAN]
Post == [audience: Audiences, up: BOOLEAN, met: BOOLEAN]
Leak == [by: {"live", "stories", "pins"}, changed: BOOLEAN]

ViewerSteps == {"check", "list", "pins", "pinStories"}
LiveSteps == {"idle", "retire", "start", "end"} \cup ViewerSteps
\* row: the session found; patron: what the check said; changed: the connection has
\* changed since; entitled: of the rows shown so far.
LiveCall == [step: LiveSteps, row: Nat, audience: Audiences, patron: BOOLEAN,
             changed: BOOLEAN, entitled: BOOLEAN]
LiveIdle == [step |-> "idle", row |-> 0, audience |-> "EVERYONE", patron |-> FALSE,
             changed |-> FALSE, entitled |-> TRUE]
LiveAt(s, step) == liveCalls[s].step = step
LiveEnter(s, call) == liveCalls' = [liveCalls EXCEPT ![s] = call]

OnAir == {i \in DOMAIN lives : lives[i].live}
Recent == {i \in DOMAIN lives : lives[i].recent}
\* findLive: the one that started last.
Latest == CHOOSE i \in OnAir : \A j \in OnAir : j <= i
Cut(rows) == [i \in DOMAIN lives |-> [lives[i] EXCEPT !.live = @ /\ i \notin rows]]

VisibleTo(audience, isPatron) == audience = "EVERYONE" \/ isPatron
\* The viewer was entitled to all of them at some moment.
Entitled(rows) == \A row \in rows : row.met
Tell(s, by, entitled) ==
  /\ leaks' = IF entitled THEN leaks
              ELSE leaks \cup {[by |-> by, changed |-> liveCalls[s].changed]}
  /\ LiveEnter(s, LiveIdle)

LiveInit ==
  /\ lives = <<>> /\ posts = <<>> /\ leaks = {}
  /\ patron \in BOOLEAN
  /\ liveCalls = [s \in Slots |-> LiveIdle]
  /\ startsCrossed = FALSE

-----------------------------------------------------------------------------
(* The owner and the moderators. *)

\* start counts the last hour, ends what is live, then creates.
StartLive(s, audience) ==
  /\ LiveAt(s, "idle") /\ Cardinality(Recent) < MaxStarts /\ Len(lives) < MaxLives
  /\ LiveEnter(s, [LiveIdle EXCEPT !.step = "retire", !.audience = audience])
  /\ UNCHANGED <<lives, posts, patron, leaks, startsCrossed>>
\* Mutant: start ends what is live for the same audience.
RetireSameAudience(s) ==
  /\ LiveAt(s, "retire")
  /\ lives' = Cut({i \in OnAir : lives[i].audience = liveCalls[s].audience})
  /\ LiveEnter(s, [liveCalls[s] EXCEPT !.step = "start"])
  /\ UNCHANGED <<posts, patron, leaks, startsCrossed>>

RetireLives(s) ==
  /\ LiveAt(s, "retire")
  /\ lives' = Cut(OnAir)
  /\ LiveEnter(s, [liveCalls[s] EXCEPT !.step = "start"])
  /\ UNCHANGED <<posts, patron, leaks, startsCrossed>>
CreateLive(s) ==
  /\ LiveAt(s, "start") /\ Len(lives) < MaxLives
  /\ lives' = Append(lives, [audience |-> liveCalls[s].audience, live |-> TRUE,
                             recent |-> TRUE,
                             met |-> VisibleTo(liveCalls[s].audience, patron)])
  /\ LiveEnter(s, LiveIdle)
  /\ startsCrossed' = (startsCrossed \/ \E r \in Slots \ {s} : LiveAt(r, "start"))
  /\ UNCHANGED <<posts, patron, leaks>>

\* end finds the latest, endById is given one; both write by id.
FindLive(s) ==
  /\ LiveAt(s, "idle") /\ OnAir # {}
  /\ LiveEnter(s, [LiveIdle EXCEPT !.step = "end", !.row = Latest])
  /\ UNCHANGED <<lives, posts, patron, leaks, startsCrossed>>
EndLive(s) ==
  /\ LiveAt(s, "end")
  /\ lives' = Cut({liveCalls[s].row})
  /\ LiveEnter(s, LiveIdle)
  /\ UNCHANGED <<posts, patron, leaks, startsCrossed>>
EndLiveById(i) ==
  /\ i \in OnAir                        \* ending it again changes nothing
  /\ lives' = Cut({i})
  /\ UNCHANGED <<posts, patron, leaks, liveCalls, startsCrossed>>
HourPasses(i) ==
  /\ i \in Recent
  /\ lives' = [lives EXCEPT ![i].recent = FALSE]
  /\ UNCHANGED <<posts, patron, leaks, liveCalls, startsCrossed>>

PostStory(audience) ==
  /\ Len(posts) < MaxPosts
  /\ posts' = Append(posts, [audience |-> audience, up |-> TRUE,
                             met |-> VisibleTo(audience, patron)])
  /\ UNCHANGED <<lives, patron, leaks, liveCalls, startsCrossed>>
\* Hidden by a moderator, or expired.
TakeDown(i) ==
  /\ posts[i].up
  /\ posts' = [posts EXCEPT ![i].up = FALSE]
  /\ UNCHANGED <<lives, patron, leaks, liveCalls, startsCrossed>>

\* The connection is accepted, or ends.
ConnectionChanges ==
  /\ patron' = ~patron
  /\ lives' = [i \in DOMAIN lives |-> [lives[i] EXCEPT !.met = @ \/ patron']]
  /\ posts' = [i \in DOMAIN posts |-> [posts[i] EXCEPT !.met = @ \/ patron']]
  /\ liveCalls' = [s \in Slots |->
       [liveCalls[s] EXCEPT !.changed = @ \/ liveCalls[s].step \in ViewerSteps]]
  /\ UNCHANGED <<leaks, startsCrossed>>

-----------------------------------------------------------------------------
(* The viewer. *)

\* forViewer reads the session, then asks whether the viewer is a patron.
ForViewer(s) ==
  /\ LiveAt(s, "idle") /\ OnAir # {}
  /\ LiveEnter(s, [LiveIdle EXCEPT !.step = "check", !.row = Latest])
  /\ UNCHANGED <<lives, posts, patron, leaks, startsCrossed>>
CheckViewer(s) ==
  LET row == lives[liveCalls[s].row] IN
  /\ LiveAt(s, "check")
  /\ IF VisibleTo(row.audience, patron) THEN Tell(s, "live", Entitled({row}))
     ELSE LiveEnter(s, LiveIdle) /\ UNCHANGED leaks
  /\ UNCHANGED <<lives, posts, patron, startsCrossed>>

\* listForViewer and pinMediaForMembers ask first, and read then.
AskPatron(s, step) ==
  /\ LiveAt(s, "idle")
  /\ LiveEnter(s, [LiveIdle EXCEPT !.step = step, !.patron = patron])
  /\ UNCHANGED <<lives, posts, patron, leaks, startsCrossed>>
\* Mutant: the list is not filtered by audience.
AllPosts(s) ==
  {posts[i] : i \in {j \in DOMAIN posts : posts[j].up}}

ShownPosts(s) ==
  {posts[i] : i \in {j \in DOMAIN posts :
     posts[j].up /\ VisibleTo(posts[j].audience, liveCalls[s].patron)}}
ListForViewer(s) ==
  /\ LiveAt(s, "list")
  /\ Tell(s, "stories", Entitled(ShownPosts(s)))
  /\ UNCHANGED <<lives, posts, patron, startsCrossed>>
PinLives(s) ==
  /\ LiveAt(s, "pins")
  /\ LiveEnter(s, [liveCalls[s] EXCEPT !.step = "pinStories", !.entitled =
       Entitled({lives[i] : i \in {j \in OnAir :
                   VisibleTo(lives[j].audience, liveCalls[s].patron)}})])
  /\ UNCHANGED <<lives, posts, patron, leaks, startsCrossed>>
PinStories(s) ==
  /\ LiveAt(s, "pinStories")
  /\ Tell(s, "pins", liveCalls[s].entitled /\ Entitled(ShownPosts(s)))
  /\ UNCHANGED <<lives, posts, patron, startsCrossed>>

AbandonLive(s) ==
  /\ ~LiveAt(s, "idle")
  /\ LiveEnter(s, LiveIdle)
  /\ UNCHANGED <<lives, posts, patron, leaks, startsCrossed>>

LiveNext ==
  \/ \E s \in Slots :
       \/ \E audience \in Audiences : StartLive(s, audience)
       \/ RetireLives(s) \/ CreateLive(s) \/ FindLive(s) \/ EndLive(s)
       \/ ForViewer(s) \/ CheckViewer(s)
       \/ \E step \in {"list", "pins"} : AskPatron(s, step)
       \/ ListForViewer(s) \/ PinLives(s) \/ PinStories(s) \/ AbandonLive(s)
  \/ \E i \in DOMAIN lives : EndLiveById(i) \/ HourPasses(i)
  \/ \E audience \in Audiences : PostStory(audience)
  \/ \E i \in DOMAIN posts : TakeDown(i)
  \/ ConnectionChanges
LiveSpec == LiveInit /\ [][LiveNext]_liveVars

-----------------------------------------------------------------------------
(* Every variable keeps its type. *)
LiveTypeOK ==
  /\ lives \in Seq(LiveRow) /\ posts \in Seq(Post) /\ patron \in BOOLEAN
  /\ leaks \subseteq Leak
  /\ liveCalls \in [Slots -> LiveCall]
  /\ startsCrossed \in BOOLEAN

(* A member is live once: start ends what is live before it creates            *)
(* (live.service.ts:47-57), and only starts that crossed between the two leave *)
(* two sessions on the air.                                                    *)
OneOnAir == startsCrossed \/ \A i, j \in OnAir : i = j

(* Nobody is shown a PATRONS live session without having been a patron while   *)
(* it existed, however the connection comes and goes (live.service.ts:96); the *)
(* list and the map ask before they read (stories.service.ts:360-375,          *)
(* 409-471), and overlook only a change of the connection under the call.      *)
ShownToPatrons ==
  \A leak \in leaks : leak.by # "live" /\ leak.changed

(* A member is live once, and shown to those the audience names                *)
(* (live.service.ts:47-57, 96).                                                *)
LivesAreShown == OneOnAir /\ ShownToPatrons
=============================================================================
