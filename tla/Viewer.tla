------------------------------- MODULE Viewer -------------------------------
(***************************************************************************)
(* The page that shows a member's stories and live session, in the browser *)
(* (PresenceViewer) and on the phone (PresenceScreen): its stages, and the *)
(* players, soundtracks and playlist probes that their effects start and   *)
(* clean up.  Each time a stage comes into view is a visit.                *)
(*                                                                         *)
(* hls: a browser that plays through hls.js; native: one that takes the    *)
(* playlist as a source.  Trims only move the playhead and are left out.   *)
(***************************************************************************)
EXTENDS Integers, Sequences, FiniteSets

CONSTANTS MaxVisits,      \* bound: the stages one opening of the page shows
          MaxStories      \* bound: the stories of the member
ASSUME ViewerAssumption == MaxVisits \in Nat /\ MaxStories \in Nat

VARIABLES
  screen,                 \* "hls", "native" or "phone"
  stories, live,          \* what the page has loaded
  viewing,                \* "loading", "open", "failed" or "closed"
  tab, index,             \* the tab, and the story of the first tab
  visit,                  \* the visit in view
  ready,                  \* the live playlist has been seen
  probes,                 \* requests for the playlist, and timers for the next
  loads,                  \* imports of the player
  playing,                \* the visit whose video the player has, or 0
  track,                  \* the visit whose soundtrack plays, or 0
  muted,                  \* the player is muted
  importLost              \* history: an import failed
viewerVars == <<screen, stories, live, viewing, tab, index, visit, ready, probes, loads, playing,
                track, muted, importLost>>

\* A story as the page tells them apart: kind and status, the mode of its own
\* sound, and whether it has a track.
StoryShapes ==
  {[visual |-> "image", mode |-> "KEEP", added |-> TRUE],
   [visual |-> "preparing", mode |-> "MUTE", added |-> TRUE],
   [visual |-> "video", mode |-> "MUTE", added |-> TRUE],
   [visual |-> "video", mode |-> "OVERLAY", added |-> TRUE],
   [visual |-> "video", mode |-> "KEEP", added |-> TRUE]}
NoStory == [visual |-> "none", mode |-> "KEEP", added |-> FALSE]

playsAddedAudio(story) == story.added /\ (story.visual = "image" \/ story.mode # "KEEP")
mutesOriginalAudio(story) == story.visual # "image" /\ story.mode = "MUTE"

OnLive == viewing = "open" /\ tab = "live" /\ live # "none"
Current == IF viewing = "open" /\ ~OnLive /\ index \in DOMAIN stories THEN stories[index] ELSE NoStory
Web == screen # "phone"

ViewerInit ==
  /\ screen \in {"hls", "native", "phone"}
  /\ stories \in UNION {[1..n -> StoryShapes] : n \in 0..MaxStories}
  /\ live \in {"none", "unreachable", "playlist"}
  /\ viewing = "loading" /\ tab = "activity" /\ index = 1 /\ visit = 0
  /\ ready = FALSE /\ probes = {} /\ loads = {}
  /\ playing = 0 /\ track = 0 /\ muted = FALSE /\ importLost = FALSE

Cancelled(work) == {[w EXCEPT !.cancelled = TRUE] : w \in work}
Load(v) == [visit |-> v, cancelled |-> FALSE]
Probe(v) == [visit |-> v, cancelled |-> FALSE, at |-> "flight"]

\* The cleanup pauses the old track; the browser may refuse to play the new.
ChangeTrack ==
  \E plays \in {TRUE} \cup {~Web} :
    track' = IF playsAddedAudio(Current') /\ plays THEN visit' ELSE 0

\* The effects once the page shows another stage: what the old one began is
\* cancelled, its timer cleared.  The video element stays from one video to
\* the next, and without hls.js so does its source.
ChangeStage ==
  LET video == Current'.visual = "video"
      video0 == Current.visual = "video"
  IN
  /\ visit < MaxVisits /\ visit' = visit + 1 /\ ready' = FALSE
  /\ probes' = Cancelled({p \in probes : p.at = "flight"})
                 \cup {p \in {Probe(visit')} : OnLive' /\ live = "playlist"}
  /\ loads' = Cancelled(loads) \cup {l \in {Load(visit')} : video /\ Web}
  /\ playing' = IF video /\ ~Web THEN visit'
                ELSE IF video /\ video0 /\ screen = "native" THEN playing ELSE 0
  /\ muted' = (video /\ mutesOriginalAudio(Current'))
  /\ ChangeTrack
  /\ UNCHANGED <<screen, stories, live, importLost>>

\* The stories and the live session arrive: the live tab comes first.
OpenPage ==
  /\ viewing = "loading" /\ viewing' = "open"
  /\ tab' = IF live # "none" THEN "live" ELSE "activity"
  /\ index' = 1
  /\ UNCHANGED <<stories, live>> /\ ChangeStage
FailPage ==
  /\ viewing = "loading" /\ viewing' = "failed"
  /\ UNCHANGED <<screen, stories, live, tab, index, visit, ready, probes, loads, playing, track,
                 muted, importLost>>
ChooseTab(t) ==
  /\ viewing = "open" /\ live # "none" /\ t # tab /\ tab' = t
  /\ UNCHANGED <<viewing, index, stories, live>> /\ ChangeStage
Turn(i) ==
  /\ Current # NoStory /\ i \in DOMAIN stories /\ index' = i
  /\ UNCHANGED <<viewing, tab, stories, live>> /\ ChangeStage
BackStory == Turn(index - 1)
NextStory == Turn(index + 1)
ClosePage ==
  /\ viewing = "open" /\ viewing' = "closed"
  /\ UNCHANGED <<tab, index, stories, live>> /\ ChangeStage

\* The playlist is there: the stage mounts its player.
ProbeFinds(p) ==
  /\ p \in probes /\ p.at = "flight"
  /\ probes' = probes \ {p}
  /\ ready' = (ready \/ ~p.cancelled)
  /\ loads' = loads \cup {l \in {Load(visit)} : Web /\ ~p.cancelled}
  /\ playing' = IF Web \/ p.cancelled THEN playing ELSE visit
  /\ UNCHANGED <<screen, stories, live, viewing, tab, index, visit, track, muted, importLost>>
\* Mutant: a request that fails is not repeated.
ProbeGivesUp(p) ==
  /\ p \in probes /\ p.at = "flight"
  /\ probes' = probes \ {p}
  /\ UNCHANGED <<screen, stories, live, viewing, tab, index, visit, ready, loads, playing, track,
                 muted, importLost>>

\* It is not there yet, or the request fails.
ProbeMisses(p) ==
  /\ p \in probes /\ p.at = "flight"
  /\ probes' = (probes \ {p}) \cup {[q EXCEPT !.at = "timer"] : q \in {q \in {p} : ~q.cancelled}}
  /\ UNCHANGED <<screen, stories, live, viewing, tab, index, visit, ready, loads, playing, track,
                 muted, importLost>>
ProbeAgain(p) ==
  /\ p \in probes /\ p.at = "timer"
  /\ probes' = (probes \ {p}) \cup {[p EXCEPT !.at = "flight"]}
  /\ UNCHANGED <<screen, stories, live, viewing, tab, index, visit, ready, loads, playing, track,
                 muted, importLost>>

\* Mutant: an import that comes late attaches its video.
AttachLate(l) ==
  /\ l \in loads /\ loads' = loads \ {l}
  /\ playing' = l.visit
  /\ UNCHANGED <<screen, stories, live, viewing, tab, index, visit, ready, probes, track, muted,
                 importLost>>

\* hls.js is there, or found to be unsupported: the video gets its source.
Attach(l) ==
  /\ l \in loads /\ loads' = loads \ {l}
  /\ playing' = IF l.cancelled THEN playing ELSE l.visit
  /\ UNCHANGED <<screen, stories, live, viewing, tab, index, visit, ready, probes, track, muted,
                 importLost>>
FailImport(l) ==
  /\ l \in loads /\ loads' = loads \ {l} /\ importLost' = TRUE
  /\ UNCHANGED <<screen, stories, live, viewing, tab, index, visit, ready, probes, playing, track, muted>>

ViewerNext ==
  \/ OpenPage \/ FailPage \/ ClosePage \/ BackStory \/ NextStory
  \/ \E t \in {"activity", "live"} : ChooseTab(t)
  \/ \E p \in probes : ProbeFinds(p) \/ ProbeMisses(p) \/ ProbeAgain(p)
  \/ \E l \in loads : Attach(l) \/ FailImport(l)
ViewerSpec == ViewerInit /\ [][ViewerNext]_viewerVars

-----------------------------------------------------------------------------
(* Every variable keeps its type. *)
ViewerTypeOK ==
  /\ screen \in {"hls", "native", "phone"} /\ stories \in Seq(StoryShapes)
  /\ live \in {"none", "unreachable", "playlist"}
  /\ viewing \in {"loading", "open", "failed", "closed"} /\ tab \in {"activity", "live"}
  /\ index \in 1..(MaxStories + 1) /\ visit \in 0..MaxVisits
  /\ probes \subseteq [visit: 1..MaxVisits, cancelled: BOOLEAN, at: {"flight", "timer"}]
  /\ loads \subseteq [visit: 1..MaxVisits, cancelled: BOOLEAN]
  /\ playing \in 0..MaxVisits /\ track \in 0..visit
  /\ ready \in BOOLEAN /\ muted \in BOOLEAN /\ importLost \in BOOLEAN

(* What plays and what sounds belongs to the stage in view, however late the   *)
(* player is imported and wherever the member went meanwhile; a browser        *)
(* without hls.js keeps the last video's source until the next import arrives, *)
(* and for good when that fails.  A video's own sound and a track are heard    *)
(* together only where it is laid over (presence-viewer.tsx:87-121, 312-338).   *)
PlaysWhatIsShown ==
  /\ track \in {0, visit}
  /\ playing \in {0, visit} \/ (screen = "native" /\ (importLost \/ Load(visit) \in loads))
  /\ playing # 0 => OnLive \/ Current.visual = "video"
  /\ playing # 0 /\ ~muted /\ track # 0 => Current.mode = "OVERLAY"

(* A live stage that waits asks for its playlist with exactly one request or   *)
(* timer, so it neither stops asking nor asks twice as often; no other stage   *)
(* asks (presence-viewer.tsx:271-310, presence.tsx:196-235).                   *)
WaitingAsksOn ==
  Cardinality({p \in probes : ~p.cancelled}) = IF OnLive /\ live = "playlist" /\ ~ready THEN 1 ELSE 0

(* The stage in view plays its own, or waits for it and asks on                *)
(* (presence-viewer.tsx:78-121, 271-338).                                      *)
StagePlaysItsOwn == PlaysWhatIsShown /\ WaitingAsksOn
=============================================================================
