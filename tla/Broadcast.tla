----------------------------- MODULE Broadcast -----------------------------
(***************************************************************************)
(* The page that goes live: it restores the live session of its member,    *)
(* starts and ends one, and on the web sends the camera to the ingest      *)
(* server; the phone's never has one to send to.  The effect that restores *)
(* and a press of "Go live" may send the camera together, the page may be  *)
(* left while either runs, and the session may be ended by a moderator or  *)
(* replaced from another device of the member, of which no page is told.   *)
(***************************************************************************)
EXTENDS Handlers

CONSTANTS
  MaxStreams,             \* bound: cameras opened
  MaxAired                \* bound: sessions that starts elsewhere leave live
ASSUME BroadcastAssumption == MaxStreams \in Nat /\ MaxAired \in Nat

VARIABLES
  ingest,                 \* reachableIngestUrl of what startLive and getMyLive give
  onAir,                  \* the server: how many live sessions the member has; starts
                          \* that cross leave more than one
  shownLive,              \* the page's session # null
  castBusy,               \* feedback.status = "loading"
  streams,                \* the cameras that are on
  opened,                 \* how many were opened so far
  closePublish,           \* the camera that closePublish.current stops, 0 without one
  casts,                  \* Slots -> the run: its kind and step, what it was answered, its
                          \* camera, and whether its page is still there
  met,                    \* history: a run began, or the page was left, while one was out,
                          \* since the page was last opened with none out
  everMet,                \* history: that ever happened
  untold                  \* history: since the server last served the page, the sessions
                          \* changed elsewhere, or its answer was lost or not the whole truth
castVars == <<ingest, onAir, shownLive, castBusy, streams, opened, closePublish, casts, met,
              everMet, untold>>

CastIdle == [kind |-> "none", step |-> "idle", live |-> FALSE, camera |-> 0, here |-> TRUE]
CastAt(s, kinds, step) == casts[s].kind \in kinds /\ casts[s].step = step
CastGoTo(s, step) == casts' = [casts EXCEPT ![s].step = step]
CastEnds(s) == casts' = [casts EXCEPT ![s] = CastIdle]
Running == {s \in Slots : casts[s] # CastIdle}
Begin(s, kind, step) ==
  /\ casts[s] = CastIdle
  /\ casts' = [casts EXCEPT ![s] = [CastIdle EXCEPT !.kind = kind, !.step = step]]
  /\ met' = (met \/ Running # {}) /\ everMet' = (everMet \/ Running # {})
\* What a run that outlives its page does to the page.
OnPage(s, shown, busy) ==
  /\ shownLive' = IF casts[s].here THEN shown ELSE shownLive
  /\ castBusy' = IF casts[s].here THEN busy ELSE castBusy

\* A page that has found no live session; LeaveBroadcast opens it anew.
CastInit ==
  /\ ingest \in BOOLEAN /\ onAir = 0
  /\ shownLive = FALSE /\ castBusy = FALSE
  /\ streams = {} /\ opened = 0 /\ closePublish = 0
  /\ casts = [s \in Slots |-> CastIdle]
  /\ met = FALSE /\ everMet = FALSE /\ untold = FALSE

\* Mutant: the handle of the camera that was stopped stays.
ReleaseKeepingHandle ==
  /\ streams' = streams \ {closePublish} /\ UNCHANGED closePublish

ReleaseCamera ==
  /\ streams' = streams \ {closePublish} /\ closePublish' = 0

-----------------------------------------------------------------------------
(* LiveService, for this page and for the others. *)

\* getMyLive and endLive find the latest session; of another one the page hears nothing.
ServedLatest == untold' = (onAir > 1)
\* getMyLive of the first effect.
GetMyLive(s) ==
  /\ CastAt(s, {"restore"}, "ask")
  /\ casts' = [casts EXCEPT ![s].step = "answer", ![s].live = onAir > 0]
  /\ ServedLatest
  /\ UNCHANGED <<ingest, onAir, shownLive, castBusy, streams, opened, closePublish, met, everMet>>
\* start ends the sessions that are live, then creates one.
StartLive(s) ==
  /\ CastAt(s, {"goLive"}, "ask")
  /\ onAir' = 0 /\ untold' = FALSE
  /\ CastGoTo(s, "create")
  /\ UNCHANGED <<ingest, shownLive, castBusy, streams, opened, closePublish, met, everMet>>
CreateLive(s) ==
  /\ CastAt(s, {"goLive"}, "create")
  /\ onAir' = onAir + 1
  /\ CastGoTo(s, "answer")
  /\ UNCHANGED <<ingest, shownLive, castBusy, streams, opened, closePublish, met, everMet, untold>>
\* Without a session endLive is refused.
EndLive(s) ==
  /\ CastAt(s, {"stop"}, "ask")
  /\ onAir > 0 /\ onAir' = onAir - 1 /\ ServedLatest
  /\ CastGoTo(s, "answer")
  /\ UNCHANGED <<ingest, shownLive, castBusy, streams, opened, closePublish, met, everMet>>
\* A moderator ends a session by its id; another device or tab of the member ends one, or
\* starts one, in the two statements of a start.
LiveElsewhere ==
  /\ \/ onAir > 0 /\ onAir' \in {0, onAir - 1}
     \/ onAir < MaxAired /\ onAir' = onAir + 1
  /\ untold' = TRUE
  /\ UNCHANGED <<ingest, shownLive, castBusy, streams, opened, closePublish, casts, met, everMet>>

-----------------------------------------------------------------------------
(* The page. *)

\* What the first effect finds is shown, and its camera sent.
RestoreLive(s) ==
  /\ CastAt(s, {"restore"}, "answer")
  /\ IF ~casts[s].here \/ ~casts[s].live
     THEN CastEnds(s) /\ UNCHANGED <<shownLive, streams, closePublish>>
     ELSE /\ shownLive' = TRUE
          /\ IF ingest THEN ReleaseCamera /\ CastGoTo(s, "camera")
             ELSE CastEnds(s) /\ UNCHANGED <<streams, closePublish>>
  /\ UNCHANGED <<ingest, onAir, castBusy, opened, met, everMet, untold>>

GoLive(s) ==
  /\ ~shownLive /\ ~castBusy /\ castBusy' = TRUE
  /\ Begin(s, "goLive", "ask")
  /\ UNCHANGED <<ingest, onAir, shownLive, streams, opened, closePublish, untold>>
Started(s) ==
  /\ CastAt(s, {"goLive"}, "answer")
  /\ IF ingest
     THEN /\ IF casts[s].here THEN ReleaseCamera ELSE UNCHANGED <<streams, closePublish>>
          /\ CastGoTo(s, "camera") /\ UNCHANGED <<shownLive, castBusy>>
     ELSE OnPage(s, TRUE, FALSE) /\ CastEnds(s) /\ UNCHANGED <<streams, closePublish>>
  /\ UNCHANGED <<ingest, onAir, opened, met, everMet, untold>>

\* sendCamera: getUserMedia, then publishWhip.
OpenCamera(s) ==
  /\ CastAt(s, {"restore", "goLive"}, "camera")
  /\ opened < MaxStreams /\ opened' = opened + 1
  /\ streams' = streams \cup {opened'}
  /\ casts' = [casts EXCEPT ![s].step = "offer", ![s].camera = opened']
  /\ UNCHANGED <<ingest, onAir, shownLive, castBusy, closePublish, met, everMet, untold>>
PublishWhip(s) ==
  /\ CastAt(s, {"restore", "goLive"}, "offer")
  /\ closePublish' = IF casts[s].here THEN casts[s].camera ELSE closePublish
  /\ IF casts[s].kind = "goLive" THEN OnPage(s, TRUE, FALSE) ELSE UNCHANGED <<shownLive, castBusy>>
  /\ CastEnds(s)
  /\ UNCHANGED <<ingest, onAir, streams, opened, met, everMet, untold>>
\* What a camera that cannot be sent leaves; goLive then gives up what it started.
GiveUp(s, left) ==
  LET restores == casts[s].kind = "restore"
  IN /\ CastAt(s, {"restore", "goLive"}, "camera") \/ CastAt(s, {"restore", "goLive"}, "offer")
     /\ IF restores \/ ~casts[s].here
        THEN streams' = left /\ UNCHANGED closePublish
        ELSE streams' = left \ {closePublish} /\ closePublish' = 0
     /\ IF restores THEN OnPage(s, shownLive, FALSE) /\ CastEnds(s)
        ELSE CastGoTo(s, "undo") /\ UNCHANGED <<shownLive, castBusy>>
     /\ UNCHANGED <<ingest, onAir, opened, met, everMet, untold>>
\* Mutant: the tracks of a camera that was refused stay on.
FailCameraOn(s) == GiveUp(s, streams)

FailCamera(s) == GiveUp(s, streams \ {casts[s].camera})
\* Mutant: the session that was started is left on.
LeaveLive(s) ==
  /\ CastAt(s, {"goLive"}, "undo")
  /\ OnPage(s, FALSE, FALSE)
  /\ CastEnds(s)
  /\ UNCHANGED <<ingest, onAir, streams, opened, closePublish, met, everMet, untold>>

\* endLive().catch(() => undefined): done, or refused.
UndoLive(s) ==
  /\ CastAt(s, {"goLive"}, "undo")
  /\ \/ onAir > 0 /\ onAir' = onAir - 1 /\ ServedLatest
     \/ UNCHANGED onAir /\ untold' = (untold \/ onAir > 0)
  /\ OnPage(s, FALSE, FALSE)
  /\ CastEnds(s)
  /\ UNCHANGED <<ingest, streams, opened, closePublish, met, everMet>>

Stop(s) ==
  /\ shownLive /\ ~castBusy /\ castBusy' = TRUE
  /\ ReleaseCamera
  /\ Begin(s, "stop", "ask")
  /\ UNCHANGED <<ingest, onAir, shownLive, opened, untold>>
Ended(s) ==
  /\ CastAt(s, {"stop"}, "answer")
  /\ OnPage(s, FALSE, FALSE)
  /\ CastEnds(s)
  /\ UNCHANGED <<ingest, onAir, streams, opened, closePublish, met, everMet, untold>>

\* A request that is refused, or whose answer is lost.  goLive then has no session
\* to end, and stop leaves the page as it is.
FailCast(s) ==
  /\ \E step \in {"ask", "create", "answer"} : CastAt(s, {"restore", "goLive", "stop"}, step)
  /\ untold' = (untold \/ casts[s].step = "answer" \/ casts[s].kind = "restore")
  /\ IF casts[s].kind = "goLive" /\ casts[s].here
     THEN ReleaseCamera ELSE UNCHANGED <<streams, closePublish>>
  /\ CASE casts[s].kind = "restore" -> UNCHANGED <<shownLive, castBusy>>
       [] casts[s].kind = "goLive" -> OnPage(s, FALSE, FALSE)
       [] casts[s].kind = "stop" -> OnPage(s, shownLive, FALSE)
  /\ CastEnds(s)
  /\ UNCHANGED <<ingest, onAir, opened, met, everMet>>

\* The cleanup of the page, and the page mounted again.
LeaveBroadcast(s) ==
  /\ casts[s] = CastIdle
  /\ casts' = [t \in Slots |->
       IF t = s THEN [CastIdle EXCEPT !.kind = "restore", !.step = "ask"]
       ELSE IF casts[t] = CastIdle THEN CastIdle ELSE [casts[t] EXCEPT !.here = FALSE]]
  /\ met' = (Running # {}) /\ everMet' = (everMet \/ Running # {})
  /\ ReleaseCamera
  /\ shownLive' = FALSE /\ castBusy' = FALSE
  /\ UNCHANGED <<ingest, onAir, opened, untold>>

CastNext ==
  \/ \E s \in Slots :
       \/ GetMyLive(s) \/ RestoreLive(s) \/ GoLive(s) \/ StartLive(s) \/ CreateLive(s) \/ Started(s)
       \/ OpenCamera(s) \/ PublishWhip(s) \/ FailCamera(s) \/ UndoLive(s)
       \/ Stop(s) \/ EndLive(s) \/ Ended(s) \/ FailCast(s) \/ LeaveBroadcast(s)
  \/ LiveElsewhere
CastSpec == CastInit /\ [][CastNext]_castVars

-----------------------------------------------------------------------------
(* Every variable keeps its type. *)
CastTypeOK ==
  /\ {ingest, shownLive, castBusy, met, everMet, untold} \subseteq BOOLEAN /\ onAir \in Nat
  /\ opened \in 0..MaxStreams /\ streams \subseteq 1..opened /\ closePublish \in {0} \cup streams
  /\ casts \in [Slots -> [kind: {"none", "restore", "goLive", "stop"}, live: BOOLEAN,
                          step: {"idle", "ask", "create", "answer", "camera", "offer", "undo"},
                          camera: 0..MaxStreams, here: BOOLEAN]]

(* A camera that is on can be turned off: the page holds it or a run is still  *)
(* offering it, unless runs met (live-composer.tsx:88, 102, 214-245).          *)
CameraIsHeld ==
  everMet \/ streams \subseteq {closePublish} \cup {casts[s].camera : s \in Running}

(* A page at rest sends a camera only while it shows a live session, and shows *)
(* one exactly when the server has one.  Set aside: runs that met since the    *)
(* page was last opened with none out, and, for the second half, a session     *)
(* that was ended or started elsewhere (live.service.ts:30-85, 103-157), or an *)
(* answer that was lost, since the server last served the page: the page is    *)
(* not told, and goes on showing and sending until it asks again               *)
(* (live-composer.tsx:40-68, 93-112).                                          *)
LiveIsShown ==
  Running = {} /\ ~met => /\ closePublish # 0 => shownLive
                          /\ ~untold => shownLive = (onAir > 0)

(* Camera, page and server agree on what is live, as far as the page is told   *)
(* (live-composer.tsx:40-112, 205-258).                                        *)
BroadcastAgrees == CameraIsHeld /\ LiveIsShown
=============================================================================
