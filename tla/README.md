# Hasut in TLA+

Hasut is a social application for people near one another: a NestJS API over
Postgres (Prisma) and Redis, and web, admin and mobile clients. This directory
holds TLA+ models of the API and of the pages that call it, wherever the order
of statements, answers and effects decides what is true; the TLC runs that
check them; and TLAPS proofs. Paths below are relative to the repository;
`api/` stands for `apps/api/src/modules/` and `web/` for `apps/web/src/`.

## 1. Inventory

### The API

Every HTTP call runs in one Node process, and possibly several, as a chain of
awaited statements. Postgres runs at READ COMMITTED, the code takes no row
locks and keeps no version columns, and few updates are conditional. So between
any two statements of one call, any statement of another may run, and a call may
stop for good after any of them. That is what is hard in all of it.

| Component | State | Operations | Hard behaviour | What makes it correct | Module |
|---|---|---|---|---|---|
| Connections, blocks, sending (`api/connections`, `reports`, `messaging`) | `connections`, `conversations`, `blocks`, `messages` | request, accept, reject, cancel, block, unblock, send | writes by id over rows read earlier; crossing requests; a block races what it forbids | accepted means both consented; a block stops what comes after it | `Connections` |
| Sessions (`api/auth`, `common/guards`) | `sessions`: hash, expiry, revocation, last seen | issueSession, refresh, logout, logoutAll | cap counted while others insert; rotation by id; two tabs | cap holds; revoked is final; honest clients stay | `Sessions` |
| Codes, passwords, tickets (`api/auth`) | `otp_challenges`, password, Redis tickets | request, resend, verify, password and third-party login, second step, reset, change | check and mark in two statements; old proofs outlive a new password | a proof counts once; a new password ends what the old one earned | `Credentials` |
| Rate limits (`api/auth`, `api/redis`) | Redis counters | INCR, EXPIRE | a stop between the two | the limit holds and the window ends | `RateLimit` |
| Stories and their worker (`api/stories`) | `stories`, stored objects, `skipped` in memory | create, hide, complete, a tick every 15 s | budget counted before the insert; overlapping runs; restarts | caps; READY has its playlist; published once; nobody waits for ever | `Stories` |
| Live, audiences (`api/stories`) | `live_sessions`, connections | start, end, forViewer, list, pins | end all and create in two statements; patron asked before rows are read | on air once; shown to whom it is for | `Live` |
| Reports and moderation (`api/reports`, `profiles`) | `reports`, `moderation_actions`, visibility | report, moderate, save the profile | three writes; a save writes back what it read | hidden stays hidden; the record is true | `Moderation` |
| Verification (`api/verification`) | `verification_requests`, badge | request, decide | decided on the row read | a badge is earned | `Verification` |
| Reviews (`api/reviews`) | `reviews`, `review_aggregates` | create | aggregate then upsert | the aggregate catches up | `Reviews` |
| Support (`api/support`) | ticket, messages, assignments, escalations | message, assign, escalate, patch | a status decided on a ticket read earlier | whose turn it is; reopened on purpose | `Desk` |
| Configuration (`api/configuration`) | themes, weights, policies | publish, update, patch | demote and promote; read, modify, write | one in force; no setting lost | `Appearance` |
| Categories, onboarding, listings (`api/categories`, `professionals`, `services`, `businesses`) | the tree; a profile's steps; what is listed | update, remove; save, submit, status; create | cycle check walks, then writes; remove counts some of what uses a category | a forest; what is listed is complete and keeps its category | `Catalogue` |
| Locations (`api/locations`, the pages) | permission, exact point, cell, pin | update, permission, reload | four writes; two gates | the public place follows the exact one | `Location` |
| Discovery rooms (`discovery.gateway.ts`) | a socket's rooms | connect, sync | leave, read, join | hears its neighbours | `Rooms` |
| Discovery search (`api/discovery`) | none of its own | nearby, search, preview | three queries while rows move | finds what fits; nearer first | `Search` |
| Routes, guards, envelope (`common/`) | the account behind a token | every endpoint of the client | route order; claims older than roles | understood, and rightful | `Api` |

### The clients

The pages keep React state, and a closure sees the state of the render it was
made in. Answers come in any order, effects clean up what they began, and most
buttons stay live while a call runs. That is what is hard in all of them.

| Component | State | Hard behaviour | What makes it correct | Module |
|---|---|---|---|---|
| Discovery page (web and phone) | filters, result, debounce timers, suggestions | late answers, generations | what stands is what was asked | `MapView` |
| Chat page | items, socket, room | history against events; joining late; hiding | of the newest page no message lost, none twice | `Thread` |
| Sign-in forms (web, staff, phone) | stage, challenge, ticket | an answer moves a form that has moved on | each stage has what it shows | `SignIn` |
| Story composers | kind, file, upload | switching and dropping while publishing | a story has its file, once | `Composer` |
| Live composers | camera, peer connection, session | restore against go-live; leaving the page; sessions ended or started elsewhere | the camera is held; page and server agree as far as the page is told | `Broadcast` |
| Story viewer | tab, story, player, probes | late imports and answers | a stage plays its own | `Viewer` |
| Offer-a-service wizard | onboarding, step | overlapping saves | submits what is complete | `Wizard` |
| Admin panels | list, filter, mode | a reload after each act | a panel at rest shows the list | `Panels` |
| Browser tokens | one pair, many tabs | two tabs refresh | in `Sessions` | `Sessions` |

Components talk by direct calls inside one process. `ConnectionsService`
and `MessagingService` call `ProfilesService` and `NotificationWriter`;
`MessagingService` calls `ConnectionsService.requireAcceptedPair` and
`ReportsService.assertNotBlocked`; every sign-in ends in
`AuthService.issueSession`; suspension and password changes write `sessions`
directly; the worker reads `media_assets` that clients complete; stories and
live sessions ask connections who is a patron. Realtime events are broadcast
after the writes, and only pages read them.

`PROJECT.json` lists the components one by one and, under `hazards`, every place
where such an order bites.

## 2. Plan

Done, in order of importance: connections with blocks and sending; sessions;
stories and their worker; how a member proves who they are, and the counters;
what operators and moderators decide; live sessions, places and search; and the
pages and the way their calls are let in; the theorems of section 6, which state
every safety property of every passing run. Open:

1. A proof that the client's table of methods fits the controllers' (`RoutesFit`),
   which the run decides and one theorem takes as its hypothesis.
2. An abstract specification of one challenge, "one success per code", which
   `Credentials` implements.
3. The audio library and notification preferences: rows with one owner and one
   statement each; they come last.

## 3. Modules

| Module | Models |
|---|---|
| `Consent` | what connections and chat promise: abstract, no rows and no calls |
| `Connections`, `Sessions`, `Stories` | the three components with proofs, each with an `MC…` module and cfgs of its own |
| `Handlers` | the slots that calls in flight occupy, shared by the modules below |
| `Credentials`, `RateLimit`, `Catalogue`, `Appearance`, `Desk`, `Verification`, `Moderation`, `Reviews`, `Live`, `Location`, `Rooms`, `Search` | one component of the API each |
| `Platform`, `MCPlatform` | those twelve, checked in one run |
| `ApiRoutes`, `ApiClient`, `Api` | every route, every method of the client, and one call between them |
| `MapView`, `Thread`, `Panels`, `SignIn`, `Composer`, `Broadcast`, `Viewer`, `Wizard` | one page, or family of pages, each |
| `Clients`, `MCClients` | those eight and `Api`, checked in one run |
| `ConnectionsProofs`, `SessionsProofs`, `StoriesProofs`, `CredentialsProofs` | theorems about one component each |
| `OperatorsProofs` | about `Verification`, `Moderation`, `Desk` and `Appearance` |
| `MembersProofs` | about `RateLimit`, `Reviews`, `Live`, `Location`, `Rooms` and `Catalogue` |
| `PlatformProofs` | about `Search`, and about the twelve together |
| `ClientsProofs` | about `Api` and the eight pages, and about the nine together |

**One action is one statement.** A call sits in a slot whose step names its next
statement and whose other fields are what the code still holds in local
variables. The action reads the tables as they are now and writes what the code
writes, from its locals. A `$transaction` is one action. `Abandon…` and `Fail…`
end a call after any statement: a rejected promise, a refusal that the model does
not otherwise have, a lost connection, a crash. A call that only reads and
returns leaves no trace and is not a step, except where a property is about what
it shows. In a page, one action is one callback: an event, an effect with its
cleanup, or the code after an `await`.

**History variables** (`…Overlapped`, `…Crossed`, `disturbed`, `strayed`, `met`,
`lost` and the like) record that something happened which the code does not
guard against. Each property says which of them it sets aside, so it states
exactly when the code keeps its promise; nothing in the model reads them.

**Platform and Clients.** Their components share no variable, so no step of one
enables or disables a step of another, and each property speaks of one component
(the type invariants aside). Such a property holds of the interleaving exactly
when it holds of the component alone. `part` names, once and for all, the
component whose steps a behaviour takes; the run therefore explores each
component completely and none of the pointless products. Components that do
share state (connections, blocks and messages; sessions and the browser's
storage; stories and the worker) are in one module instead.

**Connections.** A row is named by its pair (`canonicalPairKey`, unique) and
never deleted. `row` in a handler is the row the call read: `accept` judges that
one, while `AcceptWrites` writes the status of whatever the row is by then, as
`update({ where: { id } })` does. `RequestWrites` is refused by the unique key
if it creates and somebody else has. `willing` and `barred` are history: who has
acted for a pair, and which calls came to a pair that was blocked and stayed so.

**Sessions.** One member: sessions of different members never meet. A secret is
a serial number, so verifying a hash is comparing numbers. `seen` is
`last_seen_at` on a coarse clock, and `now` is any instant between the read and
the write, because hashing the secret takes a while. `held` is the browser's
storage: one token per session, sent by any tab, replaced by the last answer.
`found` and `kept` are what `enforceDeviceCap` read and what it leaves; ties in
`last_seen_at` fall either way. A token family has one row, since only
`issueSession` creates rows.

**Stories.** Time is the age of each story in hours; older stories age first.
`aged` in a create call is what its one `new Date()` makes of the ages. `sources`
are the assets a playlist is cut from. `order` is `created_at`. `stored` says
whether the objects under `story-hls/{id}/` are none, some or all; two runs over
the same assets write the same bytes, so a whole set stays whole. A restart
clears the slots and `skipped`, and keeps the tables and the storage.

**Credentials.** One address. A session records how many revocations its proof
was older than (`vouched`); `settled` is how many have revoked. `raced` and
`second` mark a session whose check came before the revocation. **Live**: what a
viewer is told goes to `leaks` when no moment of the call justified it.
**Search**: places lie on a line; `everFit` and `alwaysFit` are what fitted the
query at some and at every moment of the search. Scores are the default weights
in integers; the rows a statement returned are a set, ranked when all three have
answered, and rows that compare equal keep the order of their statements, and
within one statement any order. **Desk**: of the messages only who wrote the last
one is kept, so their number has no bound. **Catalogue**: a service or a business
is a row under one category that nothing deletes; `remove` does not count it,
so a category that only a listing uses can be neither deleted nor retired while
it is used. **Api**: a request takes the first declared route that matches, as
Nest does; `entitled` records whether the account was ever entitled to the call
since it was made. **Location**: positions on a line, cells two wide.
**Panels**: thirteen panels differ in four traits, which `Panel` names.
**Thread**: a history is the newest `PageSize` messages that are not hidden, and
replaces the list. `Recent` are the last `PageSize` sent, which a history always
has but for the hidden ones. **Broadcast**: `onAir` counts the member's live
rows: this page starts and ends them, and so do, at any moment and without
telling it, a moderator and the member's other devices (`LiveElsewhere`). `met`
remembers runs that met since the page was opened with none out; `untold` that
the sessions changed elsewhere, or that an answer was lost or not the whole
truth, since the server last served the page.
**Viewer**: `visit` numbers the stages in view, so that work begun for one can be
told from work for the next.

## 4. Runs

| Run | Instance | Checks | Result |
|---|---|---|---|
| `connections` | 2 members, 2 calls | `TypeOK`, `BothConsented`, `BarredNeverWrites`, `NotifiedTruthfully`, `ImplementsConsent` | 720 242 states, holds |
| `blocked` | same | `BlockForbidsConnect` | violated |
| `accept` | same | `OnlyPendingIsAccepted` | violated |
| `sessions` | 2 sessions, 2 calls, cap 1, 2 instants, 2 secrets | `TypeOK`, `DeviceCap`, `HonestClientStays`, `RevocationIsFinal` | 634 344 states, holds |
| `rotation` | 1 session, 2 calls, 3 secrets | `RotatesWhatItChecked` | violated |
| `playback` | 2 stories, 1 video, 1 soundtrack, 2 runs, 1 restart | `TypeOK`, `ReadyHasPlaylist`, `PublishedOnce`, `HiddenIsNotPublished` | 704 842 states, holds |
| `queue` | 2 stories, 2 videos, 1 run, 1 restart, fair | `DueIsServed` | 218 320 states, holds |
| `cap` | 3 stories, 2 members, 2 creates, cap 1, 2 hours | `CapIsNearlyKept` | 33 702 states, holds |
| `sixth` | 3 stories, 1 member, 2 creates, cap 1 | `NoStoryBeyondCap` | violated |
| `platform` | twelve components, 2 calls in flight | 14 invariants, `ReopenedOnPurpose` | 2 938 103 states, holds |
| `clients` | nine parts, 2 calls in flight | 10 invariants | 1 787 932 states, holds |
| `theme` | 2 calls, 3 rows | `PublishMovesForward` | violated |

What `platform` shows, component by component:

| Property | Says | Sets aside |
|---|---|---|
| `SurvivorsWereInFlight` | a new password or a suspension ends what was earned before it | calls already past their check, an open second step |
| `ProofsAreSpent` | a code is guessed a bounded number of times; a used ticket is gone | one guess for each other call in flight |
| `WindowHolds` | a window admits no more than its limit, and ends | a stop between INCR and EXPIRE |
| `CatalogueIsWhole` | the tree shows every category; a listed profile is complete; a listing keeps its category | overlapping moves |
| `ConfiguredIsInForce` | one theme, one set of weights, the policy as asked | overlapping saves |
| `DeskBooksAgree`, `ReopenedOnPurpose` | the status says whose turn it is; escalations follow assignments; nothing reopens unawares | overlapping calls, stops halfway |
| `VerdictsHold` | a badge has its approved request; one open request | overlapping decisions |
| `ModerationStands` | hidden until the owner asks; the record is how it ended | overlapping calls, a stop after hiding |
| `AggregateCatchesUp` | every review is counted or about to be | crossing recomputations, a stop |
| `LivesAreShown` | live once; `PATRONS` shown to patrons only | starts that cross, a connection that changes under the call |
| `PublicFollowsExact` | cell and pin are those of the exact point | updates that overlap or stop |
| `HearsItsNeighbours` | a socket is in the rooms around its point | syncs that overlap or fail |
| `FindsInOrder` | found if it fitted throughout, not found if it never did; nearer of equals first | — |

And `clients`:

| Property | Says | Sets aside |
|---|---|---|
| `MapIsAsAsked` | result and suggestions are those of what is asked | a failed search; on the phone, answers that cross |
| `MessagesArriveOnce` | what a connected page lacks of the last `PageSize` messages is on its way; the peer's come once | hidden messages; events before the room was joined, failed requests; one's own may come twice |
| `CallsAreRightful` | every call finds its route, is read by the right schema, and runs for somebody entitled | — |
| `PanelsSettle` | no panel stays loading; it shows its list | overtaken or lost answers |
| `StagesFit` | a stage has what it shows; codes fit; the right account signs in | going elsewhere while a call is out |
| `PublishesItsFile` | a story has a stored file of its kind, once | switching during a publication, a lost answer |
| `BroadcastAgrees` | the camera can be turned off; at rest the page sends only while it shows a session, and shows one exactly when there is one | runs that meet; (last part) since the server last served the page, a session ended or started elsewhere, or a lost answer |
| `StagePlaysItsOwn` | the stage plays its own video and track; a waiting one asks with one request | a browser without hls.js whose import failed |
| `ReviewIsComplete` | the wizard submits what the API accepts; at rest it shows what is kept | (second half) overlapping or lost calls |

*Why the bounds are enough.* Nearly every hazard is a race between two calls over
one row, one count or one screen, or between a call and a crash; two slots give
every order of two calls, and slots are reused, so a third may follow. Beyond
that a bound is as large as the case it must allow: two members make the one pair
whose rows calls share; two sessions against a cap of one give a login that must
evict while another is in flight; three secrets a rotation race; `MaxRows = 3` a
published theme, a draft and the next; `MaxRequests = 3` a request after a
decided and an open one; two categories the shortest cycle; `MaxChosen = 1` and
`MaxListings = 1` a profile and a listing under them; `MaxAssignments = 2` an
escalation away from somebody; `MaxPosition = 2` and `MaxCell = 3` a move within a cell, to
the next and beyond earshot; `MaxPlace = 3` a listing in range, on the edge and
out of it, for an origin at 0 or 1; `MaxEdits = 1` a change between two queries
of one search; `MaxFiles = 2` a second file under the first upload; `MaxVisits
= 4` going back to a stage; `MaxPresses = 3` two overlapping saves and a press
after them; `MaxTurns = 1` one change of the account under a call; `MaxCount =
4`, twice the limit, a window that is refused and asked again; `PageSize = 1` and
`MaxSent = 2` a message older than the newest page and one that takes its place;
`MaxAired = 2` starts that cross on two devices. `Online = {p1}` lets one of the
two chat pages connect: the property is of each page by itself, and what the
other does to it - load, mark, send - it does without a socket too. Counters that
only grow (`MaxEpoch`, `MaxChallenges`, `MaxStarts`, `MaxLives`, `MaxStreams`,
`MaxMade`, `MaxActs`, `MaxReports`) allow the event once or twice. The
theorems of section 6 hold for every value.

`CHECK_DEADLOCK` is off only where behaviours really end because a bound on
presses, rows or visits is used up: in `platform`, `clients` and `theme`.

Five runs record disagreements between the code and what the repository says of
it; `PROJECT.json` quotes the lines.

- `blocked`: a request that looked at the blocks, was overtaken by a block and
  then wrote, leaves a pending request between a blocked pair. `accept` checks
  blocks again, so the request cannot be accepted while the block stands.
- `accept`: an accept writes `ACCEPTED` over a row cancelled or rejected since it
  was read. Both sides did consent at some time (`BothConsented` holds), but one
  has taken it back.
- `rotation`: two refreshes of one token both succeed, and the answer that
  arrives first may already be stale. It follows that two tabs can sign a member out:
  `HonestClientStays` says that this is the only way, next to a lost answer.
- `sixth`: two creates at once pass the cap on active stories. `CapIsNearlyKept`
  says by how much.
- `theme`: publishing twice without a new draft takes clients back to the version
  the first publication demoted.

## 5. Fairness

Only `DueIsServed` needs any, and only `FairSpec` of `Stories` states it:

- weak fairness of `Tick`: `setInterval` keeps firing while the process lives,
  and a process that stops is restarted by its host (`Restart` is one step);
- weak fairness of each run's own steps (`JobStep`): a run that awaits the
  database or the storage gets an answer or an error, and ffmpeg ends. The code
  gives ffmpeg no timeout, so its end is an assumption.

Nothing makes a member upload a file, moderators act, time pass or a call fail.
The property is therefore conditional: a video that is eligible, whose assets are
uploaded, with no older eligible video waiting for an upload, does not stay so
for ever. Without the last condition it is false: `findFirst` takes the oldest,
and a video whose upload never completes is taken by every tick.
"Not so for ever" includes being hidden, expiring, or being skipped after a failure,
which lasts until the process restarts
(`docs/product/sprint-breakdown.md`: a failed transcode is not retried until then).

## 6. Proofs

All invariance theorems have the shape `Init => IInv`, `IInv /\ [Next]_vars =>
IInv'`, `IInv => Inv`. TLC checks the named properties on the instances above;
TLAPS proves them for every value of the constants.

**ConnectionsProofs** (assumes `Nobody` is no member). The named properties are
not inductive: an accept may write over any row. The strengthening says what no other
call can undo: each row's requester has acted for the pair (`RowsAsked`);
a conversation, once open, has both members willing (`ConversationsAgreed`);
each call in flight carries what it has earned at its step (`CallOK`: past the
read of a pending row, an accept's peer is willing, and stays so); a barred call
is still before its block check (`BarredOK`). Theorems: `TypeCorrect`,
`Consented`, `BlocksHold`, `NotificationsTrue`, and `Refines`, which maps
`AcceptWrites` to `Agree`, `RequestWrites` to `Ask`, `SendWrites` to `Speak` and
every other step to a stutter of `Consent`.

**SessionsProofs** (assumes finitely many session ids, none of them `NoSession`,
and natural bounds). `CapHolds` is the theorem with an argument. Logins count
while others insert, so no count is right on its own. But of any two counts
the later one saw every session the earlier one saw that is still live
(`CountsOrdered`), and a login returns its tokens only when all but
`MaxDevices` of what it counted are revoked (`CountOK`). So some set `K` of at
most `MaxDevices` sessions always contains every delivered live session
(`Bounds`); when a login returns, its `kept` replaces `K` if it counted last.
Expiry and revocation only shrink what is live. A refresh that straddles its
session's expiry makes live again what no count saw: such a session is in
`revived`, and `DeviceCap` sets it aside. `HonestKept` rests on `Orderly`: a
session with no overlap and no lost answer has one secret, the client's, the
row's and the one in flight. `RevocationHolds` proves the action property from
the type invariant.

**StoriesProofs** (assumes finite slots and publishers, positive caps, as
`readStoryPolicy` keeps them (`packages/config/src/story-policy.ts`), a lifetime
of at least an hour, and `None` outside the ids). `RunsOK`: a run past its writes
has a whole playlist in storage, and nothing makes a whole one partial.
`PublishedOnce` is inductive with it: of the runs over a story, the guarded
`updateMany` lets through only the one that finds it PENDING. `CapNearlyKept` counts
what the cap is made of: a member's active stories and creates past the count
together stay within `MaxActive` plus the other slots (`CapBudget`). A count that
admits a call saw at most `MaxActive - 1` of them, but on ages of its own
moment, so the argument needs that ages only grow (`AgesOnlyGrow`): what has expired
for one call has expired for every later one. Theorems: `TypeCorrect`,
`PlaylistsStored`, `OncePublished`, `HiddenKept`, `CapNearlyKept`.

**CredentialsProofs** (assumes finite slots and natural bounds, `MaxAttempts` not
zero). `CredIInv` carries three arguments. *Guesses*: a call past the limit check
has its guess reserved, so the attempts counted and the calls about to count one
stay together below `MaxAttempts` plus the slots (`GuessesCounted`); the limit
alone is not inductive, because it is read before the count is written. *Tickets*:
whatever was minted, stored, held by a reset or written with, has its challenge
burnt and its slot past minting (`MintedOnce`), so a ticket that was used is not
stored again (`TicketsGone`). *Revocations*: a call about to issue on a proof older
than the member's epoch was marked when that epoch began, or is a second step
(`IssuesKnown`), and no revocation finishes that has not begun
(`RevocationsKnown`). The actions that only read share one lemma (`QuietStep`); each
action that writes has its own. Theorems: `RevocationsBite`, `ProofsSpent`,
`CredTypeCorrect`.

**OperatorsProofs** (assumes natural bounds). *Verification*: a decision is about a
request that is still open, and a badge or a message about to be written has its
decided request, unless calls overlapped (`VerCallsCurrent`). *Moderation*: a save
of the profile holds the visibility it read or the one the owner asked for, and a
moderation the one it will record. *Desk*: a call that is alone, with nothing
disturbed before it, is about to turn the status for the last message or to escalate
from whoever is assigned (`AloneIsCurrent`); a status is wrong only while a turn is
due (`TurnsAreDue`); a call with a message has seen its ticket open
(`MessagesSawOpen`), which gives `ReopenedOnPurpose`. *Appearance*: what a call has
read is still current unless saves overlapped (`ReadsAreCurrent`). Theorems:
`VerdictsStand`, `ModerationHolds`, `DeskAgrees`, `ClosedStaysClosed`,
`ConfigurationHolds` and a type theorem each.

**MembersProofs** (assumes finite slots and authors where a sum is taken, `Limit`
not zero). *RateLimit*: the calls admitted and the one arming are together no more
than were counted (`GrantedCounted`), and the arming call is alone in a window
nobody has armed (`ArmingAlone`), so the window cannot end before it. *Reviews*:
what a call is about to store is current, or another call is still to count
(`StoresCurrent`). *Live*: whoever can see a row now has met it (`MetWhenVisible`),
and a start past its first statement finds nothing on the air (`StartsFindNone`).
*Location*: one update writes at a time, and the cell and the pin it has written are
of its fix (`WritesInOrder`); one past the gate still has the permission
(`GrantIsKnown`). *Rooms*: a sync has left every room before it joins those around
the point it read (`SyncsInOrder`). *Catalogue*: no set of categories is closed
under `parent` (`TreeHolds`). That alone is not inductive, since a move writes what
an earlier walk allowed: `WouldLoop` says which sets a move would close, and
`WalkHolds` that each of them contains the place its walk has come to, so that a
walk that reaches a root has found that there is none. It holds as long as no parent
is written under another call. Theorems: `WindowsHold`, `AggregateHolds`,
`LivesShownRightly`, `PublicFollows`, `RoomsFollow`, `CatalogueStaysWhole` and a
type theorem each.

**PlatformProofs.** *Search*: the answer is a sorted arrangement of what the three
statements found; what they found fits, and what fitted throughout was found
(`ReadAsItFits`), so whatever the rows do in between, `FindsInOrder` is a fact about
scores: of two rows that differ in nothing but distance the nearer has the larger
score. *Composition*: `PlatformImplements` shows that a behaviour of `Platform` is
one of each of its twelve parts, the step of another part being a stutter;
`PlatformTypeCorrect` and `PlatformKeepsPromises` follow from it and the parts'
theorems, and state every property of the `platform` run.

**ClientsProofs** (assumes finite slots, natural bounds, and names that stand for
nothing outside the sets they stand beside). None of the pages' promises is
inductive, since each speaks of a page at rest. *Thread*: what a page lacks
of the recent messages is on its way, and that is inductive only without the case
"it lists it already", which a new list may take back (`AllOnTheirWay`); it rests on
each history having all the recent messages that are not hidden (`PageHasRecent`, a
count of the newer ones); a message is in a list twice only by the
answer to the request that sent it (`DoubledByItsAnswer`). *MapView*: of the
searches in flight one counts, and it is for what is asked once no timer is due
(`OneNewestSearch`, `NewestIsAsked`). *Panels*: a panel that loads has a call that
will end it (`LoadingHasCause`), and whatever a late answer may put on the page, a
call that renews it is under way or the list is fresh (`ListIsComing`); the presses
left bound the acts still out (`ActsHaveRoom`). *SignIn*: until the member strays,
the one call out is of the account last pressed and finds the page where it was
pressed (`OutAsPressed`), and each stage holds the challenge it asks about
(`StageAsked`). *Composer*: a file nobody has published is named by one picker and
no publication (`PicksAreFresh`), and one that has been published without a switch
or a lost answer is out of the page's reach (`MadeOnce`). *Broadcast*: no two runs
offer the same camera (`CamerasApart`), while none ever met, a run holds what the page
does not (`LoneRunHolds`), and each step of one that is alone says what the page
shows (`Shown`) and, until the page is untold, what the server has (`Told`;
`LoneRunTells`). *Viewer*: one probe counts exactly while a live stage waits
(`AskedOnce`), and an import not cancelled is the stage's own (`LoadsAreOwn`).
*Wizard*: a step is reached only over the forms before it, a save was pressed where
the wizard had got to, and the API forgets no form (`StepIsReached`,
`PressedWhereReached`, `AnswersAreKept`). *Api*: a call on its way is marked
entitled whenever the account is (`SentAsEntitled`), and one past the guards is
entitled and in a role of its route (`GuardedByRoles`). That no service turns away
whom the roles of its route let in is proved controller by controller
(`RoutesGated`). `CallsStayRightful` takes `RoutesFit` as a hypothesis: every method
of the client has a route, with its path and its type. That is a closed fact about
two tables of some 130 rows, with no constant in it; the `clients` run decides it,
because an administrator makes every call of `Methods` in it and
`CallsAreUnderstood` fails on a call without its route. *Composition*: as in
`PlatformProofs`. Theorems: one for each page, `RightsStayCurrent`,
`CallsStayRightful`, `ClientsImplement`, `ClientsTypeCorrect` and
`ClientsKeepPromises`.

**Only model-checked**: `DueIsServed`, because liveness under fairness is beyond
this prover; `RoutesFit`; and the five violations, which are counterexamples. No
theorem is by induction over data: where a walk or a sum needs one, the model keeps
what it has done so far in the state (`seen` of a walk) or uses the library's facts
about finite sets.

Reproduce with `tlc -workers 2 -config X.cfg M` and `tlapm M.tla`.

## 7. Not modelled

- Validation, captions, trims, colours, layout, templates and audit wording: what
  they refuse never reaches a table the models have. The audit entry of the
  worker is modelled, because it must be written once.
- `DELETED` members: no code of the API sets that status.
- Object storage, ffmpeg, hashing and signing: an object is stored or an error is
  thrown; secrets are not guessed. A WHIP server accepts an offer or refuses it.
- The audio library, notification preferences, current modes: rows with one
  owner, written by one statement after an ownership check. Of services and
  businesses, whether one is paused and the point of a business: nothing the
  catalogue promises reads them.
- Of the chat, the cursor: no page follows `nextCursor`, so messages older than
  the newest page leave the list with the next history, and nothing is promised of
  them. A hidden message stays on a page that lists it until its next history.
- A page that goes live is not told when a moderator, or another device of the
  member, ends or replaces its session (`live.service.ts:47-50, 133-157`): it goes
  on showing it and sending its camera until it is left, and "End live" is refused
  with 404 meanwhile. `Broadcast` has these steps (`LiveElsewhere`, `FailCast`);
  `BroadcastAgrees` promises nothing of the session there until the server next
  serves the page. No doc or test of the repository says that a page should notice.
- Pages with one load and no act of their own, and map gestures, markers and
  previews: views.
- Clocks: a time limit is a step that may come at any time, so no property
  depends on how long something takes.
- Seed scripts, deployment files, UI components, types: nothing that runs calls.
- Sockets are authenticated when they connect and not again; that a revocation
  should close one is said nowhere, and no property asks for it. ffmpeg has no
  timeout, so a hung one keeps its run; the model's runs end or fail.
- Renewing the permission moves the `updatedAt` that the location rate limit
  reads (`locations.service.ts:71-75, 119`), so the first fix after a page load is
  refused however old the last is. `Location` has this behaviour; no run is about it.
