# Skrivle: TLA+ models, checks and proofs

Skrivle is a collaborative whiteboard. Browsers edit a board as a Yjs document; one
Node process (Express and Socket.IO) relays the changes, keeps the documents of the
boards in use in memory, saves them to Postgres as snapshots, and logs what was
accepted since the last snapshot in a Redis list. Accounts, sign-in and the boards' own
rows are ordinary HTTP over Postgres and Redis. The front-end is Next.js.

Paths below leave out `src/back-end/src/` where they are obvious.

## 1. The system

| Component | State it keeps | Operations | Interacts with |
|---|---|---|---|
| Document registry (`realtime/doc-manager.ts`) | per board: `Y.Doc`, sockets, dirty flag, byte count, load promise | `acquireDoc`, `trackSocket`, `markDirty`, `hasRoom`, `releaseDoc` | reads blob and log on the first join |
| Snapshot writer (`realtime/snapshot-writer.ts`) | `writing`: one chain of writes per board | `persistSnapshot`, `flushDirty` on a timer and at shutdown | registry, Postgres, log |
| Update log (`realtime/update-log.ts`) | a Redis list per board: updates and seals | `appendUpdate`, `sealLog`, `trimLog`, `readUpdates`, `dropLogs` | Redis, through a bounded client |
| Gateway (`realtime/gateway.ts`) | rooms, per-socket buckets, resync timer, `refusedForRoom` | handshake, `joinBoard`, `sync:*` handlers, disconnect, `releaseBoard`, `evictBoard` | all of the above |
| Yjs bridge (`realtime/yjs-bridge.ts`) | none | `sendInitialSync`, `sendMissingUpdates`, `applyClientUpdate` | document, log, room |
| Limits (`realtime/limits.ts`) | token buckets | `take` | gateway |
| Browser session (`front-end/src/lib/realtime/board-session.ts`) | its own `Y.Doc`, socket, presence | local edits, sync handlers, rejoin | gateway, local copy |
| Local copy (`.../realtime/local-copy.ts`) | IndexedDB document, index in localStorage | open, mark unsynced, sweep by age, forget | session |
| Awareness (`realtime/awareness.ts`) | per board: states, owner of each client id | claim, apply, release | gateway |
| Board rows (`boards/service.ts`, `http/routes/boards.ts`, `jobs/expiry-sweep.ts`) | Postgres rows: owner, expiry, token hash | create, claim, extend, rename, delete, duplicate, sweep | gateway (eviction), media |
| Sign-in (`auth/`) | codes, OAuth states, sessions in Redis; users and identities in Postgres | issue, verify, consume, create, revoke | mail, providers |
| Tools, gestures, undo (`front-end/src/lib/board/use*.ts`, `realtime/useUndo.ts`, `components/board/BoardSurface.tsx`) | drag closures, selection, what is being edited, undo stacks, pointers, camera, cursor | press, drag, cancel, keys, typing, undo; pinch, pan, zoom | the session's document |
| Elements (`.../board/elements.ts`, `geometry.ts`, `stroke.ts`, `realtime/useElements.ts`) | maps and an order in the document; caches of snapshots | create, resize, draw, restack, hit test; render and subscribe | tools, components |
| Board page (`components/board/BoardClient.tsx`, `realtime/useBoardDoc.ts`, `board/creator-tokens.ts`) | the fetched board, the session, a creator token | open, retry, extend, claim, forget | boards' routes, session, local copy |
| Account pages (`components/auth`, `components/boards`, `components/landing`, `hooks/useResource.ts`) | who is signed in, the form, lists and dialogs | ask, answer, patch, reload | HTTP |
| Header (`components/board/BoardTitle.tsx`, `board/useThumbnail.ts`) | title, its rename, the thumbnail scheduler | rename, save a picture | HTTP, media |
| Shutdown, mail, media, HTTP plumbing, configuration, static pages | see `PROJECT.json` | | |

What is hard, and what would make each part correct:

- **Persistence.** Writes overlap with edits, joins and leaves; a save, a Redis command
  or the process may fail at any point. Correct: a board opens as all of what was ever
  acknowledged; the blob never goes back; unsaved work is always queued; a document leaves
  memory only when saved; nobody waits for ever.
- **Sync.** Each connection is FIFO, but updates are dropped for rate or size, a listener
  is attached only after a load, connections come and go, and the server may come back with
  less. Correct: no silent hole; a board stays below its ceiling; what the server serves is whole;
  everybody converges.
- **Board lifecycle.** Check-then-write over one row by several requests and a sweep, and
  ids that may be taken again after a delete. Correct: one owner; an owned board never
  expires; a deleted board's content never shows up in another.
- **Awareness.** Two sockets of one browser overlap at a reconnect. Correct: no ghost
  cursor, and no cursor retracted while its browser is there.
- **Sign-in.** Read-then-delete against Redis by racing requests. Correct: a code or a
  state works once; signing out everywhere leaves no session; a mailbox is one person.
- **Editing.** A drag writes on a timer, at its end and when cancelled, between keys, undo, text
  edits and peers. Correct: it lands where the pointer let go or is taken back whole, each
  gesture is one undo step, nothing painted for it stays behind.
- **Pointers.** Fingers, captures, focus and keys come and go in any order. Correct: each drag is
  settled once; peers last hear where the cursor went.
- **Elements.** Rounding, growing and flipping boxes; a merging list of ids; snapshots cached outside
  React. Correct: what is painted, clicked and resized is one shape; every element is painted once;
  a screen at rest shows the document.
- **Pages.** Answers come late, in any order or not at all, over tabs that share a copy and a token.
  Correct: a page at rest shows what the server has, and what it calls saved is.

`PROJECT.json` lists every component with what is modelled of it, and every hazard at its
line with the properties that would catch it.

## 2. Plan

1. `BoardPersistence`, implementing the abstract `DurableBoard`. *Done and proved.*
2. `SyncProtocol`. *Done; every safety property its runs check is proved*, `QuietIsSynced` as long as no
   restart leaves a gap.
3. `BoardLifecycle`: the rows of one id and who is connected, each request split at its
   waits; `BoardReuse` on top of it: what is drawn on the boards that have the id in turn.
   *Done; safety proved without the overlaps that refute it.*
4. `Awareness`: ownership of client ids; retraction exactly when the last socket goes. *Done;
   safety proved.*
5. `SignIn`: codes, OAuth states, sessions, identities and rate windows over Redis as a
   sequence of atomic commands. *Done and proved, each part without the race that refutes it.*
6. The canvas: `Editor` (tools, text, undo), `Pointer` (gestures, camera, cursor), `ElementViews` (what
   components read) and `PaintOrder` (the merging order), *done and proved*; `Drawing` (shapes and strokes),
   *done; of its properties resizing is proved*.
7. The pages: `BoardPage` (one address, tabs, copies, the token), *done and proved*; `Account`, `MyBoards`
   and `BoardHeader`, each on top of the last. *Done; safety proved without the overlaps that refute it.*
8. Left: the order of the shutdown hooks and their timeouts against a write in flight.

Theorems after those proved: what holds of an id's later boards while requests overlap; of `Drawing`, that
simplifying a stroke keeps its ends.

## 3. `BoardPersistence`: one board on the server

The registry is keyed by board and so are the chains of writes and the lists, so one
board is enough. The process is single threaded: an action is what runs between two waits
for I/O.

| Variable | In the code |
|---|---|
| `blob` | `board_docs.docState` |
| `log` | the Redis list, without its seals |
| `redis` | answering, stalled (no answer within the command timeout), or disconnected |
| `phase`, `doc`, `dirty`, `sockets` | the `DocEntry`; `loading` waits for Postgres, `replaying` for Redis |
| `waiting`, `gone` | sockets whose `joinBoard` awaits the load; those that left meanwhile |
| `writing`, `write` | the chain of writes, TRUE where a `releaseBoard` awaits; the write at its head |
| `settled`, `owed`, `faults` | history |

A document is the set of updates it has integrated: applying is a union, whatever the
order. Actions: `Join`, `LoadBlob`, `LoadLog`, `LoadFails`, `GiveUp` (the join side);
`Edit`, `Leave`; `FlushDirty`, `SaveLands`, `SaveFails`, `TrimLog` (the write side, with the
release inside); `RedisAnswers`, `RedisFails`, `RedisRecovers`, `Crash`.

Modelling decisions:

- Commands of one Redis connection run in order, so each takes effect where it is issued.
  What Redis has not answered yet may be cut off the end by a lost connection or a crash.
- A seal is the number of updates before it. 0 stands for none known; seals of writes that
  never trim are never looked for again and are left out.
- A Postgres transaction may have committed when its client sees a failure.
- When a write settles, the `releaseBoard` that awaits it runs before the write queued behind
  it: promise continuations run in the order they were registered.
- The wait inside `socket.join` is a microtask and is taken as atomic.
- `owed` leaves out what a crash took before Redis had answered: the append is not awaited
  and nothing promises it. A power cut that costs Redis itself its last second is not modelled.

`DurableBoard` says what that adds up to without caches, logs or queues: a store, the part of
it that is sure, and at most one open copy, which opens as exactly the store. The refinement
mapping takes the store to blob and log together, the sure part to the blob and what Redis has answered for.

## 4. `SyncProtocol`: browsers and the server

A Yjs document is its items and its deletions. Item `<<c, n>>` is the n-th of client `c` and
integrates after that client's earlier ones; a deletion integrates after its item. Cross-author
references take the same path in the code (pending, behind, resync) and are left out. A
connection is two FIFO channels.

| Variable | In the code |
|---|---|
| `held`, `pending` | the server's document: what is integrated, and what a replayed log left pending |
| `bytes`, `recent` | `entry.bytes`, and whether `measuredAt` is less than a second ago |
| `doc` | each browser's document, pending parts included |
| `link`, `up`, `down` | the connection: down, open, or past `joinBoard`; what is on its way |
| `resync`, `refused` | the socket's timer and `refusedForRoom` |
| `unsynced` | the local copy's mark |
| `oversized`, `faults` | history |

Browser: `Draw`, `Erase` (both through `MakeChange`, the whole of `onDocUpdate`), `Connect`,
`HearGreeting`, `HearStep`, `HearUpdate`. Server: `JoinBoard`, `MissEvent` (no listener yet),
`AnswerStep`, `DropTooFast`, `RefuseLarge`, `RefuseFull`, `ApplyUpdate`, `SendStep`, `Snapshot`,
`SecondPasses`. Around them: `Disconnect`, `Restart`. What a restart leaves is any part of
the document: which parts are possible is `BoardPersistence`'s question. With `Restart` a log
that misses one append of an author leaves the later ones pending.

Modelling decisions: the token bucket is a drop that may happen (`"fast"`); sizes are counted in
items and deletions weigh nothing; after a restart `bytes` starts without the over-count of
updates that are in both blob and log, which only makes `hasRoom` measure once more; the bucket
for `sync:step` is left out, a browser sends one per connection; an event of a connection that
the browser already gave up is not delivered late, and would only repeat what the next sync
sends; reloading a page is `BoardPage`.

## 5. `BoardLifecycle` and `BoardReuse`: one id and the boards that have it

A custom id can be taken again once its board is gone, and nearly everything is filed under
the id alone. `BoardLifecycle` follows one id through `MaxBoards` boards; an action is one
command of the database with the code up to the next wait.

| Variable | In the code |
|---|---|
| `board`, `role` | the row of `boards` and its rows of `board_collaborators` |
| `made` | how many boards have had the id; `board.n` tells them apart as `createdAt` does |
| `call` | the requests under way and what each waits for |
| `sweep` | where `sweepExpiredBoards` is with this id |
| `docs`, `room` | the registry's entry and `entry.sockets` |
| `client`, `page` | each page's connection, and the board the page was loaded for |
| `detached` | clients working on a document the registry no longer holds |
| `crashes` | history |

Requests: `CreateBoard`, `FinishCreate`; `FindToClaim`, `ClaimBoard`; `FindToExtend`,
`ExtendBoard`; `FindToDelete`, `CheckRole`, `DeleteRow`, `DropLog`, `EvictBoard`. The sweep:
`SweepReads`, `SweepFilters`, `SweepDeletes`, `SweepDrops`. Connections: `OpenPage`,
`Handshake`, `JoinBoard`, `Loaded`, `LoadedInVain`, `Leave`. Around them: `TimePasses`, `Crash`.

`BoardReuse` extends it with `stored` (the blob), `log`, `content` (the document), `copy` (each
page's document and local copy) and `visit`. Content is told apart only by the board it was drawn
on. Each step of `BoardLifecycle` is taken with what it does to the content (`R...`); `Draw` and
`Flush` are its own.

**Races.** The code reads, waits and writes by id in many places, and most of the overlaps do
break something. So `Races` names the overlaps a run allows, and each property is checked under
all that leave it standing and refuted by the smallest that does not:

| Race | What may overlap |
|---|---|
| `requests` | two requests |
| `sweep` | a request and a sweep under way |
| `entry` | a connection let in before its board was deleted |
| `early` | a connection let in before `createBoard` has dropped the old log |
| `tabs` | a page of an earlier board that reconnects |

| Property | Holds with | Refuted by |
|---|---|---|
| `OwnershipIsRecorded` | all (proved) | |
| `OneOwner`, `OwnedNeverExpires` | all but `requests` (proved) | `requests` |
| `SweepTakesTheAbandoned` | `early`, `tabs` (proved) | `sweep`, and with it `SweepSparesTheOwned` |
| `ExpiredIsCollected` | none | `entry` |
| `ContentStaysWithBoard` | none, and one crash (proved) | `tabs` |
| `WorkStaysOnBoard` | none (proved), `tabs`; all but `early` while the id has had one board (proved) | `requests`; `entry`; `sweep` and a crash; `early` and a crash |
| `SettledWorkStays` | all |  |
| `GoneMeansGone`, `InsideIsServed` | `early`, `tabs` (proved) | |
| `NothingLeftBehind` | none, and one crash (proved) | |

`SettledWorkStays` is what is left when requests overlap: once every delete and every create of the id
is through, the sweep is not between its delete and its `dropLogs`, no client is on a dropped document and
everybody connected came for the board that is there, nothing that the overlap left behind (a
document, a room, a load that finds nobody) takes what the board has in its blob or its log. All races
means those of `reuse_overlaps` with a crash, `sweep` and `early` with one request and a crash, and all five
together without one (section 10).

Modelling decisions: a save is atomic and Redis answers (`BoardPersistence` has both in steps), a
sync merges at once (`SyncProtocol`), a database command succeeds. A check that fails ends its
request without a trace and is not a step. A caller shows a token of the board that is there. Who
touches the board as collaborator on joining is any set of accounts: who is signed in behind a
page is not tracked. A sign-in read between the handshake's check and the join is part of the
time a client is `admitted`. Renaming and thumbnails touch columns nothing else reads.

`duplicateBoard` writes a new board under another id; what it copies is the operator `Duplicated` of
`BoardPersistence`, where the document in memory has its loading steps.

## 6. `Awareness`: cursors and presence

The Yjs awareness protocol as the code uses it. A page keeps its client id, its key and its view
of the others over reconnects; a connection is a socket `<<page, n>>` with a FIFO channel each way,
and the server may notice late that one is dead.

| Variable | In the code |
|---|---|
| `socket`, `tries`, `closed` | the page's connection, how many it had, whether it was destroyed |
| `view` | the page's `Awareness`: clock and state of each client id |
| `seat`, `clients` | whether a socket is in the room; its `awarenessClients` |
| `owner` | who may speak for a client id, and through which sockets |
| `states` | the server's `Awareness` |
| `up`, `down` | frames on the way |
| `unheard`, `muted`, `stale` | history: what excuses a difference |

`QuietViewsAgree` and `GoneIsUnseen` name what the protocol does not give: a page whose last word
was dropped over the rate (`unheard`); one the server let go as silent before it told the others
(`muted`); one that left while the viewer was away, which y-protocols shows for up to 30 seconds
after the reconnect (`stale`).

## 7. `SignIn`: codes, states, accounts and sessions

A request waits at every command of Redis or Postgres; an action is one command with the code up
to the next. `at` and `job` are where each request waits and what it carries; the other variables
are the keys and rows. Anything with an expiry may be gone at any time. A code is the number of its issue.

| Race | What may overlap | Refutes |
|---|---|---|
| `requests` | two requests of a code for one mailbox | `LatestMailWorks` (`http/routes/auth.ts:124`) |
| `verifies` | two verifications for one mailbox | `CodeWorksOnce` (`auth/otp.ts:85`), `GuessesAreCounted` |
| `callbacks` | two callbacks with one state | `StateWorksOnce` (`auth/oauth/flow.ts:29`) |
| `everywhere` | a sign-in and a sign-out everywhere | `IndexCoversSessions` |
| `lapse` | a session in use and the expiry of its user's index | `EverywhereMeansEverywhere` (`auth/session.ts:79`) |

The properties are checked without these, each is refuted by its own and proved under all the others.
`OnePersonPerInbox`, `SignedOutStaysOut` and `CounterExpires` hold with all. With one failure between the two commands
of the counter, `CounterAlwaysExpires` fails (`redis/rate-limit.ts:70`); `CounterExpires` is about
behaviours without one. Left out: the branch for a provider's unverified address, filling in a picture, the
limit per caller, and the board claim that rides along.

## 8. The canvas

**`Editor`** is one page's tools, text editing and undo, with peers. `ed` is the document with its
`UndoManager`, `ui` the `ToolState`, `drag` the closure of the handlers in use, `screen` what is
painted outside of React and what has the focus. An element has one coordinate, one extent, one style,
the set of those who wrote in it, and `form`: what its box does not tell, a line drawn up or to the left or
a stroke's samples as they were drawn. `Resize` fits an element to a box as `resizeElement` does, so the
normalised box a cancelled resize writes back (`bboxOf`) does not bring the form back: `CancelTakesBack` leaves
it out, and `TakenBackWhole`, the comment's claim, is refuted. Presses, frames, the publishing timer, the end and the
cancellation of a drag, keys, typing and peers are actions. `UndoManager` is external: entries are what was
written and what was there before; where a peer wrote over it either outcome is taken.
What a press hits is any element; whitespace counts as no text; a run of arrow keys has two presses.

**`Pointer`** is what comes before the tools: which of a press, a pinch and a pan has the gesture,
captures, the space key, the camera with its glide, and the cursor peers are told of. With reduced
motion a glide lands at once; that is one of its steps. Wheel arithmetic and fitting are left out.

**`Drawing`** is one element's shape, in integers of half a unit: dragged out, sampled by the pen,
simplified, resized by every handle while the document rounds. Left out: hit tests over many
elements, unions of boxes, the preview's own fitting, the size of a click without a drag, curves.

**`PaintOrder`** is the `order` list of several browsers as the CRDT merges it (external), with
create, remove and restack. `RestackLands` compares what a restack leaves with a definition over sets.
`repairOrder` is not modelled: no modelled step leaves anything for it. Undo of a restack is left out.

**`ElementViews`** is the three hooks of `useElements.ts` in the layer, an element's view and its editor:
render, subscribe, change, render again; the caches, the flag that makes a peer's change ease in, an
undone delete that puts another map at the same id, and a session that reopens.

The four after `Editor` share no state with each other. `MCCanvas` runs them side by side: a behaviour is one of
one of them, by its variable `part`.

## 9. The pages

**`BoardPage`**: one browser with two tabs on one address whose board is made, expires, is swept and
made again. A tab fetches the board, probes and opens the copy, connects, falls back, retries, and says what
it says (`ConnectionBar`); the tabs share the databases, their index with mark and age, and the creator token.
What a page asks of the API is served in one step and lands in another: `Fetched` reads the board, `FetchReady` and
`FetchGone` are the answer and its effects; `Asks` sends the token, `AskServed` is the server's part, and `Claimed`,
`Extended`, `Forbidden` are what the page does with it, though it may be another page by then: leaving aborts a
fetch, not a call. `FetchGone` and `Forbidden` forget by the id alone. So a late 404, 410 or 403 may hit the board that took
the id since: with `LateAnswers` it does, and that is what the constant names; without it the id is not taken
while such an answer is out. A create and its answer are one step.
Delivery is atomic (`SyncProtocol` has it in steps). A board that takes the id under an open tab is
`BoardReuse`'s. The fallback when a copy cannot be read is left out. It shares no state with the others;
`MCPages` extends both and runs them side by side, one of them in each behaviour.

**`Account`**, **`MyBoards`** and **`BoardHeader`** extend each other: who is signed in and the form; the list,
tiles, dialogs and the create dialog; a board's title and its picture. A call is out until it is
answered, in any order, and a call that fails was not served.

| Race | What may happen | Refutes |
|---|---|---|
| `edit` | the form is changed under a call of it | `CodeWasMailed` (`SignInForm.tsx:204`); `ListAgrees` (with 8 inputs) |
| `slow` | `GET /auth/me` is answered after a sign-in | `ShownIsSignedIn` |
| `cut` | a sign-out does not reach the server | `SignedOutIsOut` (`SessionProvider.tsx:79`) |
| `hurry` | the page is changed, or signed out of, while calls are out | `ListAgrees` (`useResource.ts:18-20`) |
| `tile` | a tile is used while the page's calls are out | `ListAgrees` |
| `dialog` | a dialog is opened while another's call is out | `DialogIsLeftAlone` (`BoardsList.tsx:233-234`) |
| `reopen` | the create dialog changes under its call | `HintIsOfTheField` (`CreateBoardDialog.tsx:75-77`) |
| `twice` | a rename under a rename | `TitleAgrees` (with 6 inputs) |
| `upload` | a save outlasts the next idle timer | `PictureIsLatest` (`useThumbnail.ts:41`) |
| `again` | "Verify and sign in" sends a code that went before | nothing: the run has it |
| none | | `ContinueWorks` |

`again` is what the button does and `onComplete` does not: `submitCode` looks at the code's length only. When `GET /auth/me`
failed, the form stays on the page after a sign-in, idle, until the next one comes; the button then sends the
spent code and a problem is reported to somebody who is signed in. `QuietOnceIn` excuses that press (`form.again`) and no other.

Left out: the claim of a board that vanished (`BoardPage` has it), lost answers in `MyBoards`, the list's
order, dates and pictures, an empty board's picture, the signature's age, the create dialog outside the
home page, the hint `invalid`. The header's title is apart from the list's.

## 10. Runs

The `MC` modules declare the symmetry, which runs with liveness leave out; the rest is in the `.cfg`. A
property of several parts is named in its module as the conjunction of them, and the parts are what is
quoted from the code.

| Run | Bounds | Shows |
|---|---|---|
| `persistence` | 2 updates, 2 sockets, 3 queued writes, 3 faults of any kind | `TypeOK`; `ServesAllDurable`, `RegistryIsSound`, `SettledIsDurable`, `NothingLost`; `BlobNeverRegresses`; the refinement `ImplementsDurableBoard`; `EditsAreSaved`, `JoinsAreAnswered` |
| `persistence_release` | no fault | violation of `ReleasedAfterFinalSnapshot` |
| `sync` | 2 browsers, 3 changes in all, room for 3, one drop, disconnection or restart | `TypeOK`, `QuietIsSynced`; `Converges` |
| `sync_full` | room for one item of four, one deletion, no fault | `QuietIsSynced`; `BoardFits` |
| `lifecycle_sweep` | 1 board, race `sweep` | violation of `SweepSparesTheOwned` |
| `reuse` | 2 accounts, 2 pages, 3 boards, 1 crash, no race | `TypeOK`, `OwnershipHolds`, `BoardsStartClean`, `DeletedIsGone`; `NothingTakenEarly`; `ExpiredIsCollected` |
| `reuse_overlaps` | 1 account, 2 pages, 2 boards, 2 requests, 1 crash, races `requests`, `entry`, `tabs` | `SettledWorkStays` |
| `signin` | 1 mailbox in 2 spellings, 1 provider account, 2 requests, 2 codes, 1 state, 2 sessions, 1 fault | `CodesAreSound`, `OneWayIn`; `SessionsEnd` |
| `awareness` | 2 pages, one returns, 1 announcement beside those of joining, 1 fault | `CursorsAreHeld`, `ScreensAgree`; `NobodyElseRetracts` |
| `editor` | 2 elements, one of them a text box at the start, 2 operations, 1 change by a peer, key or pause | `OneStepEach`, `NothingLingers`; `DragsLand` |
| `canvas` | `Pointer`: 2 fingers, a mouse, 4 inputs; `Drawing`: every kind and handle, 4 samples, 2 resizes; `PaintOrder`: 2 browsers, 4 elements, 3 transactions; `ElementViews`: 2 sessions, 2 maps, 3 transactions | `GesturesAreSettled`; `ShapesAgree`; `OrderIsSound`; `ScreenIsFresh` |
| `pages` | `BoardPage`: 2 tabs, 2 boards, 1 edit, 4 events, no late answer; the others: 2 people, 3 boards, 2 codes, 2 titles, 5 inputs, race `again` | `OldCopyStaysOut`, `WorkIsKept`, `TokenIsKept`; `SignInIsTrue`; `PagesAgree`, `PictureIsLatest` |

More configurations are there to be run by hand:

| Configuration | Shows |
|---|---|
| `MCAwareness_fade.cfg` (2 pages, no fault, fairness) | `GhostsFade` holds |
| `MCBoardPersistence_leak.cfg` (one failed save) | violation of `EmptyRoomIsReleased` |
| `MCBoardPersistence_copy.cfg` (no fault) | violation of `CopyIsWhole` |
| `MCSyncProtocol_room.cfg` (room for one item) | violation of `RefusedIsAskedAgain` |
| `MCSyncProtocol_pending.cfg` (one restart) | violation of `MissingIsTheSenders` |
| `MCSyncProtocol_unmarked.cfg` (one disconnection) | violation of `OfflineWorkIsMarked` |
| `MCBoardLifecycle_claim.cfg` (race `requests`) | violation of `OneOwner` |
| `MCBoardLifecycle_ghost.cfg` (race `entry`) | violation of `ExpiredIsCollected` |
| `MCBoardReuse_evict.cfg` (race `requests`), `MCBoardReuse_half.cfg` (race `entry`) | violation of `WorkStaysOnBoard` |
| `MCBoardReuse_tabs.cfg` (race `tabs`) | violation of `ContentStaysWithBoard` |
| `MCEditor_cancel.cfg` (1 line drawn up or to the left) | violation of `TakenBackWhole` |
| `MCPages_mark.cfg` | violation of `NeverDeletedForAge` |

The other refutations need one change to the configuration of a run, with the property put in place of
its own: the races of the tables of `SignIn` and the pages; and

| Run | Change | Violates |
|---|---|---|
| `signin` | none | `CounterAlwaysExpires` |
| `editor` | `Tools = {"select"}` | `ShiftsEnd` |
| `editor` | `Tools = {"select"}`, `Surprises = {"pause"}` | `NeverSplit` |
| `editor` | `Tools = {"select"}`, `Surprises = {"keys"}` | `TakenBackOnce` |
| `editor` | `Tools = {"select", "text"}` | `KeysAreHeard` |
| `editor` | `Surprises = {"pause"}` | `NoBlankEver` |
| `editor` | `Tools = {"select", "note"}` | `UndoIsPersonal` |
| `canvas` | none | `CursorSettles`, `HandIsNotFought`, `StraightInkCanBeGrabbed`, `LineKeepsDirection`, `DrawnCanBeFound`, `FewestMove` |
| `pages` | none | `ExpiredTokensAreDead` |
| `pages` | `LongSittings = TRUE` | `WorkIsKept` (its part `SavedIsSaved`) |
| `pages` | `LateAnswers = TRUE` | `TokenIsKept`; `WorkIsKept` (its part `SavedIsSaved`) |
| `reuse_overlaps` | `Races = {"tabs"}` | none: `WorkStaysOnBoard` holds |
| `reuse_overlaps` | one request, races all but `requests`; or two, all races, no crash | none: `SettledWorkStays` holds |
| `sync` | `Capacity = 1`, `MaxErased = 1` | `QuietIsSynced` |
| `sync` | `Clients` with 2 items each, `MaxChanges = 4`, `Capacity = 4`, `Spec` with symmetry | none: `QuietIsSynced` holds in the wider instance too |

Why the bounds are enough to be interesting: two updates tell a snapshot that lacks
one from one that has it, and let one be sealed while the other is appended behind the seal; two
sockets make a joiner during the last one's write; three queue places hold a running write, a
release and a second release; three faults allow a failed save, an outage and a crash in one
behaviour. In the sync, two items of one author make a hole and what leans on it, two browsers a
sender and a bystander; with `sync_full`'s room for one item the others are refused.

In the lifecycle two requests make a check and a write between it; three boards make one that
inherits from the last and from the one before; two pages one that is inside while the other loads.
One crash is the bound of `reuse` for a reason: with two, one between a delete and its `dropLogs`
and one between the next insert and its `dropLogs`, the old log does reach the new board.

In `signin` two requests make every race of two commands, two codes an old one and a new one, two sessions one
that signs the other out. In `awareness` two sockets of one page overlap, with a second page to watch. In `editor`
one element is dragged while another is there to be left alone, and two operations make two undo steps. In
`canvas` two fingers and a mouse make a pinch, a palm and a pen; four samples have one to drop between two to
keep; three elements in the order and a fourth created meanwhile make a restack that crosses an entry it does
not know of. In `pages` two boards make a copy of the last one, two tabs a shared index.

`CHECK_DEADLOCK FALSE` is set for all runs but the persistence ones: once everybody has everything, the id
has been used up or the inputs are spent, nothing is left to do.

**What the violations say.**

1. `releaseBoard` re-checks that the room is empty, not that the document was saved by its own
   write. A joiner during the last one's write who edits and leaves queues a second write; the
   first one's continuation drops the document before it starts. The edit is then only in the
   Redis log, and if Redis missed it, it is gone.
2. A board whose last save failed is saved later by the sweep but released by nobody.
3. Work refused on a full board is asked for again when its author next gets something in, not
   when there is room.
4. A log with a gap, replayed, leaves a piece pending; browsers get it, and each sends it back
   as something the server is behind on, so the server asks again every second. A deletion that was
   left pending is told to one browser and dropped with the next update of another; the first then
   has it and the server does not until one of those who have it comes back (`QuietIsSynced`).
5. The unsynced mark is not set for what was on its way when the connection dropped.
6. `claimBoard`, `extendBoard` and the sweep write by id what they decided on an earlier reading:
   two owners' roles, an owned board with a date, a claimed board swept.
7. A connection let in before its board was deleted opens a document without a row. It can never be
   saved, so it is never released, and the next board with the id is never swept.
8. A page left open over a delete brings the old drawings to the next board with the id.
9. A late `evictBoard` takes the next board's document and log; a late leaver of a dropped document
   makes `releaseBoard` save the next board's half-loaded one.
10. `duplicateBoard` copies a document that is still loading.
11. Sign-in: the commands in the table of section 7 are read and acted on apart from each other.
12. Editor: a frame that nobody cancels shifts elements once more after the drag (`ShiftsEnd`); ten
    seconds of rest split a gesture into two undo steps; an undo in the middle of a drag and its cancellation
    take the same thing back twice; after an edit that removes its own box, the focus is nowhere and keys
    are lost; undoing one's own text box takes what a peer wrote in it; ten seconds of rest between the making of
    a text box and its words, or an undo in the middle of its drawing, let undo and redo leave it on the board
    empty (`NoBlankEver`); a line drawn up or to the left flips when a resize of it is cancelled
    (`useBoardTools.ts:382`), though "whatever it did is taken back" (`useBoardGestures.ts:33-34`).
13. Canvas: a move within an epsilon of the published place is forgotten by the throttle; a glide goes
    on from before the hand's move when that comes before its next frame; a straight stroke that was resized is
    narrower than its ink; a rectangle or an ellipse dragged out straight along an axis has no height and is not
    painted, and nobody can click the ellipse; a line flips when resized past itself; a restack may replace an
    entry that could have stayed.
14. Board page: a sync that ends before the copy has been read clears the mark over work the server lacks, and
    the copy may then go for its age; a tab open for a month calls work saved in a copy another tab has swept; an
    expired board's token still extends it until the sweep; a 404 or 410 that lands after the id was taken again deletes
    the new board's copy under a page that calls it saved (`BoardClient.tsx:57`), and a 410 or a 403 its token
    (`claim.ts:36-39`).
15. Pages: the answers in the table of section 9 land on a page that has moved on.

## 11. Fairness

Persistence: a load and a save are answered one way or the other; a Redis command is bounded by
its timeout, so `LoadLog \/ LoadFails` happens; the interval timer fires. Nobody has to join or
leave, no fault has to happen, Redis need not recover. Sync: sockets reconnect (Socket.IO retries,
and `board-session.ts` goes back after a server-side disconnect), a message on a connection that
lasts is handled, timers fire. Nobody has to draw. All of these are weak fairness: each step
stays possible until taken. Lifecycle: the database answers, so a request and a sweep under way go on,
and the interval timer fires. The timer does not wait for requests, but a run without the race
`sweep` makes it, so its step has strong fairness: it is possible again and again, not all the time.
`GhostsFade` of `Awareness` assumes that frames are delivered, a dead socket is noticed and timers fire.
The other modules state safety only: what follows a person's inputs ends with them.

## 12. Proofs

Each theorem holds for every value of the constants, from the assumptions named in the modules and those in its
own statement: where a race refutes a property, that the race is not in `Races`. `PROJECT.json` lists them.
A race is assumed away only where the tables name a run that it breaks, with one exception: `PagesStayTrue` assumes
`again` away, which the run has, for then more than one call of the form may be out.

`BoardPersistence_proofs` proves all the safety invariants of the run `persistence`, that no step takes
anything out of the blob (`BlobIsMonotone`), and that every behaviour implements `DurableBoard` (`Refinement`).
They rest on one inductive invariant, `IInv`: the properties themselves and three facts about
what is under way. `ReplayInv`: while the log is being read the document is exactly the blob.
`DirtyInv`: only a document in memory is flagged. `WriteInv`: the write in flight holds part of
the document and at least the blob, and its seal stands behind updates it holds, which is why a
trim loses nothing and why landing never takes the blob back. `NothingLost` is inductive with them: what Redis
has missed is not owed, and everything else is in the blob or the log. The lemmas on the list (`AppendFacts`,
`TrimFacts`, `CutFacts`) carry the sequence reasoning; then there is one step per action.

`SyncProtocol_proofs`, for any finite set of clients:

- `NoSilentHole`: `QuietIsSynced` in every behaviour whose restarts leave no piece pending; and
  `NoSilentHoleWhileUp`: in every behaviour without restarts. `QuietIsSynced` speaks of empty channels, so `SyncInv`
  says what full ones carry. `Honest`: neither side sends what it does not have, nor a vector of
  more. `GetsAll`: what the server has and the browser lacks is on its way down, or the browser has yet to ask.
  `GivesAll`: what the browser has and the server lacks is on its way up, or the server's question is
  on its way, or a timer or a refusal stands for it. An applied update keeps the last because what it could not
  integrate sets the timer. A restart with a gap breaks `GetsAll`: what is pending is sent to
  one browser and may be dropped with another's update, so nothing is owed and something is missing.
- `BoardStaysInBounds`: `BoardFits`, restarts included. `RoomInv`: the count `hasRoom` goes by is never less than
  what a snapshot of the document would hold, pending pieces included; `AppliedSize` is why an update adds
  no more than what the server lacks of it.
- `OrderHolds`: `OrderIsSound` of `PaintOrder`, for any browsers, ids and bounds. Two facts make it inductive
  (`OrderInv`). Entries are numbered as they are made and are in the list once (`ListOk`). And the newest entry of an
  id that a browser knows of is deleted only with the element (`DocOk`): a restack that deletes entries puts
  in a newer one, so when two browsers that moved an id meet, one entry is left, though each deleted
  what the other kept. Two lemmas say what a restack leaves. `Restacks`: what the walk computes has below each element
  what `Wanted` says: what a walk has passed is restacked, and the rest is untouched
  (`LowStep`, `HighStep`). `PlacedIsPainted`: putting entries in one by one paints that: after step i
  the first i and all that do not move are final, in the new order among themselves
  (`PlacedOneFacts`), as the comment has it. `InsertedFacts` is the list's part: wherever an entry lands, late or
  not, nothing the browser knows of is between it and what it was to be above. That the recursive functions are what their
  definitions say (`WalkExists`, `PlacingExists`) is proved by a least step at which they would not be, with
  `WFMin` of the library.

`BoardReuse_proofs` proves of `BoardLifecycle`, under every race, `TypeCorrect` and `OwnershipRecorded`; without `"requests"`,
`OwnershipStands`: on record, alone and for good. It rests on `OwnerInv`: `Alone`, one request
at a time, and `Pending`, a claim or extension about to be written finds a row without an owner.
`Pending` is what the check establishes and what a second request breaks. `RowsUntouched` sorts all
other steps into those that leave the row alone and those that delete it. Without `"sweep"` and `"entry"` besides,
`GoneIsGone` and `SweptWasAbandoned` follow from `GoneInv`: requests and sweep take turns (`OneAtATime`), what they
found is still so (`Stands`), nobody is on the way into a board that is gone or about to go (`Shut`), and a
document is in memory for somebody, or for the delete that is about to drop it (`Seats`).

Of `BoardReuse` it proves, without any race, `StartsClean` and `TakesNothingEarly`, from `ReuseInv`. The
board that is there is the last one made (`LastInv`); nobody is on it before the old log is dropped
(`CreateInv`); whoever is connected is on it, with its own drawings only (`PageInv`); the blob goes with its board
(`StoredInv`); the document is blob and log together (`ContentInv`); the log is the last board's (`LogInv`). One crash at
most is a hypothesis: after a crash between a delete and its `dropLogs` the next create drops the log, and
a second crash before that leaves it to the new board.

Under every race but `"early"` the first board that has an id keeps its work (`FirstBoardKeepsItsWork`),
by `FirstInv`: while it is being made nothing of it is anywhere
(`Untouched`); once it is there, whoever is on it is on the document the registry holds, and what that
document shows is stored or logged (`Together`). A delete, a sweep or a leaver that drops something by id
then finds the row gone, or drops nothing that is not also stored.

`SignIn_proofs` has one invariant of every instance: `IInv`, with what each request carries fitting what it waits for
(`CallInv`), codes that were issued (`StoredInv`), one user to an inbox and a key (`PeopleInv`). From it `OnePerson`,
`CountersExpire` and `EndedStaysEnded`, under every race. Then one invariant to a race: `StateInv` (a state that is stored or
read was never accepted), `CodeInv` (a code is checked by one verification; one that is stored or being checked
was never accepted; it was compared no more often than counted), `MailInv` (a mail under way is of the stored
code), `SessionInv` (the index has every session, so the list has every one to revoke).

`Awareness_proofs` proves `TypeCorrect`, `BooksAreKept` and `OnlyItselfRetracts` through every reconnect,
drop and silence. `UpInv`: what a page sends of others is at most that they are gone, and of itself only
when it is. `BooksInv`: an owner's sockets are those that list it; `SeatInv`: those in the room;
`ShownInv`: whoever is shown has an owner. `ScreensAreRight` proves `ScreensAgree`, of which the state in a quiet
moment says little: its invariant, `WordInv`, says what every frame on its way may still do. Where a word is on its way
up, nobody has heard of its clock (`Fresh`) and it is there once (`Single`); nobody is ahead of a page on itself
(`Clocks`), and it is not told of its own end but behind the answer to a join, before which it speaks again (`Echo`).
So what a page last said since it joined is on its way up or spread: with the server, and with every page in the room or
on its way there (`Speaks`). And the last frame on its way to a page about another says what the server holds, or the
page shows the other no later than the server does (`Follows`), unless late word of it was relayed and not applied.
Each action but a few leaves most of that aside (`Aside`); `LineInv` keeps a frame to one entry of a page.

`BoardPage_proofs` proves `OldCopiesStayOut`, `TokenStays` and `WorkStaysKept`. `Base` says of every tab that it shows
the board that was made last, tries when it says so and has only what was drawn there. Where no answer is late it says too (`Shows`) that a 404, 410 or 403
on its way was said of a board that no longer lasts or a token that buys nothing, and that a call that is out carries the
board's token;
and of the board, that what is in it or in a copy was drawn on it, and that its token is kept while it is worth
something. `Work` adds the promises: while the board lasts, an edit a page promised is on the server or in a
copy that is marked; and a tab that has loaded its copy (`Held`) finds there all it shows. `OldCopiesStayOut` assumes nothing,
`TokenStays` that `LateAnswers = FALSE`, `WorkStaysKept` that and `LongSittings = FALSE`; section 10 names the runs that refute
them otherwise.

It also proves `ScreensAreFresh`, the `ScreenIsFresh` of `ElementViews`, whose invariant `ViewsInv` has to hold between
renders as well. Who shows a session's document made its changes clear the caches (`Stands`), and what is cached of it is
what it now holds (`Fits`): a cached value alone is no proof, one that nobody watches would stay. What a subscribed
component shows is that value, or it is stale (`Fresh`), and an element's view follows the map that is there. The layer, the
view and the editor render one another (`Nested`), so a text of a map that is gone is about to go itself. In a transaction
the caches are emptied first (`CachesStillFit`), so the three hooks that hear of it, one reading after the other,
cannot cache what was (`HearersRead`).

And it proves `AnyGesturesAreSettled`, the `GesturesAreSettled` of `Pointer`, for any fingers, mice and zoom stops. The
invariant `PointerInv` has a part for each thing the pointers share, and an action disturbs one or two of them. `HandsInv`:
the fingers counted are down, each once (`OneFinger`, `OneLess`), a gesture follows as many pointers as its kind takes
(`OfKind`), and all of them are down and captured, so that the host hears each release. `CameraInv`: a glide goes to where
it is heading, and the camera is where the glide left it unless a hand has moved it since, so that presses add up.
`CursorInv`: what waits to be published has a timer. That no finger ends a pen's drag (`PalmChangesNothing`) follows:
what a pinch may take over was begun by fingers.

`Editor_proofs` proves `GesturesAreSteps` and `DragsEndWhole`, for any board, elements, sizes and peers, `TypesHold`,
and `NothingStays`, for any board that has no empty text box at first. The invariant is `Base`, what the state is made of, and `Steadfast`, which holds until a key in mid-drag
or a long pause comes between: each step has one number (`Single`), shares nothing with another and brings nothing
back that another does (`Apart`); while a drag or a field is open, what is written belongs to the last step
(`Current`); and what is edited or drawn never comes back once a peer took it (`NeverBack`), or an undo would open
a field that is nobody's. For the drags, `Traced` says what the hand and the document have in common: what is
dragged is at the place of the press and what the drag has written, and nothing else changed. Undo is where
the weight is: `Popped` may drop steps that no longer do anything and turns one over, whichever way the library
merges it with a peer's changes (`Turns`, `Stacks`). The lemmas on `Write`, `Starting` and each writer of
`elements.ts` (`Kept`, `Added`, `Started`) say what an action leaves of all this. For `NothingStays`, `Lingering` adds
what is on show (`Showing`) and why no undo leaves a text box empty (`Tidy`): a step was never begun on an empty box
(`Proper`), only the open step holds one (`Within`), and the words a step left are still there in the next step that
holds the element, or on the board (`Linked`), so taking it back gives the words of before (`RevertedBacks`).

Of `Drawing` it proves `ResizesLand`: `ResizeLands` and `FarEdgesStay`, two parts of `ShapesAgree`, for any shapes,
handles and drags. `ShapeInv`: the box a handle began with is not inside out unless it is a stroke's, and what was
last asked for is what that box and that handle give. `FittedFacts` is why rounding does not matter: whatever the
offset of a stroke's box is rounded to, its anchor makes up for it.

`BoardHeader_proofs` proves of the three pages' modules, which are one specification, `PagesHaveTypes` under every
race, and the rest each without the races that refute it. `SignsInTruly`: until `GET /auth/me` has answered nobody
else signs in (`Told`), and the one call the form waits for, beside the page that is to come, finds it as it was sent (`Patient`). `PagesStayTrue`: whoever
leaves a page waits for its calls (`Waits`), so a change of a board is out alone, over a list that is loaded
(`Alone`, `Dialogs`); the load that counts is the last one (`Loads`); and the list is what the server has, or will be once
the answer that is out is applied (`Listed`: that `Replaced` and `Prepended` do to the list what `Served` does to the
boards is `RenameServed`, `DeleteServed` and `CopyServed`). The hint: the check of the last generation, and the create
dialog's own call, are of the id in the field (`HintInv`). The title: a rename that is out is the one shown, and the server has
it or never will (`TitleInv`); each opening of the field saves or is escaped, once (`EscapeInv`, under every race).
`PictureKeepsUp`: what no picture shows yet is dirty, and what is dirty has a timer (`PictureInv`).

Model-checked only: liveness and fairness; `QuietIsSynced` over restarts that leave a gap, which holds in the run and
fails in a wider instance (section 10); `WorkStaysOnBoard` of an id's later boards; `SettledWorkStays`; and, of `ShapesAgree` of `Drawing`, what is about
squares of distances and the parts of a stroke, arithmetic that is beyond the provers.

## 13. Not modelled

Rendering, colours and styles, curves and the camera's arithmetic, formatting, validation, mail and media
I/O, configuration, static pages. Shutdown: the order of the hooks in `index.ts` and their timeouts in
`lifecycle.ts`; a process that ends in the middle of any of them is the `Crash` of `BoardPersistence`. Of the
board's rows: listing, and a database that fails in the middle of a request. Of the `"invalid"` answers of
`applyClientUpdate` only the one to a dropped document is in (`Served`). What each module leaves out of its
part is said in its section.
