# Verification of grown

grown is a self-hosted office suite: one Go server (`cmd/server`, `internal/*`) over
Postgres, S3 and a few external services, and a React application
(`web/app`). Most of it is CRUD, one database statement per request. The parts
modelled here are those where several requests, sockets or goroutines work on
the same object (the version history, the two collaboration protocols, video
calls, PDF signing and the on-demand desktops) and one pure algorithm that a
great deal hangs on, the structure operations of spreadsheets. For each there is a
TLA+ module translated from the code, runs of TLC on small instances, and theorems
that TLAPS has checked for every value of the constants.

## 1. Inventory

### Components that hold the difficult behaviour

| Component | State it keeps | Operations | Interacts with | What is hard | What makes it correct |
|---|---|---|---|---|---|
| **Version history** (`internal/versions`, hooks in `internal/server/versions.go`) | `object_versions` rows (content, label, is_auto, created_at), one mutex per object | `AutoSnapshot`, `SessionEnd`, `NameCurrent`, `Rename`, `Restore`, `PruneAuto` | called after saves, after editing sessions, from HTTP; reads and writes the document | each call is 2-5 statements, only part of them under the mutex; content is read before the call | throttle, no repeated snapshot, named versions kept, what a restore read is stored before it writes, no lock left behind |
| **Docs relay** (`internal/docs/collab.go`, `pages/docs/collab.ts`) | rooms, peers with bounded queues, the stored update log | join, replay, relay, persist, leave, drop the room | Yjs tabs over WebSockets, `docs` repository | joins between relay and persistence, full queues, room dropped while joined, viewers' messages | viewers change nothing, what is seen is stored, newcomers converge, rooms are dropped |
| **Slides hub and DeckSync** (`internal/slides/collab.go`, `pages/slides/collabSync.ts`, `useDeckCollab.ts`, autosave in `DeckEditor.tsx`) | room: seq, log, savedSeq, peers; tab: confirmed and shown deck, pending and buffered operations | hello, catch-up, stamp/ack/reject, resend, trim, kick, save, restore, reload | tabs over WebSockets and HTTP, stored deck | lost acks, resends, trimmed logs, new rooms, delayed saves, re-basing | each tab keeps to the room's order, no blind overwrite, every edit is answered |
| **Desktop sessions** (`internal/desktops`) | `desktop_sessions` rows, pod/VM, Service, Guacamole connection and grant | Launch, Stop, Touch, Reap, `provision` | Kubernetes, Guacamole, Postgres | one goroutine per session racing with Stop and the reaper; every call can fail; restarts | no unaccounted workload, a running session can be opened, sessions end |
| **Video calls** (`internal/meet/hub.go`, `pages/meet/index.tsx`) | hub: rooms, peers keyed by user, bounded queues; tab: socket, media, one connection and tile per user | join (presence, roster, announcement), relay, mute, offer/answer, leave, clean up | WebSockets, WebRTC in the browser | everything is sent after the lock is released; each tab learns of each other by up to three messages | two participants see each other, nobody sees who has gone, one side calls, mutes arrive |
| **Sheets structure** (`pages/sheets/formulaShift.ts`, `protection.ts`, twin in `internal/sheets/structure.go`) | a sheet: cells and everything that names places of it | insert, delete and move lines, insert and delete cells | editor, formulas of all sheets | half-deleted intervals, both ends of the sheet, sequences of operations | what names cells goes on naming the same cells; a protected block stays whole |
| **PDF signing** (`internal/pdf/handler/signing.go`, `documents.go`, `sql/queries`) | status of document and signers, access tokens, the signed PDF | send, view, submit, prepare and complete, decline, void, notify next | mail, background goroutines, object store | five and more statements per handler without a transaction, tokens renewed under way | order is kept, completion is earned and not missed, whoever is due has a working link |
| Signalling hubs (`gamerooms`, `telephony`) | rooms, peers keyed by id | join, leave, signal, kick, close | WebSockets | reconnects under the same id, room created before the upgrade, send after unlock | a live peer is in its room, rooms are dropped |
| Broadcast hubs (`sheets`, `whiteboards`, `chat`, `projects`) | rooms, presence | join, relay, leave, session end | WebSockets, version history | the handler waits for a writer that waits for the handler's context | a peer that left is removed, the session ends |
| Radio recorder and janitor (`internal/music/radio`) | tracks, objects | record, sweep, expire, purge | S3, Postgres | two stores, no transaction | no track without its sound, no orphan for ever |
| Rate limiter (`internal/ratelimit`) | token buckets | Allow, sweep | HTTP | refill arithmetic, sweep | never more than burst + rate |

### The rest

`PROJECT.json` lists every component with the reason it is not modelled: drive,
docs/sheets/slides services, mail, calendar, forms, tasks, keep, contacts,
tickets, media libraries, authentication, administration, notifications and
search are CRUD whose consistency is that of single database statements; the
formula engine is a sequential evaluator of some 27,000 lines; cloud import and
live streaming keep one status each; the web application outside the
collaboration clients, games, converters and deployment have no shared state of
their own. `PROJECT.json` also lists the hazards, each at its line.

## 2. Modules

| Module | Models |
|---|---|
| `VersionRows` | rows of `object_versions`, what counts as latest, due, fresh, prunable |
| `VersionHistory` | **abstract**: a history to which whole snapshots are added one at a time |
| `ObjectVersions` | `versions.Manager` with its callers, one database statement per step |
| `ObjectVersions_proofs` | its theorems, the last one that it implements `VersionHistory` |
| `DocsCollab`, `DocsCollab_proofs` | the Yjs relay and its clients; its theorems |
| `SlidesCollab` | slides hub, DeckSync, autosave and restore, composed in one module because the properties relate them |
| `SlidesOrder` | the inductive invariant of slides: the room as an order of entries, and what is on its way to and from each tab |
| `SlidesCollab_proofs`, `SlidesOrder_proofs` | type correctness of slides with the lemmas about its operators; that the invariant holds, and what follows from it |
| `Desktops`, `Desktops_proofs` | desktop sessions; their theorems |
| `Attendance` | **abstract**: who has come to a call, who has gone and whom each session shows |
| `MeetCall`, `MeetCall_proofs` | the signalling hub and the call view of each tab; its theorems, one of them that it implements `Attendance` |
| `MeetPaths` | the inductive invariants of calls: what is on its way from one tab to another, and what the one shows of the other |
| `SheetShift` | the arithmetic of the structure operations: position, span, area, reference, rectangle, and what the guard looks at |
| `SheetStructure`, `SheetStructure_proofs` | a sheet under those operations; its theorems |
| `Signing`, `Signing_proofs` | one document and its signers, one statement per step; its theorems |
| `MC...` | small instances and symmetry sets; a `.cfg` per run |

### Version history

`rows` is the table for one document, in insertion order (`created_at` order; a
deleted row stays with `kept = FALSE`, so that "the previous version" is still
defined). Each row has the reason it was made (`why`: auto, session, name,
restored). Contents are model values; `Empty` and `Oversized` are those that
`snapshotIfDue` skips. A caller's `pc` is the next statement. `lock` is the
per-object mutex; taking it is merged with the first statement under it,
which is sound because nothing else happens between. `Save`, `SessionEnded`,
`Resolve` are what the save hook, the end of an editing session and the HTTP
handler do before they call the manager, `Fail` is a failing statement at any
point. `Reloads` tells sheets (the hook loads the stored document) from slides
and whiteboards (the hook is given it).

Inserting one version is two steps, `InsertAuto` and `PruneAuto`; `Rename`
is three (`RenameGet`, `RenameCount`, `SetLabel`), none under the lock; `Restore` is
its snapshot, `Apply` and `RecordRestore`. `covers` is history: the version in which the
snapshot of a restore found, or stored, what the restore is about to overwrite.

### Docs

A Yjs document is the set of updates it has applied: updates commute and are
idempotent, so sets are exact for what is claimed. A connection's handler goes
through `Open` (`roomFor`), `AddPeer`, `Replay`, then `Relay` and `Persist` per
message, `RemovePeer` and `DropRoom`: the points between which another
connection's handler can run. Queues are bounded by `QueueCap`; `Enqueue` drops what
does not fit and `dropped` remembers that it did; `lost` holds the updates of messages whose
`AppendUpdate` failed. A tab answers a `syncStep1`
with a `syncStep2`, as Yjs does. A tab dials again once its old handler has
returned.

### Slides

A deck maps cells to the operation that wrote each last; an operation's keys are
a set of cells. The hub's `Route` handles stamped, stale, resent, saved and
restored messages in the code's order; a resend is recognised in the log or,
once trimmed, is judged by its base. A tab is a record of DeckSync's fields.
`ghosts` and `late` are the handler of a lost socket which may still read what
was sent on it. `GetDeck`/`Loaded` is the load and the refetch, with any delay
between the read and its arrival; `SaveStart`/`SaveDone` the autosave PUT,
likewise. Three fields are history, which no action reads but to record more of it: an
operation's `saw`, the ordered deck its author looked at; a tab's `settled`, the operations of this
tab that were acknowledged, rejected, or thrown away by a reload; and a tab's `stray`, set when the tab
forgets to re-base what it has pending (section 6). A tab stays stray until it is
reloaded, although it is harmless again once its old operations are answered.

### Desktops

`rows[i]` is session i's row; `recorded` says whether `SetRunning` has written
the names of pod and connection. `up[i]` is which parts of the workload exist.
`task[p]` is what a process is doing: a request between its two statements, session
i's provisioner (process i), or a teardown by a request or by the reaper. Every
Kubernetes, Guacamole or database call is a step that may fail; `BuildFails`
includes a call that landed although the client saw an error. `cleanup` ignores
its errors and `SetRunning`'s is only logged, so `spoilt` remembers the sessions
whose failed call nobody repeats. `Restart` forgets every goroutine.

### Video calls

`stage[t]` is how far the hub's handler of tab t is in `Serve` and in its deferred
function; `outbox[t]` is what it still has to send of the message in hand,
since the hub takes the list of peers under the lock and sends after
it. `queue[t]` is `peer.out` with what is on the socket. `EndServe` needs something
in the queue: the handler waits for its writer, and the writer for a message it
fails to write, because the request's context of a hijacked connection ends only with the
handler. A callRoom goes by the tab it was made for, so that a dropped room and
its successor are two. In the browser, `pc[t][u]` is the tile and the
`RTCPeerConnection` for user u with the part of its signalling state that decides
anything (`new`, `offered`, `answered`, `agreed`), and whether it is polite. Media
may arrive before or after the socket opens (the comment at `index.tsx:840`
says the socket waits for them; the effects do not). The hub and the tabs
together are shown to implement `Attendance`, which has no messages at all.

### Sheets structure

A cell is known by where it was at first; `at[c]` is where it is now. All that
names places (a formula's reference to an area, to whole columns, to whole rows, a
merge, the protected range, the filter with its criteria, print titles) starts
on one block `home`, so that "still names the same cells" can be said. `Apply`
is one `applyStructureOp`. `plain` is true while only whole lines were inserted
and deleted and no model was pushed beyond the end of the sheet: a move or a cell shift
rearranges the cells of an area, after which no rectangle could name them.
`last.passed` is what `canChangeStructure` says of the operation to a guest; operations
are applied whether or not it lets them pass, since the owner may run all.

### PDF signing

`status`, `doc` and `keyed` are the columns the handlers read; `call[c]` is where
an execution of `SubmitSignature` (with its background `notifyNextSigner`),
`PrepareSignature`/`CompleteSignature` or `DeclineSigning` is, and `desk`, `todo` and `whom` are
`SendDocument`'s loop. Of a token only matters whether it is the signer's latest:
`linked` are the signers who have it, `fresh` and `mailing` who is about to be
sent it; `Renew` takes it away from all of them. `pdf` tells whether the stored
signed PDF shows everybody. Statements whose failure the code survives
may fail (`Outcomes`), by kind.

## 3. Runs

| Run | Instance | Shows |
|---|---|---|
| `versions` | 3 callers, 4 requests, 2 ticks, 3 contents, MaxAuto 1, MaxNamed 1 | `AutoSpacing`, `NoRepeatedSnapshot`, `NamedAreKept`, `NewestKept`, `RestoreCovered` |
| `versions_live` | 2 callers, 3 requests, with an oversized blob, reloading variant | `HistoryIsAtomic` (implements `VersionHistory`), `EveryCallReturns` |
| `docs` | 2 writers, 1 viewer, 3 sockets, 1 edit, queue of 2, 1 failure | `ViewersReadOnly`, `SeenIsStored`, `JoinersConverge`, `NoRoomLeaks` |
| `slides` | 2 tabs, 1 cell, 2 edits, 2 losses or saves, logs of 1 (soft) and 2 (hard), queue of 2 | `InStep`, `NoBlindOverwrite` |
| `slides_live` | 1 tab, 2 edits, 2 losses, saves or restores, a hard limit of 1, queue of 2 | `EditsSettle`, `InOrder` (the inductive invariant of section 5) |
| `desktops` | 2 requests, 1 session, 2 failures, 1 restart, 1 late heartbeat | `Accounted`, `RunningIsUp`, `SessionsEnd` |
| `meet` | 2 users with one tab each, queues of 4, 2 events (mutes, failed links, departures) | `MeshComplete`, `NoGhosts`, `MuteShown`, `OneCaller`, `Attends` (implements `Attendance`) |
| `structure` | a sheet of 4 rows and 3 columns, 4 blocks, every sequence of 2 operations | `CellsApart`, `RefsFollow`, `MergesApart`, `FilterFollows`, `TitlesExact`, `ProtectedStay` |
| `signing` | 2 signers, with and without order, 2 overlapping calls, 1 sending, 1 kind of failure, restarts | `OrderKept`, `CompletedIsSigned`, `LastCompletes`, `DueCanSign` |

Every passing run with invariants checks its module's `TypeOK` too, except the two
that only check temporal properties.

Three further runs state what a comment says and refute it (section 6).

**Why the bounds are enough for the cases that matter.** Versions: three callers
are a save, a rename and a restore at once, four requests let a version be made,
named, unnamed and pruned, and with a gap of two ticks a snapshot can be early,
due or exactly due. Docs: three sockets are two present clients and a newcomer,
or one that leaves and comes back; a queue of 2 overflows. This run compares states by the
view `Relevant` of `MCDocsCollab`: `JoinersConverge` says nothing any more after an overflow, a
failure or a departure, so it does not matter which of them it was, nor which room a handler had that has
returned; and of `lost` matters what is not in the log, which only grows. Slides: with one cell
every two operations conflict, which is where stale, resend and re-base decide
anything; a soft limit of 1 and a hard limit of 2 make both kinds of trim happen; two
losses allow a socket lost before the ack and again during the resend. In the
live run the handler of a lost socket may still stamp what it was sent and relay it to the
tab's next socket, on which the tab sends the same again: the answers to that overflow its
queue and it is kicked with operations pending. Trims and rejections happen in it as well. Its
queue of 2 holds the answers to all that can be pending. That matters: with a queue of 1, two
tabs and an operation pending in each, both can be kicked, the room is dropped, and the resends
overflow the queues of the new room again, for ever. In the code this takes more than
1024 operations pending in the tabs of one room, and `EditsSettle` is not claimed for it; with two tabs and
a queue that holds the burst it is too large for TLC. `InOrder` is checked
on the smaller instance because it takes long to evaluate; with two tabs it was checked once, on the
instance of `slides`, in 4 minutes. A stray tab (section 6) appears in both. Desktops: one session is
enough since sessions share nothing but the cap and the reaper's list; two requests
stop and launch at once, and two failures spoil a provisioning and then its
cleanup. An instance with two sessions, one request and one failure passes as
well (660,000 states) and is not repeated here.
Meet: the properties are about pairs, and what a third participant adds to a
pair is only load on its queues, which a queue of 4 already lets overflow; two
events are a departure or a broken link with a mute before or after it. The theorems hold for
any tabs, several of one user included. Structure: 4 rows and 3 columns
are enough for a block with something on every side of it and an operation that lies
before, after, across either end of, inside or around it; two operations find the
errors that come from what the first one left, and the theorems are about any
sheet. Signing: two signers have an order, a last one and a next
one; two calls overlap at every statement, one failure at each. Equal places in the
order and larger sets of signers are left to the theorems. This run compares states
by the view `Relevant` of `MCSigning`, which leaves out what no later step reads and
no property of the run looks at (the signed PDF, checked by `signing_pdf` without a
view; the signer of a call that has counted; which of the other statuses a document
has): two states with one view have the same steps and the same properties.

**Deadlock** is checked for `desktops`. The other instances end when their
bounds on requests, edits, sockets and events are used up, a state in which the
real system would go on, so that `CHECK_DEADLOCK FALSE` is set there; that nobody
waits for ever is stated by `EveryCallReturns` and `EditsSettle` instead.

## 4. Fairness

* **Versions**: strong fairness of each caller's own steps. Every statement ends,
  and Go's `sync.Mutex` hands the lock to a goroutine that has waited for more than
  1 ms (starvation mode), so that a waiter that could infinitely often take the
  lock gets it.
* **Slides**: weak fairness. A lost socket is dialed again after 0.5 to 8 s,
  handlers and readers run, requests are answered, a kicked socket is closed. Nothing is
  assumed of users: edits, losses, saves and restores need not happen, and
  are bounded.
* **Desktops**: weak fairness. HTTP clients have timeouts, `waitReady` and `waitVMIReady` a
  deadline of 2 and 4 minutes, the reaper ticks every minute, and a session nobody
  watches goes idle (`Expire`): the page sends heartbeats for running sessions
  only (`Desktops.tsx:85-91`), and heartbeats that revive an idle session are bounded by `MaxTouches`.
  A session is not let go idle while its provisioner works, because
  IdleTTL (30 minutes, `cmd/server/main.go:257`) is much longer than the timeouts.
  No fairness is assumed of requests.

## 5. Proofs

`tlapm` proves every obligation of the eight `_proofs` modules. The assumptions
are the `ASSUME`s of the modules (disjoint identifiers, natural bounds, finite sets
where they are counted), which TLC evaluates in every run.

**Version history.** `AutoSpacing` and `NoRepeatedSnapshot` are not inductive
alone: they say nothing of a caller that has decided and is about to insert. `IInv`
adds `Decided`: what such a caller found out about the newest version and its age
is still true; and `LockHeld`: a caller at a locked step is the holder of the mutex.
The second is why the first is kept: every insert, a named version's and a restore's
too, needs the lock, and what `Rename` changes without it (label and auto flag)
is not what was decided upon. `Targeted` says that a call works on a version that exists,
`Timely` that
no version is newer than now. `Covering` is `RestoreCovered` from the moment the snapshot of a restore is
inserted: the version `covers` names has the content the restore is about to overwrite, and is stored
unless at least MaxAuto snapshots are newer, when retention may have deleted it. What retention leaves
is the newest MaxAuto auto versions, and auto versions are snapshots (`AutosAreSnapshots`, also after a
`Rename` that made one auto again); rows are only added, so that the snapshots after a version only grow
in number (`StillHolds`). Proved:
`TypeCorrect`, `SnapshotsAreThrottled`, `SnapshotsDiffer`, `NamedVersionsSurvive`,
`NewestSurvives`, `RestoreKeepsWhatItRead` and `Refinement`, that each step is a
step of `VersionHistory` or leaves it alone.

**Docs.** `IInv` adds to the types: what is sent is a client's own
(`SentIsOwn`), what is relayed and queued comes from writers (`RelayedIsWriters`),
what is queued is stored, about to be, or in `lost` (`QueuedIsStored`), and who may still be in, or about to drop, the
room the hub knows (`RoomsKnown`, `RoomIsHeld`). Proved: `DocsTypeCorrect` (queues never exceed their capacity),
`ViewersStayReadOnly`, `SeenStaysStored`, `RoomsAreDropped`.

`JoinersConverge` speaks of a moment when nothing is under way, and needs to know that no socket was ever
closed; it has an invariant of its own, `CInv`. `OpensCounted` (there are at least as many opens as
open sockets) makes a closed socket count for ever: if the two are equal now they always were.
`AuthorsHave` reduces the question to what the author of an update still owes the others. `Calm`
is what holds as long as nobody left: one room with everybody in it (`OneRoom`), newcomers whose syncStep1 and
first edits still wait for their reader (`NewcomersAsk`, `FirstEdits`), and `EditsCome`: an update of w has come
to d, is in the queue of d or on the socket of w, or the question of d has come to w or will be relayed while w
is live. An edit relayed too early for d (not in the room yet) is one that d still asks for; that is
why the race between relay, persist and replay does no harm, and the proof never needs the log. Proved:
`EditsAreUnderWay` and `JoinersAgree`. TLC has checked `CInv` with two writers, a viewer and queues of 5 (4.1 million states).

**Slides.** Neither `InStep` nor `NoBlindOverwrite` is inductive: both compare a tab
or an entry with the log, and say nothing of the messages by which they come to agree. The
invariant is `InOrder` (module `SlidesOrder`), checked by TLC before it was proved. It speaks of
the room as one order `R`: entries with absolute numbers `lo + 1 .. hi`, so that trimming only
raises `lo`; and of what the hub has sent to a tab as one sequence, catch-up first
(`Msgs`). Its parts, gathered in `Stands`, are what the code counts on:

* `Covered`: each entry a tab has not come to is on its way, in order, unless the tab was
  kicked, and then nothing after the gap is; `Placed`: a stamped operation or an ack
  names the place its operation has. Together they are why the tab misses nothing. `News` says which messages
  the tab will heed, since it skips those it has come past.
* `Held`: for every cell the tab has the last write of the entries it has come past,
  buffered operations included while a load is under way. This is `InStep`, without
  the deck being there.
* `Ahead`, `Acks`, `Sent`, `Distinct`: an operation that is pending and has its place is ahead
  of the tab; an ack brings news exactly when its operation is still pending; an operation on
  its way to the hub has its place already (the hub sees a resend), or lost it in a trim that
  makes it stale, or has no answer under way. So none is stamped twice.
* `Based`, `Seen`, `SawAll`: the base of an operation is not ahead of the room, and up to it the cells it
  writes are as its author saw them. With the test of `Stale` this gives `Orderly`, which is
  `NoBlindOverwrite` in terms of the order.
* `Flow`: which messages a tab can meet in which state of its connection, and whose room.

That an action preserves this is a lemma per action (`ReadInOrder`, `JoinInOrder`,
`EditInOrder`, ...). Each reduces to how one tab stands after one change, of the order (`StandsGrows`,
`StandsStamped`, `StandsOwnStamped`), of what is under way (`StandsTold`, `StandsReplied`,
`StandsKicked`, `StandsJoined`) or of the tab (`StandsGreeted`, `StandsSynced`, `StandsAcked`, `StandsRejected`,
`StandsApplied`, `StandsLoaded`, `StandsEdited`). The types are relative to a set `O` of the operations made so far
(`TypeInv(O)`), because ids must not be used twice and the operations with one id agree; `TypedInOrder` asks for some such set.
Proved, for any clients, cells, keys, limits and queues, with and without restores:
`SlidesTypeCorrect`, `SlidesInOrder`, `SlidesInStep` and `SlidesNoBlindOverwrite`.

**Desktops.** `IInv` adds: each session has one provisioner and nobody else
provisions it (`OwnProvisioner`); a row names its workload only when complete
(`RecordedLast`); a teardown that removes parts, and a list entry of the reaper with a
name, saw that name in the row (`SeenRecorded`); and exactly which parts exist at
each step of `provision` and at most which at each step of `fail` (`Progress`).
With these no step of one process can surprise another: a teardown touches only workloads
no provisioner works on any more. Proved: `DesktopsTypeCorrect`,
`WorkloadsAccounted` and `RunningCanBeOpened`.

**Video calls.** `Credible` is the invariant behind the refinement: every peer
of a callRoom, every message in an outbox or a queue names users who have come, and a
leave one who has gone. From it every step of hub and browser is a step of
`Attendance` or leaves it alone: `Refinement`, with `TypeCorrect` and
`CredibleHolds`, for any tabs, owners and queue capacity.

The four properties of pairs speak of a moment when nothing is under way, so none is
inductive; what is under way is what their invariants (module `MeetPaths`) follow, from the
`outbox` of the handler of q through the queue of p to what p shows of q's user:

* `Wired`: a handler sends what the stage it has reached allows, a peer is a tab of that
  user in that callRoom, whoever is in a queue has been served, and whom a tab shows or
  calls has come. All others rest on it.
* `Joined` gives `MeshComplete`: once two are in one callRoom, each shows the other or is about
  to be told, by the presence list, the announcement of the join, or both. A meeting starts either when
  the later one is added, and then the list it reads next names the earlier, or when it is
  announced, and then everybody who is a peer is in its `outbox` (`MeetingStarts`).
* `Left` gives `NoGhosts`: behind the leave of a user nothing else of that user comes
  (`LeavesLast`: it is sent by the handler that relayed the rest, and queues keep the order); and
  each tab that was there before has a leave under way or no longer shows the user and has nothing queued
  that would show it again (`Parted`).
* `Known` and `Called` give `OneCaller`: no list that an elder of a newcomer has still to read names
  it, so that the elder has it as the polite one (`Elder`), and the newcomer is never announced to
  by the elder nor offered to (`Uncalled`); an answer that is under way or taken is the
  answer of an elder that has given it (`Answered`).
* `Heard` gives `MuteShown`, in two legs. The hub's record of a microphone is the tab's, but for
  what is in its socket (`Recorded`); the tile of an elder is the hub's record, but for the flags in
  the outbox and in its queue, of which the last is right (`Flagged`). A flag must not come
  before the join, because the browser drops flags of those it has no tile for: that is `Led`.

The pairs are those the properties are about: the users have one tab that came (`Sole`), queues have not overflowed
between them and their link has not failed; with two tabs of one user, or after a lost message, the hub
keeps none of this. Proved, again for any tabs, owners, queues and numbers of events:
`MeshCompletes`, `NoGhostsHolds`, `OneCallerHolds` and `MuteShows`. TLC has checked the six invariants on the
instance of `meet`, and by simulation with three tabs.

**Sheets structure.** The lemmas are about the maps: `MapPos` is one-to-one and
keeps order under insertion and deletion, `MapInterval` covers exactly the images of what it
covered (`IntervalExact`), disjoint intervals stay disjoint (`IntervalsApart`), `MapCell` is
one-to-one also for cell shifts (`MapCellOneToOne`), a guarded operation moves the
protected span as a whole (`GuardPassesBy`, `BlockGoesWhole`). The inductive invariant `Follows` is the
conjunction of what the state says of references, points, titles, filter and
merges; `CellsApart` needs only the types. Proved, for a sheet of any size, hence for the
1,048,576 by 16,384 of the code: `TypeCorrect`, `CellsNeverCollide`,
`ReferencesFollow`, `MergesStayApart`, `CriteriaFollow`, `TitlesKeepTheirLines` and the action
property `ProtectedStayWhole`.

**PDF signing.** Three invariants. `OrderInv`: whoever passed `CheckOrder` had
everybody before them in `ever`, the set of those who have signed at some time; it
does not shrink although signatures are undone, which is why it, and not the
status, is what order and completion are stated about. `CountInv`: a call that found the counts equal found everybody signed
(a subset of a finite set with its cardinality is the set), and when everybody has
signed either the document has been completed or some call that signed last is still to count or to
complete. `LinkInv`: as long as nothing has happened that locks somebody out, a signer with a token
is one who signed, one whom the list of documents to sign shows (pending or viewed), or one
who has the latest token or to whom it is under way.
Proved: `TypeCorrect`, `OrderIsKept`,
`CompletionIsEarned`, `LastSignerCompletes` and `DueHaveLinks`, for any finite
set of signers, any order (with equal places) and any number of calls.

**Only model-checked:** liveness (`EveryCallReturns`, `EditsSettle`, `SessionsEnd`; TLAPS has
no reasoning about fairness and ENABLED here). Every safety invariant of a passing run is stated by a theorem, and so
are the action property and the refinements. No module uses RECURSIVE operators.

## 6. Where code and comments disagree

| Run | What happens |
|---|---|
| `slides_unsaved` | a delayed save of an older deck overwrites a newer one whose operations are trimmed (`slides/collab.go:407` against `:49`) |
| `structure_titles` | deleting column A drops the print title rows, deleting row 1 the title columns (`formulaShift.ts:563` against `:556`) |
| `signing_pdf` | the signed PDF of a completed document may lack a signature, because the call that read fewer signers uploads last (`signing.go:308` against `:306`) |

The models also show, without a run of their own, that

* `Rename` writes back the `is_auto` it read: a version named in between becomes
  prunable again (`versions.go:263` against `:246`); and a save between the read for a restore
  and its write is overwritten without being in the history (`http.go:210` against `versions.go:267`);
* a client may join a docs room that its last peer is dropping, and the next one gets
  another (`docs/collab.go:88` against `:24`); edits made offline are asked for only by another
  client that joins (`:154` against `:29`);
* a slides operation re-based on reconnect may leave the tab showing another value than the ordered one
  (`collabSync.ts:164` against `:9`);
* a tab that comes to a new room and loses its socket between the fresh `welcome` and
  `synced` is welcomed next as one that is not fresh, which clears `fresh` (`collabSync.ts:146`) before
  `synced` re-based anything (`:164`). It resends what it has pending with bases of the earlier
  room: an operation may be stamped over a write its author never saw ("a stale edit
  cannot clobber a newer one", `slides/collab.go:35`), and one that was trimmed meanwhile might be stamped a second time. `NoBlindOverwrite` without its
  exception of stray tabs fails after thirty steps, and the attempt to prove it is how this was found;
* a call's presence list is sent after the lock is released, so a join or leave may precede it
  although "first" is what the comment says (`meet/hub.go:160`), and the one who gets it
  may keep a tile of somebody who has gone; the leave of one tab of a user removes the user's other tab
  (`:149`); a mute toggled while somebody joins may be overtaken by the older flag of the newcomer's
  roster (`:333`); a leave is announced only once the hub has something more to write to the departed (`:211`);
* `insertCells` may push cells of a protected range off the sheet, which the guard
  checks for whole lines only (`protection.ts:257` against `:270`); a rectangle pushed off the sheet is
  left upside down and later put in order onto cells it never covered (`formulaShift.ts:402`);
* `CompleteSignature` looks neither at the signing order nor at whether the signer
  has signed meanwhile, and neither completes the document nor notifies the next signer (`signing.go:882`); when both
  counts fail, 0 = 0 completes it (`:303`); a document that is voided or declined can still be signed
  and completed (`:203`); sending again undoes signatures (`documents.go:317`).

## 7. Assumptions and abstractions

* One server process; one document, deck or table per instance. One clock, the
  database's; `created_at` order is insertion order. A database statement is
  atomic. No collision of the content hash.
* Versions: blobs are model values, labels are empty or not. Listing and
  authorisation are left out.
* Docs: awareness messages are left out. `OfflineEdits` is FALSE in the
  run, and `JoinersConverge` says nothing of offline edits: with them it would be refuted, since the hub
  does not ask a tab for what it edited offline. The other theorems hold for both.
* Slides: a tab has one present socket and at most one lingering handler. Left
  out: presence, tabs without hello, viewers (their operations are dropped),
  HTTP failures, undo. The save that `prepare` makes before a restore is covered
  because the restore overwrites the stored deck anyway.
* Desktops: VM flavors go through the same steps (`provisionVM`), volumes are
  kept on purpose and are left out. `Accounted` asks that a row *names* what runs;
  the row may say "stopped", when `SetRunning` landed between `Stop`'s read and
  its `SetState`: then the workload runs on under a stopped row. After a restart
  a pod may stay that no row names; `spoilt` excludes exactly those sessions,
  while `SessionsEnd` still holds for them. Both are listed as hazards.

* Meet: what a browser awaits within one message is one step; chat, ICE candidates, screen
  sharing and the camera and hand flags are left out. `MeshComplete`, `NoGhosts`, `MuteShown` and
  `OneCaller` are about users with one tab, and except tabs for which a full queue dropped
  a message and links that failed: nothing repeats either. A writer that is hung
  counts as still in the call.
* Structure: contents are left out, so is everything that follows by the same
  `ShiftRect` and `MapCell` (conditional formats, validations, comments, borders),
  and tables and charts, which do more. Operations are those `Validate` of the Go twin lets pass
  and the editor makes. `TypeOK` asks that cells are on the sheet, and not that rectangles are.
* Signing: all signers are of type `signer`, as the editor makes them (`PrepareDocumentPage.tsx:207`); the code compares a
  count of all signed rows with one of this type. The signers and their order do not change once sent.
  `CompletedIsSigned` excepts a failed count, `LastCompletes` failures of the
  statements that decide it, and `DueCanSign` a second sending, a first signer who is done before the
  sending, and lost mails and tokens: after each the code does lock a signer out.

## 8. Plan

Done: versions, docs, slides, desktops, video calls, sheets structure, PDF signing,
in this order. What is left, with what each would add:

1. **Games and telephony hubs**: the life cycle of `MeetCall` with kicks, hosts and displaced
   connections (`gamerooms/hub.go:328`, `telephony/hub.go:208`).
2. **Broadcast hubs** (sheets, whiteboards, chat, projects): room life cycle of the
   docs relay without log; when an editing session ends, which is what `SessionEnded` of
   `ObjectVersions` waits for (`sheets/collab.go:172`).
3. **Radio cache**: recorder, sweep, purge, a user's untrash over rows and objects; no row
   without its object, orphans go.
4. **Desktops**: two sessions of one user against `MaxPerUser` (`service.go:156`) and a late heartbeat against the
   reaper (`reaper.go:21`); the module has the steps.
5. **Sheets structure**: tables and charts, and the Go twin run against the same module.

Not modelled, and not planned: everything in section 1 under "The rest", for the reasons given there and in
`PROJECT.json`; the rate limiter, whose calls are atomic under one mutex.
