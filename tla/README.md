# LibrePaper: TLA+ models and proofs

LibrePaper is a collaborative LaTeX/Markdown editor. Browsers edit a CRDT
document; one server process at a time owns the writer lease and keeps, per
document, a *sequencer* that buffers edits, relays them and writes them to
PostgreSQL as an append-only row log that is folded now and then into a base
snapshot in the object store. This directory models that path from keystroke to
committed row, the process machinery around it (registry, rooms, byte pool) and
the background worker that compacts, deletes and erases. Beside it stand three
protocols that run over the same documents: a directory that synchronises with
a web project (command line and companion), the local assistant (browser, chat
relay and companion), and the tracked changes of a text file.

Definitions called `Faulty...` are not part of the models. Each is a way the
definition it precedes could have been written wrong, and breaks the property
it is paired with in `PROJECT.json`.

## 1. Inventory

### Parts that are modelled

| Part | State | Operations | Interacts with |
|---|---|---|---|
| Sequencer (`log/sequencer.rs`) | `buffer`, `next_seq`, log vector, head vector, decoded cache, `has_base`, base vector, subscribers, fenced flag, the `transaction` gate | ingest, flush, adopt or fence after an ambiguous flush, command, join, build, activation | browsers (relay, ack, durable), PostgreSQL, worker |
| Row log (`document_log.rs`, `ownership.rs`) | writer epoch and holder, `sequence`, rows, base, recorded operations | insert under epoch and sequence check, activate base and delete rows, claim the lease | every server process |
| Registry (`log/mod.rs`) | `resident`, `admitting` slots | get, release_slot, retire_fenced, retire_idle, housekeep | rooms, sequencers, sweeper |
| Rooms (`room/mod.rs`) | open room and the sequencer it holds, members | get, leave, housekeep | registry, sockets, sweeper (`serve.rs`) |
| Byte pool (`log/pool.rs`) | used bytes, a `Notify` | take, try_take, give_back | every task that holds document bytes |
| Budgets (`budget.rs`, `pending.rs`, `evict_caches`, the callers in `sequencer.rs`) | reservations of tasks and of decoded documents, the documents' locks, what a pass has evicted | reserve, evict, build, fork, command, grow, join, reset; reserve_scratch, try_scratch | byte pool, sequencers |
| Editing session (`project-session.js`, `room.js`, `socket.rs`) | local document, send numbers, unacknowledged map, durable vector, retry timer, socket | edit, send, doc-open, doc-update, ack, durable, refusal, reconnect | socket loop, sequencer |
| Deadlines (`schedule.rs`) | deadline map, refusal time | admit, refuse, due, clear | worker |
| Web project (`source_change.rs`, `labels.rs`, `history.rs`) | accepted files, head identity, labels | source change with its replay and refusals, name, trim, the history page | directories |
| Directory (`librepaper-sync`, companion `connection.rs`) | working tree, commits and refs, the saved `State` with its pending push and fetched version | push, pull of a folder and of a repository, merge, promote, status, resolve | web project, git, a person |
| Assistant (companion `assistant/`, server `chat/hub.rs`, `agent-client.svelte.js`) | the saved task list, the active task, turns and permission requests; the relay's sockets and seen requests; the browser's tasks and deliveries | admit, dispatch, report, replay, cancel, stop, time out, recover; attach, detach, deliver; submit, retry, answer | each other, an agent process |
| Tracked changes (`track.rs`, `track-changes.js`) | change and fragment records with cursors and ranks, in the shared document | plan and write an edit, accept, reject, prune | the replicated text, other peers |
| Worker (`worker.rs`) | channel, rescan bit, local tasks, deadlines | run loop, scan, delete a document, erase an account, orphan-sweep clock | catalogue, object store, request handlers |

### Parts that are not

Single-transaction catalogue queries, HTTP routes, row framing, the document
projection (pure functions over the external CRDT library), command line and
user interface have no concurrent state of their own that these properties
depend on. Chat reservations, blob grace periods and superseded bases, the pool
of unsaved bytes, the storage ledger, the outgoing socket queue, comments and
their anchors do; they are in the plan (section 7). Backups and source archives
are file and object I/O. `PROJECT.json` lists every part with its status.

The modelled parts are the ones whose correctness depends on the order of
steps. Most of the repository's code by volume is not of that kind: request
parsing, configuration, sign-in, rendering, formats, SQL of one statement, and
tests. A model of it would restate it, so the models stand for a small share of
the lines. Within the modelled parts the following is left out:

* *Directory.* Excluded, ignored and refused paths; branch pinning; merges of
  lines inside a file (a merge here is by whole files); asset uploads; the
  remote Git service; publishing and signing in; two programs working on one
  repository at once. A status request reads page and files in one step.
* *Assistant.* The answer's text, the journal's results, previews and
  rendering, two requests under one id, the lease and the execution epoch, the
  bridge and its grant file, and the registry apart from stopping a runner. An
  agent is assumed not to ask for permissions after its own stop. A final frame
  sent right before the process exits is taken as lost.
* *Tracked changes.* Records of the earlier model, edits of several ranges at
  once, the fields that no decision depends on, UTF-16 widths, exhaustion of
  the ranks' floating point, undo, and the settling time: `Prune` stands for
  the first prune that marks a record and the one after the rest.

### What is hard

* A flush or a command commits and its reply is lost; the batch, the sequence
  number and the retry must agree on whether it happened.
* A process that lost its lock goes on while its successor writes.
* Edits, joins, flushes and compactions of one document interleave around two
  locks, one of which is released across every await.
* The registry and the sweeper take three locks one after another; a socket
  can come or go between any two.
* The browser must decide what "saved" means from acknowledgements, durable
  vectors, refusals and reconnections that overtake each other.
* The worker's queue and deadline map are bounded and refuse; durable rows and
  a single rescan bit must bring back whatever was refused, and a restore can
  race a purge.
* A push posts a change and may never hear of it; a pull writes files, refs and
  its own state one after the other; the person goes on editing, committing and
  merging, and the web goes on moving.
* An assistant's task must run once although every message about it may be
  resent, and what it is allowed must not leak into the next task.
* One edit rewrites the records of several authors, whose cursors other peers
  move at the same moment.

The hazards, each at its line with the properties that would catch it, are in
`PROJECT.json`.

## 2. Modules

**VersionVectors** — the CRDT's changes as pairs of peer and counter, and a
version vector as the (downward closed) set of changes it covers. `End` of a
batch is the vector a batch raises its peers to. This is external library
behaviour, taken from how the sequencer uses it.

**DurableLog** — the abstract promise: what is stored only grows, each change
was made by somebody before it is stored, and only stored changes are announced
as saved.

**Sequencer** — every server's sequencer of one document, the database tables
they share, and the browsers' documents. A step is what happens under the
`inner` lock or in one transaction. A flush, join and compaction are several
steps, with the `transaction` gate as `GateFree`. `flight`, `joining` and `snap`
hold what the code keeps in local variables across awaits. Database failures
come as "not applied" and "applied, reply lost"; the re-read after an ambiguous
flush can fail too. Servers crash, lose their lock, exit, and are succeeded by
a higher epoch.

**Residency** — `Registry::get` with its three lock sections and its slot,
`Rooms::get` and `leave`, and the sweeper's pass: each critical section is a
step and program counters stand for the points between them.

**BytePool** — every atomic access of `take`, `try_take` and `give_back`, with
the counter's width (`WordMax`) and tokio's `Notify` modelled from its
contract as the code relies on it: `notify_waiters` wakes the waiters that were
already enabled.

**Budgets** — who asks the pool, and what they hold meanwhile. A behaviour is
about one of two pools. On the scratch pool, mandatory drains wait for ever and
other flushes try once. On the memory pool, `Budget::reserve` is its probe, its
eviction pass and its take with patience; its callers hold a document's lock,
and `build` the document's reservation too while it asks for the peak's.
`holds` and `cache` are the reservations, by who owns the guard. Subscribers,
which order an eviction pass, are left out: the order is arbitrary.

**EditorSession** — one browser's session and its end of the socket. The server
side is reduced to what the browser can tell apart: the buffered and the stored
prefix of its changes, each answer of ingest, the loss of a buffer, and a room
over a fenced sequencer, whose doc-open closes the socket. An edit is some units
of text, so that a batch can be too large. A refusal for good carries no vector
and the browser does not retry it (`IngestRefused`); an oversized batch that
travels in parts closes the socket instead (`IngestTooLong`). Updates are
dropped while the session is not joined, which lasts from `Noticed`, two seconds
after a socket went, to the answer of the next doc-open.

**Deadlines** — the worker's schedule as an operator module over one record.
Instants are the time left until them, so that a tick is a subtraction and the
state space is finite. A retry's delay is the doubled base while that is within
the ceiling, and the ceiling afterwards.

**Worker** — the run loop in the order of its `select!` branches and drains,
one account and its documents. Included are the catalogue's trash, restore,
empty-trash, claim and erasure transactions where they meet the worker. A page
is described by what the query returns (`Pages`: ids in increasing order, and
whatever it leaves out lies behind a full page), not by how; one of the scan is
one step per query group; reading an account's page and deciding
that nothing is left is one step, since the documents of an erasing account
only become fewer. The initial states (`Backlog`) are the documents an earlier
process may have left: live, in the trash, or claimed for purging.

**Project** — a web project as a directory meets it: files, head, labels; a
source change is replayed by its label, refused, or applied with a label in one
transaction. An edit in the browser is one step (its own path is `Sequencer`).

**Sync** — extends Project by the directory: a plain folder, a repository the
command line drives, or one the companion's connection drives. `op` is the
transfer under way with what it holds in memory; each network answer, each file
write, the ref's move and each save of the state is a step, and `Stop` may come
between any two. A request whose sender gave up may land later. Git is external:
commits are trees with their ancestors, and a merge takes each file from the
side that changed it.

**Assistant** — runner, relay, browser and agent. Each branch of the runner's
`select!` and the dispatch in front of it are actions; the save of a dispatch
and its prompt are two. `disk` is what a crash leaves. A socket may be dead
(`broken`) before the relay notices. `limit` holds the three sizes the code has
apart: full records kept (256), tasks not ended (32), and the window of newest
records that `reconcile` shows again to a browser that comes back (32).
`prompted`, `grants` and `ahead` are
history variables.

**TrackedChanges** — the planner, the writers and the decisions of `track.rs` as
operators over one copy of the document, named after the functions; the actions
are those of a peer's editor and reviewer, and `Import` of another peer's work.
The replicated text and maps are external: characters keep one order for all
peers, and of two writes of a key the later wins. The browser's
`track-changes.js` is the same algorithm, and some definitions are mapped to it.
`fate`, `owed` and `twice` are history variables.

**SequencerProofs**, **SequencerRefinement** (extends it), **ResidencyProofs**,
**BudgetsProofs**, **EditorProofs**, **WorkerProofs**, **AssistantProofs**,
**SyncProofs** — theorems (section 4).
**MCSequencer, MCResidency, MCBudgets, MCSync, MCAssistant, MCTrackedChanges** —
constants for TLC.

### Abstractions to know of

* The text of an edit is not represented, only which change it is. A batch
  therefore equals its resend. `IngestResend` is the resend under another
  number, which the exact-duplicate test of ingest (`sequencer.rs:1187-1197`)
  does not recognise and which is appended though it brings nothing new; the
  exact duplicate changes nothing and is no step.
* Outside `Budgets`, rate limits, byte budgets and quotas appear as the refusal
  they cause.
* Reader subscriptions and source digests follow the same relay and are left out.
* `CompactionOutlivesFence` says whether a compaction may reach its activation
  after its sequencer was fenced and replaced. The code allows it. The passing
  runs set it to FALSE so that what else holds can be seen; run `outlives`
  shows what it breaks. The theorems hold for both values, except `BrowsersInSync`
  and `CachesAtHead`, which have it FALSE as a hypothesis.
* In Sequencer and EditorSession a server whose sequencer is fenced may let go of
  it or keep it for ever. The code may do either: `stuck_room` and `stale_slot`
  show how it is kept. The two progress properties are therefore conditional.
* In EditorSession an ingest that meets a fenced sequencer is refused and its
  socket is then closed by force; both are part of `Lose`. The check of the
  document's metadata between a socket's opening and its doc-open is part of
  `Connect`. A session ends if the document or the rights to it have changed.
* Worker tasks for archives, superseded bases and compaction share the channel
  in the code. With a one-place channel refusals happen all the same.
* In Worker, `Outstanding` leaves out a document restored after its account's
  erasure began: `restore_document` does not look at the account's status, and
  such a document holds the erasure up for as long as it is live.

## 3. Runs

| Run | Checks | Shows |
|---|---|---|
| `log` | `TypeOK`, `LogBacked`, `HeadBacked`, `AppliedOnce`, `InSync`, `CacheAtHead` | vectors never claim bytes that rows, base and buffer do not hold; a retried command is applied once; a join's answer and the relays that follow leave no hole; the cache is the document at the head |
| `takeover` | `AnnouncedDurable`, `DurableGrows`, `ImplementsDurableLog`, `EditsSaved` | crash, lost lock and next epoch: nothing is announced before it is stored, nothing stored is lost, and with finitely many failures, and no server stuck on a fenced sequencer, every edit is stored and announced |
| `residency` | `TypeOK`, `OneSequencer`, `GetReturns` | one live sequencer at a time; every get returns |
| `pool` | `Accounted`, `NoMissedWakeup`, `EventuallyServed`, `OperationsEnd` | exact accounting at the counter's limit through builds that fail half way, evictions and growth; no missed wake-up; two builds that hold what the other needs both end |
| `editor` | `SavedIsStored`, `QuietIsSaved`, `EditsEventuallySaved` | "saved" means stored; an idle session has nothing unsaved but what it was told is refused for good; every edit ends up saved while batches fit and fenced sequencers are let go of |
| `worker` | `TypeOK`, `SweepOwed`, `Reminded`, `RestorableIsWhole`, `BacklogDrains` | the sweep's clock is never lost, an asked deletion keeps a reminder, a restorable document keeps its objects, the durable backlog drains |
| `sync` | `WebKept`, `LocalKept`, `BaselineWasThere`, `NothingHidden`, `PushRemembered` | neither side's unsent or unseen work is written over, the baseline is never invented, "up to date" is true, a posted change is not forgotten |
| `assistant` | `TypeOK`, `DispatchedOnce`, `GrantsInTurn`, `ShownAsRecorded`, `NotStranded`, `CancelEnds`, `OutcomeStays` | a task runs at most once and its permissions stay in it; the browser ends up showing what the runner has of the tasks in the window; no task is waited for that nobody has |
| `track` | `Attributed`, `OrderKept`, `NothingLost` | every character is where its history says and is its author's; the original keeps its order; concurrent peers lose none of it |
| `outlives`, `stale_slot`, `stuck_room` | `InSync`, `ReadmitsAfterFence`, `ReconnectReaches` | the three disagreements of section 6 |

### Bounds

`MaxOps` bounds the changes of each peer, `MaxFaults` the failures,
disconnections and resends together, `MaxRounds` a flush's rounds, `MaxCalls` and `MaxBytes` a reader's,
`MaxFailures` failed admissions, `MaxEdits` and `MaxRefusals` the session's,
`MaxRequests` the worker's callers.

* *Sequencer.* Two changes of one peer are what an out-of-order batch needs and
  two faults what an ambiguous flush whose re-read fails needs; two browsers
  are needed for a join beside a relay and two servers for a takeover. Those
  three dimensions multiply. `takeover` has the servers; `log` has the browsers
  and the edits, but not both at once: its constraint `FewEdits` lets two
  browsers make one edit each, or one make two while the other stays away. The
  two browsers are symmetric, which is sound for invariants. The run
  activates bases of both modes, full and shallow.
* *Residency.* Two callers, and three sequencers and slots: one to be retired,
  one to replace it and one to race the replacement.
* *BytePool and Budgets.* A limit of two with a two-bit word makes two requests
  overflow; two drains and a flush leave two waiters for one release. Two
  one-byte documents whose builds need two bytes each are enough for mutual
  waiting, and a document of two bytes that grows for one that never fits. Two
  calls of each reader have also been run, for the invariants alone.
* *EditorSession.* Up to four units of text, of which a batch of two is accepted,
  one of three is refused in a frame and one of four travels in parts: an edit,
  or several edits caught up on at once, can be of each kind. Two faults give a
  refusal and a drop, or a loss and a late update, in one behaviour.
* *Worker.* One place in the channel, one in the map and one row a page make
  every refusal path happen within a few steps; two documents keep a page full
  while work remains. The `Backlog` start supplies what an earlier process left,
  so one request is enough for the races.

* *Sync.* A text and a binary file, since they are validated by different code;
  two events (edits on either side, names, trims, faults, aborted merges) between
  any of the transfers, which are themselves unbounded. A lost answer and an
  edit, or a stop and a trim, are two.
* *Assistant.* Two tasks, so that one can leak into the other; room for one
  full record, so that eviction happens, or for two with a window of one, so that
  a task that is still there is not shown again; two events.
* *TrackedChanges.* Two characters and three edits by two authors on one copy
  are enough for a span to be cut by another author, joined, emptied and
  decided; two copies with an edit each (or two on one) for every concurrent
  pair. Three characters on one copy have also been run, in about four minutes.

Deadlock is checked in `residency` and `worker`. Elsewhere the system may rest
once its bounds are used up.

### Fairness

* *Sequencer (`FairSpec`).* Weak fairness of each server's own steps (flush
  timer, replies of PostgreSQL, sweep), of the supervisor's claim and of a
  browser's send. Strong fairness of the read that begins a join: the browser
  reconnects until it is in, and the room it asked for is held while it joins,
  so retiring cannot starve it. `RetireFenced` has no fairness: `EditsSaved`
  has as its condition that no server stays with a fenced sequencer.
* *Residency.* Weak fairness of a get's steps and of the sweeper; strong
  fairness of locking a slot, again a queueing mutex; and weak fairness of
  leaving a room whose sequencer is fenced, since a fence drops its subscribers'
  sockets.
* *Budgets.* Weak fairness of each task's own progress: threads are scheduled,
  a reservation is held by a guard whose drop is certain, reads, writes and
  imports end, and a deadline passes. Strong fairness of a document's lock,
  which is tokio's queueing mutex. Calls themselves are not fair, and finite.
* *EditorSession.* Weak fairness of the socket loop, the flush, the retry timer
  and reconnection; faults are finite and owed nothing. `LetGo` has no fairness.
  `EditsEventuallySaved` has two conditions: the server a browser reaches does
  not stay with a fenced sequencer, and no batch under way is over the limit.
* *Worker.* The loop works again and again while it can (weak fairness of
  `Work`, written with its guard `CanWork`, since `ENABLED` of the composed
  action is expensive); strong fairness of time's `Tick`, which is disabled
  while the loop is between two awaits; weak fairness of a caller that has
  already begun to ask. Requests themselves are not fair.
* *Sync, Assistant, TrackedChanges* state safety only. `CancelEnds` says that a
  cancellation always has a deadline or a stop behind it; that the deadline then
  fires is not stated.

## 4. Proofs

Every theorem holds for any values of the constants: any sets of servers,
browsers, commands, callers, tasks and documents, any sizes and bounds. The
only assumptions are the named ones of the modules (`SequencerAssumption`,
`WorkerAssumption` and so on), which say that bounds are numbers, that the sets
used for different things are disjoint, and little more. In each module the
theorem `Invariant` is the inductive invariant and the properties follow from
it. SequencerRefinement has two, `Provenance` for the promise and `SInv` for
sharing; SyncProofs has one of the state's shape (`ShapeAlways`) and one more
for each question asked of it.

| Theorem | Property | Run that checks it |
|---|---|---|
| `SequencerProofs!TypeCorrect`, `SavedMeansStored`, `VectorsBacked`, `HeadsBacked`, `NothingLost` | `TypeOK`, `AnnouncedDurable`, `LogBacked`, `HeadBacked`, `DurableGrows` | `log`, `takeover` |
| `SequencerRefinement!CommandsOnce`, `KeepsPromise` | `AppliedOnce`, `ImplementsDurableLog` | `log`, `takeover` |
| `SequencerRefinement!BrowsersInSync`, `CachesAtHead` | `InSync`, `CacheAtHead` | `log` |
| `ResidencyProofs!TypeCorrect`, `NeverTwoSequencers` | `TypeOK`, `OneSequencer` | `residency` |
| `BudgetsProofs!CounterExact`, `WakeupsReach` | `Accounted`, `NoMissedWakeup` | `pool` |
| `EditorProofs!SavedTruly`, `NothingForgotten` | `SavedIsStored`, `QuietIsSaved` | `editor` |
| `WorkerProofs!TypeCorrect`, `ClockKept`, `DeletionsReminded`, `RestorableWhole` | `TypeOK`, `SweepOwed`, `Reminded`, `RestorableIsWhole` | `worker` |
| `AssistantProofs!TypeCorrect`, `PromptedOnce`, `GrantsAreInTurn`, `BrowserCatchesUp`, `NobodyWaitsInVain`, `CancellationsEnd`, `OutcomesStay` | `TypeOK`, `DispatchedOnce`, `GrantsInTurn`, `ShownAsRecorded`, `NotStranded`, `CancelEnds`, `OutcomeStays` | `assistant` |
| `SyncProofs!WebKeptAlways`, `LocalKeptAlways`, `BaselineWasThereAlways`, `NothingHiddenAlways`, `PushRememberedAlways` | `WebKept`, `LocalKept`, `BaselineWasThere`, `NothingHidden`, `PushRemembered` | `sync` |

### The log (SequencerProofs)

The theorems hold for either value of `CompactionOutlivesFence`. None of the
four properties but the type is inductive. That an announcement is stored
depends on the log vector of the server that makes it, which depends on the last
flush or on what the server read when it opened the document, which depends on
the rows at that time and on no compaction having deleted them since. The
invariant ties these together with one idea: every vector that anything *holds*
as coverage — a row's, the base's, a snapshot's under way, a server's log
vector, a written flush's — is a *point* (`IsPoint`): the coverage of the one
history of the log at some sequence number. Its conjuncts:

* `Chain`: points are ordered, a later one covers an earlier one, so two points
  with one sequence number are equal;
* `Behind`: no point is ahead of the sequence, and all of it is stored;
* `Tip`: the last row, or the base when there is none, carries the sequence;
* `Labelled`: bytes are covered by the vector written next to them;
* `Local(s)` = `Resident`, `InFlight`, `Headed`: a server with no sequencer has
  no buffer; a flush under way names a prefix of the buffer and a vector
  between the log's and the head's; the head claims storage and buffer only;
* `Joined`: a join in progress is a browser's;
* `LogBacked`, `AnnouncedDurable`.

A stale server needs no special case. What it holds is an old point, and every
write it tries fails on epoch or sequence. There is one lemma per action, each
with a step per conjunct the action disturbs, and frame lemmas for the rest.

### The promise (SequencerRefinement)

`ImplementsDurableLog` needs to know where stored bytes come from. `Made`: every
change anybody carries, in storage, a buffer, a join's answer or a browser, was
made by the browser or command it names. `Once`: a stored change of a command is
the only one, and its outcome is recorded, so a retry on any server finds it.
With both, each step of the log is a `Step` of `DurableLog`, or leaves its
variables alone.

### Sharing (SequencerRefinement)

`InSync` and `CacheAtHead` have the hypothesis `~CompactionOutlivesFence`.
Without it they are false: run `outlives` is the counterexample. Only the writer
is meant (`lease[s] = epoch`). The invariant adds to the promise's:

* every vector is downward closed per peer (`StoredCuts`, `Cuts`), so covering
  it and being able to show it are the same;
* the writer knows the base that storage has (`Knows`);
* `Joins(s)`: what a join has read covers every row from where its reply will
  start, and what it copied or was relayed since covers the buffer. This is
  where the gate is used: a flush between the scan and the registration would
  break it, and `Present` says that a join and a flush exclude each other.

### The registry (ResidencyProofs)

`Known`: a sequencer that is not fenced is the resident one, or one that a
caller has admitted and is about to insert. Two of the second kind are excluded by
`Locked` and `Mapped`: a caller that passed its re-check holds the mutex of the
slot in the map. `Vacant` and `ScanHolds` carry what a caller and the sweeper
read under one lock to where they use it under the next.

### Pool and budgets (BudgetsProofs)

`TaskInv` says for every point of a task what it holds and which document's lock
it owns, with the release's notification (`At`) not counted as a point of its
own. `Counted` compares the counter with the number of reserved bytes, as sets of
pairs of owner and byte, so that no sum over a set is needed. `WakeInv` is the
argument against a missed wake-up: a patient task is registered before it looks
(`Listens`), what it saw is only out of date when a release is about to notify
(`Sensed`), and so is its decision to wait (`WaitsRightly`).

### The session (EditorProofs)

`Frames`: each frame under way names a head or a log that was there and still is,
since the head falls only together with the socket. `Pursued`: the last edit is
at the head, on its way to it, refused for good, or the browser has a retry or a
refusal coming.
`QuietIsSaved` is `Pursued` with everything that can still happen taken away,
and `HeadReached`. The proof needs nothing of the size limits but that they are
positive numbers.

### The worker (WorkerProofs)

`SweepOwed` and `RestorableIsWhole` are inductive with `Phases` (what the loop
has in hand at each step; a document being purged is claimed) and with the types,
which for the schedule say that it stays within its capacity and that a due time
is no further away than the ceiling or the grace. `Reminded` is not:

* it counts the walk of an account as a reminder, but a walk of an account that
  is not being erased visits nothing. `WorkReminded` leaves those out;
* a claim can lose against a restoration followed by a second deletion of the
  same document. The task is then cleared as if it had succeeded, and it is the
  second deletion's own ask, rescan bit or deadline that is left. `ClaimReminded`
  says that it is.

Lemmas say for each operation of `Deadlines` which tasks stay armed and when a
refusal is noted, and what a page is (`PageParts`): what it leaves out lies
behind its last id, where the walk goes on.

### The assistant (AssistantProofs)

`TaskInv(t)` relates one task's record in memory, on disk, in the browser and in
the history variables. The clauses for `t \notin ahead` are the ones the
observation on `publish_answer` in section 6 makes necessary. `Listed` is the
task list, `Working` the active task with its pending requests and its deadline,
`Turns` counts the agent's turns so that a late permission request is
recognisably of an earlier one, `Relayed` follows a submission from the browser
through the relay's memory to the runner's inbox, and `Told` says what a
connected browser shows: of each task in the window, the record. The window moves
only forward, since a record leaves the list only when a newer one is added, so a
task that enters it is a new one and is reported as such.

There are some thirty actions and eight conjuncts. What a step does to one task
is therefore classified first (`Move(t)`: its record stays, is reported, resent,
refused, recovered and so on), and `TaskInv` is shown once per class and not once
per action.

### The directory (SyncProofs)

The theorems hold for any paths and contents, any number of
versions, edits, lost answers, stops and late requests, and all three kinds of
directory at once. There are twenty-odd actions and three copies of the
directory's `State` (on disk, held by a transfer, held by the status route);
`Notes` is the set of those in existence, and most conjuncts are about all of
them.

* `Shape` types every variable and says what the others build on. `Grown`: a
  commit's parents come before it, so that the history is well founded, only
  grows, and what was reachable stays so. `Fits`: the commits a `State` names are
  there, and what it fetched is on `refs/librepaper/main`. `Course`: a transfer
  that sends holds exactly its request as pending, and any other holds none.
  Lemmas show for `Chained` (one commit of `chain.rs`), for the walk over the
  versions and for `Fetch` as a whole that the branch only moves forward and
  ends at the project's files; for the walk by way of the least version at
  which that would fail.
* `Remembers` (for `PushRemembered`): of every key on the web or on its way, the
  sender was told or has it saved as pending. It has to speak of requests on
  their way because a late copy may land after its sender gave up. It is about
  folders and the command line's repositories: the status route of a connection
  can put an older `State` back (section 6).
* `Watching` (for `NothingHidden`, and for the same two kinds): every `State`
  that has the project's head for read has its files recorded or on the branch,
  and no `State` is ahead of the project. What a pull is about to save is included: `op.found.head` is
  read before the files, so it may be older than they are and never newer. That
  order in the code is what the proof rests on.
* `Sourced` (for `BaselineWasThere` and `LocalKept`): what is recorded, fetched
  or being pulled was the project's once; and what a request put was there from
  the moment a label carries its key, however late its answer. For this, two
  requests with one key must be one request.
* `Possessed` (for `WebKept`): this side has had whatever is recorded, in a
  request, in a commit reachable from HEAD, or in the working tree outside a
  merge. A fetched version is not had yet; it is on the branch (`Owned`) and is
  had once that branch is merged, which is why a pull may promote only then
  (`main \in Reach(commits, HEAD)`). `Settling` follows a folder's pull file by
  file: what it records was written, or was there when it scanned.

Two things came out of the attempt. `NothingHidden` was first stated as
`web \in {Recorded, Branch}` with the lost fetch excused by name. The induction
fails, and five events show it: when a pushed commit holds a path that exists
only here, the branch keeps that path and so differs from the project though
nothing of the project is missing; the run's two events do not get there. The
statement is now about the project's files (`Shown`) and no longer excuses the
lost fetch, except for a path deleted on the web that was never recorded as
synchronised. And `Init` gave the first commit by a CASE whose guards overlap,
which leaves its value open in TLA+ where TLC takes the first; it is an IF now.

## 5. Only model-checked

* All liveness: `GetReturns`, `EventuallyServed`, `OperationsEnd`, `EditsSaved`,
  `EditsEventuallySaved`, `BacklogDrains`. Proofs under fairness and with
  `ENABLED` are outside this prover.
* The three invariants of `TrackedChanges`: `Attributed`, `OrderKept`,
  `NothingLost`. A step of that model is not a few assignments but the whole
  planner: folds, sorted sequences and counts over the records and over the text,
  whose result the invariants read off again through `resolve_file`. What a fold
  or a sort returns for every input is an induction over data with the folded
  operator as its parameter, and the provers here instantiate no such theorem.
  The argument by a least counterexample that SyncProofs makes for one walk
  would have to be made for each of a dozen folds, nested in each other.
* `ReadmitsAfterFence`, `ReconnectReaches` and, for compactions that outlive their sequencer,
  `InSync`: these are violated (section 6).

## 6. Where the code disagrees with what it says

1. **`stale_slot`** — a `get` that finds the sequencer on its re-check fills the
   slot and does not release it (`log/mod.rs:179`). After a fence the slot still
   hands out the retired sequencer; `log/mod.rs:335` says the next get re-admits.
2. **`outlives`** — a compaction captured its sequencer before the blob was
   written; if that one is fenced and replaced in the same process, the
   activation changes base and rows without the replacement's gate
   (`worker.rs:365`), and a later join is answered without the base.
3. **`stuck_room`** — rooms are swept only while the registry is not empty
   (`serve.rs:749`). The last sequencer is fenced and the sweeper retires it
   while a socket has not left its room yet. Then the registry is empty, the room
   is never swept, and `Rooms::get` (`room/mod.rs:504`) lets every socket that
   comes back into it, where its doc-open is refused and closed.
   `sequencer.rs:734` says a client that reconnects reaches a sequencer that is
   not fenced. It lasts until another document is admitted in this process, or
   the process ends.

### Observations without a run

*Log and worker.*

* ingest acknowledges a batch with nothing new at once, under the newest
  `client_seq`, while earlier batches of the peer are only buffered
  (`sequencer.rs:1216`); `log/tests.rs:925` says a `doc-ack` never names such a
  number. No work is lost: the browser takes `doc-durable` as saved
  (`SavedIsStored`).
* An update over `max_update_bytes` is never saved. A valid configuration has a
  log quota of at least 4 MiB (`config/mod.rs:630`), more than the browser's
  chunks, so such an update always travels in parts and closes the socket; the
  browser reconnects, exports the same edits and is closed again, with the
  toolbar showing them as unsaved all the while. `MaxFaults` cuts that loop in the
  model, and `EditsEventuallySaved` excludes it (`Fits`). The refusal in one frame
  (`sequencer.rs:1161`) is modelled for any limits; a catch-up exported from a
  head that has moved since may be refused though a fresh one would fit.
* Erasures the worker asks of itself while it runs a full page can overflow the
  channel, set the rescan bit and be found again, so local tasks keep coming and
  the channel waits for the grace period.
* If the lock's release, or the reply, fails after the last document's row is
  deleted, the retry finds no row and returns without asking for the owner's
  erasure, which then waits for the hourly rescan.

*Memory budget.* `budget.rs:31` says a reservation that cannot be met evicts
before it fails. Three ways it can fail while a cold document stays decoded:

* A command's batch is imported into the decoded document without growing its
  reservation (`sequencer.rs:2133`; ingest does, at 1337), so the reservation is
  less than the estimate. `evict_caches` counts what it frees by the estimate of
  the log (`log/mod.rs:424`) and stops too early. One reader and nobody else is
  enough: in `Budgets` with three documents of one, two and two bytes and a
  limit of five, a command on the first and then a read of the second waits
  while the third could be evicted.
* `reserve` decides on evicting by a probe whose bytes it gives back
  (`budget.rs:204`). If another task takes them before `take` does, it waits
  without any eviction pass.
* The pass is made once, before the wait; a document decoded afterwards is not
  evicted for a task that already waits.

*Directory.*

* A repository's pull moves `refs/librepaper/main` (`pull.rs:467`) before it
  saves the state (`pull.rs:315`). If it stops in between, the next pull finds
  the tree unchanged, records the head it read and says "up to date" although
  the branch was never merged. `NothingHidden` therefore asks for the files on
  the branch, not in the directory; the next edit on the web ends the case.
* The companion's status route saves the state it loaded earlier
  (`push.rs:544`) without claiming the connection, so it can put back an older
  state under a transfer that ended meanwhile. `NothingHidden` and
  `PushRemembered` are therefore about folders and the command line's
  repositories.
* A folder's pull decides from its scan and writes later (`pull.rs:729-745`): a
  file saved in between is written over. `LocalKept` is about what was scanned.
* A trimmed history numbers its labels from one again (`labels.rs:126`), and a
  directory that remembers a higher number takes the head instead of the
  versions in between.
* A copy of a request that was refused may land later, if the files have come
  back to what it expects.

*Assistant.*

* `publish_answer` takes sequence numbers without saving them
  (`runtime.rs:632`), and `replay_task`, which says it replays persisted
  snapshots, shows them. After a crash the recovered record may be numbered
  lower than what the browser has seen, and the browser ignores its
  "interrupted". `ShownAsRecorded` leaves out those tasks (`ahead`).
* `reconcile` shows the newest 32 of up to 256 records (`runtime.rs:648`). A task
  that ends while no browser is attached, with 32 newer ones behind it, is not
  shown again: the browser may show it as "working" for ever.
  `ShownAsRecorded` is therefore about the window; over all records TLC finds
  this case with a window of one.
* Once a task is being cancelled, an answer the user gives is still passed on.

*Tracked changes.*

* The change an edit joins is the lowest one the author owns by position. If
  that is an own deletion to the left of the author's span, the joined span is
  written into the deletion's record and the span's own record stays as it was
  (`track.rs:363`): two changes claim the text, and rejecting one leaves the
  other without it. `Attributed` leaves those characters out (`twice`).
* With two peers, an insertion right behind another author's span can end up
  inside it when that author extends the span at the same moment; rejecting the
  span then deletes it. `NothingLost` is about original text.
* Two peers who reject one change at the same moment put its text back twice,
  as the documentation says.

## 7. Plan

1. Done: the log and its composition with the browsers, residency, the pool
   and its budgets, session, worker, directory synchronisation, assistant,
   tracked changes; proofs of all their safety properties but those of tracked
   changes (section 5).
2. Superseded bases, readers' expiry and the orphan sweep's grace (Blob
   lifecycle), composed with `Sequencer`'s activation.
3. Pending reservations and the storage ledger across epochs; the retained pool.
4. Comments and their anchors over `TrackedChanges`; the outgoing queue; chat
   batches against their reservation.

## 8. Running

    tlc -config MCSequencer_log.cfg MCSequencer
    tlc -config Worker.cfg Worker
    tlc -config MCSync.cfg MCSync
    tlapm SequencerProofs.tla
    tlapm SyncProofs.tla

Each pair of module and configuration is in `PROJECT.json` under `runs`.
