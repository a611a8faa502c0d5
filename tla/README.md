# Formal models of TRUEOS Blueprints

TRUEOS-Blueprints is the workspace in which applications ("Blueprints") for the
TRUEOS kernel are written, built and packed.  It holds a host packer (`src/`),
an SDK (`api/`), support crates (`crates/`), applications (`apps/`), probes and
vendored third-party code (`vendor/`).  The kernel itself is not in the
repository.  This directory holds TLA+ models of the parts in which ordering,
failure and concurrency decide correctness, the TLC configurations that check
them, and proofs that TLAPS checks.  `PROJECT.json` links every definition to
the lines it models and every property to a hazard and to a seeded fault that
breaks it.

## 1. Inventory

| Component | State | Operations and interactions | What is hard | What makes it correct |
|---|---|---|---|---|
| SQLite service (`apps/sqlite`) | map of databases; per database an in-memory SQLite connection behind a Tokio mutex and one image file; per socket a session (depth, snapshot, retained guard) | HTTP batch, session open/execute/prepare/begin/commit/rollback/close; publish and restore images; HTTP and socket clients | guard kept across requests, error paths, lost sockets, time limits, crash while publishing | requests start from the published image; a publication is one whole request; refused rows never become durable; guards are given up |
| Build cache (`src/build_cache.rs`, `cache_inputs.rs`, the flow in `main.rs`) | a stamp file, a watch baseline, a digest memo | new, is_fresh, invalidate, watch, record, around staging and Cargo; editors change files meanwhile | edits between any two steps, restored contents, backdated times, late-learned inputs, inputs staged before they are watched | a stamp describes its artifact for every input but those edited where no snapshot can tell; quiet builds are reused |
| ONCE registry (`crates/log-os/src/global.rs`) | N atomic slots | observe, from any thread | lock-free claims of colliding sites, full table | a site owns one slot, is announced once, calls are wait-free and look atomic |
| Sampled log sites (same file) | an atomic counter | observe(first, every) | accounting at the boundaries | emitted and suppressed add up |
| Staging tree (`src/staging.rs`) | work directory, previous tree | new, finish, Drop | failure of the recovery path | the previous tree survives a failed setup |
| Publication, plan, catalogue, artifact, toolchain, overlays, ABI guard (`src/*.rs`) | none beyond files | drive external tools, transform text and ELF | few interleavings | mostly functional |
| SDK listener (`api/src/lifecycle.rs`) | listener, published port | bind, accept, rebind | cancellation inside a rebind, revoked leases | a published port is bound |
| SDK command session, replication, worker, shutdown (`api/src`) | kernel handles | thin wrappers | best-effort release, stale answers | handles released once |
| HTTP server (`crates/trueos-v/src/vhttp_srv.rs`) | sessions with request buffer and pending response | on_event, called by the socket loop; mark_response, called by the application | pipelining, partial sends, late answers, reused handles, close during a response | requests are handed out whole, once, in order; a close waits for its answer; a session waits for nothing that nobody will report |
| PlotTwist server (`apps/PlotTwist/src`) | profiles, lobbies with players, settings, phase, turn and deadlines | connect, list, create, join, state, and ten actions, each under one mutex; no timer | deadlines that pass between requests of anybody, indices into a list that shrinks, settings changed during a countdown | one seat per player, one colour per team, the turn is playable and kept, a request that calls `advance` settles what is due at every table, a late move does not count |
| Monaco editor (`apps/monaco/app.js`, `server.rs`) | page: two editors, the saved text, status line; server: files | load, save, typing, replacement of the plain editor; GET and POST of a document | requests that cross each other and the user's typing, scripts that come late or never, read errors answered as a new document, line ends an editor does not keep, writes that outlive their request | what the page calls saved is what an editor shows of the stored file; the text survives the change of editors |
| Webmail page (`apps/webmail/app.js`) | messages, selection, what is shown, send queue | loadAll by timer and refresh, readMessage, sendMessage, clear queue | answers out of order, Promise.all with failing parts, a list request inside the try of a send | the detail is of the selection, jobs tell the truth, rows catch up |
| BIOS explorer page (`apps/bios/app.js`), PlotTwist page (`apps/PlotTwist/web`) | what was fetched | one fetch or a poll, then drawing | - | - |
| ABI wrappers (`crates/trueos-v`) | kernel handles | foreign functions | the kernel is elsewhere | - |
| IDE workspace and source database (`crates/trueos-ide`, `trueos-redb`) | build generations; redb tables | build events, publish, load | late build results, interrupted publication | newest generation wins |
| Websys jobs (`apps/websys/src/jobs.rs`) | job table | submit, run, cancel, collect | cancellation races | each job ends once |
| SQLx client adapter (`vendor/sqlx-sqlite-0.9.0/src/remote`) | connection, transaction depth | client side of the session protocol | lost replies | depth agrees with the server |
| Other applications, graphics, mathematics, games | mostly local | - | - | - |

The hazards of this code, each at its line and with the properties that cover
it, are the list `hazards` in `PROJECT.json`.

## 2. Modules

| Module | What it is |
|---|---|
| `SqliteService` | the service: lookup, sessions, batches, publication, restore, loss, crash |
| `DurableStore` | what clients of a published store rely on (abstract) |
| `SqliteServiceProofs` | the locks, nesting and images of the service: inductive invariant and theorems |
| `SqliteStoreProofs` | the writes of its clients: the second invariant, the publications, the refinement |
| `BuildCache` | one artifact's builds with concurrent editors |
| `BuildCacheProofs` | its inductive invariant and theorems |
| `LogOnce` | the ONCE registry, one step per atomic operation |
| `OnceRegistry` | what callers of the registry rely on (abstract, each call one step) |
| `LogOnceProofs` | the registry's inductive invariant and theorems, and that it implements `OnceRegistry` |
| `PlotTwist` | the lobby and turn machine of the game server |
| `PlotTwistProofs` | its inductive invariant, its theorems, and what a request may do to deadlines, countdowns and turns |
| `MonacoEditor` | one editor page and the document handlers of its server |
| `MonacoEditorProofs` | its inductive invariant and theorems |
| `Webmail` | the webmail page over an external mailbox |
| `WebmailProofs` | its inductive invariant and theorems |
| `VhttpServer` | the HTTP server with its stack, clients and application |
| `VhttpServerProofs` | its two inductive invariants and theorems, with the lemmas on positions in a stream |
| `MC*` | symmetry sets and constant functions for TLC, one per component |

### SqliteService

One named database.  Its image is the set of *writes* it contains and the
number of reclaimable page batches of its free list; each write is issued at
most once, so an image tells which requests survived.  `disk` and `pending` are
the image file and its `.pending` sibling, `mem` and `stack` the connection's
main image and the images at BEGIN and at each open savepoint, `holder` and
`waiters` the Tokio database mutex with its FIFO queue, `entry` and `loader` the
databases map and its lock.  Per task there are a program counter, the
request and its outcome, the session's `depth` and `read_only`, and the
snapshots `before` and `after`.  `work`, `maybe`, `acked` and `rejected` are what
clients may conclude from the replies that reached them.

| Actions | Code |
|---|---|
| `OpenSocket`, `SubmitBatch` | `session::upgrade`, `batch` |
| `LookupHit`, `LookupMiss`, `Loaded`, `LoadFailed` | `Service::database`; the map lock is held over the read and the load |
| `Send`, `Grant`, `LockTimeout` | `read_command`, the guard or its five-second wait in `Session::command` |
| `RunSession` | all of `Session::command` up to publication: `session::run`, depth and autocommit, keeping the guard, the read-only early return, reclaim, what to publish or restore, and the early return when serializing fails (`AfterLost`) |
| `RunBatch` | `execute` |
| `PublishCreate`, `PublishSync`, `PublishRename`, `PublishFailed` | `storage::publish` on the host |
| `Restore` | the rebuild of the connection under the guard |
| `DeliverSession`, `DeliverBatch` | the reply, and what the client learns from it |
| `Disconnect`, `EndSession` | a lost peer; Close, socket error or idle expiry, with the rollback under the owned guard |
| `Crash` | the end of the process: only the two files remain |

`Results` lists what SQLite may do with a command: succeed, fail before or after
its first statements took effect, or roll the whole transaction back by itself.
`Carries` says which commands may write.  A script may; but the text of an outer
Begin is the client's own, checked only to start with BEGIN
(`session.rs:451-472`), and some PRAGMAs take effect while a statement is
prepared (`session.rs:381`), and neither looks at `read_only`.  `SideEffects`
switches these on: `"begin"` and `"prepare"` in every passing run, `"restart"`,
a BEGIN text that commits and begins again, in none of them.  A savepoint
in a BEGIN text is inert: the COMMIT or ROLLBACK of the outer level ends it with
the transaction, and the session releases its own savepoints by name, so it is
left out.
A Ping and an Open that fails before touching the map change nothing and are
stuttering steps.  A second Open on an open session goes through
`Session::command` like any other command and is refused by `session::run`
(`session.rs:530`): it is an `inspect` that fails.  A snapshot is captured outside transactions
only, before the first action that may change state, as `CompileGuard` does.

Left out: replies over the frame limit (they end the session like a lost
socket), panics of blocking tasks, connection-level state that is not in the image
(temp tables, settings, `last_insert_rowid`), the whole-file write of TRUEOSFS (`storage.rs:31-38`,
whose atomicity is the kernel's), and `timing.rs`.  A crash is that of the process; a
synced file is taken as written.

`ImageFaults` says what else may fail: `"serialize"` (`session.rs:323-326`),
`"rebuild"` (`session.rs:348`, `main.rs:331`) and `"rollback"`, the ROLLBACK of a
session that ends, whose error the code ignores (`session.rs:243`).  It is empty
in the passing runs.  The premise of the theorems is `FaultFree`: `ImageFaults` is
empty and `"restart"` is not in `SideEffects`.  A BEGIN text and a PRAGMA that
write are in their scope.

### BuildCache

Inputs fall in three classes by the moment the build learns of them:
`Base` (before the build), `Dep` (from Cargo metadata, after staging) and
`Late` (from the compiler's dep-info).  A file has a content (digest and mode), an mtime
that its editor chooses, and a ctime given by the clock.  The artifact is the
function from inputs to the contents the compiler read.  `StageFile` and
`CompileFile` read one input at a time, every snapshot visits one path at a
time, and `Edit` may happen between any two of these steps; `ScanDisturbed` is
an edit between the two metadata reads of one visit.  The phases of `pc` follow
`build_one_target_to`: check, outputs, invalidate, watch, stage, again / rewatch
/ recheck (the second `watch`), compile, known / complete / readout / reknown /
verify (`record`).  `CacheUnavailable` is `cache_action` turning the cache off,
`Abort` any failed step or a killed process.

Abstractions: directories are represented by the paths in them (their own times
are ignored by the code too), symlinks are not told from files, device and
inode are folded into the ctime, a corrupted or outdated stamp is no stamp, and
the build lock is taken at its word (one builder).  The stamp's rename is atomic.
Staging copies inputs of the base and inputs that only the metadata name (the
registry overlays, `main.rs:2391`, `2951`), the latter before the second watch
lists them.  Not covered, and visible as constraints of the model: tampering with
the artifact between packing and `record`, and clocks so coarse that two edits
share a time.  When the cache cannot be used the old stamp stays although a build
runs; what keeps it harmless is that the check compares the digest of the artifact.

There are edits no snapshot can tell, and the model names them.  `Unseen` is such
an edit of an input the running build has read: no baseline lists the input yet (a
metadata input between its copy and the second watch, a late input that is
removed), or it is absent again as a baseline found it (created, read, removed).
The ghost `unseen` collects these inputs, and the stamp takes it over as
`excused`.  `StampIsSound` and `FreshIsSound` speak of all other inputs;
`cache_late_removal` and its variant (section 6) show what becomes of these.

### LogOnce

A step is one atomic load or compare-exchange of `observe`; `Emit` is the record
that `log_once_with_area_purpose` emits afterwards.  `Start` gives each site its
first slot, so the hash is any function and the runs make sites collide.
Registry-full warnings are unlimited and are not counted.

### PlotTwist

`lobbies` maps every identifier to a lobby record, `NoLobby` where there is
none; `profiles` are the connected players.  A handler holds the game's mutex
throughout, so it is one action.  Almost all begin with `advance`, and those
that do not (`create_lobby`) end with it: `Settled` is the function of lobbies
that `advance` leaves, and an action works on it.  `Observe` is every request
that changes nothing else but calls `advance`: the list, a state request, chat, and
refused actions.  A connect and a refused `create_lobby` return without it, so the
latter is no step at all.

A deadline is `left`, the instants until it passes, counted down by `Tick` from at
most `Span`; the clock may be as slow as it likes.  A pause keeps what is left, as
`paused_remaining_ms` does.  A countdown that runs is kept as it is by
`update_countdown` (`lib.rs:630`).
Figures are counted per player.  `HitsBy` lets a curve meet any enemy figures
and none of the plotter's team, which is what the loop of `plot_turn` skips;
the parser and the rasteriser that decide which are left out, as are the
obstacles, traces, the round number, names and emojis.  `connected` is never
set to false in the code and is dropped.  `create_lobby` draws a 24-bit
identifier and overwrites a lobby that has it already, and so does `CreateLobby`.

`normalize_turn` (after a leave) and `advance_turn` (after a plot or deadline)
are kept apart because they differ: the former keeps a pause and the pins of
the player it gives the turn to.

### MonacoEditor

`files` is the server's file system: a text, `Absent` or `NotText`.  The page
is `path`, `plain`, `monaco`, `boot`, `savedValue` and `status`; `calls` are the
requests under way, each either sent or answered, so that a reply can arrive
after any other event.  A handler of the page runs to its next await.
`HandleDocumentGet` answers `Starter` for any read error
(`server.rs:276-278`), `Fail` is a broken connection before or after the
server's work, an unreadable text or a failed write.  The handler of a save the
page has given up may still be at its `fs::write` (`server.rs:316`): `late` counts
these by document, and `LateWrite` writes any content at any later time.

An editor does not hold every text as it is given: the text area turns line ends
into LF, the Monaco model makes them all alike.  `PlainForm` and `MonacoForm` say
what each holds instead, and every text that enters an editor goes through one of
them.  `savedValue` is what the editor holds when a reply arrives (`markSaved`,
`app.js:68`): after the conversion for a load, and not what was sent for a save.

Two ghosts say when that is right.  A call is `fresh` from its handling on, until
the document is written again, unless a read error passed for a new document;
`vouchedFor` is the document `savedValue` was taken from by a fresh reply, if the
editor still held what was sent, until the document is written.  Then
`SavedIsStored` says that `savedValue` is what an editor shows of the file.

### Webmail

The mailbox and the mail service are external: the mailbox changes at will, a
list request is answered with what it is at that moment, a send is taken or
refused.  `loads` are the overlapping runs of `loadAll`, each with its list part
and its other parts (`loadStatus` may fail, `loadConfig` cannot); `PartIn` is
what a part that comes in does to `Promise.all`: the page is rendered when the
promise settles, which is at the first failure.  A list that arrives after that
still replaces `messages`, without a render: `rows`, what the user can
click, is therefore a variable of its own.  `jobs` are the sends; the list that
follows a send is in the same `try`, so its failure marks a job `failed` whose
mail was taken.  A cleared job whose list is still awaited goes on without
being in the queue.  The filter, the credentials form, drafts and panels are
left out.

### VhttpServer

Bytes are numbered units of a client's stream of requests; a request has a
header that ends in CR LF CR LF or in LF LF and a body of some length, which may
hold a CR LF CR LF too, asks for keep-alive or not, and parses or not.  `TcpData`
delivers any further part of the stream and is the whole branch of `on_event`: the early
return while an answer is pending, the size limits, the incomplete header and
body, the bad request line, the request that is cut off the buffer.  `HeaderEnd`
is `header_end`: the first CR LF CR LF of the buffer, wherever it is, and only
if there is none the first LF LF.  The fields are read from the lines the buffer
starts with; a buffer that starts in the middle of a request may parse as
anything.  An LF LF in a body decides
nothing, since the header before it is found first; a CR LF CR LF that straddles
two requests is left out.  `Respond` is the application: the
answer is queued in the stack and `mark_response` called, at any later time, also
after the connection is gone or its handle is in use again.  `TcpSent` reports any part of what is
queued.  `Closed` ends a connection or the listener at any time.  Two ghosts
name handles: `unruly` those on which an event overtook an answer, `stale`
those whose session was made by an answer marked between `Closed` and the next
connection.

What the properties leave out, and why: `ServedInOrder` ends at `Misread`, a
request with an LF LF header behind which a CR LF CR LF has arrived, since
`header_end` then cuts in the wrong place; `PoliteIsServed` excepts `stale`
handles and an LF LF header whose own body holds a CR LF CR LF, and TLC finds a
client that waits for ever when either exception is dropped; `AnswersAreUnderWay`
excepts `stale` handles; `CloseIsComplete` excepts `unruly` ones, where
`mark_response` overwrites the count of an answer not yet sent.

## 3. Runs

| Run | Instance | Shows |
|---|---|---|
| `sqlite_sessions` | 2 sessions, 2 writes, depth up to 2, BEGIN texts and PRAGMAs that write | `FreeImageIsPublished`, `DepthsAgree`, `SnapshotIsPublished`; the service implements `DurableStore` |
| `sqlite_batches` | 1 session, 2 batches, 3 writes, 1 reclaimable batch | two first loads, whole-request publication, whole images, `ReadOnlyScriptsPublishNothing` |
| `sqlite_liveness` | 1 session, 1 batch, 2 writes, no symmetry | guards are released, batches answered |
| `sqlite_restore_fault` | 1 session, 1 batch, image faults on | expected violation, see section 6 |
| `cache_safety` | one input of each class, base and metadata inputs staged, base and late ones removable, 2 contents, 2 selections, 3 edits | `StampIsSound`, `FreshIsSound` |
| `cache_liveness` | the same inputs, the metadata one removable and the late one absent at first, 1 edit, no symmetry | `SettledBuildsAreReused` |
| `cache_late_removal` | late inputs may be removed | expected violation of `EditsPreventReuse`, see section 6 |
| `log_once` | 3 threads, 3 colliding sites, 2 slots | one slot and one record per site, truthful refusal, termination, linearizability |
| `plot_twist` | 3 players, 2 lobbies, tables of 3, 2 colours, 2 figures, 1 pin, deadlines of up to 2 instants | seats, colours, turns, countdowns, settling of deadlines, late moves |
| `monaco_editor` | 2 paths, 3 texts of which one has CR LF, 2 requests, 1 late write per path | `SavedIsStored`, `NothingHangs`, `UpgradeKeepsText` |
| `webmail_page` | 2 messages, 1 `loadAll` beside the list of 1 job | `DetailIsOfSelection`, `JobIsHonest`, `PageCatchesUp` |
| `vhttp_server` | 1 handle used again and again, 7 streams of 3 or 4 requests with headers of both kinds, buffer limit 4 | `ServedInOrder`, `CloseIsComplete`, `AnswersAreUnderWay`, `PoliteIsServed` |

Why the bounds are enough.  In the service every conflict is between one owner
of the guard and one waiter, or between two first loads: two actors of each
kind reach all of them.  Two levels give a savepoint inside a transaction; two or three
writes tell the owner's rows from another's.  The cache needs three edits to
change, restore and change again across the phases, and one input per class
because inputs are visited independently.  The registry needs more sites than
slots for refusal and three threads for a race that a third observes.  A table
of three has a leaver, a player on turn and a third whose index moves, and team
mates and enemies at once; a second lobby is what one player's request settles
for others.  Two instants tell a deadline prolonged or restarted from one that runs.  Two requests on two paths cross in every way, and the reply of one
falls into any moment of the other; one text whose line ends no editor keeps
tells what was sent from what is shown.  In the webmail page the list of the job
and that of the timer overlap and overtake each other; two runs of `loadAll` overlap
only in a smaller instance (`Message = {m1}`, `Load = {k1, k2}`: 78,624 states, which
pass too), since with two messages liveness is out of TLC's reach in minutes.  The handles of the HTTP
server share nothing but the listener; the streams hold requests of every kind
behind one another, and the limit of four is below, at and above their
sizes.  The
TLAPS theorems remove these bounds for the properties they name.

Bounds: `MaxDepth` (nesting), `MaxFree` (reclaimable batches), the finite set
`Write`, `MaxEdits`, `Span` (the instants of a deadline) and `MaxLate` (late writes
of one document); `records` saturates at two.  `Late` bounds the answers
the application still owes to a handle when a new connection starts on it; `Load`,
`Job` and `Call` are the requests under way at most.

Fairness.  In the service each task is scheduled (weak fairness of
`ServerStep`), Tokio's mutexes are FIFO, so a lookup is not passed over for ever
(strong fairness of the lookups), and its timers fire (weak fairness of
`LockTimeout` and `EndSession`).  Clients owe nothing.  `BatchIsAnswered`
assumes that no client keeps opening and holding transactions for ever: a live
client that keeps talking may hold the guard as long as it likes, and the code
has no bound on that.  A crash ends a batch and is counted so.  In the cache only the builder
is scheduled; editors, errors and aborts owe nothing and must stop for the
property to speak.  In the registry each thread with a call in progress is
scheduled.

In the Monaco page nothing is assumed: that it waits for nothing but a request under
way is an invariant, `NothingHangs`.  In the webmail page a fetch ends, with an answer
or an error; nothing is assumed of the user.  The timer of a
visible page loads again (weak fairness of `LoadAll`), and `PageCatchesUp` also
needs that a list that keeps being asked for is had again and again (strong
fairness of `HandleList` and `ListArrives`): with a network that fails for ever the page cannot
catch up.  In the HTTP server the stack delivers and reports, carries out a
Close, and the application answers.

Symmetry is used only in safety runs, over model values that occur symmetrically.

## 4. Proofs

`SqliteServiceProofs` proves, for every set of sessions, batches and writes and
every bound, under `FaultFree`:

* `Invariance`: `IInv` is invariant.  `FreeImageIsPublished` is not inductive:
  that the restored image is the published one depends on who owns the guard,
  which depends on the loading protocol.  `IInv` has four parts: `TypeOK`;
  `Locking` (the guard's owner is exactly the task in an owning phase or the
  session with an open transaction, only one task loads, nobody queues twice);
  `Nesting` (the open levels are the session's depth, and the lowest is the published
  image); `Images` (each snapshot is the published image and what is about
  to be published is the memory).
* `TypeCorrect`, `FreeImage`, `SnapshotPublished` and `WholeImage` follow from it.

`SqliteStoreProofs` adds what becomes of each client's writes, under the same
premise.  `SInv` is `IInv` with three more parts, inductive only together:

* `Transcript`: between requests the levels the client believes open are those
  the server has, and while a result is being published the client will have
  none.  `DepthsAgree` needs this and `Nesting`.
* `Contents`: the main image holds the published rows and every level of its
  owner; the image at the BEGIN or savepoint of level k holds those of the levels
  below k; beyond that there are at most the writes whose command failed without the client
  knowing how far it got (`maybe`).  A failed RELEASE or a whole rollback by SQLite is
  where this could break.
* `Ledger`: every write is in one place: in one level of one client, in doubt, in
  an argument, in the file or rejected; none is in two, and what is acknowledged
  is in the file.  Two clients never share a write, so one client's rollback cannot
  reject what another published.

From it follow the invariant `RejectedNeverPublished`, `PublicationAlwaysAtomic` as a
property of steps, and `StoreImplemented`: every
step is a step of `DurableStore` or leaves it alone; only the rename of
`storage::publish` changes `committed`, and a crash only denies what was open.
`ReadOnlyPublishesNoScript` needs an invariant more, `Scripts`: while a read-only
session owns the guard, the image and all levels it may return to differ from the
published image by no write that a script or a batch asked for and by no page.
Both halves of `FaultFree` are needed: `sqlite_restore_fault` violates
`RejectedStaysOut`, with image faults and, when `SideEffects` is set to
`{"begin", "restart"}` instead, without them (section 6).

`LogOnceProofs` proves for any threads, sites, capacity and hash: `Invariance`
of `IInv` and from it `TypeCorrect`, `OneSlot`, `FullIsFull` and `Announced`.
The argument is about the probe sequence: `Progress` says that every slot a
call has passed is taken by another site, `NoGaps` that the slots before a
site's own in its probe sequence are taken, `Accounting` that records
emitted and in hand match the mark of the slot.  Since slots are never emptied
and a claim needs the first empty slot of the sequence, two slots of one
site would each precede the other.  `ProbeOneToOne` and `ProbeOnto` are the
arithmetic facts (the first N probes visit every slot once).
`RegistryImplemented` shows that the registry implements `OnceRegistry`.  A site
is registered when some slot holds it, and the abstract guard of a refusal
counts sites, so the proof needs that there are as many registered sites as
taken slots: `OneSlotPerSite` makes the map from taken slots to sites a
bijection.  The decisive step of a call is its compare-and-exchange, or the
read that finds the site or the last foreign slot.

`PlotTwistProofs` holds for any players and lobbies, tables of any `Capacity` up
to the number of teams, any number of figures and pins.  `Table` is what holds
of a lobby whoever has the turn (types, distinct players, one colour per team,
an empty lobby is `NoLobby`, at most `Capacity` players), `LobbyOK` adds that
the turn of a running game stands; `IInv` is `LobbyOK` of every lobby and that no two
lobbies share a player.  The split is needed because a leave breaks the second
part for a moment, and `normalize_turn` mends it: `NormalizeTurnOK` asks only for
`Table`.  The bound on players is what makes colours invariant: by the
pigeonhole principle (`FreeTeamIsFree`) a newcomer finds a team nobody is on, so
his default colour clashes with nobody's; without it `unwrap_or(1)` would put
him among others in a colour of his own.  `StruckOK` is why the plotter still
stands after his plot.  `DInv` says that a game is paused only while its turn has
time left; so a resumed turn is not due at once, and `advance` leaves every lobby
`Quiet` (time is left of whatever runs), which all that a handler does afterwards
keeps.  That is `RequestsSettle`, the action property `RequestsSettleAll`: every step
but the passing of time and a connect leaves no lobby past its deadline.
`LateMoves` goes on from there: after `advance` the turn of a late player has
passed (`LateTurnPasses`), so his own plot or measurement finds another on turn or
none.
`Undisturbed` needs `CInv`, that everybody is ready while a countdown runs: whoever
is seated, leaves or changes a setting makes somebody unready or cancels, so a countdown
that survives a request was not touched by it, and `update_countdown` leaves its
deadline as it is.  `KeptTurn` is about indices:
`LeftKeepsTurn` shows that after `remove` shifts the seats and
`normalize_turn` looks for the first standing one from there, the player on turn is the
same; all other requests keep both the seats and the index or end the turn.

`MonacoEditorProofs` proves `TypeOK`, `SavedIsStored` and `UpgradeKeepsText` for
any paths, texts, conversions (each idempotent, which keeps the starter program)
and number of requests and late writes.  The strengthening has two parts:
`FreshIsExact` says that a fresh answer has the text that is stored, whatever else
is under way, and `VoucherIsGood` that what is vouched for is what one of the two
editors shows of the stored text.  `NoHang` proves `NothingHangs`, for which the first
request must be known to be a load (`FirstLoads`).  `WebmailProofs`
proves `TypeOK`, `DetailIsOfSelection` and `JobIsHonest`; the strengthening ties
the status of a job to the place its `sendMessage` is at and to what the mail
service has taken.  `VhttpServerProofs` proves `AnswersAreUnderWay` and
`CloseIsComplete` for any handles, streams and sizes; the strengthening
relates the bytes an answer still waits for to those the stack has not
reported, and says which handles without a connection may have a session that
counts.  `OrderlyService` proves `ServedInOrder`.  Its strengthening `Served` says
where the buffer is: while nothing else was handed out, no request has ended the
connection and no Close was submitted, it is the run of units from the end of
the last request handed out to the last unit delivered.  `HeadersAhead` then
says that no header of either kind ends between there and the header of the next
request, `NextHeader` that `header_end` finds that one unless a CR LF CR LF
hides it, and `RestStartsNext` that the rest is again such a run.  The place where a request
ends is a recursive function over the stream.  That it exists and grows is proved
with no induction theorem: in the set of places where it fails there would
be a least one (`LeastMember`, from the library's `WFMin`), and the step before it
gives the contradiction.

`BuildCacheProofs` proves `TypeOK`, `StampIsSound` and `FreshIsSound` for any
inputs, contents, selections, staged inputs and number of edits, without a
premise: what no snapshot can tell is in the statements, as `excused`.  The
argument does not follow the files over time.  `Witnesses` says every entry in any snapshot was once true
of its file: a file that is in the entry's state now has the entry's content, for
an edit never gives an old change time back.  `Matched` then relates a content
the compiler read to an entry: while the file is in the entry's state, the two
agree.  Every edit makes this hold, vacuously, or is in `unseen` (an edit before
there is an entry, or one by which a missing file is missing again), and the
comparison of states in `unchanged_since_watch` cashes it
in.  `Aged` does the same for late inputs, with the start of the watch for the
entry; a late file that is gone has no change time left, which is where a removal
gets by.  `Readings` says for the inputs outside `unseen` between which snapshots
each holds in each phase (`Copied` while staging, up to the second watch that first
lists the metadata inputs; `Compiling`; `Recorded`), and ends, at `verify`, with the
complete snapshot listing what was read.

Only model-checked: the liveness properties (`SilentSessionReleasesGuard`,
`BatchIsAnswered`, `SettledBuildsAreReused`, `CallsEnd`, `RegisteredIsAnnounced`,
`PageCatchesUp`, `PoliteIsServed`), since liveness under fairness and
ENABLED are outside the prover's reach.  Every invariant and action property
a passing run checks, and both refinements, are stated by a theorem; those of the
SQLite service hold under `FaultFree`, the others without a premise but the
assumptions on the constants.  `EndOf` is a recursive function;
no RECURSIVE operator is used.

## 5. Seeded faults

Each property of a passing run has a definition next to the one it mutates that
breaks it the way a plausible bug would: dropping the
guard without a rollback, reclaiming pages for a read-only session, trusting the depth of a failed command, taking the
snapshot anew inside a transaction, renaming before the sync, comparing digests
but not times, storing where the code compares and exchanges, keeping the turn's
index when a seat below it goes, seating a newcomer without stopping the
countdown, starting a countdown anew that runs already, asking whose turn it is
before deadlines are settled, creating the Monaco editor from the last saved text,
marking a document saved before its text is in the editor, a first load without a
catch, rendering only after a load that went well, counting the body from the start
of the request, looking for the last end of a header.

## 6. Findings

* `sqlite_restore_fault`: the service's README and the comment at
  `apps/sqlite/src/main.rs:328` say that the guard is retained until memory is
  restored.  If serializing the image to publish fails, or the rebuild of the
  snapshot fails, the code returns early and drops the guard with the changed
  connection.  The client is told of the failure; the next writer publishes the
  refused rows.  With `ImageFaults = {"rebuild"}` TLC shows the second path.
  There is a third way without an image fault (`ImageFaults = {}`,
  `SideEffects = {"begin", "restart"}`), and the README's line 81 says that only the outer
  commit publishes a new image.  The text of an outer Begin is run as it is
  (`session.rs:470`) and only has to leave a transaction open.  One that writes,
  commits and begins again leaves its rows below the transaction: the client's
  ROLLBACK returns to them and, since the image differs from the snapshot, publishes
  them.
* `cache_late_removal`: `src/build_cache.rs:236` promises of `record` "Return false
  when edits during a successful build prevent safe reuse."
  `src/build_cache.rs:260` requires of a dependency first learned from dep-info that it existed at the last watch, but the loop skips
  entries without a state.  A late dependency removed after the compiler read it
  is recorded as missing, and the stamp vouches for an artifact its inputs do
  not describe.  The promise breaks in a second way (`Staged = {2}`, `Deletable = {}`):
  sources only the Cargo metadata name are watched from `main.rs:609` on, but overlays
  copy some of them before; an edit between the copy and the second watch is recorded
  as if it had been compiled.

Observations that contradict no document, visible in the models:

* SQLite: a read-only session may write, in the text of its BEGIN or by a PRAGMA,
  and its commit publishes it (`session.rs:451-472`, `:381`, `:334`); what it cannot
  publish is a script's write (`ReadOnlyScriptsPublishNothing`).  When the
  connection is lost in a transaction that such a text restarted, the rollback
  leaves rows in memory that are in no published image, and so does a ROLLBACK that
  fails (`session.rs:243`).
* Build cache: an input absent at a watch that is created, read by the compiler and
  removed again before the next snapshot is not told (`Unseen`).
* Monaco: text typed while a save is under way counts as saved when the reply
  comes (`markSaved`, `app.js:68`), and a save that follows a load whose read
  failed replaces the unread file by the starter text (`server.rs:276`).
  `SavedIsStored` names these cases.  A file with CR LF that is saved unmodified
  from the text area is rewritten with LF.  A save the page reported as failed may
  still be written, over a later one.
* Webmail: a mail that was taken is shown as failed when the list after it fails
  (`app.js:602`), and the answer to a read is laid over whatever is selected by
  then (`app.js:555`).
* HTTP server: a pipelined request may wait in the buffer for ever, since
  nothing parses the buffer after an answer is sent (`vhttp_srv.rs:185`);
  `PoliteIsServed` is about clients that await their answers.  Between the submitted
  Close and `Closed`, data that arrives can be handed out as a request that
  starts in the middle of another: the buffer was emptied, the connection not
  yet ended (`vhttp_srv.rs:146-149`, `:193`).  An answer marked after
  `Closed` makes a session that counts bytes nobody will report; the next
  connection on that handle gets it, and its client waits until it gives up
  (`:215`, `:114`).  `header_end` prefers a CR LF CR LF anywhere in the buffer to
  an earlier LF LF: a pipelined request whose header ends in LF LF is merged with
  the one behind it, and one with a CR LF CR LF in its body can be taken for
  longer than it is and wait for ever (`:270`).
* PlotTwist: the player who gets the turn because another left keeps his pins
  and a pause (`normalize_turn`); one who gets it from a plot or a deadline does
  not (`advance_turn`).  A `create_lobby` that draws an identifier in use throws
  somebody else's lobby away (`lib.rs:305`).  A connect and a refused `create_lobby`
  settle no deadline.

## 7. Done and left

Modelled, checked and proved in part: the SQLite service, the build cache, the
ONCE registry, the PlotTwist server, the Monaco page with its documents, the
webmail page, the HTTP server.

Not modelled, and why:

* `src/staging.rs`, `api/src/lifecycle.rs`, `crates/trueos-ide`,
  `apps/websys/src/jobs.rs`, the SQLx client adapter, and the sampled log sites:
  within reach, and the next to model; their hazards are listed with a note.
* `apps/bios/app.js` and `apps/PlotTwist/web/app.js`: a page that fetches and
  draws; the first has one request in its life, the second may do what
  every client of `PlotTwist` may do.
* Most of the JavaScript in the repository is not its own: of some 56,700 lines,
  51,300 are the TypeScript worker of the vendored Monaco distribution, and its
  loader, editor and other workers make up most of the rest.  The share of all
  JavaScript the models cover is small for that reason; the program's own pages
  that hold state are `apps/monaco/app.js` and `apps/webmail/app.js`.
* Wrappers of kernel functions (their state is in the kernel), drawing and
  instruction encoding, numeric code, drivers of external tools, and everything
  under `vendor/` other than the adapter.

Proofs left: none of the safety properties of the runs.  Worth adding are
theorems that go beyond them, such as weaker premises than `FaultFree`, and proofs
for the components modelled next.
