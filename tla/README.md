# agpeer in TLA+

A verification project for agpeer, the Rust download manager in this
repository: TLA+ modules translated from its source, TLC configurations that
check them on small instances, and TLAPS proofs about them. Paths below are
relative to the repository root; "housekeeping.rs 81" is line 81.

## The system

One process, `agpeer serve` (`src/main.rs`), hosts everything:

| Part | State it keeps | Operations | Talks to |
|---|---|---|---|
| Torrent engines (`crates/torrent`: `memory.rs`, `rqbit.rs`, façade `backend.rs`) | a registry of transfers under one lock, in memory only; rqbit's session | `add get list pause resume cancel forget`, own progress | called by handlers and the sync loop |
| Soulseek backend (`crates/soulseek/src/native_backend.rs`) | registry of transfers, searches and results under one mutex; the native client's downloads | the same, plus `search results stop` | native client, disk |
| Transfer store (`crates/storage/src/transfer.rs`) | tables `transfers`, `transfer_files` (SQLite) | `upsert replace_files get list delete` | handlers, sync loop |
| Transfer handlers (`crates/api/src/routes.rs` 152-399) | nothing between requests; copies across awaits | add, delete, pause, resume, cancel, download | engine and store |
| Sync loop (`crates/core/src/housekeeping.rs` 47-180) | local copies during a tick | every 2 s: list, store, organize, orphan | engines, store, bus, organizer |
| Settings and Soulseek supervisor (`routes.rs` 587-654, `core/src/state.rs`, `main.rs` 373-430) | table `settings`, a watch generation, the two backend registries | PUT, DELETE; reconnect | store, native client |
| Event bus and SSE (`core/src/event.rs`, `api/src/sse.rs`) | bounded history, broadcast ring, one buffer per stream | publish, open, read | every other part publishes |
| Searches (`routes.rs` 412-510, `storage/src/search.rs`, sweeper in `housekeeping.rs` 15-42) | tables `searches`, `search_results`; results in the backends | start, results, stop, expire every 60 s | search backends, store |
| Hook search (`crates/hook`) | finished searches in memory | engine and site queries under a time budget, or an external command | settings |
| Post-processing (`core/src/postprocess.rs`, `crates/postprocess`) | job and step rows, library directory | classify, move, pipeline of steps | store, disk, bus |
| Logs (`main.rs` 53-138) | `agpeer.log` and its numbered predecessors | write, rotate | disk |
| Startup (`main.rs` 213-476, `core/src/config.rs`, `core/src/token.rs`) | `agpeer.toml`, `<data_dir>/token`, the seeded settings | load twice, make a token, seed, bind | disk, store, environment |
| Desktop shell, MCP bridge (`src-tauri/src/lib.rs`, `crates/mcp`) | a token | find it, use it | token file, API |
| Debug MCP (`crates/debug-mcp`) | nothing | search the logs, read the sources | log files, API |
| Secrets, auth, web UI | nothing | stateless | the API |

The parts share memory inside one tokio runtime: the registries of backends and
the bus are behind locks, the database is reached by single statements, and no
lock or transaction is held across an await of a handler. So every await is a
point where other tasks may act, and what a task read before it may be stale
after it. Two kinds of state outlive the process, the database and the disk;
both torrent registries, the Soulseek registry, searches in progress and the
event history do not.

What is hard, and what the properties below are for:

* handlers and the sync loop carry copies of a transfer across awaits and write
  them over whatever was stored meanwhile;
* the engine is authoritative but forgets everything on restart;
* failed database calls are logged and passed over in the loop;
* settings are written and read key by key, and announced once;
* the SSE stream copies a history and subscribes in two steps, on two tasks;
* the Soulseek backend copies a status before it locks what the status is about,
  and its disk checks know names and sizes only;
* organize jobs, step pipelines and deletions work on the same directories, die
  half-way and are run again; deletions find files by name;
* the log files are renamed one by one, while a search reads them by name;
* a start reads, and the first one writes, a file, a token and settings that other
  processes and the user change;
* a search is kept in a table, in one of two registered clients and in its
  native client, which requests, the sweeper and reconnects change in different
  orders.

What makes each part correct: the table comes to agree with the engine and a
deletion is final (transfers); what is stopped stays stopped (engines); the
running client is the configured one (supervisor); no event is silently lost or
repeated without end (stream); nothing is completed, failed or overwritten
without cause (Soulseek); files are moved for finished transfers only, are never
lost on the way, and what belongs together comes to one folder
(post-processing); a search that ended stays ended and is told to its client
(searches); the first distinct torrents within the budget are returned (hook); only
the oldest lines are given up and a search finds what stays (logs); a start takes
what it found, its token reaches who needs it, and it overrides nobody's choice
(startup).

## Modules

| Module | What it models |
|---|---|
| `TransferTypes` | the states of the normalized transfer model |
| `TorrentEngines` | what each call of either torrent engine does to one record |
| `TransferSync` | engine, table, handlers and sync loop; restarts and failed calls |
| `TransferSyncProofs` | theorems about `TransferSync` |
| `SoulseekSupervisor` | settings handlers, reload generation, supervisor |
| `EventStream` | bus and one SSE subscriber |
| `EventStreamProofs` | theorems about `EventStream` |
| `SoulseekBackend` | the Soulseek backend's transfers over the native client and the disk |
| `SoulseekBackendProofs` | theorems about `SoulseekBackend` |
| `SearchSessions` | searches in table, clients and hook; the sweeper; reconnects and restarts |
| `HookSearch` | one search of the hook: templates, engines, command, merge |
| `SearchProofs` | theorems about `SearchSessions` and `HookSearch` |
| `FileCustody` | abstract: what post-processing and deletion promise about a file |
| `LibraryFiles` | organize jobs and file deletion on one disk; implements `FileCustody` |
| `LibraryLayout` | the folder of the library a file goes to |
| `LibraryFilesProofs` | theorems about `LibraryFiles`, with the refinement, and `LibraryLayout` |
| `StepPipeline` | jobs of steps over a work directory, retried and dropped |
| `StepPipelineProofs` | theorems about `StepPipeline` |
| `LogRotation` | the rotating log writer, and the log search beside it |
| `LogRotationProofs` | theorems about `LogRotation` |
| `Startup` | configuration, token and settings from the command line to the port |
| `SettingsProofs` | theorems about `Startup` and `SoulseekSupervisor` |
| `MC...` | instances of the above: the values of functions, symmetry |

`TransferSync` uses `TorrentEngines`, which uses `TransferTypes`. `LibraryFiles`
takes what `LibraryLayout` computes as a parameter (`SlotOf`); `MCLibraryFiles`
instantiates both and relates them. Its jobs start where `TransferSync` organizes. `SearchSessions` abstracts the reconnects of
`SoulseekSupervisor` to new instances of the client. `SoulseekBackend` has the
loop of `TransferSync` as its only poller.

Definitions marked "Mutant" are variants of the definition that follows them,
each with a bug the code could plausibly have had. They are not part of any
specification: substituting one for its original must make TLC report the
property it is listed with in `PROJECT.json`, which shows that the property can
fail.

A module has at most one type invariant. The runs check those of
`SoulseekSupervisor` and `SearchSessions`; the runs are kept for the properties that
say more. All of them are proved (`TypeCorrect`, `BootTypeCorrect`,
`HookTypeCorrect`).

A proof module that covers two components extends both, so the two have no name in
common: the formulas of `Startup` begin with `Boot`, those of `HookSearch` with
`Hook`, and what is left of a bound is `spare` in `SearchSessions` and `budget`
elsewhere.

### TransferSync

State and code: `engine` is what `get` and `list` report of a record, `rows` is
the state column of the table (`"none"` without a row), `snap`, `todo`, `cur`
and `prev` are the locals of one tick of the loop, `req[c]` is a handler with
the id and the copy it holds. `finished`, `library`, `used`, `removed` and
`quiet` observe; nothing in the code reads them, except that a fresh id is never
in `used` (ids are UUIDs), a resumed rqbit torrent may be complete at once if it
is in `finished`, and a job on files in `library` fails.

One action per await: the loop's `SyncList` (55), `SyncRead` (67-80),
`SyncWrite` (81-111), `SyncOrganize` (121-128), `SyncRows` (132-136),
`SyncOrphan` (168-175), `SyncDone`; the handlers' `Add` (engine call of
`add_transfer`), `Request` (the `store.get` with which the others start),
`Pause`/`Resume`/`Cancel`/`Forget` (engine calls), `Get` and `Store`,
`StoreCancelled`, `DeleteRow`; and the environment's `Progress` and `Restart`.
`engine.add` of both engines inserts and then reads the record back, so `Add` is
followed by the same `Get` as pause and resume.

Abstractions: of a row only its state is kept. Progress, rates and eta change
without the state, which appears as the loop's free choice to store an unchanged
transfer. `replace_files` writes no state and is part of the upsert before it.
`list` of rqbit takes the handles one after the other; the model takes them at
once. Whether a call fails is bounded by `MaxFaults`. Moving files is one step
here (the memory engine only simulates them); `LibraryFiles` takes it apart.

* `sync_memory`: two transfers, two handlers, three requests, a restart and a
  failed call over the simulated engine, with symmetry. Handlers race with each
  other and with the loop on one transfer while another is untouched.
  `ReconciledAfterQuietTick`: an undisturbed pass of the loop leaves every row in
  agreement with the engine. `RemovedIsForgotten`, `DrainedDeletionIsFinal`: what
  a delete achieves whatever races with it. `OrganizedOnlyWhenFinished`.
* `sync_rqbit`: one transfer over rqbit, whose records have more states, two
  handlers, three requests, a restart and a failed call. `StoppedStaysStopped`,
  and, under fairness, `Converges`: table and engine agree for good.
* `sync_pops_back` expects a violation: a deleted row is inserted again by a pass
  of the loop that had listed it, although the call of `forget` is there to
  prevent that (routes.rs 217-221). The next pass does not remove it
  either: it marks the row orphaned.

The safety properties hold for both engines by the theorems below, so each is
checked over one of them. Fairness: weak fairness of the loop's step and of each
accepted request, since tokio keeps polling a spawned task that is ready and no
step of theirs waits for another. Clients need not send requests, downloads need
not progress.

A limit the model shows and no property claims away: a handler that stores a
completed copy makes the loop miss the transition, and the transfer is never
organized (housekeeping.rs 112-120).

### SoulseekSupervisor

`settings` is the table, `base` the bootstrap configuration with the overrides
applied at startup baked in, `generation` and `seen` the watch channel and the
supervisor's receiver, `effective` and `unread` its progress through
`effective_soulseek_config`, `transferCfg` and `searchCfg` the configurations of
the two registered clients, `put[c]` a settings request that stores its keys one
by one. `Connect` covers the three ways the connect ends (client, error, no user
name). `DeleteSetting` announces nothing, as in the code. `Restart` starts over
from the table.

Run `supervisor`. `SettledOnStored` is the absence of lost wakeups: however PUTs
interleave with the reads, the connect and the registrations, a supervisor that
waits with nothing to see runs the stored configuration. Its premise excludes
exactly what the code does not announce: deletions, the stored part of a PUT that
failed, and failed calls (`clean`). `NoTornConfigKept` says the same of the
configuration a client is connected with. `Adopts` is the liveness counterpart.
Bounds: two keys (the user name, which may be blank, and a root that may not),
three values, two concurrent requests, one restart, one failure: enough for a PUT
to straddle any step of a pass and for a second to arrive before the first is
seen. Fairness as above.

### EventStream

`history`, `sent` and the sets `unpushed` and `unsent` are the bus in the middle
of any number of publications; `replay`, `pos`, `held` and `buffer` are the two
tasks of a stream and their channel; `sent` keeps the whole broadcast and
`Oldest` says how much of it the ring still holds. Time is a free choice: a
progress event after the first may or may not be dropped.

Run `events`. `AtMostTwice` and `NoSilentLoss` bound what the stream may repeat
and drop; `EventuallyDelivered` is liveness under weak fairness of the tasks,
strong fairness of the two sends (senders of an mpsc channel queue up, so neither
starves), and a client that keeps reading. Three events of which two are
progress, a history of two, channel and buffer of one, and two connections in a
row reach eviction from the history, lag, a full buffer, and throttling.

An event published after the history was copied and before the subscription
reaches neither task; `NoSilentLoss` therefore speaks of what is sent `since` the
subscription.

### SoulseekBackend

`download`, `refused` and the download root belong to the native client, which is
outside this repository and modelled from how the backend uses it; `registry` is
`BackendState::transfers`; `poll` is the sync loop inside `list`, which holds the
lock from its first transfer to its last; `disk` has one complete or partial file
per directory and name. `add` and `cancel` touch client and registry in two
steps, as in the code; `cancel` names the file by its path at the peer (`PathOf`),
without the peer. `get` is not reached for this backend (pause and resume refuse)
and does what `list` does for one transfer.

The directories outlive the process and the registry does not, so `Init` starts from
any of the disks in `Earlier`, and `TakeAway` is whoever moves files out of them: the
organizer, the DELETE handler, the user. A cancel with `delete_data` removes the file
from the download root (`Stop`).

Run `soulseek`: two transfers of two remote files of one name and different
sizes, a download root in which an earlier run left one of them, one handler, three requests, and one fault: a failed move, or a file
taken away. `CompletedIsBacked` is about the step that completes a transfer: the
client has had the peer's own file complete, or a whole file of its name and size
lies at the transfer's own destination, whoever put it there. The second half is what
the code does on purpose (native_backend.rs 447-468 and the test at 524-545), and it is
weaker than a reader of the table may expect: a transfer may be completed that was
never downloaded. What is excluded is completion by a refusal, a half copy, a file of
another size, a file still in the download root, or a stale status.
`FailedIsRefused` and `DeliveryKeepsFiles`; and under fairness `FinishedIsReported`,
for a transfer whose file name nobody else wants and whose way is free
(`Uncontested`): with two of one name the file of one may be moved away for the other.
Fairness: the steps of the poll, weakly, since the loop ticks for ever and holds the
lock itself. Nothing is assumed of handlers, clients and peers.

Limits, followed by the model: a cancel is undone by a status copied before it (245),
the transfer then stays downloading; a cancel may stop the download of another peer's
file of the same path (281); a refusal drained before its transfer is registered is
lost, and the transfer stays queued (185), and one drained late fails a new transfer of
the same peer and file; a half copy blocks every later delivery of its name (415).
Not translated: the promotion of a lost download in the sync loop (housekeeping.rs
137-167).

### SearchSessions

`rows` and `due` are the table of searches with the expired marks; `registered`
holds the two registries of `AppState`, which a reconnect fills one after the
other; every client is an instance with its own `searches`, `found` and `cached`
results; `hook` is the hook's memory; `req[c]` is a handler, which keeps the
instance it has looked up; `sweep` is the rest of a pass of the sweeper, which
expires the rows first and stops the searches after. Each await of
`start_search`, `stop_search`, `results` and `download_result` ends an action. `Known`
and `Upsert` are the calls of the table, `Results` the one of a client.

Run `searches`: two Soulseek searches and one of the hook, two handlers, three
requests, two connects, a restart and a failed call. `EndedIsSilent` and
`ActiveIsAnswered` relate table and registered client in both directions;
`EndIsFinal`; `RefusedOnlyAcrossClients`; under fairness `SearchesEnd` (of the Soulseek searches). Fairness:
the sweeper's timer, the second registration, the handlers, and time itself
(`Lapse`). A handler that its client drops between `backend.stop` and the upsert, which
leaves a stopped search called active, is not modelled.

Limit: the sweeper stops every expired search on the Soulseek backend, so those of
the hook keep their results until somebody stops them; `ExpiredIsReleased` states
the promise of housekeeping.rs 13-14 and does not hold.

### HookSearch

One search: `AskSite` and `LeaveSites` (builtin.rs, the templates in order, pages
by kind of template), `AskEngine`, `Merge` (adapter.rs), `RunCommand` (the
override). A page is any sequence of magnets up to `MaxPage`; two of them are
links to one torrent. The guards reproduce where the code breaks off, cuts and
drops duplicates. A list is filled one magnet after the other (`Fill`, a function
over the positions of the page): `Keep` appends a magnet whose key the list does
not have while there is room; `Note`, `Take` and `Parsed` are `Fill` by info hash
without a limit, by info hash up to the budget, and by text.

Run `hook`: two usable templates and one without URL, three engines, budgets 0, 2,
3 and 4 under a configured maximum of 3 (so that both clamps act), pages of up to
three hits. `FirstDistinct` compares the result with the reference definition,
the prefix of all distinct torrents offered, and says that a search which ends
early has its fill; `OutputIsKept` is the command's counterpart.

Limit, followed by the model: the comment at adapter.rs 172-174 says that a command
which exits with an error yields no results; the code, and `RunCommand`, keep what it
had written by then.

### FileCustody and LibraryFiles

`FileCustody` is the promise: a file is absent, in the download folder, in the
library or gone; it moves forward only, and is lost only to a deletion somebody
asked for, of a transfer with a file of that name. `LibraryFiles` has the disk:
`staging`, `library` (slots, which may hold partial copies), `jobs` (the job
rows), `run` (`organize_completed_transfer` file by file: rename, or copy and
remove across file systems), `del` (the DELETE handler file by file, with
`find_by_name`, for finished and unfinished transfers), `Crash`. `Custody == INSTANCE FileCustody WITH place <- Place`
is the refinement mapping and `FilesInCustody` the refinement.

Run `library` also takes in `LibraryLayout` (below). Two transfers, one of two
files, the other with a file of the same name and place; three jobs, two
deletions in one handler, a crash, a disk error. `FilesInCustody`, and
`CompletedJobMoved`: a completed job row never claims more than the disk holds.

The refinement asks for a file of the name, not for the file itself, because that
is what the code does: a deletion whose own file has gone already (moved to the
library, or removed by an earlier deletion) finds and deletes the file of the
same name of another transfer (routes.rs 233-246). `OnlyOwnFilesDeleted` states
the stronger promise; it does not hold, and no run checks it.

### LibraryLayout

The routing rules of organize.rs as operators on names that are sequences of
tokens; the comment at the top of the module says which text each token stands
for. Where the rules disagree on what text means, the difference is kept: the
season is looked for with separators dropped and the title with separators kept
(token `spread`), a season reads the digits that follow it, groups and the
hyphens after them are dropped from anime titles only, and a row of digits too long
for a number names no season (`Parses`; the instance has no row of ten digits that
would still fit one). Everything is built on the
first position of a set (`First`), the first token of a kind in a name (`Find`) or
in a path (`Part`, `FirstValue`), and a name without the tokens of some kinds
(`Without`).

Run `library`: while no file has arrived the rules are asked for every name of up
to four tokens of nine kinds, in five kinds of directories, with the four hints for
the medium in three categories and four subpaths for music, and for that of a track,
which takes five; where it is a file of the instance, the jobs follow.
`SlotsAreDestinations` ties the two together: the slots the jobs move files to
are the destinations the rules give them. `StaysInLibrary`: no path and no hint
leads out of the configured folders. `SeasonKeptTogether`, `FilmKeptTogether`:
extending a name after its mark or year never moves it, so the files of a season
or film stay together (a film whose path names no season, however long). Four tokens allow a group, a title, a mark and something
after it.

Limits, followed by the model: "Season 4 1080p" is season 41080
(`SeasonHint`); a track with a year in its path goes to the music root
(`AudioFolder`); `anime_title_from_path` yields "Unknown Title" where its comment
speaks of falling back to `title_from_path`.

### StepPipeline

`jobs[j]` is the job with its steps' states and its run; `at` says what lies under each
name at each place (work directory, one subdirectory, destination): a file, nothing,
or `Broken`, a file that was cut off while it was written. `linked` remembers which
names are hard links of one file, for what is written through one name is read under the
other. `pool` holds operations of tokio::fs that dropped runs left behind, each once
for every run that left it. Each of the eleven step kinds is an action up to its await,
and `Answer` the rest; `Extract` and `RunInstaller` do not wait. An operation left
behind comes `Late`: it succeeds, or fails and may leave the damage a failed one
leaves. A rename replaces the name, a copy writes into the file that is there, and the
extractor removes a file before it writes its own. `Run` continues behind the completed
steps (`resume_from`).

Nothing in the repository calls the pipeline yet, so jobs, targets and plans are
parameters. Nothing is assumed of a plan: `Job.steps` is any list of steps, and several
jobs may have one target (pipeline.rs 35-45 checks neither). `sane` is what
`sanitize_entry_path` makes of the target's path; an oddly spelled path and the one it
comes to are two places of one name.

Run `pipeline`: an archive, a song and a third file as targets of two jobs, any of
eight plans each (in three of them a copy of the third file completes the job or goes
before its last step, once over its own hard link), four runs, a dropped run, a failed operation.
`LaunchedOnce`, `OnlyExtractedIsLost`, `CompletedIsDelivered`; between them the
plans use every kind of step, and flatten and extraction of one job touch the
files of the other.

`CompletedIsDelivered` has two halves. A file of the target's name is in the
destination, whatever came late. And it is whole, with three excuses, each of which the
run showed to be real: two steps contest the name (`Contested`: an extraction with
another writer, or a copy behind a hard link, which truncates its own source), another
job copies the same name again and fails, or a copy that a dropped run left behind came
late: it truncates the file, perhaps fails then, and the job that the retry completed
stays completed. `OnlyExtractedIsLost` speaks of a file whose name no other file has
and no steps contest: it is lost only if it is an archive, and then what it held has been
extracted, and lies in the destination still where no other step writes it.

### LogRotation

Lines are numbered as they reach a file, and a file is the set of its lines.
`there` and `content` are the files, `pc`, `index` and `lines` the writer
(main.rs 53-138), `search` the locals of `log_search` (debug-mcp lib.rs 296-355).
One action per file operation: `Open` counts the lines of an earlier run,
`RemoveOldest`, one `Shift` per rename, `Reopen`. Each may fail; after a failed
rename or reopen the writer has no file and the thread that writes the records
ends at the next one, so the service is silent until it is started again. A record
that cannot be written in full (`WriteRecord`, second half) may leave some of its lines,
which the writer does not count; the file stays open and the next record goes on.
`Stop` may come between any two operations.

Abstractions: one service writes to a directory; listing the files is one step
and reading one of them is one step; files have different times of their last
write; a search does not reach its limit on matches; records still in the queue
of the non-blocking writer when the service ends never reach the writer.

Run `logs`: ten lines in records of one or three lines, four files of two
lines, two stops, a failure, a search. Ten lines rotate the files past their
number, a record of three overfills a file, and the stop falls between any two
renames, twice. `OnlyOldestGivenUp`, `Retention` (less one file's worth of lines
for every rotation that was broken off; a file is longer by what failed records left
uncounted) and `SearchFindsRetained`. The search
reads the newest file first while lines move to older ones, so it meets them;
its premise is that no number is missing among the files it listed. A rotation
in the middle of which the files are listed leaves such a hole, and lines may
then pass the search by, which the code does not notice.

### Startup

`file` is `agpeer.toml`, `token` and `table` are what a data directory holds,
`proc[p]` is a process on its way: `load` (twice, since the directory of the logs
is resolved first), `create` and `fill` (the two halves of writing the file),
`token`, `newToken` and `fillToken` (`ensure_token`), `settings`, `seed`, `bind`,
`serving`. `bridge` is agpeer-mcp, which keeps the token it read. The desktop shell has no
state of its own: `ShellSource` is where it would take its token now, the first of four
places that has one (src-tauri lib.rs 21-57: the file `AGPEER_TOKEN_FILE` names, the
directory `AGPEER_DATA_DIR` names, which is the working directory if it is blank,
`run/data/token` below the working directory, the default directory); `WorkDir` and
`RunData` may be any directories, those of services among them. `found`,
`disturbed`, `edited`, `choice` and `crossed` observe. Of the configuration four
values are kept, one for each way a value is treated: the data directory
(blank is the default, must be creatable), the user name (may be empty, may be
stored in the wrong form, like the password that is read after it), a download root (blank is passed over) and the switch
of the magnet search (a wrong form is passed over, seeded into the table). All
processes bind one address.

Run `startup`: two processes, two starts among five kinds, one edit (to a
complete file), one of four changes of a setting, from four files and three tables, with a directory for the file or
none. So a first start races with another, with the user, and with a service that
runs already. `StartsFromWhatItFound`, `TokenReaches`, `RootsAgree`,
`UserChoicesStand`; each names the race it does not survive (`disturbed`,
`crossed`). `TokenReaches` promises the shell the service's token only where its
environment leads there (`Leads`): an earlier place that has a token shadows a later
one, so a stale `run/data/token` where the shell was started, or a token file of
another service, makes it present a token the service refuses.

Limits, followed by the model: the first start writes the values of the
environment, credentials included, into the file, where they outlive the
environment (config.rs 303-316); nothing creates the directory of the
configuration file, so where it is missing the write fails without a word and
every start takes the defaults; a stored user name of the wrong form ends the
overrides before the roots, a password of the wrong form after the user name was
applied; two first starts may each make a token and the one
that serves may have lost the file; the port comes last, so a start that fails
for want of it has seeded settings already; the list of library folders
(routes.rs 730) uses the root of the bootstrap configuration, not the stored one.

## What is proved

For any sets of transfers, clients, keys and values, any bounds and either engine:

* `TransferSyncProofs`: `TypeCorrect`, `Reconciles`, `DeletionForgets`,
  `OrganizesFinished`, `CancelIsFinal`, `DeletionIsFinal`. One inductive
  invariant carries all of them. `ReconciledAfterQuietTick` speaks only of the
  end of a pass, so `QuietProgress` says what has been achieved at each point of
  it (what was listed and not yet stored is still to do, what was stored agrees
  with the list). `RemovedIsForgotten` needs `ForgottenBeforeDelete` (the order
  of the two calls in `delete_transfer`), `OrganizedOnlyWhenFinished` needs
  `CompletedIsFinished` for the copies. `OnlyUsedIds` makes ids fresh. The
  lemmas `EngineTypes`, `EngineStops` and `EngineCompletes` are all the proofs
  know of the engines.
* `SettingsProofs`, first `Startup`: `BootTypeCorrect`, `StartsFaithfully`,
  `TokenFound`, `OneRoot`, `UserDecides`, from one inductive invariant `BootInv`.
  A start reads the file twice, so `FoundInv` follows what an undisturbed process
  knows of it (`Faithful`): between the readings the file is what it found, or, if
  there was none and it is the one to write it, what it wrote. `TokenInv` says of a
  directory in which no two processes made a token at once that whoever has a token
  has the one on disk, that there is none while one is being made, and that what
  agpeer-mcp took stays. `ShellFinds` is about the four places of the shell: where its
  environment leads, no earlier one has a token. `OneServes`: the port admits one process. `NamedInv` ties a
  directory the environment names to the one in use. `ChoiceInv` has three parts:
  what is bound runs with the stored settings over its configuration, a file the
  user wrote is not about to be written over, and a decision about the magnet search
  is in the table and has been seen by whoever is about to seed.
  Then `SoulseekSupervisor`: `TypeCorrect`, `AdoptsStored`, `NeverTorn`, from
  `PassProgress`: unless something unannounced or newer has happened, the keys
  read so far have their stored values, and so on through the pass.
* `SearchProofs`, first `SearchSessions`: `TypeCorrect`, `EndedStaysSilent`,
  `ActiveAnswers`, `RefusalNeedsReconnect`, `EndsOnce`. Table and clients agree
  because a search is known to one instance only, the one registered when it was
  started, and a new instance knows none (`Newest`); because nobody can stop or
  expire a search before its row is stored (`Pending`); and because what a handler
  holds between two awaits stays true of its id (`Stopping`, `Resolving`).
  Then `HookSearch`: `HookTypeCorrect`, `OffersFirst`, `KeepsOutput`. While the
  templates are asked, the list is what was offered, cut to the budget (`Asking`);
  while the engines are asked, what was offered is the list and theirs together
  (`Merging`). So the proof is about lists: breaking off at a budget is cutting what
  would have come (`FillCut`), noting a list already noted is noting its page
  (`NotedTwice`), and cutting the engines' list to the budget loses nothing, since
  that many different torrents fit in no shorter list (`Fits`, the pigeonhole
  principle). These are statements about all steps of `Fill`; each is proved as an
  induction over an explicit set of positions (`Along`, by the least position that
  is not in it).
* `LogRotationProofs`: `TypeCorrect`, `OldestGivenUp`, `SearchFinds`,
  `KeepsFullFiles`, for any number of files of any size and any records. The
  inductive invariant is about the shift: until the loop reaches the oldest file but
  one, the slot a file is moved to is empty (`SlotFree`), whatever failed or was
  broken off earlier, and the one slot that may be overwritten holds the oldest
  lines. For the search, a line that was there has been seen, or is `Ahead`, in a
  file still to be read or beyond all that were listed; files still to be read are
  the upper part of those listed, and lines move up one file at a time
  (`BesideSearch`). For `Retention`, every file but the newest is full
  and the newest is what the writer counts, and what failed records left of
  themselves (`FullFiles`), and of the slots below lines that were written only as many are
  empty as rotations have been broken off (`FewHoles`), not counting the slot a
  rotation under way fills next. So the lines kept are at least what the remaining
  files hold.
* `LibraryFilesProofs`, first `LibraryFiles`: `TypeCorrect`,
  `CompletedMoved`, `KeepsCustody`. A job that has not
  failed has moved what it has no longer left (`MovedSoFar`), because the slot of
  the file being copied holds what the job put there (`Copying`): `Movable` refuses
  an occupied one, and nothing removes a file from a slot. For the refinement every
  step is shown to be a step of `FileCustody` or to stutter under the mapping of
  places; the one delicate case is a file that vanishes from its source while it
  is copied, which only a deletion of its name can do (`CopyDoomed`).
  Then `LibraryLayout`, for any directories, names of any length, values and hints:
  `SeasonsStay`, `FilmsStay`, `LibraryOnly`. The first position of a set is its least
  element, which exists because a set of positions can be counted (`Least`,
  `FirstOf`); so the first token of a kind is the same in a name and in any name that
  goes on behind it (`FindAppend`), and with it the mark, the season, and the title,
  which is what stands before them. For `LibraryOnly` every part of a destination is
  a configured folder or a name built of tokens, a season or a year.
* `SoulseekBackendProofs`: `TypeCorrect`, `CompletedBacked`, `FailedRefused`,
  `KeepsFiles`, for any disk that earlier runs left. What the poll works with may be
  old, so the invariant follows every copy: a status that says full was true when it
  was read and a download once finished stays finished (`StatusBacked`), and a refusal
  is a peer's wherever it waits (`RefusalsReal`). The lemma `Delivery` says what a
  delivery, good or broken off, does to either directory, and `Turn` what the poll does
  to one transfer: completion needs a full status or the file at the destination, seen
  under the same lock.
* `EventStreamProofs`: `TypeCorrect`, `TwiceAtMost`, `NothingLost`. An event enters
  the history and the channel once (`PublishedOnce`); what the history task has
  still to send it has not sent (`Replaying`); what came live came from the channel
  before the receiver's position (`Received`).
* `StepPipelineProofs`: `TypeCorrect`, `InstallsOnce`, `CompletedDelivers`,
  `LosesOnlyExtracted`, for jobs with any steps in any order. The completed steps of a
  job are always the first ones, and a run is at the step behind them (`InOrder`), so
  what was completed is never run again. What a delivering step put under a name stays
  there, or is replaced by something of that name (`DeliveredStays`). An operation,
  waited for or left behind, stems from a step of its kind, and removes only what has
  been extracted (`Sound`, `OpsSound`). So a broken file can be accounted for
  (`DestWhole`): its name is contested, a late copy is over, or a copy step of that name
  is not completed, which is then another job's. In the work directory only contested
  names are broken (`DirWhole`), so what is moved or copied from there is whole. A file
  of an uncontested name is safe where it lies until it has been extracted (`Kept`), and
  an extracted archive has left what it held (`Held`). `Contests` is the lemma about
  plans behind it: an extraction and a delivering step of one name contest it, and so do
  a copy and a hard link. That an archive holds no name twice is assumed: the
  extractor (`7z x -y`) keeps the last of such entries, so that archive is the one with
  the last entry only.

The assumptions are the named `ASSUME`s of the modules, which every run
evaluates. The functions of a module over its constants are what they have to say
something about: `LayoutAssumption` which tokens names are made of,
`CallsAssumption` and `StoredAssumption` which environments and stored settings a
start may meet, `LogAssumption` that there are records of some size.

Every invariant and every action property that a run expects to hold is proved, and
the refinement of `FileCustody`. Model-checked only are the liveness properties
(`Converges`, `Adopts`, `EventuallyDelivered`, `FinishedIsReported`,
`SearchesEnd`): fairness arguments need ENABLED, which the prover does not support.
That the slots the jobs move files to are the destinations of the rules
(`SlotsAreDestinations`) is a fact about the values of one instance.

## Plan

What is left to gain:

1. `SoulseekRows`: the Soulseek branch of the sync loop (housekeeping.rs
   137-167), promotion from disk and restarts, over `SoulseekBackend`.
2. `TransferRegistry`, an abstract registry (a transfer is running, stopped or
   gone) that `TransferSync` and the rqbit engine with two entries per torrent
   implement, or fail to (rqbit.rs 303).

## Known weaknesses without a property

Met while modelling, followed by the models, and not claimed away by any
property:

* a handler that stores a completed copy makes the loop miss the transition
  (housekeeping.rs 115);
* deleting a setting announces nothing (routes.rs 647-655): the client keeps the
  deleted value until another reload;
* an event between the copy of the history and the subscription reaches no stream
  (sse.rs 42);
* a status copied before the lock undoes a cancel (native_backend.rs 245), and a
  refusal drained between the download and the insertion of its transfer is lost (185);
* a transfer is completed by any whole file of its name and size that lies at its
  destination (native_backend.rs 453);
* a late copy may break what a completed job delivered (pipeline.rs 143);
* a token left where the desktop shell was started shadows the service's
  (src-tauri lib.rs 39-49);
* a deletion may delete another transfer's file of the same name (routes.rs 256);
* expired searches of the hook keep their results (housekeeping.rs 30);
* two entries of one torrent share an rqbit id (rqbit.rs 303), and a Soulseek row
  promoted from disk never ends (housekeeping.rs 147): both wait for the modules
  of the plan.

## Not modelled

Parsing of magnets, torrent files and bencode, scraping of result pages, the
contents of archives, the table of file categories, secrets (which have no
caller), static files, the tools of the MCP servers other than the log search,
and the screens of the UI: pure functions of one input, input and output without
state, or clients of the API. Of authentication only the comparison of tokens is
modelled (`Startup`). The database appears as the single statements its callers
make. Their tests are the right tool. `PROJECT.json` lists every part with its status and the reason, and
every hazard with the properties that cover it.

## Running

    tlc -config TransferSync_memory.cfg MCTransferSync.tla
    tlapm TransferSyncProofs.tla

and likewise for the other runs, each listed with its module and configuration in
`PROJECT.json`. Runs whose expectation is "violation" end with a counterexample
to the one property they check. Deadlock is checked in the runs of `TransferSync` and
`SoulseekBackend`, whose loop ticks for ever; elsewhere the system waits for
requests, which the bounds limit.
