# A TLA+ model of the ownCloud sync client

The client is a daemon, `ocsyncd`, that keeps local folders equal to WebDAV
spaces of an ownCloud server, a GUI that talks to it over a local connection, and
shell extensions that talk to its socket API. This directory holds TLA+ modules
for the parts where correctness depends on the order of events. TLC checks them on
small instances, TLAPS proves the safety properties for every value of the
constants.

## The system

| part | state | what is hard | module |
|---|---|---|---|
| reconciliation (`sync-engine/reconcile.rs`) | none | a change is seen by size (local) or etag (remote) only | `Reconcile` |
| engine (`engine.rs`, `propagate/`, `state.rs`), journal (`sync-db`) | both trees, rows, statuses, tasks | edits, failures and crashes between any two awaits; shared temporary names | `SyncEngine`, `Paths` |
| scheduler (`daemon/scheduler.rs`) | paused, running, pending per folder | requests dropped while running or paused | `Scheduler` |
| main loop, watchers, poll loop (`daemon/main.rs`, `watcher.rs`, `folder_manager.rs`) | channels, deadlines, sync tasks | tasks that take the scheduler's lock at any time | `Daemon`, `SerialJobs` |
| accounts (`config.rs`, `oidc_callback.rs`, `space_poller.rs`, `handler.rs`) | config in memory and on disk, keychain, token managers | overlapping sign-ins, partial failure, stale lists | `Accounts` |
| server discovery (`webfinger.rs`, `capabilities.rs`, `handler.rs`) | none | which server a sign-in ends at | `Discovery` |
| tokens, requests, remote walk (`ocis-client`, `discovery/remote.rs`) | one token set per account, keychain | concurrent refresh with rotation; a tree that changes under the walk | `Client` |
| GUI IPC and GUI state (`gui_ipc/`, `gui/app.rs`, `views/`) | connection, broadcast channel, the GUI's lists and page | event order, lagging receivers, lost commands | `Gui` |
| GUI start and link (`gui/main.rs`, `spawn.rs`, `daemon_conn.rs`, `subscription.rs`, `tray.rs`, `lock.rs`) | connect tasks, receiver slot, tray, window | two tasks, a deaf GUI, a guard left behind | `GuiLink` |
| socket API and D-Bus service (`socket-api`, `oc-dbus-service`) | connections, write tasks, broadcast list, badges | full channels, dropped clients, line order | `Shell` |

The modules meet where the parts do, each relying on what another one shows:

* The tick of `Daemon` starts a task per ready folder, which calls
  `SyncEngine::run_sync`. `Daemon` sees a run as two moments, the scan of the local
  tree and the return; `SyncEngine` takes one folder and lets runs follow each other
  without overlap, which `Daemon` proves (`JobsSerialized`).
* `SyncEngine` takes each discovery walk for one snapshot. `Client` has the remote
  walk request by request and shows how far its result can be from one
  (`WalkIsBetween`).
* `Gui` uses the operators of `Scheduler` for the daemon's side, and takes a sign-in
  for a task that ends in one of the ways `Accounts` shows (`AttemptAnswered`). Its
  connection is cut and made again at will; that the GUI does come back is
  `GuiLink`'s (`Settles`).
* `Accounts` runs `Discovery` within a sign-in, and takes engines, scheduler and
  polled ids for one set, `served`, since `Daemon` shows that they agree
  (`ScheduledHasEngine`).

## Modules

* `Reconcile` is the decision table. `Paths` derives the engine's names: a path is
  the set of directories above it, a stem and an extension, so that the temporary
  name of `a.txt` and `a.md` is one and the same.
* `SyncEngine` is `run_sync` for one folder with its environment. A body is a
  version number and a length; a truncated body is a version with a shorter
  length. The variables are the two trees, the journal, the two discovery
  results, one task per path with its suspension point (`pc`), the statuses and
  history variables (`wanted`, `created`, a row's `body`) that no guard reads.
  An action is what runs between two awaits at which something else could
  interfere: rename, GET, write of the temporary file, rename into place, stat and
  journal write for a download; stat, PUT or TUS, journal write for an upload.
  Failure branches take one unit of `MaxFaults`: a request that fails before or
  after it took effect, a reply without an etag, a file operation that fails, a
  journal read or write that fails, which the code ignores.
* `Scheduler` is `SyncScheduler` as operators on one folder's flags. `Daemon` is
  the `select!` loop with its tasks, `SerialJobs` the promise behind it: jobs
  begin on a request, one at a time per folder, and requests wait for a job.
* `Discovery` has the steps from the address a user enters to the endpoints of the
  sign-in as operators on what the network answers; a host is the sequence of its
  labels.
* `Accounts` has one id per sign-in attempt with its stage (`discover`, `callback`,
  `identity`, `enroll`, `cleanup`, `respond`), the config in memory (`cfg`) and in
  the file (`disk`), the keychain, the token managers, the folders that are served,
  and a poller per account that reads the config, lists the spaces and removes in
  separate steps. The daemon stops at any moment, also within a write of the config.
  `torn` says that the file lacks some of what was written last. History: `said` (the
  events announced), `quiet`, `skipped`, `removed`, `vanished`, `lost`, `taken`.
* `Client` has `get_valid_token` in its steps (look, look again under the lock,
  refresh, install, save in the background), requests that take the token as it is
  and repeat once, and the breadth-first walk with one PROPFIND per step. A token
  set is the number of its issue.
* `Gui` is both ends of the IPC connection: commands, snapshot and broadcast events
  through bounded queues, the daemon's handlers, and the GUI's `update` with the
  wizard's pages as the presses they offer. History: `lagged`, `raced`, `lost`,
  `unanswered`, `dropped`.
* `GuiLink` is `spawn_and_connect` step by step, the daemon processes at the lock
  file, the messages to `update`, the receiver slot with the swaps that wait for its
  lock, the tray's menu and the window.
* `Shell` is the socket API's server, one handler and one write task per connection,
  and the D-Bus service: a connection per call, and a listener for broadcasts.
* `MCSyncEngine`, `MCDaemon`, `MCAccounts`, `MCClient`, `MCGui`, `MCGuiLink` and
  `MCShell` give the constants values. `SyncEngineProofs`, `DaemonProofs`,
  `AccountsProofs` (with `Discovery`), `ClientProofs`, `GuiProofs` and
  `GuiCopyProofs`, `GuiLinkProofs` and `ShellProofs` hold the theorems.

Definitions named `X_Something` next to `X` are wrong variants of `X`, each a
plausible slip in the code, with which one of the properties is shown to fail.

### What is abstracted

* `SyncEngine`: each discovery walk is one snapshot of its tree; the two walks
  interleave with edits and with each other. A recursive removal takes effect as a
  whole, or not at all. Deleting one file and its row is one step: the task holds its
  permit only within that step. A path keeps its kind. Conflict copies are named
  from `Path`; a run's bound on edits keeps the number of conflicts below the names
  there are, and deadlock is checked in every run of the engine. At most one row is
  unreadable in a run (`reconcile_all`). Left out: the early return when a path
  cannot be joined to the space's URL (engine.rs 166, 270), panics of tasks, the
  report's statistics, `rename_remote` and `expected_etag` (no caller sets or calls
  them), a server that changes an etag without a new body.
  The statuses are the engine's own `SyncState`, which nothing reads yet (see `Shell`
  below). What a failed write leaves at a temporary name is the beginning of a body.
* `Daemon`: the config can always be saved (its failures are in `Accounts`), and a
  folder that cannot be registered leaves no trace, as in the handler.
* `Accounts`: a user is a server's URL, as it was entered or discovered, with a user
  id, for this is what the code compares. The announcements of discovered spaces,
  which the GUI only logs, are left out. Ids of attempts are taken in order, since
  they are fresh and nothing compares them. The write of the config fails or is cut at
  any point; the file then holds some of the accounts, the last of them perhaps with
  fewer folders, or cannot be parsed and the daemon does not start. An entry that is
  cut between its name and its `server_type`, and so becomes an oCIS account, is not
  among them.
* `Client`: a token expires at any time. One directory's listing is atomic. A server
  that answers the reuse of a refresh token by revoking all its successors is not
  modelled: here the reuse is refused and the successor stays good.
* `Gui`: one client. The AddAccountSpace commands that `Submit` sends for the chosen
  spaces are one command. Progress lines, texts and opening of folders or URLs are
  left out.
* `GuiLink`: a connection nothing refers to is used again; a GUI that was quit is not
  started again.
* `Shell`: a line is its kind, and for STATUS its tag and path; a write is one line.
  `resolve_file` answers OK below a root and NONE elsewhere. The SYNC, ERROR and
  EXCLUDED branches of status_resolver.rs are left out because the daemon never writes
  the map they read, whatever folder_manager.rs:62–63 says of the engines.

## Runs

| run | instance | shows |
|---|---|---|
| `crash_recovery` | directory with a file, 3 edits or deletions between runs, 1 failure, 1 crash, 1 permit, PUT and TUS | `Converges`, `IgnoreIsSound`, `StatusTracksTask`, `TypeOK` |
| `keep_both` | 1 file, 5 edits between runs, no failure | `NoLoss`, `RunLeavesRows` |
| `busy` | 1 file, 3 edits at any time, one length, equal timestamps, 1 failure | `RowMatchesServer` |
| `daemon` | 1 folder, 2 changes, 2 failures, 1 restart, all commands | `OneJobPerFolder`, `RunningIsJob`, `ScheduledHasEngine`, `JobsAreSerial` (refinement), `ChangeIsSeen`, `RequestIsAnswered`, `PauseHolds`, `TypeOK` |
| `accounts` | 2 sign-ins at an oCIS or an oc10 server, 2 folders, 2 spaces, 1 failure, 1 crash, 1 change on the server | `AccountsDistinct`, `FailedLeavesNothing`, `CompletedSurvives`, `ConfiguredIsServed`, `OnlyGoneTaken`, `AttemptAnswered` |
| `client` | 2 runs, 1 poller, rotating refresh tokens, a directory in a directory, 1 failure or restart, 1 edit | `SessionKept`, `KeychainUsable`, `WalkIsBetween`, `CallsRecover` |
| `gui_mirror` | 2 accounts, 2 folders, 3 presses, 1 upset | `MirrorComplete`, `SyncingIsReal`, `WaitingEnds`, `SubmitAnswered` |
| `gui_link` | 3 connections, 2 task slots, every kind of tray, 1 death, 2 faults (spawn, probe, connection), a daemon slow to listen, 2 clicks | `GuardIsExact`, `HearsWhomItTells`, `Settles` |
| `shell` | 1 caller, the listener, 1 path, channels and sockets of one line, 1 stop or failing accept, restart | `RootsFirst`, `MembersServed`, `BadgeFollows`, `CallReturns`, `HandlersEnd`, `TypeOK` |

`TypeOK` of `Accounts` and `Gui` is no property of a run but is proved, as a part of
the invariants below. That of `Client` and `GuiLink` documents the types of the
variables.

Three runs show where the code departs from what the repository says of it; each
counterexample is short enough to read.

| run | property | what happens |
|---|---|---|
| `shared_tmp` | `InstalledIsFetched` | `a.txt` receives the body of `a.md` |
| `stale_row` | `CreatedSurvives` | a row outlives its file and condemns the next one |
| `shell_status` | `StatusAnswered` | `GetFileStatus` takes REGISTER_PATH for its answer and reports NONE |

### Bounds

Three to five edits are enough for a synced file to be changed on both sides, in
conflict again, and deleted or created anew; one failure and one crash can fall on
any step of any run, and the number of runs is not bounded. The code runs four
transfers at a time (folder_manager.rs:123, 182); `crash_recovery` runs one, because
with more, the downloads of a file and of a temporary file left behind by a failed one
share a name, which is what `shared_tmp` is about, and `IgnoreIsSound` fails.
`IgnoredIsInSync` proves it for any number of transfers that keep apart.
Two sign-ins of the same user, two runs with one expired token, and one change on
the server during a poll are the smallest instances in which these races exist.
Queues of one or two places stand for 64 and 256: every full, overflowing and empty
state occurs. Three issues of a token set cover a refresh that is lost and one that
is repeated, and two saves that cross. Runs whose counters end (`accounts`, `client`, `gui_mirror`,
`gui_link`, `shell`) may come to rest, so deadlock is not checked there; what must
still happen is stated as a liveness property.

`EditsDuringRun`, `Deletes`, `SameSecond` and `SizeOf` state under which usage a
property holds.

### Departures that are no runs

The models behave as the code does, and these show in them; the properties name
them as exceptions or are checked where they do not occur.

* Engine. `NoLoss` fails when a local change keeps the length (reconcile.rs:30), when
  the download of a conflict fails (engine.rs:386: the next run deletes on the
  server), and with `SameSecond = TRUE`, since the second conflict copy of a second
  replaces the first. `IgnoreIsSound` fails with `EditsDuringRun = TRUE`
  (engine.rs:297: an edit right after a download is recorded as synced), and for
  temporary files that a failed write left behind, which the next run takes for the
  user's; it is stated for the other files.
  `CreatedSurvives` fails on a directory: a recursive deletion takes along a file the
  other side has just created. `RunLeavesRows` fails there too: a directory created
  on both sides gets no row.
* Accounts. The config is written in place: a write that fails or is cut leaves a
  beginning of it (`torn`), and a start from such a file loses what it lacks (`lost`).
  A callback port whose number cannot be asked for (handler.rs:133) ends the command
  without an event. After the timeout an account may exist whose failure was
  announced (`quiet`). `RemoveAccount` leaves engines, scheduler and token manager.
  A start passes over accounts whose server cannot be asked, and over those signed
  in by the OAuth2 fallback every time (`skipped`). One folder without its
  directory makes the whole start fail (folder_manager.rs:129). Accounts are
  compared by the spelling of their URL. `registrable_domain` keeps the last two
  labels, also where webfinger.rs:88–92 speaks of a fallback for longer suffixes.
* GUI. A snapshot that already contains an account or folder whose event is still
  queued leads to a duplicate in the list; `MirrorComplete` compares sets. A
  SyncFinished overwrites Paused, and a sync forced then shows Syncing without end
  (`dropped`). A removed account comes back in the list if an event of it was on its
  way (`raced`). The failure of another attempt ends the present wait. Two presses
  of Submit create two folders. Quit may be lost with the process that sends it.
* Tokens. Two saves in the background that cross may leave the older set in the
  keychain (`crossed`), which a restart then finds used up.
* Link. A daemon asks the server of every account for its discovery document before it
  listens (main.rs:133, 249), the GUI waits for one second (spawn.rs:90): a slow start
  leaves it disconnected until the next click (`gaveUp`). A start clicked while
  connected replaces a good connection (`late`). On platforms whose tray is a stub,
  `build` returns `Ok` without a menu, and the window hides for good although
  tray.rs:391–393 has it exit. The channel to the tray's thread has one place, and a
  newer state that meets a full one is dropped (tray.rs:309), so the menu may stay
  behind.
* Shell. A command that cannot be parsed is never answered. Broadcasts of two
  hydrations of one path may arrive in either order, and nothing is replayed to a
  listener that reconnects (`excused`). A failing accept ends the server for good: the
  connections there are go on, and nobody can connect until the daemon is started
  again. A client that stays and never reads blocks every broadcast.

### Fairness

`SyncEngine!FairSpec` is weak fairness of `run_sync`: the poll loop requests a
sync of every folder for ever (`ChangeIsSeen` is the daemon's side of this), and a
run's futures are polled until they complete. `Daemon!Fairness` is weak fairness of
the two timers, of the poll channel's arm in `select!`, which picks among ready arms
at random, and of each task's steps. Watcher events and the passing of deadlines are
not assumed fair: progress rests on the poll loop alone. `Accounts!Fairness` is the
timeout around `run_callback` (oidc_callback.rs:60) and nothing else: requests have no
timeouts of their own, so `AttemptAnswered` begins where discovery ends.
`Client!Fairness`: runs begin again and again, requests and keychain writes end.
`Gui!Fairness`: the loops on both sides go on, the GUI reconnects, a sync run ends.
That a sign-in's discovery and a listing end is not assumed: it is the hypothesis of
`WaitingEnds`. No user is assumed to press anything. `GuiLink!Fairness`: tasks and
timers run on, a spawned process tries the lock and listens at some time, perhaps after
the GUI has given up waiting, iced hands messages to `update`. `Shell!Fairness`: the
runtime polls every task that can go on, a hydration returns, a caller waits in
`read_line`, the listener reads. Edits, clicks, failures, crashes and restarts are
nowhere fair, and bounded.

What the liveness properties leave open: `Settles` has two ends, a connection that
stays or a GUI that says there is none after an attempt that failed, and never one in
which a lost connection is not tried again. `ChangeIsSeen` is about folders that are in
the config; those of a removed account keep their engines but owe nobody a run.
`HandlersEnd` is one formula for all connections: the number of calls is bounded, so
that closed connections without end would be one that stays.

## Proofs

Assumptions are those the modules state: a finite set of paths that contains the
directories above and the temporary name of each path, natural numbers for bounds
and sizes, at least one permit, and a `None` that is no value. No theorem assumes a
bound on the number of folders, accounts, connections or tasks; where an argument
counts or walks a tree, the accounts, folders, paths and nodes are finitely many, and
the tree of `Client` has a root and no cycles.

* `SyncEngineProofs!TypeCorrect`: `TypeOK` is inductive by itself.
* `StatusesExact` rests on `TaskInv`, which adds `IdleHasNoTasks`: there are no tasks
  outside the propagation phase. Without it the statuses are not inductive, because
  the reconciliation of the next run could drop a task that is shown as Syncing.
* `JournalTruthful` rests on `EtagInv`: for each file, the etags on the server, in
  the row and in a running task are below `nextEtag`, the server's is not the empty
  one, and a row or a task whose etag is the server's has the server's body. The
  task matters because it carries an etag and a body over several steps while the
  server goes on changing. The proof has one lemma for the file a task works on
  (`OwnEtags`), one for the other files (`OtherEtags`) and one for directories
  (`DirEtags`).
* `DaemonProofs!Serialized` is the invariant that the running flag is set exactly
  when the folder has a job, that there is at most one, that the scheduler's
  folders have engines, and that nothing is scheduled while the daemon is down.
  `JobsSerialized`, `FlagExact` and `StartedHasEngine` are its parts.
* `ImplementsSerialJobs`: with the pending flags as requests and the tasks in
  `run_sync` as jobs, every step of `Daemon` is a step of `SerialJobs` or leaves
  both alone. `Serialized` is used to show that a tick begins only jobs of idle
  folders and that a return ends a job.
* `PausesHold`: the action property `PauseHolds`, from `HeldInv` next to
  `Serialized`: a change is held only where the folder is known to the scheduler and
  paused, and no run of it is ahead of its scan.
* `AccountsProofs!FirstUsableWins` and `StaysInDomain` are about every list of
  links and every answer of the network. The first usable link exists because a
  non-empty set of positions has a least one (`LeastIndex`).
* `InvAlways` is the invariant `Inv`, of which `Distinct`,
  `NothingLeft` and `Survives` are parts. Distinctness needs `Named`: an entry bears
  the user its attempt signed in, and an attempt that has not begun has no entry.
  The other two need `Credentials`, which says for each stage of a sign-in where its
  credentials are and what has been announced: a failure is the last thing an
  attempt says, and one that waits for its callback has nothing to leave behind.
  `Survives` also needs that what memory has and the file lacks is a matter of a torn
  file (`SaveEffect` says what a save may leave), for any list of accounts and any cut.
* `Served` is inductive next to `Inv`. `GoneOnly`
  needs `Accounted`: a configured folder's space is on the server's list or was off
  it since, and what a poller is about to remove has vanished, for it compares only
  folders it knew before it asked.
* `GuiLinkProofs!LinkInvAlways` is the invariant behind `GuardAlways` and
  `HearsAlways`. `GuardIsExact` is inductive once the message queue is typed and a
  GUI that is gone has neither tasks nor messages. `HearsWhomItTells` speaks of
  moments at which everything has been handled; `Hearing` adds what is on its way:
  the last receiver that waits for the slot is that of the connection in use, and
  where none waits the slot has it or the news of its end is among the messages.
* `ClientProofs!SessionsKept` and `KeychainsUsable` rest on `TokenInv`. Two runs may
  hold the same old refresh token, but a set that a run is about to install is good
  and nobody else's (`Exclusive`), and a set on its way to the keychain is good and
  used up by no run, unless two saves crossed (`SavesGood`). The exception `broken`
  records an answer, a save or a refresh token that was lost.
* `WalksAreBetween` rests on `Walking`: a path that stayed, and whose directory was
  found, was found itself or its directory is queued. That an empty queue then leaves
  nothing out is an induction along the tree, done with a least counterexample
  (`NothingMissed`).
* `ShellProofs`: `RootsAlwaysFirst`, `MembersAlwaysServed` and `BadgeAlwaysFollows`
  need to know which handler owns a connection's places in the list, the channels and
  the sockets, that nothing is sent to a connection before its roots, and that of two
  lines about a path the later one is last in every place it passes. `Retained` proves
  what `retain` leaves of the list.
* `SyncEngineProofs!IgnoredIsInSync` is `IgnoreIsSound` for any number of parallel
  transfers, with no edits during a run and lengths that tell versions apart;
  failures, cut writes, crashes, deletions and directories are allowed. Its third
  hypothesis, `TransfersApart`, is that no step of a transfer touches the file or the
  temporary file of another. The code does not see to it, as `shared_tmp` shows: it
  holds where no two files that are transferred at a time share a stem, and with one
  transfer at a time. `Contents` says that every body in a tree, a row or a task is a
  whole version or empty, but for what a failed write leaves at a temporary name, and
  how far each task has brought its file.
* `NothingLost` is `NoLoss` for `KeepBoth`, any paths and any number of parallel
  transfers, under three hypotheses. `Calm`: no failure, crash or deletion, no edit
  during a run, no two conflicts in one second. `NamesApart`: no two files share a
  temporary name and nobody writes to one. `LengthsTell`. `KeepInv` says that a
  temporary file is there only while its task is about to rename it, that the name of
  the next conflict copy is free, that a row's content is unwanted once a side has
  another, and that a task only overwrites what nobody wants or what is set aside.
* `RunLeavesFileRows` and `RowsAreLeft` are `RunLeavesRows` for files next to any
  directories, and for all paths where there are none, with `Steady`: nothing fails
  and nobody edits during a run. `RowInv` looks at the server only: each file there
  has a row or a task that will leave one.
* TLC finds a counterexample to each of these three properties when any one of its
  hypotheses is dropped, so they say where the engine's promises end.
* `GuiCopyProofs!GuiInvariant` is the invariant behind `CopyIsComplete` and
  `SyncingIsTrue`. The two properties speak of moments when nothing is on its way;
  `CopyInv` says what the GUI's copy will be then: the list it starts from, which is
  the last snapshot on the wire or what it shows, together with the events behind it
  amounts to the daemon's accounts and folders, and every start that is announced or
  shown is real or has its end behind it. It needs the shape of the lists (of two
  entries of an account the first has the rows), that an account or folder keeps its
  owner (`Roles`, `Owned`), and what the queues can hold (`QueueInv`). A receiver that
  lagged, and for `MirrorComplete` a removal that crossed a snapshot or an event or
  got lost, are excepted as in the properties. `GuiProofs` has the invariant, the
  events the GUI handles and the connection; `GuiCopyProofs` has the user's and the
  daemon's steps and the theorems.

The lemmas that need that a set is finite or has a least member take the facts as a
hypothesis (`ListsFinite`, `SetFacts`). The last
section of the module, for `SetFacts` that of `GuiCopyProofs`, brings in the library's
theorems on finite sets and proves it, so the theorems do not depend on it.

Only model-checked: the liveness properties (`Converges`, `ChangeIsSeen`,
`RequestIsAnswered`, `AttemptAnswered`, `CallsRecover`, `WaitingEnds`,
`SubmitAnswered`, `Settles`, `CallReturns`, `HandlersEnd`), which need fairness and
are beyond the prover. Every safety property of a passing run is proved.

## Not modelled

* Windows and macOS shell extensions (`oc-overlay`, `oc-contextmenu`, `oc-ipc`,
  FinderSync, FileProvider): the same socket protocol behind platform callbacks.
* The VFS backends. Every folder is created with mode "off" and `run_sync` never
  calls a VFS; `Shell` has only the result of hydrate and dehydrate.
* `tus/mod.rs` and `webdav/propfind.rs` of `ocis-client`, and `upload_info` and
  `error_blacklist` of the journal: nothing in the daemon calls them.
* Theme, icons, translations, texts and the acceptance tests' harness.
* Panics of tasks, which end the daemon's bookkeeping of a run: the code has no
  handler for them.
