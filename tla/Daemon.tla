------------------------------- MODULE Daemon -------------------------------
(****************************************************************************)
(* The main loop of ocsyncd and the tasks around it: commands, the poll     *)
(* loop, the watchers with their debounce, the scheduler tick that spawns   *)
(* one task per folder that is ready, and those tasks themselves. What a    *)
(* run does to the files is module SyncEngine's; here a run is where it     *)
(* reads the local tree and where it returns.                               *)
(****************************************************************************)
EXTENDS Scheduler, Integers, FiniteSets

CONSTANTS
  Folder,
  MaxChanges, MaxFaults, MaxStops,  \* bounds on the environment
  MaxBacklog  \* bound on tasks that have yet to broadcast their SyncFinished

ASSUME BoundAssumption ==
  {MaxChanges, MaxFaults, MaxStops, MaxBacklog} \subseteq Nat

VARIABLES
  up,           \* is the daemon running?
  configured,   \* the folders in the config; saving it succeeds
  sched,        \* SyncScheduler.folders
  engines,      \* FolderManager.folders
  live,         \* live_folder_ids, what the poll loop reads
  polled,       \* requests in the poll channel
  fsEvents,     \* folders with an event between the watcher and the main loop
  debounce_map, \* per folder: no deadline, one ahead, one that has passed
  scanning,     \* per folder: tasks in run_sync that have yet to read the tree
  transferring, \* per folder: tasks in run_sync that have read it
  announcing,   \* per folder: tasks between finish_sync and SyncFinished
  unseen,       \* folders with a local change no run has read yet
  held,         \* history: those changed while the folder was paused, with no run
                \* left that was to read the tree
  changes, faults, stops

vars == <<up, configured, sched, engines, live, polled, fsEvents, debounce_map,
          scanning, transferring, announcing, unseen, held, changes, faults, stops>>

inputs == <<polled, fsEvents, debounce_map>>
tasks  == <<scanning, transferring, announcing>>
counts == <<changes, faults, stops>>

Jobs(f) == scanning[f] + transferring[f]
Paused(f) == Known(sched[f]) /\ sched[f].paused
Zero == [f \in Folder |-> 0]

Init ==
  /\ up = FALSE /\ configured = {}
  /\ sched = [f \in Folder |-> None] /\ engines = {} /\ live = {}
  /\ polled = {} /\ fsEvents = {} /\ debounce_map = [f \in Folder |-> "none"]
  /\ scanning = Zero /\ transferring = Zero /\ announcing = Zero
  /\ unseen = {} /\ held = {}
  /\ changes = 0 /\ faults = 0 /\ stops = 0

\* Mutant: every configured folder is scheduled, with or without an engine.
Start_AllScheduled ==
  /\ ~up /\ up' = TRUE
  /\ \E fs \in SUBSET configured : engines' = fs /\ live' = fs
  /\ sched' = [f \in Folder |-> IF f \in configured THEN Default ELSE None]
  /\ UNCHANGED <<configured, inputs, tasks, unseen, held, counts>>

\* The daemon starts. A folder whose account has no credentials is left out of
\* the folder manager, and with it of the scheduler and the poll loop; a folder's
\* paused flag in the config is not read.
Start ==
  /\ ~up /\ up' = TRUE
  /\ \E fs \in SUBSET configured :
       /\ engines' = fs /\ live' = fs
       /\ sched' = [f \in Folder |-> IF f \in fs THEN Default ELSE None]
  /\ UNCHANGED <<configured, inputs, tasks, unseen, held, counts>>

\* Quit, or a crash: the process and every task in it are gone.
Stop ==
  /\ up /\ up' = FALSE
  /\ stops < MaxStops /\ stops' = stops + 1
  /\ sched' = [f \in Folder |-> None] /\ engines' = {} /\ live' = {}
  /\ polled' = {} /\ fsEvents' = {} /\ debounce_map' = [f \in Folder |-> "none"]
  /\ scanning' = Zero /\ transferring' = Zero /\ announcing' = Zero
  /\ held' = {}
  /\ UNCHANGED <<configured, unseen, changes, faults>>

\* AddAccountSpace and SetAccountFolders, for one new folder.
AddFolder(f) ==
  /\ up /\ f \notin configured \cup engines   \* a fresh id
  /\ configured' = configured \cup {f}
  /\ engines' = engines \cup {f} /\ live' = live \cup {f}
  /\ sched' = [sched EXCEPT ![f] = request_sync(add_folder(@))]
  /\ UNCHANGED <<up, inputs, tasks, unseen, held, counts>>

\* RemoveAccount, for an account with the folders fs: only the config changes.
RemoveAccount(fs) ==
  /\ up /\ configured' = configured \ fs
  /\ UNCHANGED <<up, sched, engines, live, inputs, tasks, unseen, held, counts>>

TriggerSync(f) ==
  /\ up
  /\ sched' = [sched EXCEPT ![f] = force_request_sync(@)]
  /\ UNCHANGED <<up, configured, engines, live, inputs, tasks, unseen, held, counts>>

PauseFolder(f) ==
  /\ up
  /\ sched' = [sched EXCEPT ![f] = pause(@)]
  /\ UNCHANGED <<up, configured, engines, live, inputs, tasks, unseen, held, counts>>

ResumeFolder(f) ==
  /\ up
  /\ sched' = [sched EXCEPT ![f] = resume(@)]
  /\ held' = held \ {f}
  /\ UNCHANGED <<up, configured, engines, live, inputs, tasks, unseen, counts>>

\* Mutant: the loop asks only for folders whose watcher reported something.
PollTick_Watched ==
  /\ up /\ polled' = polled \cup {f \in live : f \in fsEvents \/ debounce_map[f] # "none"}
  /\ UNCHANGED <<up, configured, sched, engines, live, fsEvents, debounce_map,
                 tasks, unseen, held, counts>>

\* The remote poll loop puts a request for every live folder into its channel.
PollTick ==
  /\ up /\ polled' = polled \cup live
  /\ UNCHANGED <<up, configured, sched, engines, live, fsEvents, debounce_map,
                 tasks, unseen, held, counts>>

PollRequest(f) ==
  /\ up /\ f \in polled /\ polled' = polled \ {f}
  /\ sched' = [sched EXCEPT ![f] = request_sync(@)]
  /\ UNCHANGED <<up, configured, engines, live, fsEvents, debounce_map, tasks,
                 unseen, held, counts>>

\* The user changes something in the folder; a watcher may miss it.
Change(f) ==
  /\ changes < MaxChanges /\ changes' = changes + 1
  /\ unseen' = unseen \cup {f}
  /\ held' = IF Paused(f) /\ scanning[f] = 0 THEN held \cup {f} ELSE held
  /\ \/ f \in engines /\ fsEvents' = fsEvents \cup {f} /\ UNCHANGED faults
     \/ f \notin engines /\ UNCHANGED <<fsEvents, faults>>
     \/ faults < MaxFaults /\ faults' = faults + 1 /\ UNCHANGED fsEvents
  /\ UNCHANGED <<up, configured, sched, engines, live, polled, debounce_map, tasks, stops>>

\* Every event moves the deadline to half a second from now.
WatcherEvent(f) ==
  /\ up /\ f \in fsEvents /\ fsEvents' = fsEvents \ {f}
  /\ debounce_map' = [debounce_map EXCEPT ![f] = "ahead"]
  /\ UNCHANGED <<up, configured, sched, engines, live, polled, tasks, unseen,
                 held, counts>>

DeadlinePasses(f) ==
  /\ debounce_map[f] = "ahead"
  /\ debounce_map' = [debounce_map EXCEPT ![f] = "due"]
  /\ UNCHANGED <<up, configured, sched, engines, live, polled, fsEvents, tasks,
                 unseen, held, counts>>

\* Mutant: a folder whose files still change is left for a later tick.
SchedulerTick_WaitsForQuiet ==
  /\ up
  /\ LET ready == {f \in Folder : ready_to_run(sched[f]) /\ debounce_map[f] = "none"}
         due   == {f \in Folder : debounce_map[f] = "due"}
         begun == [f \in Folder |-> IF f \in ready THEN start_sync(sched[f]) ELSE sched[f]]
     IN /\ sched' = [f \in Folder |-> IF f \in due THEN request_sync(begun[f]) ELSE begun[f]]
        /\ debounce_map' = [f \in Folder |-> IF f \in due THEN "none" ELSE debounce_map[f]]
        /\ scanning' = [f \in Folder |-> IF f \in ready \cap engines THEN scanning[f] + 1
                                         ELSE scanning[f]]
  /\ UNCHANGED <<up, configured, engines, live, polled, fsEvents, transferring,
                 announcing, unseen, held, counts>>

\* Start every folder that is ready, then turn the deadlines that have passed
\* into requests.
SchedulerTick ==
  /\ up
  /\ LET ready == {f \in Folder : ready_to_run(sched[f])}
         due   == {f \in Folder : debounce_map[f] = "due"}
         begun == [f \in Folder |-> IF f \in ready THEN start_sync(sched[f]) ELSE sched[f]]
     IN /\ sched' = [f \in Folder |-> IF f \in due THEN request_sync(begun[f]) ELSE begun[f]]
        /\ debounce_map' = [f \in Folder |-> IF f \in due THEN "none" ELSE debounce_map[f]]
        /\ scanning' = [f \in Folder |-> IF f \in ready \cap engines THEN scanning[f] + 1
                                         ELSE scanning[f]]
  /\ UNCHANGED <<up, configured, engines, live, polled, fsEvents, transferring,
                 announcing, unseen, held, counts>>

\* run_sync reads the local tree.
RunScans(f) ==
  /\ scanning[f] > 0
  /\ scanning' = [scanning EXCEPT ![f] = @ - 1]
  /\ transferring' = [transferring EXCEPT ![f] = @ + 1]
  /\ unseen' = unseen \ {f} /\ held' = held \ {f}
  /\ UNCHANGED <<up, configured, sched, engines, live, inputs, announcing, counts>>

\* run_sync writes into the very folder that is watched.
RunWrites(f) ==
  /\ transferring[f] > 0 /\ fsEvents' = fsEvents \cup {f}
  /\ UNCHANGED <<up, configured, sched, engines, live, polled, debounce_map, tasks,
                 unseen, held, counts>>

\* run_sync returns, with or without errors of single files.
RunReturns(f) ==
  /\ transferring[f] > 0 /\ announcing[f] < MaxBacklog
  /\ transferring' = [transferring EXCEPT ![f] = @ - 1]
  /\ sched' = [sched EXCEPT ![f] = finish_sync(@)]
  /\ announcing' = [announcing EXCEPT ![f] = @ + 1]
  /\ UNCHANGED <<up, configured, engines, live, inputs, scanning, unseen, held, counts>>

\* Mutant: a run that fails early does not reach finish_sync.
RunFails_KeepsRunning(f) ==
  /\ scanning[f] > 0 /\ announcing[f] < MaxBacklog
  /\ faults < MaxFaults /\ faults' = faults + 1
  /\ scanning' = [scanning EXCEPT ![f] = @ - 1]
  /\ announcing' = [announcing EXCEPT ![f] = @ + 1]
  /\ UNCHANGED <<up, configured, sched, engines, live, inputs, transferring, unseen,
                 held, changes, stops>>

\* run_sync returns early: no token, or discovery fails.
RunFails(f) ==
  /\ scanning[f] > 0 /\ announcing[f] < MaxBacklog
  /\ faults < MaxFaults /\ faults' = faults + 1
  /\ scanning' = [scanning EXCEPT ![f] = @ - 1]
  /\ sched' = [sched EXCEPT ![f] = finish_sync(@)]
  /\ announcing' = [announcing EXCEPT ![f] = @ + 1]
  /\ UNCHANGED <<up, configured, engines, live, inputs, transferring, unseen,
                 held, changes, stops>>

\* The task broadcasts SyncFinished and ends.
Announce(f) ==
  /\ announcing[f] > 0
  /\ announcing' = [announcing EXCEPT ![f] = @ - 1]
  /\ UNCHANGED <<up, configured, sched, engines, live, inputs, scanning,
                 transferring, unseen, held, counts>>

Command(f) == AddFolder(f) \/ TriggerSync(f) \/ PauseFolder(f) \/ ResumeFolder(f)
Task(f) == RunScans(f) \/ RunWrites(f) \/ RunReturns(f) \/ RunFails(f) \/ Announce(f)

Next ==
  \/ Start \/ Stop \/ PollTick \/ SchedulerTick
  \/ \E fs \in SUBSET Folder : RemoveAccount(fs)
  \/ \E f \in Folder : \/ Command(f) \/ Task(f) \/ Change(f)
                       \/ PollRequest(f) \/ WatcherEvent(f) \/ DeadlinePasses(f)

Spec == Init /\ [][Next]_vars

\* The timers of the poll loop and of the scheduler tick fire for ever, the main
\* loop's select! serves every channel, and tokio runs every task to its end.
Fairness ==
  /\ WF_vars(PollTick) /\ WF_vars(SchedulerTick)
  /\ \A f \in Folder : WF_vars(PollRequest(f)) /\ WF_vars(RunScans(f))
                       /\ WF_vars(RunReturns(f)) /\ WF_vars(Announce(f))

FairSpec == Spec /\ Fairness

(****************************************************************************)
(* Properties.                                                              *)
(****************************************************************************)

\* The scheduler's flags, the channels and the task counts keep their types.
TypeOK ==
  /\ up \in BOOLEAN
  /\ configured \subseteq Folder /\ engines \subseteq Folder /\ live \subseteq Folder
  /\ sched \in [Folder -> FolderScheduleState \cup {None}]
  /\ polled \subseteq Folder /\ fsEvents \subseteq Folder
  /\ debounce_map \in [Folder -> {"none", "ahead", "due"}]
  /\ scanning \in [Folder -> Nat] /\ transferring \in [Folder -> Nat]
  /\ announcing \in [Folder -> 0..MaxBacklog]
  /\ unseen \subseteq Folder /\ held \subseteq Folder
  /\ changes \in 0..MaxChanges /\ faults \in 0..MaxFaults /\ stops \in 0..MaxStops

\* Syncs of one folder are serialized: never two tasks in run_sync of the same
\* folder, whatever triggers, pauses, polls and file events do.
OneJobPerFolder == \A f \in Folder : Jobs(f) <= 1

\* The running flag is exact: it is set exactly while a task is in run_sync. A
\* flag left behind would keep request_sync and ready_to_run from ever starting
\* the folder again.
RunningIsJob ==
  \A f \in Folder : (Known(sched[f]) /\ sched[f].running) <=> Jobs(f) > 0

\* The scheduler never starts a folder the folder manager has no engine for:
\* what it knows has an engine and is polled.
ScheduledHasEngine ==
  \A f \in Folder : Known(sched[f]) => f \in engines /\ f \in live

\* The jobs as SerialJobs sees them.
Serial == INSTANCE SerialJobs WITH
  asked <- {f \in Folder : Known(sched[f]) /\ sched[f].pending},
  busy  <- {f \in Folder : Jobs(f) > 0}

\* The main loop implements SerialJobs: jobs begin only on a request, one at a
\* time per folder, and a request waits until a job answers it.
JobsAreSerial == Serial!Spec

\* A local change in a configured folder is read by some run, unless the folder
\* is paused, has no engine, or the daemon stops: lost file events, requests
\* dropped because the folder was running, and runs that fail early only delay
\* it. Nothing is promised for the folders of an account that was removed.
ChangeIsSeen ==
  \A f \in Folder : (f \in unseen /\ f \in engines \cap configured)
                      ~> (f \notin unseen \/ Paused(f) \/ f \notin engines \cap configured)

\* A request that a folder keeps while its current run goes on is answered by a
\* new run, unless the folder is paused or the daemon stops.
RequestIsAnswered ==
  \A f \in Folder : (Known(sched[f]) /\ sched[f].pending)
                      ~> (~Known(sched[f]) \/ ~sched[f].pending \/ Paused(f))

\* A change made while its folder is paused waits for the resume, whatever is
\* triggered, polled or watched meanwhile: no run reads it before. Only a run that
\* began before the pause may still read the tree after it.
PauseHolds ==
  [][\A f \in held : f \in held' \/ ~up' \/ (Known(sched'[f]) /\ ~sched'[f].paused)]_vars

=============================================================================
