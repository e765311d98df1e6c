----------------------------- MODULE DaemonProofs -----------------------------
(****************************************************************************)
(* Proofs about module Daemon, for any set of folders and any bounds: the   *)
(* types, that syncs of a folder are serialized and its running flag exact, *)
(* and that the main loop implements SerialJobs.                            *)
(*                                                                          *)
(* The flag and the tasks only make sense together: that start_sync finds   *)
(* no task in run_sync needs the flag to be exact, that the flag stays      *)
(* exact when a run returns needs that it was the only one, and that        *)
(* start_sync is followed by a task needs an engine for the folder. So the  *)
(* three invariants are proved as one.                                      *)
(****************************************************************************)
EXTENDS Daemon, TLAPS

\* A daemon that is not up has an empty scheduler.
DownIsIdle == ~up => \A f \in Folder : ~Known(sched[f])

Inv == TypeOK /\ OneJobPerFolder /\ RunningIsJob /\ ScheduledHasEngine /\ DownIsIdle

\* A folder's flags as the invariants see them.
Runs(s) == Known(s) /\ s.running
Asked(s) == Known(s) /\ s.pending


\* The flags add_folder gives a new folder are those of a known one.
LEMMA DefaultType == Default \in FolderScheduleState /\ Default # None
<1>1. Default \in FolderScheduleState
  BY DEF Default, FolderScheduleState
<1> QED
  BY <1>1, NoneAssumption

\* The bounds, one by one.
LEMMA BoundTypes ==
  MaxChanges \in Nat /\ MaxFaults \in Nat /\ MaxStops \in Nat /\ MaxBacklog \in Nat
  BY BoundAssumption

\* What Init and Stop set the maps to.
LEMMA ResetTypes ==
  /\ [f \in Folder |-> None] \in [Folder -> FolderScheduleState \cup {None}]
  /\ [f \in Folder |-> "none"] \in [Folder -> {"none", "ahead", "due"}]
  /\ Zero \in [Folder -> Nat] /\ Zero \in [Folder -> 0..MaxBacklog]
<1>1. Zero \in [Folder -> 0..MaxBacklog]
  BY BoundTypes DEF Zero
<1> QED
  BY <1>1 DEF Zero

\* Every call of the scheduler keeps the type of a folder's flags, and whether
\* the folder is known.
LEMMA CallTypes ==
  ASSUME NEW s \in FolderScheduleState \cup {None}
  PROVE  /\ add_folder(s) \in FolderScheduleState
         /\ request_sync(s) \in FolderScheduleState \cup {None}
         /\ force_request_sync(s) \in FolderScheduleState \cup {None}
         /\ start_sync(s) \in FolderScheduleState \cup {None}
         /\ finish_sync(s) \in FolderScheduleState \cup {None}
         /\ pause(s) \in FolderScheduleState \cup {None}
         /\ resume(s) \in FolderScheduleState \cup {None}
  BY DefaultType, NoneAssumption
     DEF Known, add_folder, request_sync, force_request_sync, start_sync, finish_sync,
         pause, resume, FolderScheduleState

\* Only start_sync sets the running flag, only finish_sync clears it, and no call
\* forgets a folder.
LEMMA CallRuns ==
  ASSUME NEW s \in FolderScheduleState \cup {None}
  PROVE  /\ Known(request_sync(s)) <=> Known(s)
         /\ Known(force_request_sync(s)) <=> Known(s)
         /\ Known(start_sync(s)) <=> Known(s)
         /\ Known(finish_sync(s)) <=> Known(s)
         /\ Known(pause(s)) <=> Known(s)
         /\ Known(resume(s)) <=> Known(s)
         /\ Known(add_folder(s))
         /\ Runs(request_sync(s)) <=> Runs(s)
         /\ Runs(force_request_sync(s)) <=> Runs(s)
         /\ Runs(pause(s)) <=> Runs(s)
         /\ Runs(resume(s)) <=> Runs(s)
         /\ Runs(add_folder(s)) <=> Runs(s)
         /\ Runs(start_sync(s)) <=> Known(s)
         /\ ~Runs(finish_sync(s))
         /\ ready_to_run(s) => Known(s) /\ ~Runs(s) /\ Asked(s)
<1>1. CASE s = None
  BY <1>1, DefaultType
     DEF Known, Runs, Asked, Default, add_folder, request_sync, force_request_sync,
         start_sync, finish_sync, pause, resume, ready_to_run
<1>2. CASE s \in FolderScheduleState
  <2>1. Known(s) /\ add_folder(s) = s
    BY <1>2, NoneAssumption DEF Known, add_folder
  <2>2. /\ request_sync(s) \in FolderScheduleState
        /\ force_request_sync(s) \in FolderScheduleState
        /\ start_sync(s) \in FolderScheduleState
        /\ finish_sync(s) \in FolderScheduleState
        /\ pause(s) \in FolderScheduleState
        /\ resume(s) \in FolderScheduleState
    BY <1>2, <2>1 DEF FolderScheduleState, request_sync, force_request_sync,
                      start_sync, finish_sync, pause, resume
  <2>3. \A t \in FolderScheduleState : Known(t)
    BY NoneAssumption DEF Known
  <2>4. /\ request_sync(s).running = s.running
        /\ force_request_sync(s).running = s.running
        /\ pause(s).running = s.running
        /\ resume(s).running = s.running
        /\ start_sync(s).running = TRUE
        /\ finish_sync(s).running = FALSE
    BY <1>2, <2>1 DEF FolderScheduleState, request_sync, force_request_sync,
                      start_sync, finish_sync, pause, resume
  <2> QED
    BY <2>1, <2>2, <2>3, <2>4 DEF Runs, Asked, ready_to_run
<1> QED
  BY <1>1, <1>2

\* A daemon that has never run is in a typed state.
LEMMA InitType == Init => TypeOK
<1> SUFFICES ASSUME Init PROVE TypeOK
  OBVIOUS
<1>1. /\ sched \in [Folder -> FolderScheduleState \cup {None}]
      /\ debounce_map \in [Folder -> {"none", "ahead", "due"}]
  BY ResetTypes DEF Init
<1>2. /\ scanning \in [Folder -> Nat] /\ transferring \in [Folder -> Nat]
      /\ announcing \in [Folder -> 0..MaxBacklog]
  BY ResetTypes DEF Init
<1>3. changes \in 0..MaxChanges /\ faults \in 0..MaxFaults /\ stops \in 0..MaxStops
  BY BoundTypes DEF Init
<1> QED
  BY <1>1, <1>2, <1>3 DEF Init, TypeOK

\* No action of the main loop, of a task or of the environment breaks the types.
LEMMA NextType == TypeOK /\ [Next]_vars => TypeOK'
<1> SUFFICES ASSUME TypeOK, [Next]_vars PROVE TypeOK'
  OBVIOUS
<1> USE BoundTypes DEF TypeOK
<1>1. CASE Start
  BY <1>1, DefaultType DEF Start, inputs, tasks, counts
<1>2. CASE Stop
  <2>1. /\ sched' \in [Folder -> FolderScheduleState \cup {None}]
        /\ debounce_map' \in [Folder -> {"none", "ahead", "due"}]
    BY <1>2, ResetTypes DEF Stop
  <2>2. /\ scanning' \in [Folder -> Nat] /\ transferring' \in [Folder -> Nat]
        /\ announcing' \in [Folder -> 0..MaxBacklog]
    BY <1>2, ResetTypes DEF Stop
  <2>3. stops' \in 0..MaxStops
    BY <1>2 DEF Stop
  <2> QED
    BY <1>2, <2>1, <2>2, <2>3 DEF Stop
<1>3. CASE PollTick
  BY <1>3 DEF PollTick, tasks, counts
<1>4. CASE SchedulerTick
  BY <1>4, CallTypes DEF SchedulerTick, counts
<1>5. ASSUME NEW fs \in SUBSET Folder, RemoveAccount(fs) PROVE TypeOK'
  BY <1>5 DEF RemoveAccount, inputs, tasks, counts
<1>6. ASSUME NEW f \in Folder, AddFolder(f) PROVE TypeOK'
  BY <1>6, CallTypes DEF AddFolder, inputs, tasks, counts
<1>7. ASSUME NEW f \in Folder, TriggerSync(f) PROVE TypeOK'
  BY <1>7, CallTypes DEF TriggerSync, inputs, tasks, counts
<1>8. ASSUME NEW f \in Folder, PauseFolder(f) PROVE TypeOK'
  BY <1>8, CallTypes DEF PauseFolder, inputs, tasks, counts
<1>9. ASSUME NEW f \in Folder, ResumeFolder(f) PROVE TypeOK'
  BY <1>9, CallTypes DEF ResumeFolder, inputs, tasks, counts
<1>10. ASSUME NEW f \in Folder, RunScans(f) PROVE TypeOK'
  BY <1>10 DEF RunScans, inputs, counts
<1>11. ASSUME NEW f \in Folder, RunReturns(f) PROVE TypeOK'
  BY <1>11, CallTypes DEF RunReturns, inputs, counts
<1>12. ASSUME NEW f \in Folder, RunFails(f) PROVE TypeOK'
  BY <1>12, CallTypes DEF RunFails, inputs
<1>13. ASSUME NEW f \in Folder, Announce(f) PROVE TypeOK'
  BY <1>13 DEF Announce, inputs, counts
<1>14. ASSUME NEW f \in Folder, Change(f) PROVE TypeOK'
  BY <1>14 DEF Change, tasks
<1>15. ASSUME NEW f \in Folder, PollRequest(f) PROVE TypeOK'
  BY <1>15, CallTypes DEF PollRequest, tasks, counts
<1>16. ASSUME NEW f \in Folder, WatcherEvent(f) PROVE TypeOK'
  BY <1>16 DEF WatcherEvent, tasks, counts
<1>17. ASSUME NEW f \in Folder, DeadlinePasses(f) PROVE TypeOK'
  BY <1>17 DEF DeadlinePasses, tasks, counts
<1>18. ASSUME NEW f \in Folder, RunWrites(f) PROVE TypeOK'
  BY <1>18 DEF RunWrites, tasks, counts
<1>19. CASE UNCHANGED vars
  BY <1>19 DEF vars
<1> QED
  BY <1>1, <1>2, <1>3, <1>4, <1>5, <1>6, <1>7, <1>8, <1>9, <1>10, <1>11,
     <1>12, <1>13, <1>14, <1>15, <1>16, <1>17, <1>18, <1>19 DEF Next, Command, Task

\* The flags of the scheduler, the channels of the main loop and the counts of
\* its tasks keep their types, for any folders and bounds.
THEOREM TypeCorrect == Spec => []TypeOK
BY InitType, NextType, PTL DEF Spec

\* The invariant of one folder.
FolderInv(f) ==
  /\ Jobs(f) <= 1
  /\ Runs(sched[f]) <=> Jobs(f) > 0
  /\ Known(sched[f]) => f \in engines /\ f \in live
  /\ ~up => ~Known(sched[f])

\* The invariant speaks of every folder on its own.
LEMMA PerFolder == Inv <=> (TypeOK /\ \A f \in Folder : FolderInv(f))
BY DEF Inv, FolderInv, OneJobPerFolder, RunningIsJob, ScheduledHasEngine, DownIsIdle, Runs

\* The three invariants together, with the scheduler emptied while the daemon is
\* down: run_sync of a folder is never entered twice (main.rs starts a task only
\* where start_sync set the flag), the flag is exact, and what is started has an
\* engine.
THEOREM Serialized == Spec => []Inv
<1>1. Init => Inv
  <2> SUFFICES ASSUME Init, TypeOK PROVE Inv
    BY InitType DEF Inv
  <2>1. \A f \in Folder : ~Known(sched[f]) /\ scanning[f] = 0 /\ transferring[f] = 0
    BY DEF Init, Zero, Known
  <2> QED
    BY <2>1, PerFolder DEF FolderInv, Runs, Jobs
<1>2. Inv /\ [Next]_vars => Inv'
  <2> SUFFICES ASSUME TypeOK, TypeOK', \A f \in Folder : FolderInv(f), [Next]_vars,
                      NEW g \in Folder
               PROVE  FolderInv(g)'
    <3>1. (TypeOK /\ \A f \in Folder : FolderInv(f))' => Inv'
      BY DEF Inv, FolderInv, OneJobPerFolder, RunningIsJob, ScheduledHasEngine, DownIsIdle,
             Runs
    <3> QED
      BY NextType, PerFolder, <3>1
  <2>g. /\ FolderInv(g)
        /\ scanning[g] \in Nat /\ transferring[g] \in Nat
        /\ scanning'[g] \in Nat /\ transferring'[g] \in Nat
        /\ sched[g] \in FolderScheduleState \cup {None}
    BY DEF TypeOK
  <2>k. ASSUME UNCHANGED <<scanning, transferring>>, UNCHANGED engines, UNCHANGED live,
               UNCHANGED up, Known(sched'[g]) <=> Known(sched[g]),
               Runs(sched'[g]) <=> Runs(sched[g])
        PROVE  FolderInv(g)'
    BY <2>g, <2>k DEF FolderInv, Jobs
  <2>1. CASE Start
    <3>1. ~Known(sched[g]) /\ Jobs(g) = 0 /\ Jobs(g)' = 0
      BY <2>1, <2>g DEF Start, tasks, FolderInv, Runs, Jobs
    <3>2. /\ ~Runs(sched'[g]) /\ up'
          /\ Known(sched'[g]) => g \in engines' /\ g \in live'
      BY <2>1 DEF Start, Default, Known, Runs
    <3> QED
      BY <3>1, <3>2 DEF FolderInv
  <2>2. CASE Stop
    <3>1. ~Known(sched'[g]) /\ Jobs(g)' = 0
      BY <2>2 DEF Stop, Known, Jobs, Zero
    <3> QED
      BY <3>1 DEF FolderInv, Runs
  <2>3. CASE PollTick
    BY <2>3, <2>k DEF PollTick, tasks
  <2>4. CASE SchedulerTick
    <3> DEFINE begun == IF ready_to_run(sched[g]) THEN start_sync(sched[g]) ELSE sched[g]
    <3>1. begun \in FolderScheduleState \cup {None}
      BY <2>g, CallTypes
    <3>2. \/ sched'[g] = begun
          \/ sched'[g] = request_sync(begun)
      BY <2>4 DEF SchedulerTick
    <3>3. /\ Known(sched'[g]) <=> Known(begun)
          /\ Runs(sched'[g]) <=> Runs(begun)
      <4> HIDE DEF begun
      <4> QED
        BY <3>1, <3>2, CallRuns
    <3>4. /\ Known(begun) <=> Known(sched[g])
          /\ Runs(begun) <=> (ready_to_run(sched[g]) \/ Runs(sched[g]))
          /\ ready_to_run(sched[g]) => Known(sched[g]) /\ ~Runs(sched[g])
      BY <2>g, CallRuns
    <3>5. /\ scanning'[g] = IF ready_to_run(sched[g]) /\ g \in engines
                            THEN scanning[g] + 1 ELSE scanning[g]
          /\ transferring'[g] = transferring[g]
          /\ engines' = engines /\ live' = live /\ up' = up
      BY <2>4 DEF SchedulerTick, TypeOK
    <3> QED
      BY <2>g, <3>3, <3>4, <3>5 DEF FolderInv, Jobs
  <2>5. ASSUME NEW fs \in SUBSET Folder, RemoveAccount(fs) PROVE FolderInv(g)'
    BY <2>5, <2>k DEF RemoveAccount, tasks
  <2>6. ASSUME NEW f \in Folder, AddFolder(f) PROVE FolderInv(g)'
    <3>1. CASE f = g
      <4>1. ~Known(sched[g]) /\ ~Runs(sched[g]) /\ Jobs(g) = 0 /\ Jobs(g)' = 0
        BY <2>6, <2>g, <3>1 DEF AddFolder, FolderInv, Runs, Jobs, tasks
      <4>2. sched'[g] = request_sync(add_folder(sched[g]))
        BY <2>6, <3>1 DEF AddFolder, TypeOK
      <4>3. ~Runs(sched'[g])
        BY <2>g, <4>1, <4>2, CallTypes, CallRuns
      <4> QED
        BY <2>6, <3>1, <4>1, <4>3 DEF AddFolder, FolderInv
    <3>2. CASE f # g
      BY <2>6, <2>g, <3>2, SMTT(60), Z3T(60) DEF AddFolder, FolderInv, Jobs, tasks, TypeOK
    <3> QED
      BY <3>1, <3>2
  <2>7. ASSUME NEW f \in Folder, TriggerSync(f) PROVE FolderInv(g)'
    <3>1. sched'[g] = sched[g] \/ sched'[g] = force_request_sync(sched[g])
      BY <2>7, SMTT(60), Z3T(60) DEF TriggerSync, TypeOK
    <3> QED
      BY <2>7, <2>g, <2>k, <3>1, CallRuns DEF TriggerSync, tasks
  <2>8. ASSUME NEW f \in Folder, PauseFolder(f) PROVE FolderInv(g)'
    <3>1. sched'[g] = sched[g] \/ sched'[g] = pause(sched[g])
      BY <2>8, SMTT(60), Z3T(60) DEF PauseFolder, TypeOK
    <3> QED
      BY <2>8, <2>g, <2>k, <3>1, CallRuns DEF PauseFolder, tasks
  <2>9. ASSUME NEW f \in Folder, ResumeFolder(f) PROVE FolderInv(g)'
    <3>1. sched'[g] = sched[g] \/ sched'[g] = resume(sched[g])
      BY <2>9, SMTT(60), Z3T(60) DEF ResumeFolder, TypeOK
    <3> QED
      BY <2>9, <2>g, <2>k, <3>1, CallRuns DEF ResumeFolder, tasks
  <2>10. ASSUME NEW f \in Folder, RunScans(f) PROVE FolderInv(g)'
    BY <2>10, <2>g DEF RunScans, FolderInv, Jobs, TypeOK
  <2>11. ASSUME NEW f \in Folder, RunReturns(f) PROVE FolderInv(g)'
    <3>1. sched'[g] = IF f = g THEN finish_sync(sched[g]) ELSE sched[g]
      BY <2>11 DEF RunReturns, TypeOK
    <3>2. transferring'[g] = IF f = g THEN transferring[g] - 1 ELSE transferring[g]
      BY <2>11 DEF RunReturns, TypeOK
    <3> QED
      BY <2>11, <2>g, <3>1, <3>2, CallRuns DEF RunReturns, FolderInv, Jobs
  <2>12. ASSUME NEW f \in Folder, RunFails(f) PROVE FolderInv(g)'
    <3>1. sched'[g] = IF f = g THEN finish_sync(sched[g]) ELSE sched[g]
      BY <2>12 DEF RunFails, TypeOK
    <3>2. scanning'[g] = IF f = g THEN scanning[g] - 1 ELSE scanning[g]
      BY <2>12 DEF RunFails, TypeOK
    <3> QED
      BY <2>12, <2>g, <3>1, <3>2, CallRuns DEF RunFails, FolderInv, Jobs
  <2>13. ASSUME NEW f \in Folder, Announce(f) PROVE FolderInv(g)'
    BY <2>13, <2>k DEF Announce
  <2>14. ASSUME NEW f \in Folder, Change(f) PROVE FolderInv(g)'
    BY <2>14, <2>k DEF Change, tasks
  <2>15. ASSUME NEW f \in Folder, PollRequest(f) PROVE FolderInv(g)'
    <3>1. sched'[g] = sched[g] \/ sched'[g] = request_sync(sched[g])
      BY <2>15 DEF PollRequest, TypeOK
    <3> QED
      BY <2>15, <2>g, <2>k, <3>1, CallRuns DEF PollRequest, tasks
  <2>16. ASSUME NEW f \in Folder, WatcherEvent(f) PROVE FolderInv(g)'
    BY <2>16, <2>k DEF WatcherEvent, tasks
  <2>17. ASSUME NEW f \in Folder, DeadlinePasses(f) PROVE FolderInv(g)'
    BY <2>17, <2>k DEF DeadlinePasses, tasks
  <2>18. ASSUME NEW f \in Folder, RunWrites(f) PROVE FolderInv(g)'
    BY <2>18, <2>k DEF RunWrites, tasks
  <2>19. CASE UNCHANGED vars
    BY <2>19, <2>k DEF vars
  <2> QED
    BY <2>1, <2>2, <2>3, <2>4, <2>5, <2>6, <2>7, <2>8, <2>9, <2>10, <2>11,
       <2>12, <2>13, <2>14, <2>15, <2>16, <2>17, <2>18, <2>19 DEF Next, Command, Task
<1> QED
  BY <1>1, <1>2, PTL DEF Spec

\* Never two tasks in run_sync of one folder (architecture.md: "One sync job per
\* folder, serialized").
THEOREM JobsSerialized == Spec => []OneJobPerFolder
BY Serialized, PTL DEF Inv

\* The running flag is set exactly while a task is in run_sync.
THEOREM FlagExact == Spec => []RunningIsJob
BY Serialized, PTL DEF Inv

\* The scheduler knows no folder without an engine.
THEOREM StartedHasEngine == Spec => []ScheduledHasEngine
BY Serialized, PTL DEF Inv

\* Only start_sync drops a request, and only a request makes one.
LEMMA CallAsked ==
  ASSUME NEW s \in FolderScheduleState \cup {None}
  PROVE  /\ Asked(s) => Asked(request_sync(s)) /\ Asked(force_request_sync(s))
         /\ Asked(add_folder(s)) <=> Asked(s)
         /\ Asked(finish_sync(s)) <=> Asked(s)
         /\ Asked(pause(s)) <=> Asked(s)
         /\ Asked(resume(s)) <=> Asked(s)
         /\ ~Asked(start_sync(s))
<1>1. CASE s = None
  BY <1>1, DefaultType
     DEF Known, Asked, Default, add_folder, request_sync, force_request_sync,
         start_sync, finish_sync, pause, resume
<1>2. CASE s \in FolderScheduleState
  <2>1. Known(s)
    BY <1>2, NoneAssumption DEF Known
  <2>2. /\ request_sync(s).pending = (s.pending \/ (~s.running /\ ~s.paused))
        /\ force_request_sync(s).pending = (s.pending \/ ~s.paused)
        /\ pause(s).pending = s.pending
        /\ resume(s).pending = s.pending
        /\ start_sync(s).pending = FALSE
        /\ finish_sync(s).pending = s.pending
        /\ add_folder(s) = s
    BY <1>2, <2>1 DEF FolderScheduleState, request_sync, force_request_sync, start_sync,
                      finish_sync, pause, resume, add_folder
  <2> QED
    BY <2>1, <2>2, CallRuns DEF Asked
<1> QED
  BY <1>1, <1>2

AskedSet == {f \in Folder : Known(sched[f]) /\ sched[f].pending}
BusySet  == {f \in Folder : Jobs(f) > 0}

\* The main loop implements SerialJobs: a spawned run uses up a request and never
\* overlaps another of its folder, and no other step drops a request.
THEOREM ImplementsSerialJobs == Spec => JobsAreSerial
<1>1. Init => Serial!Init
  BY DEF Init, Serial!Init, Known, Jobs, Zero
<1>2. Inv /\ Inv' /\ [Next]_vars => Serial!Next
  <2> SUFFICES ASSUME Inv, Inv', [Next]_vars PROVE Serial!Next
    OBVIOUS
  <2>t. /\ \A f \in Folder : sched[f] \in FolderScheduleState \cup {None}
        /\ \A f \in Folder : scanning[f] \in Nat /\ transferring[f] \in Nat
        /\ DOMAIN sched = Folder
    BY DEF Inv, TypeOK
  <2>i. \A f \in Folder : FolderInv(f)
    BY PerFolder
  <2>a. ASSUME NEW fs \in SUBSET Folder, AskedSet' = AskedSet \cup fs, BusySet' = BusySet
        PROVE  Serial!Next
    BY <2>a DEF Serial!Next, Serial!Ask, AskedSet, BusySet
  <2>s. ASSUME AskedSet' = AskedSet, BusySet' = BusySet PROVE Serial!Next
    <3>1. AskedSet = AskedSet \cup {} /\ {} \in SUBSET Folder
      OBVIOUS
    <3> QED
      BY <2>s, <3>1, <2>a
  <2>b. ASSUME UNCHANGED <<sched, scanning, transferring>> PROVE Serial!Next
    <3>1. AskedSet' = AskedSet /\ BusySet' = BusySet
      BY <2>b DEF AskedSet, BusySet, Jobs
    <3> QED
      BY <3>1, <2>s
  <2>c. ASSUME NEW f \in Folder, NEW s, sched' = [sched EXCEPT ![f] = s],
               Asked(sched[f]) => Asked(s), UNCHANGED <<scanning, transferring>>
        PROVE  Serial!Next
    <3> DEFINE fs == {g \in {f} : Asked(s)}
    <3>1. AskedSet' = AskedSet \cup fs
      BY <2>c, <2>t DEF AskedSet, Asked
    <3>2. BusySet' = BusySet
      BY <2>c DEF BusySet, Jobs
    <3> QED
      BY <3>1, <3>2, <2>a
  <2>e. ASSUME NEW f \in Folder, sched' = [sched EXCEPT ![f] = finish_sync(@)],
               Jobs(f) > 0, Jobs(f)' = 0, \A g \in Folder \ {f} : Jobs(g)' = Jobs(g)
        PROVE  Serial!Next
    <3>1. AskedSet' = AskedSet
      BY <2>e, <2>t, CallAsked DEF AskedSet, Asked
    <3>2. f \in BusySet /\ BusySet' = BusySet \ {f}
      BY <2>e DEF BusySet
    <3> QED
      BY <3>1, <3>2 DEF Serial!Next, Serial!End, AskedSet, BusySet
  <2>1. CASE Start
    <3>1. AskedSet' = AskedSet
      BY <2>1, <2>i DEF Start, AskedSet, Default, Known, FolderInv
    <3>2. BusySet' = BusySet
      BY <2>1 DEF Start, tasks, BusySet, Jobs
    <3> QED
      BY <3>1, <3>2, <2>s
  <2>2. CASE Stop
    <3>1. AskedSet' = {} /\ BusySet' = {}
      BY <2>2 DEF Stop, AskedSet, BusySet, Jobs, Zero, Known
    <3> QED
      BY <3>1 DEF Serial!Next, Serial!Halt, AskedSet, BusySet
  <2>3. CASE PollTick
    BY <2>3, <2>b DEF PollTick, tasks
  <2>4. CASE SchedulerTick
    <3> DEFINE ready == {f \in Folder : ready_to_run(sched[f])}
               new   == AskedSet' \ (AskedSet \ ready)
    <3>1. ready \subseteq AskedSet \ BusySet
      BY <2>t, <2>i, CallRuns DEF AskedSet, BusySet, FolderInv, Asked
    <3>2. \A f \in Folder : f \in ready => f \in engines
      BY <2>t, <2>i, CallRuns DEF FolderInv
    <3>3. BusySet' = BusySet \cup ready
      BY <2>4, <2>t, <3>2 DEF SchedulerTick, BusySet, Jobs
    <3>4. AskedSet \ ready \subseteq AskedSet'
      <4> SUFFICES ASSUME NEW f \in Folder, Asked(sched[f]), ~ready_to_run(sched[f])
                   PROVE  Asked(sched'[f])
        BY DEF AskedSet, Asked
      <4>1. sched'[f] = sched[f] \/ sched'[f] = request_sync(sched[f])
        BY <2>4 DEF SchedulerTick
      <4> QED
        BY <4>1, <2>t, CallAsked
    <3>5. AskedSet' = (AskedSet \ ready) \cup new /\ new \in SUBSET Folder
      BY <3>4 DEF AskedSet
    <3>6. ready \in SUBSET Folder
      OBVIOUS
    <3> HIDE DEF ready, new
    <3> QED
      BY <3>1, <3>3, <3>5, <3>6 DEF Serial!Next, Serial!Begin, AskedSet, BusySet
  <2>5. ASSUME NEW fs \in SUBSET Folder, RemoveAccount(fs) PROVE Serial!Next
    BY <2>5, <2>b DEF RemoveAccount, tasks
  <2>6. ASSUME NEW f \in Folder, AddFolder(f) PROVE Serial!Next
    <3>1. Asked(sched[f]) => Asked(request_sync(add_folder(sched[f])))
      BY <2>t, CallAsked, CallTypes
    <3> QED
      BY <2>6, <2>c, <3>1 DEF AddFolder, tasks
  <2>7. ASSUME NEW f \in Folder, TriggerSync(f) PROVE Serial!Next
    BY <2>7, <2>c, <2>t, CallAsked DEF TriggerSync, tasks
  <2>8. ASSUME NEW f \in Folder, PauseFolder(f) PROVE Serial!Next
    BY <2>8, <2>c, <2>t, CallAsked DEF PauseFolder, tasks
  <2>9. ASSUME NEW f \in Folder, ResumeFolder(f) PROVE Serial!Next
    BY <2>9, <2>c, <2>t, CallAsked DEF ResumeFolder, tasks
  <2>10. ASSUME NEW f \in Folder, RunScans(f) PROVE Serial!Next
    <3>1. \A g \in Folder : Jobs(g)' = Jobs(g)
      BY <2>10, <2>t DEF RunScans, Jobs, Inv, TypeOK
    <3>2. BusySet' = BusySet
      BY <3>1 DEF BusySet
    <3>3. AskedSet' = AskedSet
      BY <2>10 DEF RunScans, AskedSet
    <3> QED
      BY <3>2, <3>3, <2>s
  <2>11. ASSUME NEW f \in Folder, RunReturns(f) PROVE Serial!Next
    <3>1. Jobs(f) > 0 /\ Jobs(f)' = 0 /\ \A g \in Folder \ {f} : Jobs(g)' = Jobs(g)
      BY <2>11, <2>t, <2>i DEF RunReturns, Jobs, Inv, TypeOK, FolderInv
    <3> QED
      BY <2>11, <2>e, <3>1 DEF RunReturns
  <2>12. ASSUME NEW f \in Folder, RunFails(f) PROVE Serial!Next
    <3>1. Jobs(f) > 0 /\ Jobs(f)' = 0 /\ \A g \in Folder \ {f} : Jobs(g)' = Jobs(g)
      BY <2>12, <2>t, <2>i DEF RunFails, Jobs, Inv, TypeOK, FolderInv
    <3> QED
      BY <2>12, <2>e, <3>1 DEF RunFails
  <2>13. ASSUME NEW f \in Folder, Announce(f) PROVE Serial!Next
    BY <2>13, <2>b DEF Announce
  <2>14. ASSUME NEW f \in Folder, Change(f) PROVE Serial!Next
    BY <2>14, <2>b DEF Change, tasks
  <2>15. ASSUME NEW f \in Folder, PollRequest(f) PROVE Serial!Next
    BY <2>15, <2>c, <2>t, CallAsked DEF PollRequest, tasks
  <2>16. ASSUME NEW f \in Folder, WatcherEvent(f) PROVE Serial!Next
    BY <2>16, <2>b DEF WatcherEvent, tasks
  <2>17. ASSUME NEW f \in Folder, DeadlinePasses(f) PROVE Serial!Next
    BY <2>17, <2>b DEF DeadlinePasses, tasks
  <2>18. ASSUME NEW f \in Folder, RunWrites(f) PROVE Serial!Next
    BY <2>18, <2>b DEF RunWrites, tasks
  <2>19. CASE UNCHANGED vars
    BY <2>19, <2>b DEF vars
  <2> QED
    BY <2>1, <2>2, <2>3, <2>4, <2>5, <2>6, <2>7, <2>8, <2>9, <2>10, <2>11,
       <2>12, <2>13, <2>14, <2>15, <2>16, <2>17, <2>18, <2>19 DEF Next, Command, Task
<1> QED
  BY <1>1, <1>2, Serialized, PTL DEF Spec, JobsAreSerial, Serial!Spec

(****************************************************************************)
(* A pause holds.                                                           *)
(****************************************************************************)

Resting(s) == Known(s) /\ s.paused

\* A change that is held back belongs to a paused folder with no run ahead of its
\* scan: a run that was to read the tree would read the change.
HeldInv == \A f \in held : Resting(sched[f]) /\ scanning[f] = 0

\* Only resume takes a folder out of its pause, and a paused folder is never ready.
LEMMA CallPaused ==
  ASSUME NEW s \in FolderScheduleState \cup {None}
  PROVE  /\ Resting(s) => /\ Resting(request_sync(s)) /\ Resting(force_request_sync(s))
                          /\ Resting(finish_sync(s)) /\ Resting(pause(s))
                          /\ Resting(add_folder(s)) /\ ~ready_to_run(s)
                          /\ Known(resume(s)) /\ ~resume(s).paused
<1>1. CASE s = None
  BY <1>1 DEF Resting, Known
<1>2. CASE s \in FolderScheduleState
  <2>1. Known(s)
    BY <1>2, NoneAssumption DEF Known
  <2>2. /\ request_sync(s).paused = s.paused
        /\ force_request_sync(s).paused = s.paused
        /\ finish_sync(s).paused = s.paused
        /\ pause(s).paused = TRUE
        /\ resume(s).paused = FALSE
        /\ add_folder(s) = s
        /\ ready_to_run(s) => ~s.paused
    BY <1>2, <2>1 DEF FolderScheduleState, request_sync, force_request_sync, finish_sync,
                      pause, resume, add_folder, ready_to_run
  <2> QED
    BY <2>1, <2>2, CallRuns DEF Resting
<1> QED
  BY <1>1, <1>2

\* What one step does to a folder that is held back: it stays so, the daemon is
\* gone, or it was resumed (the command handler is the only way out of a pause).
LEMMA HeldStep ==
  ASSUME Inv, HeldInv, [Next]_vars
  PROVE  /\ HeldInv'
         /\ \A f \in held : f \in held' \/ ~up' \/ (Known(sched'[f]) /\ ~sched'[f].paused)
<1> DEFINE Goal == /\ HeldInv'
                   /\ \A f \in held :
                        f \in held' \/ ~up' \/ (Known(sched'[f]) /\ ~sched'[f].paused)
<1>t. /\ \A f \in Folder : sched[f] \in FolderScheduleState \cup {None}
      /\ \A f \in Folder : scanning[f] \in Nat
      /\ DOMAIN sched = Folder /\ DOMAIN scanning = Folder /\ held \subseteq Folder
  BY DEF Inv, TypeOK
<1>k. ASSUME held' = held, scanning' = scanning,
             \A f \in held : Resting(sched'[f])
      PROVE  Goal
  BY <1>k DEF HeldInv
<1>c. ASSUME NEW f \in Folder, NEW s, held' = held, scanning' = scanning,
             sched' = [sched EXCEPT ![f] = s], Resting(sched[f]) => Resting(s)
      PROVE  Goal
  <2>1. \A g \in held : Resting(sched'[g])
    BY <1>c, <1>t DEF HeldInv
  <2> QED
    BY <1>c, <2>1, <1>k
<1>u. ASSUME held' = held, scanning' = scanning, sched' = sched PROVE Goal
  BY <1>u, <1>k DEF HeldInv
<1> SUFFICES Goal
  OBVIOUS
<1> HIDE DEF Goal
<1>1. CASE Start
  <2>1. held = {}
    BY <1>1, <1>t DEF Start, Inv, DownIsIdle, HeldInv, Resting
  <2> QED
    BY <1>1, <2>1 DEF Start, HeldInv, Goal
<1>2. CASE Stop
  BY <1>2 DEF Stop, HeldInv, Goal
<1>3. CASE PollTick
  BY <1>3, <1>u DEF PollTick, tasks
<1>4. CASE SchedulerTick
  <2>1. ASSUME NEW f \in held PROVE Resting(sched'[f]) /\ scanning'[f] = 0
    <3>1. f \in Folder /\ Resting(sched[f]) /\ scanning[f] = 0 /\ ~ready_to_run(sched[f])
      BY <2>1, <1>t, CallPaused DEF HeldInv
    <3>2. sched'[f] = sched[f] \/ sched'[f] = request_sync(sched[f])
      BY <1>4, <3>1 DEF SchedulerTick
    <3>3. scanning'[f] = scanning[f]
      BY <1>4, <3>1 DEF SchedulerTick
    <3> QED
      BY <3>1, <3>2, <3>3, <1>t, CallPaused
  <2>2. held' = held
    BY <1>4 DEF SchedulerTick
  <2> QED
    BY <2>1, <2>2 DEF HeldInv, Goal
<1>5. ASSUME NEW fs \in SUBSET Folder, RemoveAccount(fs) PROVE Goal
  BY <1>5, <1>u DEF RemoveAccount, tasks
<1>6. ASSUME NEW f \in Folder, AddFolder(f) PROVE Goal
  <2>1. Resting(sched[f]) => Resting(request_sync(add_folder(sched[f])))
    BY <1>t, CallPaused, CallTypes
  <2> QED
    BY <1>6, <1>c, <2>1 DEF AddFolder, tasks
<1>7. ASSUME NEW f \in Folder, TriggerSync(f) PROVE Goal
  BY <1>7, <1>c, <1>t, CallPaused DEF TriggerSync, tasks
<1>8. ASSUME NEW f \in Folder, PauseFolder(f) PROVE Goal
  BY <1>8, <1>c, <1>t, CallPaused DEF PauseFolder, tasks
<1>9. ASSUME NEW f \in Folder, ResumeFolder(f) PROVE Goal
  <2>1. sched'[f] = resume(sched[f]) /\ \A g \in Folder \ {f} : sched'[g] = sched[g]
    BY <1>9, <1>t DEF ResumeFolder
  <2>2. held' = held \ {f} /\ scanning' = scanning
    BY <1>9 DEF ResumeFolder, tasks
  <2>3. HeldInv'
    BY <2>1, <2>2, <1>t DEF HeldInv
  <2>4. f \in held => Known(sched'[f]) /\ ~sched'[f].paused
    BY <2>1, <1>t, CallPaused DEF HeldInv
  <2> QED
    BY <2>2, <2>3, <2>4 DEF Goal
<1>10. ASSUME NEW f \in Folder, RunScans(f) PROVE Goal
  <2>1. f \notin held /\ held' = held /\ sched' = sched
    BY <1>10, <1>t DEF RunScans, HeldInv
  <2>2. \A g \in held : scanning'[g] = scanning[g]
    BY <1>10, <2>1, <1>t DEF RunScans
  <2> QED
    BY <2>1, <2>2 DEF HeldInv, Goal
<1>11. ASSUME NEW f \in Folder, RunReturns(f) PROVE Goal
  BY <1>11, <1>c, <1>t, CallPaused DEF RunReturns
<1>12. ASSUME NEW f \in Folder, RunFails(f) PROVE Goal
  <2>1. f \notin held /\ held' = held
    BY <1>12, <1>t DEF RunFails, HeldInv
  <2>2. \A g \in held : sched'[g] = sched[g] /\ scanning'[g] = scanning[g]
    BY <1>12, <2>1, <1>t DEF RunFails
  <2> QED
    BY <2>1, <2>2 DEF HeldInv, Goal
<1>13. ASSUME NEW f \in Folder, Announce(f) PROVE Goal
  BY <1>13, <1>u DEF Announce
<1>14. ASSUME NEW f \in Folder, Change(f) PROVE Goal
  <2>1. sched' = sched /\ scanning' = scanning
    BY <1>14 DEF Change, tasks
  <2>2. \A g \in held' : g \in held \/ (Resting(sched[g]) /\ scanning[g] = 0)
    BY <1>14 DEF Change, Paused, Resting
  <2>3. held \subseteq held'
    BY <1>14 DEF Change
  <2> QED
    BY <2>1, <2>2, <2>3 DEF HeldInv, Goal
<1>15. ASSUME NEW f \in Folder, PollRequest(f) PROVE Goal
  BY <1>15, <1>c, <1>t, CallPaused DEF PollRequest, tasks
<1>16. ASSUME NEW f \in Folder, WatcherEvent(f) PROVE Goal
  BY <1>16, <1>u DEF WatcherEvent, tasks
<1>17. ASSUME NEW f \in Folder, DeadlinePasses(f) PROVE Goal
  BY <1>17, <1>u DEF DeadlinePasses, tasks
<1>18. ASSUME NEW f \in Folder, RunWrites(f) PROVE Goal
  BY <1>18, <1>u DEF RunWrites, tasks
<1>19. CASE UNCHANGED vars
  BY <1>19, <1>u DEF vars
<1> QED
  BY <1>1, <1>2, <1>3, <1>4, <1>5, <1>6, <1>7, <1>8, <1>9, <1>10, <1>11,
     <1>12, <1>13, <1>14, <1>15, <1>16, <1>17, <1>18, <1>19 DEF Next, Command, Task

\* A change made while its folder is paused, with no run ahead of its scan, is read
\* by no run before the folder is resumed or the daemon stops, whatever commands,
\* polls, file events and runs of other folders do (PauseFolder, ready_to_run).
THEOREM PausesHold == Spec => PauseHolds
<1>1. Init => HeldInv
  BY DEF Init, HeldInv
<1>2. Inv /\ HeldInv /\ [Next]_vars => HeldInv'
  BY HeldStep
<1>3. Inv /\ HeldInv /\ [Next]_vars =>
        [\A f \in held : f \in held' \/ ~up' \/ (Known(sched'[f]) /\ ~sched'[f].paused)]_vars
  BY HeldStep
<1> QED
  BY <1>1, <1>2, <1>3, Serialized, PTL DEF Spec, PauseHolds

=============================================================================
